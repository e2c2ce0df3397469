---------------------- MODULE ReservationGroupsProofs ----------------------
(***************************************************************************)
(* Proofs about ReservationGroups, for any finite set of reservations and  *)
(* any groups, ranges, ages and capacities.                                *)
(***************************************************************************)
EXTENDS ReservationGroups, FiniteSetTheorems, TLAPS

-----------------------------------------------------------------------------
(* Facts about the operators.                                              *)

\* Least and Greatest choose an element of a non-empty set of ages.
LEMMA LeastInSet ==
  ASSUME NEW S \in SUBSET (4..10), S # {}
  PROVE  Least(S) \in S
<1>1. \E x \in S : \A y \in S : x <= y
  <2> SUFFICES ASSUME \A x \in S : \E y \in S : y < x
               PROVE  FALSE
    OBVIOUS
  <2>1. 4 \notin S
    OBVIOUS
  <2>2. 5 \notin S
    BY <2>1
  <2>3. 6 \notin S
    BY <2>1, <2>2
  <2>4. 7 \notin S
    BY <2>1, <2>2, <2>3
  <2>5. 8 \notin S
    BY <2>1, <2>2, <2>3, <2>4
  <2>6. 9 \notin S
    BY <2>1, <2>2, <2>3, <2>4, <2>5
  <2>7. 10 \notin S
    BY <2>1, <2>2, <2>3, <2>4, <2>5, <2>6
  <2>8. PICK x \in S : x \in 4..10
    OBVIOUS
  <2>9. x = 4 \/ x = 5 \/ x = 6 \/ x = 7 \/ x = 8 \/ x = 9 \/ x = 10
    BY <2>8
  <2>. QED
    BY <2>1, <2>2, <2>3, <2>4, <2>5, <2>6, <2>7, <2>8, <2>9
<1>. QED
  BY <1>1 DEF Least

LEMMA GreatestInSet ==
  ASSUME NEW S \in SUBSET (4..10), S # {}
  PROVE  Greatest(S) \in S
<1>1. \E x \in S : \A y \in S : y <= x
  <2> SUFFICES ASSUME \A x \in S : \E y \in S : x < y
               PROVE  FALSE
    OBVIOUS
  <2>1. 10 \notin S
    OBVIOUS
  <2>2. 9 \notin S
    BY <2>1
  <2>3. 8 \notin S
    BY <2>1, <2>2
  <2>4. 7 \notin S
    BY <2>1, <2>2, <2>3
  <2>5. 6 \notin S
    BY <2>1, <2>2, <2>3, <2>4
  <2>6. 5 \notin S
    BY <2>1, <2>2, <2>3, <2>4, <2>5
  <2>7. 4 \notin S
    BY <2>1, <2>2, <2>3, <2>4, <2>5, <2>6
  <2>8. PICK x \in S : x \in 4..10
    OBVIOUS
  <2>9. x = 4 \/ x = 5 \/ x = 6 \/ x = 7 \/ x = 8 \/ x = 9 \/ x = 10
    BY <2>8
  <2>. QED
    BY <2>1, <2>2, <2>3, <2>4, <2>5, <2>6, <2>7, <2>8, <2>9
<1>. QED
  BY <1>1 DEF Greatest

\* Overlapping is symmetric, whatever the two ranges are.
LEMMA OverlapsSymmetric ==
  ASSUME NEW a, NEW b
  PROVE  Overlaps(a, b) <=> Overlaps(b, a)
BY DEF Overlaps

-----------------------------------------------------------------------------
(* Type correctness.                                                       *)

LEMMA NewSlotsType ==
  ASSUME NEW g \in GIds, NEW r \in RIds \cup {Null}, NEW R \in SUBSET Ranges
  PROVE  NewSlots(g, r, R) \subseteq
           [group: GIds, owner: RIds \cup {Null}, range: Ranges]
BY DEF NewSlots

LEMMA VacatedType ==
  ASSUME TypeOK, NEW g \in GIds, NEW r \in RIds
  PROVE  Vacated(g, r) \subseteq
           [group: GIds, owner: RIds \cup {Null}, range: Ranges]
BY DEF TypeOK, Vacated, OwnedBy

LEMMA ApplyType == TypeOK /\ Apply => TypeOK'
<1> SUFFICES ASSUME TypeOK,
                    NEW r \in RIds, NEW age \in Ages, NEW prefs \in PrefChoices,
                    \/ \E c \in Children, wants \in RequestableGroups \cup {Null} :
                         CreateReservation(r, c, age, prefs, wants)
                    \/ CreateWalkIn(r, age, prefs)
             PROVE  TypeOK'
  BY DEF Apply
<1>1. /\ age \in 4..10 /\ prefs \in SUBSET Ranges
      /\ RequestableGroups \subseteq GIds
  BY InputsAreValid DEF Applicable, AgeBounds
<1>2. ASSUME NEW c \in Children, NEW wants \in RequestableGroups \cup {Null},
             CreateReservation(r, c, age, prefs, wants)
      PROVE  TypeOK'
  BY <1>1, <1>2, IdsAreDisjoint DEF TypeOK, CreateReservation, Row, ReservationStatus
<1>3. CASE CreateWalkIn(r, age, prefs)
  BY <1>1, <1>3 DEF TypeOK, CreateWalkIn, Row, ReservationStatus
<1>. QED
  BY <1>2, <1>3

\* A PATCH of fields the DTO accepts, or of fields the row already had.
LEMMA UpdateReservationType ==
  ASSUME TypeOK, NEW r \in RIds, NEW status \in ReservationStatus \cup {Null},
         NEW age \in AgeBounds \cup {Null}, NEW prefs \in (SUBSET Ranges) \cup {Null},
         NEW wants \in GIds \cup {Null}, NEW c \in Children \cup {Null},
         UpdateReservation(r, status, age, prefs, wants, c)
  PROVE  TypeOK'
<1>1. rsv[r] \in Row
  BY DEF TypeOK
<1>2. /\ OrElse(status, rsv[r].status) \in ReservationStatus \cup {"NONE"}
      /\ OrElse(age, rsv[r].age) \in 4..10
      /\ OrElse(prefs, rsv[r].prefs) \in SUBSET Ranges
      /\ OrElse(wants, rsv[r].wants) \in GIds \cup {Null}
      /\ OrElse(c, rsv[r].child) \in Children \cup {Null}
  BY <1>1 DEF AgeBounds, Row, OrElse
<1>3. Edited(rsv[r], status, age, prefs, wants, c) \in Row
  BY <1>1, <1>2 DEF Row, Edited
<1>4. rsv' = [rsv EXCEPT ![r] = Edited(rsv[r], status, age, prefs, wants, c)]
  BY DEF UpdateReservation
<1>. QED
  BY <1>3, <1>4 DEF TypeOK, UpdateReservation

\* What a run's Edit sends is among them.
LEMMA EditsAreUpdates ==
  ASSUME Edit
  PROVE  \E r \in RIds, status \in ReservationStatus \cup {Null},
            age \in AgeBounds \cup {Null}, prefs \in (SUBSET Ranges) \cup {Null},
            wants \in GIds \cup {Null}, c \in Children \cup {Null} :
           UpdateReservation(r, status, age, prefs, wants, c)
<1>1. /\ StatusEdits \subseteq ReservationStatus /\ Ages \subseteq AgeBounds
      /\ PrefChoices \subseteq SUBSET Ranges /\ RequestableGroups \subseteq GIds
  BY InputsAreValid DEF Applicable
<1>. QED
  BY <1>1 DEF Edit

LEMMA EditType == TypeOK /\ Edit => TypeOK'
BY EditsAreUpdates, UpdateReservationType

LEMMA WithdrawType == TypeOK /\ Withdraw => TypeOK'
<1>1. ASSUME TypeOK, NEW r \in RIds, RemoveReservation(r)
      PROVE  TypeOK'
  BY <1>1 DEF TypeOK, RemoveReservation, NoReservation, Row
<1>2. ASSUME TypeOK, NEW c \in Children, RemoveChild(c)
      PROVE  TypeOK'
  <2>1. ASSUME NEW r \in RIds
        PROVE  [rsv[r] EXCEPT !.child = Null] \in Row /\ rsv[r] \in Row
    BY <1>2 DEF TypeOK, Row
  <2>. QED
    BY <1>2, <2>1 DEF TypeOK, RemoveChild
<1>. QED
  BY <1>1, <1>2 DEF Withdraw

LEMMA CreateGroupType ==
  ASSUME TypeOK, NEW g \in GIds, NEW capacity \in Capacities,
         NEW minAge \in AgeLimits \cup {Null}, NEW maxAge \in AgeLimits \cup {Null},
         NEW sched \in Ranges \cup {Null}, NEW ids \in SUBSET RIds,
         NEW assign \in [ids -> SUBSET Ranges],
         CreateGroup(g, assign, capacity, minAge, maxAge, sched)
  PROVE  TypeOK'
<1> DEFINE ages == {rsv[r].age : r \in ids}
<1>1. DOMAIN assign = ids
  OBVIOUS
<1>2. ages \in SUBSET (4..10)
  BY DEF TypeOK, Row
<1>3. ids # {} => Least(ages) \in 4..10 /\ Greatest(ages) \in 4..10
  <2>1. ids # {} => ages # {}
    OBVIOUS
  <2>. QED
    BY <1>2, <2>1, LeastInSet, GreatestInSet
<1>4. rsv' \in [RIds -> Row]
  <2>1. ASSUME NEW r \in RIds
        PROVE  /\ rsv[r] \in Row
               /\ [rsv[r] EXCEPT !.status = "GROUPED", !.group = g] \in Row
    BY ZenonT(30) DEF TypeOK, Row, ReservationStatus
  <2>. QED
    BY <1>1, <2>1 DEF CreateGroup, AcceptsGroup
<1>5. grp' \in [GIds -> GroupRow]
  <2> DEFINE row ==
        [status |-> IF ids = {} THEN "EMPTY" ELSE "CONFIRMED",
         capacity |-> capacity,
         minAge |-> OrElse(minAge, IF ids = {} THEN 4 ELSE Least(ages)),
         maxAge |-> OrElse(maxAge, IF ids = {} THEN 10 ELSE Greatest(ages)),
         schedule |-> sched]
  <2>1. row \in GroupRow
    <3>1. OrElse(minAge, IF ids = {} THEN 4 ELSE Least(ages)) \in 4..10
      BY <1>3, InputsAreValid DEF AgeBounds, OrElse
    <3>2. OrElse(maxAge, IF ids = {} THEN 10 ELSE Greatest(ages)) \in 4..10
      BY <1>3, InputsAreValid DEF AgeBounds, OrElse
    <3>3. capacity \in Nat
      BY InputsAreValid DEF Seats
    <3> HIDE DEF ages
    <3>. QED
      BY <3>1, <3>2, <3>3 DEF GroupRow, GroupStatus
  <2>2. grp' = [grp EXCEPT ![g] = row]
    BY <1>1 DEF CreateGroup, AcceptsGroup
  <2> HIDE DEF row
  <2>. QED
    BY <2>1, <2>2 DEF TypeOK
<1>6. slot' \subseteq [group: GIds, owner: RIds \cup {Null}, range: Ranges]
  <2>1. ASSUME NEW r \in ids
        PROVE  NewSlots(g, r, assign[r]) \subseteq
                 [group: GIds, owner: RIds \cup {Null}, range: Ranges]
    BY NewSlotsType
  <2>2. slot' = slot \cup UNION {NewSlots(g, r, assign[r]) : r \in ids}
    BY <1>1 DEF CreateGroup, AcceptsGroup
  <2>. QED
    BY <2>1, <2>2 DEF TypeOK
<1>. QED
  BY <1>4, <1>5, <1>6 DEF TypeOK

LEMMA UpdateGroupType ==
  ASSUME TypeOK, NEW g \in GIds, NEW capacity \in Nat \cup {Null},
         NEW minAge \in AgeBounds \cup {Null}, NEW maxAge \in AgeBounds \cup {Null},
         NEW sched \in Ranges \cup {Null},
         UpdateGroup(g, capacity, minAge, maxAge, sched)
  PROVE  TypeOK'
<1>1. EditedGroup(grp[g], capacity, minAge, maxAge, sched) \in GroupRow
  <2>1. grp[g] \in GroupRow
    BY DEF TypeOK
  <2>2. /\ OrElse(capacity, grp[g].capacity) \in Nat
        /\ OrElse(minAge, grp[g].minAge) \in 4..10
        /\ OrElse(maxAge, grp[g].maxAge) \in 4..10
        /\ OrElse(sched, grp[g].schedule) \in Ranges \cup {Null}
    BY <2>1 DEF AgeBounds, GroupRow, OrElse
  <2>. QED
    BY <2>1, <2>2 DEF GroupRow, EditedGroup
<1>2. slot' \subseteq [group: GIds, owner: RIds \cup {Null}, range: Ranges]
  <2>1. CASE sched # Null
    <3> DEFINE grouped == {r \in Members(g) : rsv[r].status = "GROUPED"}
    <3>1. \A r \in RIds \cup {Null} : NewSlots(g, r, {sched}) \subseteq
            [group: GIds, owner: RIds \cup {Null}, range: Ranges]
      BY <2>1, NewSlotsType
    <3>2. grouped \subseteq RIds
      BY DEF Members
    <3>3. slot' = (slot \ SlotsOf(g)) \cup
             (IF grouped = {} /\ Anchors(g) # {} THEN NewSlots(g, Null, {sched})
              ELSE UNION {NewSlots(g, r, {sched}) : r \in grouped})
      BY <2>1 DEF UpdateGroup, Rescheduled
    <3> HIDE DEF grouped
    <3>. QED
      BY <3>1, <3>2, <3>3 DEF TypeOK
  <2>2. CASE sched = Null
    BY <2>2 DEF UpdateGroup, TypeOK
  <2>. QED
    BY <2>1, <2>2
<1>. QED
  BY <1>1, <1>2 DEF TypeOK, UpdateGroup

LEMMA RemoveGroupType ==
  ASSUME TypeOK, NEW g \in GIds, RemoveGroup(g)
  PROVE  TypeOK'
<1>1. ASSUME NEW r \in RIds, NEW wants \in GIds \cup {Null}
      PROVE  /\ [rsv[r] EXCEPT !.group = Null, !.status = "WAITING", !.wants = wants] \in Row
             /\ [rsv[r] EXCEPT !.wants = wants] \in Row
             /\ rsv[r].wants \in GIds \cup {Null}
  BY DEF TypeOK, Row, ReservationStatus
<1>2. rsv' \in [RIds -> Row]
  BY <1>1 DEF RemoveGroup
<1>3. grp' \in [GIds -> GroupRow]
  <2>1. NoGroup \in GroupRow
    BY DEF NoGroup, GroupRow
  <2>. QED
    BY <2>1 DEF RemoveGroup, TypeOK
<1>. QED
  BY <1>2, <1>3 DEF TypeOK, RemoveGroup, SlotsOf

LEMMA LifecycleType == TypeOK /\ Lifecycle => TypeOK'
<1>1. Capacities \subseteq Nat /\ AgeLimits \subseteq AgeBounds
  BY InputsAreValid DEF Seats
<1>. QED
  BY <1>1, CreateGroupType, UpdateGroupType, RemoveGroupType DEF Lifecycle

LEMMA MoveMemberType ==
  ASSUME TypeOK, NEW g \in GIds, NEW target \in GIds, NEW r \in RIds,
         NEW slots \in SUBSET Ranges, MoveMember(g, target, r, slots)
  PROVE  TypeOK'
<1>1. rsv' \in [RIds -> Row]
  <2>1. [rsv[r] EXCEPT !.group = target, !.wants = Null, !.prefs = slots] \in Row
    BY DEF TypeOK, Row
  <2>2. rsv' = [rsv EXCEPT
          ![r] = [rsv[r] EXCEPT !.group = target, !.wants = Null, !.prefs = slots]]
    BY DEF MoveMember, TypeOK
  <2>. QED
    BY <2>1, <2>2 DEF TypeOK
<1>2. grp' \in [GIds -> GroupRow]
  <2>1. ASSUME NEW x \in 4..10, NEW y \in 4..10
        PROVE  Least({x, y}) \in 4..10 /\ Greatest({x, y}) \in 4..10
    BY LeastInSet, GreatestInSet
  <2>2. rsv[r].age \in 4..10 /\ grp[target] \in GroupRow /\ grp \in [GIds -> GroupRow]
    BY DEF TypeOK, Row
  <2>3. Widened(grp[target], rsv[r].age) \in GroupRow
    <3>1. grp[target].minAge \in 4..10 /\ grp[target].maxAge \in 4..10
      BY <2>2 DEF GroupRow
    <3>2. /\ Least({grp[target].minAge, rsv[r].age}) \in 4..10
          /\ Greatest({grp[target].maxAge, rsv[r].age}) \in 4..10
      BY <2>1, <2>2, <3>1
    <3>. QED
      BY <2>2, <3>2 DEF GroupRow, GroupStatus, Widened
  <2>4. [grp[g] EXCEPT !.status = IF Members(g) = {r} THEN "EMPTY" ELSE @] \in GroupRow
    BY <2>2 DEF GroupRow, GroupStatus
  <2>5. g # target
    BY DEF MoveMember
  <2>6. grp' = [grp EXCEPT
          ![g] = [grp[g] EXCEPT !.status = IF Members(g) = {r} THEN "EMPTY" ELSE @],
          ![target] = Widened(grp[target], rsv[r].age)]
    BY <2>2, <2>5 DEF MoveMember
  <2>. QED
    BY <2>2, <2>3, <2>4, <2>6
<1>3. slot' \subseteq [group: GIds, owner: RIds \cup {Null}, range: Ranges]
  BY NewSlotsType, VacatedType DEF MoveMember
<1>. QED
  BY <1>1, <1>2, <1>3 DEF TypeOK

LEMMA MembershipType == TypeOK /\ Membership => TypeOK'
<1>1. ASSUME TypeOK, NEW g \in GIds, NEW r \in RIds, RemoveMember(g, r)
      PROVE  TypeOK'
  <2>1. [rsv[r] EXCEPT !.group = Null, !.status = "WAITING"] \in Row
    BY <1>1 DEF TypeOK, Row, ReservationStatus
  <2>2. rsv' = [rsv EXCEPT ![r] = [rsv[r] EXCEPT !.group = Null, !.status = "WAITING"]]
    BY <1>1 DEF RemoveMember, TypeOK
  <2>3. [grp[g] EXCEPT !.status = IF Members(g) = {r} THEN "EMPTY" ELSE @] \in GroupRow
    BY <1>1 DEF TypeOK, GroupRow, GroupStatus
  <2>4. grp' = [grp EXCEPT
          ![g] = [grp[g] EXCEPT !.status = IF Members(g) = {r} THEN "EMPTY" ELSE @]]
    BY <1>1 DEF RemoveMember, TypeOK
  <2>. QED
    BY <1>1, <2>1, <2>2, <2>3, <2>4, VacatedType DEF TypeOK, RemoveMember
<1>2. ASSUME TypeOK, NEW g \in GIds, NEW r \in RIds, NEW slots \in SUBSET Ranges,
             AddMember(g, r, slots)
      PROVE  TypeOK'
  <2>1. [rsv[r] EXCEPT !.status = "GROUPED", !.group = g, !.wants = Null] \in Row
    BY <1>2 DEF TypeOK, Row, ReservationStatus
  <2>2. rsv' = [rsv EXCEPT
          ![r] = [rsv[r] EXCEPT !.status = "GROUPED", !.group = g, !.wants = Null]]
    BY <1>2 DEF AddMember, TypeOK
  <2>3. grp' \in [GIds -> GroupRow]
    BY <1>2 DEF TypeOK, AddMember, GroupRow, GroupStatus
  <2>. QED
    BY <1>2, <2>1, <2>2, <2>3, NewSlotsType DEF TypeOK, AddMember
<1>3. ASSUME TypeOK, NEW g \in GIds, NEW r \in RIds, NEW slots \in SUBSET Ranges,
             ReplaceMemberSlots(g, r, slots)
      PROVE  TypeOK'
  BY <1>3, NewSlotsType DEF TypeOK, ReplaceMemberSlots
<1>. QED
  BY <1>1, <1>2, <1>3, MoveMemberType DEF Membership

\* The three tables keep their column types in every reachable state.
THEOREM TypeCorrect == Spec => []TypeOK
<1>1. Init => TypeOK
  BY DEF Init, TypeOK, NoReservation, NoGroup, Row, GroupRow
<1>2. TypeOK /\ [Next]_vars => TypeOK'
  <2>1. TypeOK /\ UNCHANGED vars => TypeOK'
    BY DEF TypeOK, vars
  <2>. QED
    BY <2>1, ApplyType, EditType, WithdrawType, LifecycleType, MembershipType DEF Next
<1>. QED
  BY <1>1, <1>2, PTL DEF Spec


-----------------------------------------------------------------------------
(* The timetable: slots belong to members, scheduled groups keep to their  *)
(* schedule and schedules are disjoint.  The three are inductive together  *)
(* once an absent reservation is known to sit in no group: a schedule is   *)
(* checked against the slots of the other groups, so it is the match of    *)
(* slots and schedules that makes the schedules themselves disjoint.       *)

AbsentSitsNowhere == \A r \in RIds : rsv[r].status = "NONE" => rsv[r].group = Null

TimetableInv ==
  /\ TypeOK
  /\ AbsentSitsNowhere
  /\ SlotOwnerIsMember
  /\ ScheduledSlotsMatch
  /\ ScheduledGroupsDisjoint

\* A schedule that validateScheduleOverlap accepts is disjoint from the
\* schedule of every other live group.
LEMMA FreeScheduleIsDisjoint ==
  ASSUME TypeOK, ScheduledSlotsMatch, NEW sched \in Ranges, NEW others \in SUBSET GIds,
         ScheduleIsFree(sched, others), NEW h \in others, Live(h), grp[h].schedule # Null
  PROVE  ~Overlaps(sched, grp[h].schedule)
<1>1. grp[h].schedule \in Occupied(h)
  <2>1. CASE SlotsOf(h) = {}
    BY <2>1 DEF Occupied
  <2>2. CASE SlotsOf(h) # {}
    <3>1. PICK s \in SlotsOf(h) : s.range = grp[h].schedule
      BY <2>2 DEF SlotsOf, ScheduledSlotsMatch
    <3>. QED
      BY <2>2, <3>1 DEF Occupied, RangesOf
  <2>. QED
    BY <2>1, <2>2
<1>. QED
  BY <1>1 DEF ScheduleIsFree, LiveGroups

\* Steps that touch neither groups nor slots.
LEMMA ApplyTimetable == TimetableInv /\ Apply => TimetableInv'
<1> SUFFICES ASSUME TimetableInv, TypeOK',
                    NEW r \in RIds, NEW age, NEW prefs,
                    \/ \E c \in Children, wants \in RequestableGroups \cup {Null} :
                         CreateReservation(r, c, age, prefs, wants)
                    \/ CreateWalkIn(r, age, prefs)
             PROVE  TimetableInv'
  BY ApplyType DEF Apply, TimetableInv
<1>1. /\ rsv[r].group = Null /\ rsv'[r].group = Null /\ rsv'[r].status # "NONE"
      /\ \A q \in RIds : q # r => rsv'[q] = rsv[q]
      /\ UNCHANGED <<grp, slot>>
  BY DEF TimetableInv, TypeOK, AbsentSitsNowhere, CreateReservation, CreateWalkIn
<1>2. AbsentSitsNowhere'
  BY <1>1 DEF AbsentSitsNowhere, TimetableInv
<1>3. SlotOwnerIsMember'
  BY <1>1 DEF TimetableInv, SlotOwnerIsMember, TypeOK, Live
<1>. QED
  BY <1>1, <1>2, <1>3
  DEF TimetableInv, ScheduledSlotsMatch, ScheduledGroupsDisjoint, Live

LEMMA UpdateReservationTimetable ==
  ASSUME TimetableInv, TypeOK', NEW r \in RIds,
         NEW status \in ReservationStatus \cup {Null}, NEW age, NEW prefs, NEW wants,
         NEW c, UpdateReservation(r, status, age, prefs, wants, c)
  PROVE  TimetableInv'
<1>1. \A q \in RIds : rsv'[q].group = rsv[q].group
  BY DEF TimetableInv, TypeOK, UpdateReservation, Edited, Row
<1>2. \A q \in RIds : rsv'[q].status = "NONE" => rsv[q].status = "NONE"
  BY DEF TimetableInv, TypeOK, UpdateReservation, Edited, Row, OrElse, Exists,
         ReservationStatus
<1>3. UNCHANGED <<grp, slot>>
  BY DEF UpdateReservation
<1>4. AbsentSitsNowhere'
  BY <1>1, <1>2 DEF AbsentSitsNowhere, TimetableInv
<1>5. SlotOwnerIsMember'
  BY <1>1, <1>3 DEF TimetableInv, SlotOwnerIsMember, TypeOK, Live
<1>. QED
  BY <1>3, <1>4, <1>5
  DEF TimetableInv, ScheduledSlotsMatch, ScheduledGroupsDisjoint, Live

LEMMA EditTimetable == TimetableInv /\ Edit => TimetableInv'
BY EditType, EditsAreUpdates, UpdateReservationTimetable DEF TimetableInv

LEMMA WithdrawTimetable == TimetableInv /\ Withdraw => TimetableInv'
<1>1. ASSUME TimetableInv, TypeOK', NEW r \in RIds, RemoveReservation(r)
      PROVE  TimetableInv'
  <2>1. /\ rsv'[r].group = Null
        /\ \A q \in RIds : q # r => rsv'[q] = rsv[q]
        /\ slot' = {s \in slot : s.owner # r} /\ grp' = grp
    BY <1>1 DEF TimetableInv, TypeOK, RemoveReservation, NoReservation
  <2>2. AbsentSitsNowhere'
    BY <1>1, <2>1 DEF AbsentSitsNowhere, TimetableInv
  <2>3. SlotOwnerIsMember'
    BY <1>1, <2>1 DEF TimetableInv, SlotOwnerIsMember, TypeOK, Live
  <2>. QED
    BY <1>1, <2>1, <2>2, <2>3
    DEF TimetableInv, ScheduledSlotsMatch, ScheduledGroupsDisjoint, Live
<1>2. ASSUME TimetableInv, TypeOK', NEW c \in Children, RemoveChild(c)
      PROVE  TimetableInv'
  <2>1. /\ \A q \in RIds : /\ rsv'[q].group = rsv[q].group
                           /\ rsv'[q].status = rsv[q].status
        /\ UNCHANGED <<grp, slot>>
    BY <1>2 DEF TimetableInv, TypeOK, RemoveChild, Row
  <2>2. AbsentSitsNowhere'
    BY <1>2, <2>1 DEF AbsentSitsNowhere, TimetableInv
  <2>3. SlotOwnerIsMember'
    BY <1>2, <2>1 DEF TimetableInv, SlotOwnerIsMember, TypeOK, Live
  <2>. QED
    BY <1>2, <2>1, <2>2, <2>3
    DEF TimetableInv, ScheduledSlotsMatch, ScheduledGroupsDisjoint, Live
<1>. QED
  BY <1>1, <1>2, WithdrawType DEF Withdraw, TimetableInv

LEMMA CreateGroupTimetable ==
  ASSUME TimetableInv, TypeOK', NEW g \in GIds, NEW capacity, NEW minAge, NEW maxAge,
         NEW sched \in Ranges \cup {Null}, NEW ids \in SUBSET RIds,
         NEW assign \in [ids -> SUBSET Ranges],
         CreateGroup(g, assign, capacity, minAge, maxAge, sched)
  PROVE  TimetableInv'
<1>1. /\ grp[g].status = "NONE"
      /\ \A r \in ids : rsv[r].group = Null
      /\ \A r \in ids : rsv'[r].group = g /\ rsv'[r].status = "GROUPED"
      /\ \A r \in RIds \ ids : rsv'[r] = rsv[r]
      /\ slot' = slot \cup UNION {NewSlots(g, r, assign[r]) : r \in ids}
  <2>1. DOMAIN assign = ids
    OBVIOUS
  <2>2. \A r \in RIds : rsv'[r] =
          IF r \in ids THEN [rsv[r] EXCEPT !.status = "GROUPED", !.group = g] ELSE rsv[r]
    BY <2>1 DEF CreateGroup, AcceptsGroup
  <2>3. \A r \in RIds : rsv[r] \in Row
    BY DEF TimetableInv, TypeOK
  <2>4. \A r \in ids : rsv'[r].group = g /\ rsv'[r].status = "GROUPED"
    BY <2>2, <2>3 DEF Row
  <2>5. \A r \in RIds \ ids : rsv'[r] = rsv[r]
    BY <2>2
  <2>. QED
    BY <2>1, <2>4, <2>5 DEF CreateGroup, AcceptsGroup
<1>2. /\ grp'[g].status \in GroupStatus /\ grp'[g].schedule = sched
      /\ \A h \in GIds : h # g => grp'[h] = grp[h]
  BY DEF CreateGroup, AcceptsGroup, TimetableInv, TypeOK, GroupStatus
<1>3. \A s \in slot : s.group # g /\ s.group \in GIds
  BY <1>1 DEF TimetableInv, SlotOwnerIsMember, TypeOK, Live, GroupStatus
<1>4. \A s \in slot' : \/ s \in slot
                       \/ /\ s.group = g /\ s.owner \in ids
                          /\ s.range \in assign[s.owner]
  BY <1>1 DEF NewSlots
<1>5. sched # Null => \A r \in ids : assign[r] = {sched}
  BY DEF CreateGroup, AcceptsGroup
<1>6. AbsentSitsNowhere'
  BY <1>1 DEF TimetableInv, AbsentSitsNowhere
<1>7. SlotOwnerIsMember'
  <2> SUFFICES ASSUME NEW s \in slot'
               PROVE  Live(s.group)' /\ (s.owner # Null => rsv'[s.owner].group = s.group)
    BY DEF SlotOwnerIsMember
  <2>1. CASE s \in slot
    <3>1. s.owner # Null => s.owner \notin ids /\ s.owner \in RIds
      BY <1>1, <1>3, <2>1, IdsAreDisjoint DEF TimetableInv, SlotOwnerIsMember, TypeOK
    <3>. QED
      BY <1>1, <1>2, <1>3, <2>1, <3>1 DEF TimetableInv, SlotOwnerIsMember, Live
  <2>2. CASE s.group = g /\ s.owner \in ids
    BY <1>1, <1>2, <2>2 DEF Live
  <2>. QED
    BY <1>4, <2>1, <2>2
<1>8. ScheduledSlotsMatch'
  BY <1>2, <1>3, <1>4, <1>5 DEF TimetableInv, ScheduledSlotsMatch
<1>9. ScheduledGroupsDisjoint'
  <2>1. ASSUME sched # Null, NEW h \in GIds, Live(h), grp[h].schedule # Null
        PROVE  ~Overlaps(sched, grp[h].schedule)
    <3>1. ScheduleIsFree(sched, GIds)
      BY <2>1 DEF CreateGroup, AcceptsGroup
    <3>. QED
      BY <2>1, <3>1, FreeScheduleIsDisjoint DEF TimetableInv
  <2>. QED
    BY <1>2, <2>1, OverlapsSymmetric DEF TimetableInv, ScheduledGroupsDisjoint, Live
<1>. QED
  BY <1>6, <1>7, <1>8, <1>9 DEF TimetableInv

LEMMA UpdateGroupTimetable ==
  ASSUME TimetableInv, TypeOK', NEW g \in GIds, NEW capacity, NEW minAge, NEW maxAge,
         NEW sched \in Ranges \cup {Null},
         UpdateGroup(g, capacity, minAge, maxAge, sched)
  PROVE  TimetableInv'
<1>1. /\ Live(g) /\ rsv' = rsv
      /\ grp'[g].status = grp[g].status
      /\ grp'[g].schedule = OrElse(sched, grp[g].schedule)
      /\ \A h \in GIds : h # g => grp'[h] = grp[h]
  BY DEF UpdateGroup, EditedGroup, TimetableInv, TypeOK, GroupRow
<1>2. AbsentSitsNowhere'
  BY <1>1 DEF TimetableInv, AbsentSitsNowhere
<1>3. CASE sched = Null
  <2>1. slot' = slot /\ grp'[g].schedule = grp[g].schedule
    BY <1>1, <1>3 DEF UpdateGroup, OrElse
  <2>. QED
    BY <1>1, <1>2, <2>1
    DEF TimetableInv, TypeOK, SlotOwnerIsMember, ScheduledSlotsMatch,
        ScheduledGroupsDisjoint, Live
<1>4. CASE sched # Null
  <2>1. \A s \in slot' :
          \/ s \in slot /\ s.group # g
          \/ s.group = g /\ s.range = sched /\ s.owner \in Members(g) \cup {Null}
    BY <1>4 DEF UpdateGroup, Rescheduled, NewSlots, SlotsOf
  <2>2. grp'[g].schedule = sched
    BY <1>1, <1>4 DEF OrElse
  <2>3. SlotOwnerIsMember'
    <3> SUFFICES ASSUME NEW s \in slot'
                 PROVE  Live(s.group)' /\ (s.owner # Null => rsv'[s.owner].group = s.group)
      BY DEF SlotOwnerIsMember
    <3>1. CASE s \in slot /\ s.group # g
      BY <1>1, <3>1 DEF TimetableInv, SlotOwnerIsMember, Live, TypeOK
    <3>2. CASE s.group = g /\ s.owner \in Members(g) \cup {Null}
      BY <1>1, <3>2 DEF Live, Members
    <3>. QED
      BY <2>1, <3>1, <3>2
  <2>4. ScheduledSlotsMatch'
    BY <1>1, <2>1, <2>2 DEF TimetableInv, ScheduledSlotsMatch, TypeOK
  <2>5. ScheduledGroupsDisjoint'
    <3>1. ScheduleIsFree(sched, GIds \ {g})
      BY <1>4 DEF UpdateGroup, Rescheduled
    <3>2. ASSUME NEW h \in GIds \ {g}, Live(h), grp[h].schedule # Null
          PROVE  ~Overlaps(sched, grp[h].schedule)
      BY <1>4, <3>1, <3>2, FreeScheduleIsDisjoint DEF TimetableInv
    <3>. QED
      BY <1>1, <2>2, <3>2, OverlapsSymmetric
      DEF TimetableInv, ScheduledGroupsDisjoint, Live
  <2>. QED
    BY <1>2, <2>3, <2>4, <2>5 DEF TimetableInv
<1>. QED
  BY <1>3, <1>4

LEMMA RemoveGroupTimetable ==
  ASSUME TimetableInv, TypeOK', NEW g \in GIds, RemoveGroup(g)
  PROVE  TimetableInv'
<1>1. /\ \A r \in RIds : rsv[r].group # g => /\ rsv'[r].group = rsv[r].group
                                           /\ rsv'[r].status = rsv[r].status
      /\ \A r \in RIds : rsv[r].group = g => rsv'[r].group = Null
      /\ grp'[g] = NoGroup
      /\ \A h \in GIds : h # g => grp'[h] = grp[h]
      /\ slot' = {s \in slot : s.group # g}
  <2>1. \A r \in RIds : rsv[r] \in Row
    BY DEF TimetableInv, TypeOK
  <2>2. \A r \in RIds : rsv[r].group # g => /\ rsv'[r].group = rsv[r].group
                                         /\ rsv'[r].status = rsv[r].status
    BY <2>1 DEF RemoveGroup, Row
  <2>3. \A r \in RIds : rsv[r].group = g => rsv'[r].group = Null
    BY <2>1 DEF RemoveGroup, Row
  <2>4. grp'[g] = NoGroup /\ \A h \in GIds : h # g => grp'[h] = grp[h]
    BY DEF RemoveGroup, TimetableInv, TypeOK
  <2>5. slot' = {s \in slot : s.group # g}
    BY DEF RemoveGroup, SlotsOf
  <2>. QED
    BY <2>2, <2>3, <2>4, <2>5
<1>2. AbsentSitsNowhere'
  BY <1>1 DEF TimetableInv, AbsentSitsNowhere
<1>3. SlotOwnerIsMember'
  BY <1>1 DEF TimetableInv, SlotOwnerIsMember, Live, TypeOK
<1>4. ScheduledSlotsMatch'
  BY <1>1 DEF TimetableInv, ScheduledSlotsMatch, TypeOK
<1>5. ScheduledGroupsDisjoint'
  BY <1>1 DEF TimetableInv, ScheduledGroupsDisjoint, Live, NoGroup
<1>. QED
  BY <1>2, <1>3, <1>4, <1>5 DEF TimetableInv

LEMMA LifecycleTimetable == TimetableInv /\ Lifecycle => TimetableInv'
<1>1. TimetableInv /\ Lifecycle => TypeOK'
  BY LifecycleType DEF TimetableInv
<1>. QED
  BY <1>1, CreateGroupTimetable, UpdateGroupTimetable, RemoveGroupTimetable DEF Lifecycle

\* What leaving a group does to its slots: none is left with the leaver, and
\* each that is left is an old slot or an anchor at the time of an old slot.
LEMMA VacatedSlots ==
  ASSUME TimetableInv, NEW g \in GIds, NEW r \in RIds, rsv[r].group = g,
         NEW s \in Vacated(g, r)
  PROVE  /\ s.owner # r
         /\ s \in slot \/ (s.owner = Null /\ s.group = g /\ Members(g) = {r})
         /\ \E t \in slot : t.group = s.group /\ t.range = s.range
<1>1. CASE s \in slot \ OwnedBy(g, r)
  <2>1. s.owner = r => s.group = g
    BY <1>1, IdsAreDisjoint DEF TimetableInv, SlotOwnerIsMember
  <2>2. s.owner # r
    BY <1>1, <2>1 DEF OwnedBy
  <2>. QED
    BY <1>1, <2>2
<1>2. CASE Members(g) = {r} /\ \E t \in OwnedBy(g, r) : s = [t EXCEPT !.owner = Null]
  <2>1. PICK t \in OwnedBy(g, r) : s = [t EXCEPT !.owner = Null]
    BY <1>2
  <2>2. t \in slot /\ t.group = g /\ t \in [group: GIds, owner: RIds \cup {Null}, range: Ranges]
    BY <2>1 DEF OwnedBy, TimetableInv, TypeOK
  <2>3. s.owner = Null /\ s.group = g /\ s.range = t.range
    BY <2>1, <2>2
  <2>. QED
    BY <1>2, <2>2, <2>3, IdsAreDisjoint
<1>. QED
  BY <1>1, <1>2 DEF Vacated

LEMMA AddMemberTimetable ==
  ASSUME TimetableInv, TypeOK', NEW g \in GIds, NEW r \in RIds,
         NEW slots \in SUBSET Ranges, AddMember(g, r, slots)
  PROVE  TimetableInv'
<1>1. /\ rsv[r].group = Null /\ rsv'[r].group = g /\ rsv'[r].status = "GROUPED"
      /\ \A q \in RIds : q # r => rsv'[q] = rsv[q]
  BY DEF AddMember, TimetableInv, TypeOK, Row
<1>2. /\ Live(g) /\ grp'[g].status \in GroupStatus
      /\ \A h \in GIds : grp'[h].schedule = grp[h].schedule
      /\ \A h \in GIds : h # g => grp'[h] = grp[h]
  BY DEF AddMember, TimetableInv, TypeOK, GroupRow, GroupStatus
<1>3. \A s \in slot' : \/ s \in slot
                       \/ s.group = g /\ s.owner = r /\ s.range \in slots
  BY DEF AddMember, NewSlots
<1>4. grp[g].schedule # Null => slots = {grp[g].schedule}
  BY DEF AddMember, IsWholeSchedule
<1>5. AbsentSitsNowhere'
  BY <1>1 DEF TimetableInv, AbsentSitsNowhere
<1>6. SlotOwnerIsMember'
  <2> SUFFICES ASSUME NEW s \in slot'
               PROVE  Live(s.group)' /\ (s.owner # Null => rsv'[s.owner].group = s.group)
    BY DEF SlotOwnerIsMember
  <2>1. CASE s \in slot
    <3>1. s.group \in GIds /\ s.owner \in RIds \cup {Null} /\ s.owner # r
      BY <1>1, <2>1, IdsAreDisjoint DEF TimetableInv, SlotOwnerIsMember, TypeOK
    <3>. QED
      BY <1>1, <1>2, <2>1, <3>1 DEF TimetableInv, SlotOwnerIsMember, Live
  <2>2. CASE s.group = g /\ s.owner = r
    BY <1>1, <1>2, <2>2 DEF Live
  <2>. QED
    BY <1>3, <2>1, <2>2
<1>7. ScheduledSlotsMatch'
  BY <1>2, <1>3, <1>4 DEF TimetableInv, ScheduledSlotsMatch, TypeOK
<1>8. ScheduledGroupsDisjoint'
  BY <1>2 DEF TimetableInv, ScheduledGroupsDisjoint, Live
<1>. QED
  BY <1>5, <1>6, <1>7, <1>8 DEF TimetableInv

LEMMA ReplaceMemberSlotsTimetable ==
  ASSUME TimetableInv, TypeOK', NEW g \in GIds, NEW r \in RIds,
         NEW slots \in SUBSET Ranges, ReplaceMemberSlots(g, r, slots)
  PROVE  TimetableInv'
<1>1. rsv' = rsv /\ grp' = grp /\ rsv[r].group = g /\ Live(g)
  BY DEF ReplaceMemberSlots, Seated, InUse, Live, GroupStatus
<1>2. \A s \in slot' : \/ s \in slot
                       \/ s.group = g /\ s.owner = r /\ s.range \in slots
  BY DEF ReplaceMemberSlots, NewSlots
<1>3. grp[g].schedule # Null => slots = {grp[g].schedule}
  BY DEF ReplaceMemberSlots, IsWholeSchedule
<1>4. SlotOwnerIsMember'
  BY <1>1, <1>2 DEF TimetableInv, SlotOwnerIsMember, Live
<1>5. ScheduledSlotsMatch'
  BY <1>1, <1>2, <1>3 DEF TimetableInv, ScheduledSlotsMatch
<1>. QED
  BY <1>1, <1>4, <1>5 DEF TimetableInv, AbsentSitsNowhere, ScheduledGroupsDisjoint, Live

LEMMA MoveMemberTimetable ==
  ASSUME TimetableInv, TypeOK', NEW g \in GIds, NEW target \in GIds, NEW r \in RIds,
         NEW slots \in SUBSET Ranges, MoveMember(g, target, r, slots)
  PROVE  TimetableInv'
<1>1. /\ rsv[r].group = g /\ rsv'[r].group = target /\ rsv'[r].status # "NONE"
      /\ \A q \in RIds : q # r => rsv'[q] = rsv[q]
  BY DEF MoveMember, Seated, TimetableInv, TypeOK, Row
<1>2. /\ Live(g) /\ Live(target)
      /\ \A h \in GIds : Live(h)' <=> Live(h)
      /\ \A h \in GIds : grp'[h].schedule = grp[h].schedule
  BY SMTT(30) DEF MoveMember, InUse, Widened, TimetableInv, TypeOK, GroupRow, GroupStatus, Live
<1>3. \A s \in slot' : \/ s \in Vacated(g, r)
                       \/ s.group = target /\ s.owner = r /\ s.range \in slots
  BY DEF MoveMember, NewSlots
<1>4. grp[target].schedule # Null => slots = {grp[target].schedule}
  BY DEF MoveMember, Seated, IsWholeSchedule
<1>5. AbsentSitsNowhere'
  BY <1>1 DEF TimetableInv, AbsentSitsNowhere
<1>6. SlotOwnerIsMember'
  <2> SUFFICES ASSUME NEW s \in slot'
               PROVE  Live(s.group)' /\ (s.owner # Null => rsv'[s.owner].group = s.group)
    BY DEF SlotOwnerIsMember
  <2>1. CASE s \in Vacated(g, r)
    <3>1. s.owner # r /\ (s \in slot \/ (s.owner = Null /\ s.group = g))
      BY <1>1, <2>1, VacatedSlots
    <3>2. CASE s \in slot
      <4>1. s.group \in GIds /\ s.owner \in RIds \cup {Null}
        BY <3>2 DEF TimetableInv, TypeOK
      <4>. QED
        BY <1>1, <1>2, <3>1, <3>2, <4>1 DEF TimetableInv, SlotOwnerIsMember
    <3>3. CASE s.owner = Null /\ s.group = g
      BY <1>2, <3>3
    <3>. QED
      BY <3>1, <3>2, <3>3
  <2>2. CASE s.group = target /\ s.owner = r
    BY <1>1, <1>2, <2>2
  <2>. QED
    BY <1>3, <2>1, <2>2
<1>7. ScheduledSlotsMatch'
  <2> SUFFICES ASSUME NEW s \in slot'
               PROVE  grp'[s.group].schedule \in {Null, s.range}
    BY DEF ScheduledSlotsMatch
  <2>1. CASE s \in Vacated(g, r)
    <3>1. \E t \in slot : t.group = s.group /\ t.range = s.range
      BY <1>1, <2>1, VacatedSlots
    <3>. QED
      BY <1>2, <3>1 DEF TimetableInv, ScheduledSlotsMatch, TypeOK
  <2>2. CASE s.group = target /\ s.range \in slots
    BY <1>2, <1>4, <2>2
  <2>. QED
    BY <1>3, <2>1, <2>2
<1>8. ScheduledGroupsDisjoint'
  BY <1>2 DEF TimetableInv, ScheduledGroupsDisjoint
<1>. QED
  BY <1>5, <1>6, <1>7, <1>8 DEF TimetableInv

LEMMA RemoveMemberTimetable ==
  ASSUME TimetableInv, TypeOK', NEW g \in GIds, NEW r \in RIds, RemoveMember(g, r)
  PROVE  TimetableInv'
<1>1. /\ rsv[r].group = g /\ rsv'[r].status # "NONE"
      /\ \A q \in RIds : q # r => rsv'[q] = rsv[q]
      /\ slot' = Vacated(g, r)
  BY DEF RemoveMember, Seated, TimetableInv, TypeOK, Row
<1>2. /\ Live(g)
      /\ \A h \in GIds : Live(h)' <=> Live(h)
      /\ \A h \in GIds : grp'[h].schedule = grp[h].schedule
  BY DEF RemoveMember, InUse, TimetableInv, TypeOK, GroupRow, GroupStatus, Live
<1>3. AbsentSitsNowhere'
  BY <1>1 DEF TimetableInv, AbsentSitsNowhere
<1>4. SlotOwnerIsMember'
  <2> SUFFICES ASSUME NEW s \in slot'
               PROVE  Live(s.group)' /\ (s.owner # Null => rsv'[s.owner].group = s.group)
    BY DEF SlotOwnerIsMember
  <2>1. s.owner # r /\ (s \in slot \/ (s.owner = Null /\ s.group = g))
    BY <1>1, VacatedSlots
  <2>2. CASE s \in slot
    <3>1. s.group \in GIds /\ s.owner \in RIds \cup {Null}
      BY <2>2 DEF TimetableInv, TypeOK
    <3>. QED
      BY <1>1, <1>2, <2>1, <2>2, <3>1 DEF TimetableInv, SlotOwnerIsMember
  <2>. QED
    BY <1>2, <2>1, <2>2
<1>5. ScheduledSlotsMatch'
  <2> SUFFICES ASSUME NEW s \in slot'
               PROVE  grp'[s.group].schedule \in {Null, s.range}
    BY DEF ScheduledSlotsMatch
  <2>1. \E t \in slot : t.group = s.group /\ t.range = s.range
    BY <1>1, VacatedSlots
  <2>. QED
    BY <1>2, <2>1 DEF TimetableInv, ScheduledSlotsMatch, TypeOK
<1>6. ScheduledGroupsDisjoint'
  BY <1>2 DEF TimetableInv, ScheduledGroupsDisjoint
<1>. QED
  BY <1>3, <1>4, <1>5, <1>6 DEF TimetableInv

LEMMA MembershipTimetable == TimetableInv /\ Membership => TimetableInv'
<1>1. TimetableInv /\ Membership => TypeOK'
  BY MembershipType DEF TimetableInv
<1>. QED
  BY <1>1, AddMemberTimetable, ReplaceMemberSlotsTimetable, MoveMemberTimetable,
     RemoveMemberTimetable DEF Membership

LEMMA InitTimetable == Init => TimetableInv
BY DEF Init, TimetableInv, TypeOK, NoReservation, NoGroup, Row, GroupRow,
       AbsentSitsNowhere, SlotOwnerIsMember, ScheduledSlotsMatch,
       ScheduledGroupsDisjoint, Live, GroupStatus

LEMMA StepTimetable == TimetableInv /\ [Next]_vars => TimetableInv'
<1>1. TimetableInv /\ UNCHANGED vars => TimetableInv'
  BY DEF vars, TimetableInv, TypeOK, AbsentSitsNowhere, SlotOwnerIsMember,
         ScheduledSlotsMatch, ScheduledGroupsDisjoint, Live
<1>. QED
  BY <1>1, ApplyTimetable, EditTimetable, WithdrawTimetable, LifecycleTimetable,
     MembershipTimetable DEF Next

\* The invariant of the timetable, in every reachable state.
THEOREM TimetableInductive == Spec => []TimetableInv
BY InitTimetable, StepTimetable, PTL DEF Spec

\* No operation, the unchecked PATCH included, leaves a slot with somebody who
\* is not a member of the slot's group.
THEOREM SlotOwnersAreMembers == Spec => []SlotOwnerIsMember
<1>1. TimetableInv => SlotOwnerIsMember
  BY DEF TimetableInv
<1>. QED
  BY <1>1, TimetableInductive, PTL

\* Every slot of a scheduled group is the schedule.
THEOREM ScheduledSlotsAlwaysMatch == Spec => []ScheduledSlotsMatch
<1>1. TimetableInv => ScheduledSlotsMatch
  BY DEF TimetableInv
<1>. QED
  BY <1>1, TimetableInductive, PTL

\* Two scheduled groups never overlap on the timetable.
THEOREM ScheduledGroupsNeverOverlap == Spec => []ScheduledGroupsDisjoint
<1>1. TimetableInv => ScheduledGroupsDisjoint
  BY DEF TimetableInv
<1>. QED
  BY <1>1, TimetableInductive, PTL

-----------------------------------------------------------------------------
(* Occupancy: capacities, EMPTY groups and anchors.  Relative to the       *)
(* timetable invariant the first part is inductive on its own: a group     *)
(* created under a reused row starts without members because every named   *)
(* group exists.  The second part is inductive relative to the first, and  *)
(* is what concurrent account removals break (MemberRemovalProofs).        *)

RoomInv == NamedGroupsExist /\ CapacityRespected
VacancyInv == EmptyIsVacant /\ AnchorsOnlyWhenVacant

OccupancyInv == RoomInv /\ VacancyInv

LEMMA MembersFinite ==
  ASSUME NEW g \in GIds
  PROVE  IsFiniteSet(Members(g)) /\ Cardinality(Members(g)) \in Nat
<1>1. Members(g) \in SUBSET RIds
  BY DEF Members
<1>. QED
  BY <1>1, FS_Subset, FS_CardinalityType, IdsAreDisjoint

\* A step that seats nobody and changes no group, slot owner or request
\* target for the worse keeps occupancy.
LEMMA NobodySeated ==
  ASSUME TimetableInv, TimetableInv', RoomInv, UNCHANGED grp,
         \A r \in RIds : rsv'[r].group \in {rsv[r].group, Null},
         \A r \in RIds : rsv'[r].wants \in {rsv[r].wants, Null} \cup LiveGroups,
         slot' \subseteq slot
  PROVE  RoomInv' /\ (VacancyInv => VacancyInv')
<1>1. NamedGroupsExist'
  BY DEF RoomInv, NamedGroupsExist, LiveGroups, Live
<1>2. \A g \in GIds : Members(g)' \subseteq Members(g)
  BY IdsAreDisjoint DEF Members
<1>3. ASSUME VacancyInv PROVE EmptyIsVacant'
  BY <1>3, <1>2 DEF VacancyInv, EmptyIsVacant
<1>4. ASSUME VacancyInv PROVE AnchorsOnlyWhenVacant'
  <2>1. \A s \in slot : s.group \in GIds
    BY DEF TimetableInv, TypeOK
  <2>. QED
    BY <1>4, <1>2, <2>1 DEF VacancyInv, AnchorsOnlyWhenVacant
<1>5. CapacityRespected'
  <2> SUFFICES ASSUME NEW g \in GIds
               PROVE  Cardinality(Members(g)') <= grp[g].capacity
    BY DEF CapacityRespected
  <2>1. Cardinality(Members(g)') \in Nat /\ Cardinality(Members(g)') <= Cardinality(Members(g))
    BY <1>2, MembersFinite, FS_Subset, FS_CardinalityType
  <2>2. Cardinality(Members(g)) <= grp[g].capacity /\ grp[g].capacity \in Nat
    BY DEF RoomInv, CapacityRespected, TimetableInv, TypeOK, GroupRow
  <2>. QED
    BY <2>1, <2>2, MembersFinite
<1>. QED
  BY <1>1, <1>3, <1>4, <1>5 DEF RoomInv, VacancyInv

LEMMA ApplyOccupancy ==
  TimetableInv /\ TimetableInv' /\ RoomInv /\ Apply => RoomInv' /\ (VacancyInv => VacancyInv')
<1> SUFFICES ASSUME TimetableInv, TimetableInv', RoomInv,
                    NEW r \in RIds, NEW age, NEW prefs,
                    \/ \E c \in Children, wants \in RequestableGroups \cup {Null} :
                         CreateReservation(r, c, age, prefs, wants)
                    \/ CreateWalkIn(r, age, prefs)
             PROVE  RoomInv' /\ (VacancyInv => VacancyInv')
  BY DEF Apply
<1>1. /\ rsv'[r].group = Null /\ rsv'[r].wants \in {Null} \cup LiveGroups
      /\ \A q \in RIds : q # r => rsv'[q] = rsv[q]
      /\ UNCHANGED <<grp, slot>>
  BY DEF TimetableInv, TypeOK, CreateReservation, CreateWalkIn
<1>. QED
  BY <1>1, NobodySeated

LEMMA UpdateReservationOccupancy ==
  ASSUME TimetableInv, TimetableInv', RoomInv,
         NEW r \in RIds, NEW status, NEW age, NEW prefs, NEW wants, NEW c,
         UpdateReservation(r, status, age, prefs, wants, c)
  PROVE  RoomInv' /\ (VacancyInv => VacancyInv')
<1>1. /\ \A q \in RIds : rsv'[q].group = rsv[q].group
      /\ \A q \in RIds : rsv'[q].wants \in {rsv[q].wants, Null} \cup LiveGroups
      /\ UNCHANGED <<grp, slot>>
  BY DEF TimetableInv, TypeOK, UpdateReservation, Edited, Row, OrElse
<1>. QED
  BY <1>1, NobodySeated

LEMMA EditOccupancy ==
  TimetableInv /\ TimetableInv' /\ RoomInv /\ Edit => RoomInv' /\ (VacancyInv => VacancyInv')
BY UpdateReservationOccupancy DEF Edit

LEMMA WithdrawOccupancy ==
  TimetableInv /\ TimetableInv' /\ RoomInv /\ Withdraw => RoomInv' /\ (VacancyInv => VacancyInv')
<1>1. ASSUME TimetableInv, TimetableInv', RoomInv, NEW r \in RIds,
             RemoveReservation(r)
      PROVE  RoomInv' /\ (VacancyInv => VacancyInv')
  <2>1. /\ \A q \in RIds : rsv'[q].group \in {rsv[q].group, Null}
        /\ \A q \in RIds : rsv'[q].wants \in {rsv[q].wants, Null}
        /\ UNCHANGED grp /\ slot' \subseteq slot
    BY <1>1 DEF TimetableInv, TypeOK, RemoveReservation, NoReservation
  <2>. QED
    BY <1>1, <2>1, NobodySeated
<1>2. ASSUME TimetableInv, TimetableInv', RoomInv, NEW c \in Children,
             RemoveChild(c)
      PROVE  RoomInv' /\ (VacancyInv => VacancyInv')
  <2>1. /\ \A q \in RIds : rsv'[q].group = rsv[q].group /\ rsv'[q].wants = rsv[q].wants
        /\ UNCHANGED <<grp, slot>>
    BY <1>2 DEF TimetableInv, TypeOK, RemoveChild, Row
  <2>. QED
    BY <1>2, <2>1, NobodySeated
<1>. QED
  BY <1>1, <1>2 DEF Withdraw

LEMMA CreateGroupOccupancy ==
  ASSUME TimetableInv, TimetableInv', RoomInv, NEW g \in GIds,
         NEW capacity \in Capacities, NEW minAge, NEW maxAge, NEW sched,
         NEW ids \in SUBSET RIds, NEW assign \in [ids -> SUBSET Ranges],
         CreateGroup(g, assign, capacity, minAge, maxAge, sched)
  PROVE  RoomInv' /\ (VacancyInv => VacancyInv')
<1>1. /\ grp[g].status = "NONE"
      /\ grp'[g].status = IF ids = {} THEN "EMPTY" ELSE "CONFIRMED"
      /\ grp'[g].capacity = capacity /\ Cardinality(ids) <= capacity
      /\ \A h \in GIds : h # g => grp'[h] = grp[h]
  BY DEF CreateGroup, AcceptsGroup, TimetableInv, TypeOK
<1>2. /\ \A r \in ids : rsv'[r].group = g /\ rsv[r].group = Null
      /\ \A r \in RIds : rsv'[r].wants = rsv[r].wants
      /\ \A r \in RIds \ ids : rsv'[r] = rsv[r]
  <2>1. DOMAIN assign = ids
    OBVIOUS
  <2>2. \A r \in RIds : rsv'[r] =
          IF r \in ids THEN [rsv[r] EXCEPT !.status = "GROUPED", !.group = g] ELSE rsv[r]
    BY <2>1 DEF CreateGroup, AcceptsGroup
  <2>3. \A r \in RIds : rsv[r] \in Row
    BY DEF TimetableInv, TypeOK
  <2>4. \A r \in ids : rsv'[r].group = g
    BY <2>2, <2>3 DEF Row
  <2>6. \A r \in ids : rsv[r].group = Null
    BY <2>1 DEF CreateGroup, AcceptsGroup
  <2>5. \A r \in RIds : rsv'[r].wants = rsv[r].wants
    BY <2>2, <2>3 DEF Row
  <2>. QED
    BY <2>2, <2>4, <2>5, <2>6
<1>3. /\ Members(g) = {} /\ Members(g)' = ids
      /\ \A h \in GIds : h # g => Members(h)' = Members(h)
  <2>1. g \notin LiveGroups /\ g # Null
    BY <1>1, IdsAreDisjoint DEF LiveGroups, Live, GroupStatus
  <2>2. Members(g) = {}
    BY <2>1 DEF Members, RoomInv, NamedGroupsExist
  <2>3. Members(g)' = ids
    BY <1>2, <2>2 DEF Members
  <2>4. \A h \in GIds : h # g => Members(h)' = Members(h)
    BY <1>2, IdsAreDisjoint DEF Members
  <2>. QED
    BY <2>2, <2>3, <2>4
<1>4. \A h \in LiveGroups \cup {g} : h \in LiveGroups'
  BY <1>1 DEF LiveGroups, Live, GroupStatus
<1>5. NamedGroupsExist'
  BY <1>2, <1>4 DEF RoomInv, NamedGroupsExist
<1>6. ASSUME VacancyInv PROVE EmptyIsVacant'
  BY <1>6, <1>1, <1>3 DEF VacancyInv, EmptyIsVacant
<1>7. ASSUME VacancyInv PROVE AnchorsOnlyWhenVacant'
  <2>1. slot' = slot \cup UNION {NewSlots(g, r, assign[r]) : r \in ids}
    BY DEF CreateGroup, AcceptsGroup
  <2>2. \A s \in slot' : s.owner = Null => s \in slot
    BY <2>1, IdsAreDisjoint DEF NewSlots
  <2>3. \A s \in slot : s.group \in GIds /\ s.group # g
    BY <1>1 DEF TimetableInv, TypeOK, SlotOwnerIsMember, Live, GroupStatus
  <2>. QED
    BY <1>7, <1>3, <2>2, <2>3 DEF VacancyInv, AnchorsOnlyWhenVacant
<1>8. CapacityRespected'
  BY <1>1, <1>3 DEF RoomInv, CapacityRespected
<1>. QED
  BY <1>5, <1>6, <1>7, <1>8 DEF RoomInv, VacancyInv

LEMMA UpdateGroupOccupancy ==
  ASSUME TimetableInv, TimetableInv', RoomInv, NEW g \in GIds,
         NEW capacity \in Nat \cup {Null}, NEW minAge, NEW maxAge, NEW sched,
         UpdateGroup(g, capacity, minAge, maxAge, sched)
  PROVE  RoomInv' /\ (VacancyInv => VacancyInv')
<1>1. /\ rsv' = rsv
      /\ \A h \in GIds : grp'[h].status = grp[h].status
      /\ grp'[g].capacity = OrElse(capacity, grp[g].capacity)
      /\ \A h \in GIds : h # g => grp'[h] = grp[h]
  BY DEF UpdateGroup, EditedGroup, TimetableInv, TypeOK, GroupRow
<1>2. NamedGroupsExist'
  BY <1>1 DEF RoomInv, NamedGroupsExist, LiveGroups, Live
<1>3. ASSUME VacancyInv PROVE EmptyIsVacant'
  BY <1>3, <1>1 DEF VacancyInv, EmptyIsVacant, Members
<1>4. ASSUME VacancyInv PROVE AnchorsOnlyWhenVacant'
  <2>1. CASE sched = Null
    BY <1>4, <1>1, <2>1 DEF UpdateGroup, VacancyInv, AnchorsOnlyWhenVacant, Members
  <2>2. CASE sched # Null
    <3>1. \A s \in slot' : s.owner = Null =>
            s \in slot \/ (s.group = g /\ Anchors(g) # {})
      BY <2>2, IdsAreDisjoint DEF UpdateGroup, Rescheduled, NewSlots, Members
    <3>2. Anchors(g) # {} => Members(g) = {}
      BY <1>4 DEF Anchors, VacancyInv, AnchorsOnlyWhenVacant
    <3>. QED
      BY <1>4, <1>1, <3>1, <3>2 DEF VacancyInv, AnchorsOnlyWhenVacant, Members
  <2>. QED
    BY <2>1, <2>2
<1>5. CapacityRespected'
  <2>1. Members(g)' = Members(g) /\ \A h \in GIds : Members(h)' = Members(h)
    BY <1>1 DEF Members
  <2>2. Cardinality(Members(g)) <= OrElse(capacity, grp[g].capacity)
    BY DEF UpdateGroup, SuitsMembers, OrElse, RoomInv, CapacityRespected
  <2>. QED
    BY <1>1, <2>1, <2>2 DEF RoomInv, CapacityRespected
<1>. QED
  BY <1>2, <1>3, <1>4, <1>5 DEF RoomInv, VacancyInv

LEMMA RemoveGroupOccupancy ==
  ASSUME TimetableInv, TimetableInv', RoomInv, NEW g \in GIds, RemoveGroup(g)
  PROVE  RoomInv' /\ (VacancyInv => VacancyInv')
<1>1. /\ \A q \in RIds : rsv'[q].group = IF rsv[q].group = g THEN Null ELSE rsv[q].group
      /\ \A q \in RIds : rsv'[q].wants = IF rsv[q].wants = g THEN Null ELSE rsv[q].wants
  <2> SUFFICES ASSUME NEW q \in RIds
               PROVE  /\ rsv'[q].group = IF rsv[q].group = g THEN Null ELSE rsv[q].group
                      /\ rsv'[q].wants = IF rsv[q].wants = g THEN Null ELSE rsv[q].wants
    OBVIOUS
  <2>. DEFINE w == IF rsv[q].wants = g THEN Null ELSE rsv[q].wants
  <2>1. rsv[q] \in Row
    BY DEF TimetableInv, TypeOK
  <2>2. CASE rsv[q].group = g
    <3>1. rsv'[q] = [rsv[q] EXCEPT !.group = Null, !.status = "WAITING", !.wants = w]
      BY <2>2 DEF RemoveGroup
    <3>. QED
      BY <2>1, <2>2, <3>1 DEF Row
  <2>3. CASE rsv[q].group # g
    <3>1. rsv'[q] = [rsv[q] EXCEPT !.wants = w]
      BY <2>3 DEF RemoveGroup
    <3>. QED
      BY <2>1, <2>3, <3>1 DEF Row
  <2>. QED
    BY <2>2, <2>3
<1>2. grp'[g] = NoGroup /\ \A h \in GIds : h # g => grp'[h] = grp[h]
  BY DEF RemoveGroup, TimetableInv, TypeOK
<1>3. /\ Members(g)' = {}
      /\ \A h \in GIds : h # g => Members(h)' = Members(h)
  BY <1>1, IdsAreDisjoint DEF Members
<1>4. LiveGroups \ {g} \subseteq LiveGroups'
  BY <1>2 DEF LiveGroups, Live
<1>5. NamedGroupsExist'
  BY <1>1, <1>4 DEF RoomInv, NamedGroupsExist
<1>6. ASSUME VacancyInv PROVE EmptyIsVacant'
  BY <1>6, <1>2, <1>3 DEF VacancyInv, EmptyIsVacant
<1>7. ASSUME VacancyInv PROVE AnchorsOnlyWhenVacant'
  <2>1. \A s \in slot' : s \in slot /\ s.group \in GIds
    BY DEF RemoveGroup, TimetableInv, TypeOK
  <2>. QED
    BY <1>7, <1>3, <2>1 DEF VacancyInv, AnchorsOnlyWhenVacant
<1>8. CapacityRespected'
  <2>1. Cardinality({}) = 0 /\ grp'[g].capacity = 0
    BY <1>2, FS_EmptySet DEF NoGroup
  <2>. QED
    BY <1>2, <1>3, <2>1 DEF RoomInv, CapacityRespected
<1>. QED
  BY <1>5, <1>6, <1>7, <1>8 DEF RoomInv, VacancyInv

LEMMA LifecycleOccupancy ==
  TimetableInv /\ TimetableInv' /\ RoomInv /\ Lifecycle => RoomInv' /\ (VacancyInv => VacancyInv')
<1>1. Capacities \subseteq Nat
  BY InputsAreValid DEF Seats
<1>. QED
  BY <1>1, CreateGroupOccupancy, UpdateGroupOccupancy, RemoveGroupOccupancy DEF Lifecycle

\* One reservation takes a seat in group h, or gives its seat up (h = Null).
LEMMA Reseated ==
  ASSUME TimetableInv, TimetableInv', RoomInv,
         NEW r \in RIds, NEW h \in GIds \cup {Null},
         rsv'[r].group = h, rsv[r].group # h, rsv'[r].wants \in {rsv[r].wants, Null},
         \A q \in RIds : q # r => rsv'[q] = rsv[q],
         \A k \in GIds : (Live(k)' <=> Live(k)) /\ grp'[k].capacity = grp[k].capacity,
         h # Null => Live(h) /\ HasRoom(h) /\ grp'[h].status = "CONFIRMED",
         \A k \in GIds : k # h /\ grp'[k].status = "EMPTY" =>
           grp[k].status = "EMPTY" \/ Members(k) = {r},
         \A s \in slot' : s.owner = Null =>
           s.group # h /\ (s \in slot \/ Members(s.group) = {r})
  PROVE  RoomInv' /\ (VacancyInv => VacancyInv')
<1>1. \A k \in GIds : Members(k)' = IF k = h THEN Members(k) \cup {r} ELSE Members(k) \ {r}
  BY DEF Members
<1>2. NamedGroupsExist'
  BY DEF RoomInv, NamedGroupsExist, LiveGroups
<1>3. ASSUME VacancyInv PROVE EmptyIsVacant'
  <2> SUFFICES ASSUME NEW k \in GIds, grp'[k].status = "EMPTY"
               PROVE  Members(k)' = {}
    BY DEF EmptyIsVacant
  <2>1. k # h
    BY IdsAreDisjoint
  <2>2. Members(k) = {} \/ Members(k) = {r}
    BY <1>3, <2>1 DEF VacancyInv, EmptyIsVacant
  <2>. QED
    BY <1>1, <2>1, <2>2
<1>4. ASSUME VacancyInv PROVE AnchorsOnlyWhenVacant'
  <2>1. \A s \in slot' : s.group \in GIds
    BY DEF TimetableInv, TypeOK
  <2>. QED
    BY <1>4, <1>1, <2>1 DEF VacancyInv, AnchorsOnlyWhenVacant
<1>5. CapacityRespected'
  <2> SUFFICES ASSUME NEW k \in GIds
               PROVE  Cardinality(Members(k)') <= grp[k].capacity
    BY DEF CapacityRespected
  <2>1. Cardinality(Members(k)) <= grp[k].capacity /\ grp[k].capacity \in Nat
    BY DEF RoomInv, CapacityRespected, TimetableInv, TypeOK, GroupRow
  <2>2. IsFiniteSet(Members(k)) /\ Cardinality(Members(k)) \in Nat
    BY MembersFinite
  <2>3. CASE k = h
    <3>1. r \notin Members(k) /\ HasRoom(k)
      BY <2>3, IdsAreDisjoint DEF Members
    <3>2. Cardinality(Members(k)') = Cardinality(Members(k)) + 1
      BY <1>1, <2>2, <2>3, <3>1, FS_AddElement
    <3>. QED
      BY <3>1, <3>2 DEF HasRoom
  <2>4. CASE k # h
    <3>1. Members(k)' \subseteq Members(k)
      BY <1>1, <2>4
    <3>2. /\ Cardinality(Members(k)') \in Nat
          /\ Cardinality(Members(k)') <= Cardinality(Members(k))
      BY <2>2, <3>1, FS_Subset, FS_CardinalityType
    <3>. QED
      BY <2>1, <2>2, <3>2
  <2>. QED
    BY <2>3, <2>4
<1>. QED
  BY <1>2, <1>3, <1>4, <1>5 DEF RoomInv, VacancyInv

LEMMA AddMemberOccupancy ==
  ASSUME TimetableInv, TimetableInv', RoomInv, NEW g \in GIds, NEW r \in RIds,
         NEW slots \in SUBSET Ranges, AddMember(g, r, slots)
  PROVE  RoomInv' /\ (VacancyInv => VacancyInv')
<1>1. /\ rsv'[r].group = g /\ rsv[r].group # g /\ rsv'[r].wants = Null
      /\ \A q \in RIds : q # r => rsv'[q] = rsv[q]
  BY IdsAreDisjoint DEF AddMember, TimetableInv, TypeOK, Row
<1>2. /\ Live(g) /\ HasRoom(g) /\ grp'[g].status = "CONFIRMED"
      /\ grp'[g].capacity = grp[g].capacity
      /\ \A h \in GIds : h # g => grp'[h] = grp[h]
  BY DEF AddMember, TimetableInv, TypeOK, GroupRow
<1>3. \A k \in GIds : (Live(k)' <=> Live(k)) /\ grp'[k].capacity = grp[k].capacity
  BY <1>2 DEF Live, GroupStatus
<1>4. \A s \in slot' : s.owner = Null => s \in slot /\ s.group # g
  BY IdsAreDisjoint DEF AddMember, Anchors, NewSlots
<1>. QED
  BY <1>1, <1>2, <1>3, <1>4, Reseated

LEMMA ReplaceMemberSlotsOccupancy ==
  ASSUME TimetableInv, TimetableInv', RoomInv, NEW g \in GIds, NEW r \in RIds,
         NEW slots \in SUBSET Ranges, ReplaceMemberSlots(g, r, slots)
  PROVE  RoomInv' /\ (VacancyInv => VacancyInv')
<1>1. rsv' = rsv /\ grp' = grp
  BY DEF ReplaceMemberSlots
<1>2. \A s \in slot' : s.owner = Null => s \in slot
  BY IdsAreDisjoint DEF ReplaceMemberSlots, NewSlots
<1>. QED
  BY <1>1, <1>2 DEF RoomInv, VacancyInv, NamedGroupsExist, EmptyIsVacant, LiveGroups, Live,
                    AnchorsOnlyWhenVacant, CapacityRespected, Members

LEMMA MoveMemberOccupancy ==
  ASSUME TimetableInv, TimetableInv', RoomInv, NEW g \in GIds, NEW target \in GIds,
         NEW r \in RIds, NEW slots \in SUBSET Ranges, MoveMember(g, target, r, slots)
  PROVE  RoomInv' /\ (VacancyInv => VacancyInv')
<1>1. /\ rsv[r].group = g /\ g # target
      /\ rsv'[r].group = target /\ rsv'[r].wants = Null
      /\ \A q \in RIds : q # r => rsv'[q] = rsv[q]
  BY DEF MoveMember, Seated, TimetableInv, TypeOK, Row
<1>2. /\ Live(g) /\ Live(target) /\ HasRoom(target)
      /\ grp'[target].status = "CONFIRMED"
      /\ grp'[g].status = IF Members(g) = {r} THEN "EMPTY" ELSE grp[g].status
      /\ \A k \in GIds : grp'[k].capacity = grp[k].capacity
      /\ \A k \in GIds : k \notin {g, target} => grp'[k] = grp[k]
  BY DEF MoveMember, InUse, Widened, TimetableInv, TypeOK, GroupRow, GroupStatus, Live
<1>3. \A k \in GIds : (Live(k)' <=> Live(k)) /\ grp'[k].capacity = grp[k].capacity
  BY <1>2 DEF Live, GroupStatus
<1>4. \A k \in GIds : k # target /\ grp'[k].status = "EMPTY" =>
        grp[k].status = "EMPTY" \/ Members(k) = {r}
  BY <1>2
<1>5. ASSUME NEW s \in slot', s.owner = Null
      PROVE  s.group # target /\ (s \in slot \/ Members(s.group) = {r})
  <2>1. s \in Vacated(g, r) \ Anchors(target)
    BY <1>5, IdsAreDisjoint DEF MoveMember, NewSlots
  <2>2. s \in slot \/ (s.group = g /\ Members(g) = {r})
    BY <1>1, <2>1, VacatedSlots
  <2>3. s \in slot => s.group # target
    BY <1>5, <2>1 DEF Anchors
  <2>. QED
    BY <1>1, <2>2, <2>3
<1>. QED
  BY <1>1, <1>2, <1>3, <1>4, <1>5, Reseated, SMTT(30)

LEMMA RemoveMemberOccupancy ==
  ASSUME TimetableInv, TimetableInv', RoomInv, NEW g \in GIds, NEW r \in RIds,
         RemoveMember(g, r)
  PROVE  RoomInv' /\ (VacancyInv => VacancyInv')
<1>1. /\ rsv[r].group = g /\ g # Null
      /\ rsv'[r].group = Null /\ rsv'[r].wants = rsv[r].wants
      /\ \A q \in RIds : q # r => rsv'[q] = rsv[q]
  BY IdsAreDisjoint DEF RemoveMember, Seated, TimetableInv, TypeOK, Row
<1>2. /\ Live(g)
      /\ grp'[g].status = IF Members(g) = {r} THEN "EMPTY" ELSE grp[g].status
      /\ \A k \in GIds : grp'[k].capacity = grp[k].capacity
      /\ \A k \in GIds : k # g => grp'[k] = grp[k]
  BY DEF RemoveMember, InUse, TimetableInv, TypeOK, GroupRow, GroupStatus, Live
<1>3. \A k \in GIds : (Live(k)' <=> Live(k)) /\ grp'[k].capacity = grp[k].capacity
  BY <1>2 DEF Live, GroupStatus
<1>4. \A k \in GIds : grp'[k].status = "EMPTY" =>
        grp[k].status = "EMPTY" \/ Members(k) = {r}
  BY <1>2
<1>5. ASSUME NEW s \in slot', s.owner = Null
      PROVE  s.group # Null /\ (s \in slot \/ Members(s.group) = {r})
  <2>1. s \in Vacated(g, r) /\ s.group \in GIds
    BY <1>5 DEF RemoveMember, TimetableInv, TypeOK
  <2>2. s \in slot \/ (s.group = g /\ Members(g) = {r})
    BY <1>1, <2>1, VacatedSlots
  <2>. QED
    BY <2>1, <2>2, IdsAreDisjoint
<1>. QED
  BY <1>1, <1>2, <1>3, <1>4, <1>5, Reseated, SMTT(30)

LEMMA MembershipOccupancy ==
  TimetableInv /\ TimetableInv' /\ RoomInv /\ Membership => RoomInv' /\ (VacancyInv => VacancyInv')
BY AddMemberOccupancy, ReplaceMemberSlotsOccupancy, MoveMemberOccupancy,
   RemoveMemberOccupancy DEF Membership

\* In an empty database nobody sits anywhere.
LEMMA InitOccupancy == Init => OccupancyInv
<1> SUFFICES ASSUME Init PROVE OccupancyInv
  OBVIOUS
<1>1. \A g \in GIds : Members(g) = {}
  BY IdsAreDisjoint DEF Init, NoReservation, Members
<1>2. Cardinality({}) = 0
  BY FS_EmptySet
<1>3. NamedGroupsExist
  BY DEF Init, NoReservation, NamedGroupsExist
<1>4. EmptyIsVacant /\ AnchorsOnlyWhenVacant
  BY <1>1 DEF Init, EmptyIsVacant, AnchorsOnlyWhenVacant
<1>5. CapacityRespected
  <2>1. \A g \in GIds : Cardinality(Members(g)) = 0
    BY <1>1, <1>2
  <2>2. \A g \in GIds : grp[g].capacity = 0
    BY DEF Init, NoGroup
  <2>. QED
    BY <2>1, <2>2 DEF CapacityRespected
<1>. QED
  BY <1>3, <1>4, <1>5 DEF OccupancyInv, RoomInv, VacancyInv

THEOREM OccupancyInductive == Spec => []OccupancyInv
<1>1. TimetableInv /\ TimetableInv' /\ OccupancyInv /\ [Next]_vars => OccupancyInv'
  <2>1. OccupancyInv /\ UNCHANGED vars => OccupancyInv'
    BY DEF vars, OccupancyInv, RoomInv, VacancyInv, NamedGroupsExist, EmptyIsVacant,
           LiveGroups, Live, AnchorsOnlyWhenVacant, CapacityRespected, Members
  <2>. QED
    BY <2>1, ApplyOccupancy, EditOccupancy, WithdrawOccupancy, LifecycleOccupancy,
       MembershipOccupancy DEF Next, OccupancyInv
<1>. QED
  BY InitOccupancy, <1>1, TimetableInductive, PTL DEF Spec

\* No group ever holds more reservations than its capacity, through any mix of
\* creating, joining, moving, resizing and editing.
THEOREM CapacityAlwaysRespected == Spec => []CapacityRespected
<1>1. OccupancyInv => CapacityRespected
  BY DEF OccupancyInv, RoomInv, VacancyInv
<1>. QED
  BY <1>1, OccupancyInductive, PTL

\* A group that reads EMPTY has nobody in it.
THEOREM EmptyGroupsAreVacant == Spec => []EmptyIsVacant
<1>1. OccupancyInv => EmptyIsVacant
  BY DEF OccupancyInv, RoomInv, VacancyInv
<1>. QED
  BY <1>1, OccupancyInductive, PTL

\* A group that has anchors has nobody in it.
THEOREM AnchoredGroupsAreVacant == Spec => []AnchorsOnlyWhenVacant
<1>1. OccupancyInv => AnchorsOnlyWhenVacant
  BY DEF OccupancyInv, RoomInv, VacancyInv
<1>. QED
  BY <1>1, OccupancyInductive, PTL

\* Neither a seat nor a join request outlives the group it names.
THEOREM NamedGroupsAlwaysExist == Spec => []NamedGroupsExist
<1>1. OccupancyInv => NamedGroupsExist
  BY DEF OccupancyInv, RoomInv, VacancyInv
<1>. QED
  BY <1>1, OccupancyInductive, PTL

-----------------------------------------------------------------------------
(* The times of one member.  Each operation either leaves them alone,      *)
(* takes them away or replaces them by times that passed its checks.       *)

TimesGiven(r) == {s.range : s \in {t \in slot : t.owner = r}}

LEMMA TimesAreSlots ==
  ASSUME NEW r, NEW x
  PROVE  x \in TimesGiven(r) <=> \E s \in slot : s.owner = r /\ s.range = x
BY DEF TimesGiven

LEMMA TimesAreSlotsPrime ==
  ASSUME NEW r, NEW x
  PROVE  x \in TimesGiven(r)' <=> \E s \in slot' : s.owner = r /\ s.range = x
BY DEF TimesGiven

LEMMA SameTimes ==
  ASSUME NEW r, \A s : s.owner = r => (s \in slot' <=> s \in slot)
  PROVE  TimesGiven(r)' = TimesGiven(r)
<1>1. ASSUME NEW x
      PROVE  x \in TimesGiven(r)' <=> x \in TimesGiven(r)
  BY TimesAreSlots, TimesAreSlotsPrime
<1>. QED
  BY <1>1

\* The times given together with the seat.
LEMMA GivenTimes ==
  ASSUME NEW g, NEW r, NEW R, NEW others,
         slot' = others \cup NewSlots(g, r, R), \A s \in others : s.owner # r
  PROVE  TimesGiven(r)' = R
<1>1. \A s \in NewSlots(g, r, R) : s.owner = r /\ s.range \in R
  BY DEF NewSlots
<1>2. ASSUME NEW x \in R
      PROVE  \E s \in slot' : s.owner = r /\ s.range = x
  <2>1. [group |-> g, owner |-> r, range |-> x] \in slot'
    BY DEF NewSlots
  <2>. QED
    BY <2>1
<1>3. ASSUME NEW x
      PROVE  x \in TimesGiven(r)' <=> x \in R
  BY <1>1, <1>2, TimesAreSlotsPrime
<1>. QED
  BY <1>3

\* Whoever sits in no group has no times, and a member's are all in its group.
LEMMA TimesInGroup ==
  ASSUME TimetableInv, NEW r \in RIds
  PROVE  /\ \A s \in slot : s.owner = r => s.group = rsv[r].group
         /\ rsv[r].group = Null => \A s \in slot : s.owner # r
         /\ \A g : (\E s \in slot : s.group = g /\ s.owner = r) => rsv[r].group = g
BY IdsAreDisjoint DEF TimetableInv, TypeOK, SlotOwnerIsMember

LEMMA CreateGroupTimes ==
  ASSUME TimetableInv, NEW g \in GIds, NEW capacity, NEW minAge, NEW maxAge,
         NEW sched \in Ranges \cup {Null}, NEW ids \in SUBSET RIds,
         NEW assign \in [ids -> SUBSET Ranges],
         CreateGroup(g, assign, capacity, minAge, maxAge, sched), NEW q \in RIds
  PROVE  TimesGiven(q)' = IF q \in ids THEN assign[q] ELSE TimesGiven(q)
<1>1. DOMAIN assign = ids
  OBVIOUS
<1>2. slot' = slot \cup UNION {NewSlots(g, r, assign[r]) : r \in ids}
  BY <1>1 DEF CreateGroup, AcceptsGroup
<1>3. \A r \in ids : \A s \in NewSlots(g, r, assign[r]) : s.owner = r
  BY DEF NewSlots
<1>4. CASE q \in ids
  <2>1. rsv[q].group = Null
    BY <1>1, <1>4 DEF CreateGroup, AcceptsGroup
  <2>2. \A s \in slot : s.owner # q
    BY <2>1, TimesInGroup
  <2> DEFINE others == slot \cup UNION {NewSlots(g, r, assign[r]) : r \in ids \ {q}}
  <2>3. slot' = others \cup NewSlots(g, q, assign[q])
    BY <1>2, <1>4
  <2>4. \A s \in others : s.owner # q
    BY <1>3, <2>2
  <2> HIDE DEF others
  <2>. QED
    BY <1>4, <2>3, <2>4, GivenTimes
<1>5. CASE q \notin ids
  <2>1. \A s : s.owner = q => (s \in slot' <=> s \in slot)
    BY <1>2, <1>3, <1>5
  <2>. QED
    BY <1>5, <2>1, SameTimes
<1>. QED
  BY <1>4, <1>5

LEMMA UpdateGroupTimes ==
  ASSUME TimetableInv, NEW g \in GIds, NEW capacity, NEW minAge, NEW maxAge,
         NEW sched \in Ranges \cup {Null},
         UpdateGroup(g, capacity, minAge, maxAge, sched), NEW q \in RIds
  PROVE  \/ TimesGiven(q)' = TimesGiven(q)
         \/ TimesGiven(q)' = {} /\ ~Seated(q, g) /\ q \in Members(g)
         \/ TimesGiven(q)' = {sched} /\ sched \in Ranges /\ WithinPreferred({sched}, rsv[q].prefs)
<1>1. CASE sched = Null
  <2>1. slot' = slot
    BY <1>1 DEF UpdateGroup
  <2>. QED
    BY <2>1, SameTimes
<1>2. CASE sched # Null
  <2> DEFINE grouped == {r \in Members(g) : rsv[r].status = "GROUPED"}
  <2>1. /\ \A r \in grouped : WithinPreferred({sched}, rsv[r].prefs)
        /\ slot' = (slot \ SlotsOf(g)) \cup
             (IF grouped = {} /\ Anchors(g) # {} THEN NewSlots(g, Null, {sched})
              ELSE UNION {NewSlots(g, r, {sched}) : r \in grouped})
    BY <1>2 DEF UpdateGroup, Rescheduled
  <2>2. \A r : \A s \in NewSlots(g, r, {sched}) : s.owner = r
    BY DEF NewSlots
  <2>3. q # Null
    BY IdsAreDisjoint
  <2>4. CASE q \in grouped
    <3> DEFINE others == (slot \ SlotsOf(g)) \cup
                         UNION {NewSlots(g, r, {sched}) : r \in grouped \ {q}}
    <3>1. slot' = others \cup NewSlots(g, q, {sched})
      BY <2>1, <2>4
    <3>2. rsv[q].group = g
      BY <2>4 DEF Members
    <3>3. \A s \in slot : s.owner = q => s.group = g
      BY <3>2, TimesInGroup
    <3>4. \A s \in others : s.owner # q
      BY <2>2, <3>3 DEF SlotsOf
    <3> HIDE DEF others
    <3>5. TimesGiven(q)' = {sched}
      BY <3>1, <3>4, GivenTimes
    <3>. QED
      BY <1>2, <2>1, <2>4, <3>5
  <2>5. CASE q \in Members(g) /\ q \notin grouped
    <3>1. rsv[q].group = g
      BY <2>5 DEF Members
    <3>2. \A s \in slot : s.owner = q => s.group = g
      BY <3>1, TimesInGroup
    <3>3. \A s \in slot' : s.owner # q
      BY <2>1, <2>2, <2>3, <2>5, <3>2 DEF SlotsOf
    <3>4. TimesGiven(q)' = {}
      BY <3>3, TimesAreSlotsPrime
    <3>. QED
      BY <2>5, <3>4 DEF Seated
  <2>6. CASE q \notin Members(g)
    <3>1. \A s \in SlotsOf(g) : s.owner # q
      BY <2>6, TimesInGroup DEF SlotsOf, Members
    <3>2. \A s : s.owner = q => (s \in slot' <=> s \in slot)
      BY <2>1, <2>2, <2>3, <2>6, <3>1 DEF SlotsOf
    <3>. QED
      BY <3>2, SameTimes
  <2>. QED
    BY <2>4, <2>5, <2>6
<1>. QED
  BY <1>1, <1>2

LEMMA RemoveGroupTimes ==
  ASSUME TimetableInv, NEW g \in GIds, RemoveGroup(g), NEW q \in RIds
  PROVE  TimesGiven(q)' = IF rsv[q].group = g THEN {} ELSE TimesGiven(q)
<1>1. slot' = slot \ SlotsOf(g)
  BY DEF RemoveGroup
<1>2. CASE rsv[q].group = g
  <2>1. \A s \in slot' : s.owner # q
    BY <1>1, <1>2, TimesInGroup DEF SlotsOf
  <2>. QED
    BY <1>2, <2>1, TimesAreSlotsPrime
<1>3. CASE rsv[q].group # g
  <2>1. \A s \in SlotsOf(g) : s.owner # q
    BY <1>3, TimesInGroup DEF SlotsOf
  <2>2. \A s : s.owner = q => (s \in slot' <=> s \in slot)
    BY <1>1, <2>1
  <2>. QED
    BY <1>3, <2>2, SameTimes
<1>. QED
  BY <1>2, <1>3

LEMMA AddMemberTimes ==
  ASSUME TimetableInv, NEW g \in GIds, NEW r \in RIds, NEW slots \in SUBSET Ranges,
         AddMember(g, r, slots), NEW q \in RIds
  PROVE  TimesGiven(q)' = IF q = r THEN slots ELSE TimesGiven(q)
<1>1. slot' = (slot \ Anchors(g)) \cup NewSlots(g, r, slots) /\ rsv[r].group = Null
  BY DEF AddMember
<1>2. CASE q = r
  <2>1. \A s \in slot \ Anchors(g) : s.owner # q
    BY <1>1, <1>2, TimesInGroup
  <2>. QED
    BY <1>1, <1>2, <2>1, GivenTimes
<1>3. CASE q # r
  <2>1. q # Null
    BY IdsAreDisjoint
  <2>2. \A s : s.owner = q => (s \in slot' <=> s \in slot)
    BY <1>1, <1>3, <2>1 DEF Anchors, NewSlots
  <2>. QED
    BY <1>3, <2>2, SameTimes
<1>. QED
  BY <1>2, <1>3

LEMMA ReplaceMemberSlotsTimes ==
  ASSUME TimetableInv, NEW g \in GIds, NEW r \in RIds, NEW slots \in SUBSET Ranges,
         ReplaceMemberSlots(g, r, slots), NEW q \in RIds
  PROVE  TimesGiven(q)' = IF q = r THEN slots ELSE TimesGiven(q)
<1>1. slot' = (slot \ OwnedBy(g, r)) \cup NewSlots(g, r, slots) /\ rsv[r].group = g
  BY DEF ReplaceMemberSlots, Seated
<1>2. CASE q = r
  <2>1. \A s \in slot \ OwnedBy(g, r) : s.owner # q
    BY <1>1, <1>2, TimesInGroup DEF OwnedBy
  <2>. QED
    BY <1>1, <1>2, <2>1, GivenTimes
<1>3. CASE q # r
  <2>1. \A s : s.owner = q => (s \in slot' <=> s \in slot)
    BY <1>1, <1>3 DEF OwnedBy, NewSlots
  <2>. QED
    BY <1>3, <2>1, SameTimes
<1>. QED
  BY <1>2, <1>3

\* Leaving changes nobody's times but the leaver's.
LEMMA VacatedTimes ==
  ASSUME TimetableInv, NEW g \in GIds, NEW r \in RIds, rsv[r].group = g, NEW q \in RIds
  PROVE  /\ q = r => \A s \in Vacated(g, r) : s.owner # q
         /\ q # r => \A s : s.owner = q => (s \in Vacated(g, r) <=> s \in slot)
<1>1. q # Null
  BY IdsAreDisjoint
<1>2. \A s \in Vacated(g, r) : s.owner # r /\ (s \in slot \/ s.owner = Null)
  BY VacatedSlots
<1>3. \A s \in slot : s.owner # r => s \in Vacated(g, r)
  BY DEF Vacated, OwnedBy
<1>. QED
  BY <1>1, <1>2, <1>3

LEMMA MoveMemberTimes ==
  ASSUME TimetableInv, NEW g \in GIds, NEW target \in GIds, NEW r \in RIds,
         NEW slots \in SUBSET Ranges, MoveMember(g, target, r, slots), NEW q \in RIds
  PROVE  TimesGiven(q)' = IF q = r THEN slots ELSE TimesGiven(q)
<1>1. /\ slot' = (Vacated(g, r) \ Anchors(target)) \cup NewSlots(target, r, slots)
      /\ rsv[r].group = g
  BY DEF MoveMember, Seated
<1>2. CASE q = r
  <2>1. \A s \in Vacated(g, r) \ Anchors(target) : s.owner # q
    BY <1>1, <1>2, VacatedTimes
  <2>. QED
    BY <1>1, <1>2, <2>1, GivenTimes
<1>3. CASE q # r
  <2>1. q # Null
    BY IdsAreDisjoint
  <2>2. \A s : s.owner = q => (s \in Vacated(g, r) <=> s \in slot)
    BY <1>1, <1>3, VacatedTimes
  <2>3. \A s : s.owner = q => (s \in slot' <=> s \in slot)
    BY <1>1, <1>3, <2>1, <2>2 DEF Anchors, NewSlots
  <2>. QED
    BY <1>3, <2>3, SameTimes
<1>. QED
  BY <1>2, <1>3

LEMMA RemoveMemberTimes ==
  ASSUME TimetableInv, NEW g \in GIds, NEW r \in RIds, RemoveMember(g, r), NEW q \in RIds
  PROVE  TimesGiven(q)' = IF q = r THEN {} ELSE TimesGiven(q)
<1>1. slot' = Vacated(g, r) /\ rsv[r].group = g
  BY DEF RemoveMember, Seated
<1>2. CASE q = r
  BY <1>1, <1>2, VacatedTimes, TimesAreSlotsPrime
<1>3. CASE q # r
  <2>1. \A s : s.owner = q => (s \in slot' <=> s \in slot)
    BY <1>1, <1>3, VacatedTimes
  <2>. QED
    BY <1>3, <2>1, SameTimes
<1>. QED
  BY <1>2, <1>3

LEMMA RemoveReservationTimes ==
  ASSUME NEW r \in RIds, RemoveReservation(r), NEW q \in RIds
  PROVE  TimesGiven(q)' = IF q = r THEN {} ELSE TimesGiven(q)
<1>1. slot' = {s \in slot : s.owner # r}
  BY DEF RemoveReservation
<1>2. CASE q = r
  BY <1>1, <1>2, TimesAreSlotsPrime
<1>3. CASE q # r
  BY <1>1, <1>3, SameTimes
<1>. QED
  BY <1>2, <1>3

-----------------------------------------------------------------------------
(* Contiguous times.                                                       *)

LEMMA NoGapsInOne ==
  ASSUME NEW x \in Ranges
  PROVE  NoGaps({x})
<1>1. x.start \in Nat
  BY RangesAreValid DEF IsRange
<1>. QED
  BY <1>1 DEF NoGaps

LEMMA NoGapsInNone == NoGaps({})
BY DEF NoGaps

LEMMA ContiguousStep ==
  ASSUME TimetableInv, [Next]_vars, NEW q \in RIds, NoGaps(TimesGiven(q))
  PROVE  NoGaps(TimesGiven(q)')
<1>1. CASE Apply \/ Edit \/ UNCHANGED vars
  <2>1. slot' = slot
    BY <1>1 DEF Apply, CreateReservation, CreateWalkIn, Edit, UpdateReservation, vars
  <2>. QED
    BY <2>1, SameTimes
<1>2. CASE Withdraw
  <2>1. ASSUME NEW r \in RIds, RemoveReservation(r)
        PROVE  NoGaps(TimesGiven(q)')
    BY <2>1, RemoveReservationTimes, NoGapsInNone
  <2>2. ASSUME NEW c \in Children, RemoveChild(c)
        PROVE  NoGaps(TimesGiven(q)')
    <3>1. slot' = slot
      BY <2>2 DEF RemoveChild
    <3>. QED
      BY <3>1, SameTimes
  <2>. QED
    BY <1>2, <2>1, <2>2 DEF Withdraw
<1>3. ASSUME NEW g \in GIds, NEW capacity, NEW minAge, NEW maxAge,
             NEW sched \in Ranges \cup {Null}, NEW ids \in SUBSET RIds,
             NEW assign \in [ids -> SUBSET Ranges],
             CreateGroup(g, assign, capacity, minAge, maxAge, sched)
      PROVE  NoGaps(TimesGiven(q)')
  <2>1. TimesGiven(q)' = IF q \in ids THEN assign[q] ELSE TimesGiven(q)
    BY <1>3, CreateGroupTimes
  <2>2. \A r \in ids : NoGaps(assign[r])
    BY <1>3 DEF CreateGroup, AcceptsGroup
  <2>. QED
    BY <2>1, <2>2
<1>4. ASSUME NEW g \in GIds, NEW capacity, NEW minAge, NEW maxAge,
             NEW sched \in Ranges \cup {Null},
             UpdateGroup(g, capacity, minAge, maxAge, sched)
      PROVE  NoGaps(TimesGiven(q)')
  <2>1. \/ TimesGiven(q)' = TimesGiven(q)
        \/ TimesGiven(q)' = {}
        \/ TimesGiven(q)' = {sched} /\ sched \in Ranges
    BY <1>4, UpdateGroupTimes
  <2>. QED
    BY <2>1, NoGapsInNone, NoGapsInOne
<1>5. ASSUME NEW g \in GIds, RemoveGroup(g)
      PROVE  NoGaps(TimesGiven(q)')
  BY <1>5, RemoveGroupTimes, NoGapsInNone
<1>6. ASSUME NEW g \in GIds, NEW r \in RIds, NEW slots \in SUBSET Ranges,
             AddMember(g, r, slots) \/ ReplaceMemberSlots(g, r, slots)
      PROVE  NoGaps(TimesGiven(q)')
  <2>1. NoGaps(slots)
    BY <1>6 DEF AddMember, ReplaceMemberSlots
  <2>. QED
    BY <1>6, <2>1, AddMemberTimes, ReplaceMemberSlotsTimes
<1>7. ASSUME NEW g \in GIds, NEW target \in GIds, NEW r \in RIds,
             NEW slots \in SUBSET Ranges, MoveMember(g, target, r, slots)
      PROVE  NoGaps(TimesGiven(q)')
  <2>1. NoGaps(slots)
    BY <1>7 DEF MoveMember
  <2>. QED
    BY <1>7, <2>1, MoveMemberTimes
<1>8. ASSUME NEW g \in GIds, NEW r \in RIds, RemoveMember(g, r)
      PROVE  NoGaps(TimesGiven(q)')
  BY <1>8, RemoveMemberTimes, NoGapsInNone
<1>9. CASE Lifecycle
  BY <1>3, <1>4, <1>5, <1>9 DEF Lifecycle
<1>10. CASE Membership
  BY <1>6, <1>7, <1>8, <1>10 DEF Membership
<1>. QED
  BY <1>1, <1>2, <1>9, <1>10 DEF Next

\* No operation leaves a member with a gap or an overlap in its day, schedule
\* changes and moves included.
THEOREM MembersStayContiguous == Spec => []MemberSlotsContiguous
<1>1. MemberSlotsContiguous <=> \A r \in RIds : NoGaps(TimesGiven(r))
  BY DEF MemberSlotsContiguous, TimesGiven
<1>2. Init => MemberSlotsContiguous
  <2>1. Init => \A r \in RIds : TimesGiven(r) = {}
    BY DEF Init, TimesGiven
  <2>. QED
    BY <1>1, <2>1, NoGapsInNone
<1>3. TimetableInv /\ MemberSlotsContiguous /\ [Next]_vars => MemberSlotsContiguous'
  <2> SUFFICES ASSUME TimetableInv, MemberSlotsContiguous, [Next]_vars, NEW q \in RIds
               PROVE  NoGaps(TimesGiven(q)')
    BY DEF MemberSlotsContiguous, TimesGiven
  <2>. QED
    BY <1>1, ContiguousStep
<1>. QED
  BY <1>2, <1>3, TimetableInductive, PTL DEF Spec

-----------------------------------------------------------------------------
(* Without the PATCH: who is GROUPED sits in a group, has a place there and *)
(* got it within the times it asked for.  A row and its times are enough to *)
(* say so, because a member's slots are all in its group (TimetableInv).    *)

Placed(row, times) ==
  /\ row.status = "GROUPED" <=> row.group # Null
  /\ row.group # Null => times # {}
  /\ WithinPreferred(times, row.prefs)

PlacedInv == \A r \in RIds : Placed(rsv[r], TimesGiven(r))

\* A row that keeps its status, its group and its wishes, and its times.
LEMMA StaysPlaced ==
  ASSUME PlacedInv, NEW q \in RIds,
         rsv'[q].status = rsv[q].status, rsv'[q].group = rsv[q].group,
         rsv'[q].prefs = rsv[q].prefs, TimesGiven(q)' = TimesGiven(q)
  PROVE  Placed(rsv'[q], TimesGiven(q)')
BY DEF PlacedInv, Placed

\* A row that sits nowhere and has no times.
LEMMA Unplaced ==
  ASSUME NEW row, row.status # "GROUPED", row.group = Null
  PROVE  Placed(row, {})
BY DEF Placed, WithinPreferred

LEMMA CoversItself ==
  ASSUME NEW R \in SUBSET Ranges
  PROVE  WithinPreferred(R, R)
<1>1. \A x \in R : x.start \in Nat /\ x.end \in Nat
  BY RangesAreValid DEF IsRange
<1>. QED
  BY <1>1 DEF WithinPreferred, Covers

LEMMA ApplyPlaced ==
  ASSUME TimetableInv, PlacedInv, Apply, NEW q \in RIds
  PROVE  Placed(rsv'[q], TimesGiven(q)')
<1>1. PICK r \in RIds : /\ rsv[r].status = "NONE" /\ slot' = slot
                        /\ rsv'[r].status = "WAITING" /\ rsv'[r].group = Null
                        /\ \A p \in RIds : p # r => rsv'[p] = rsv[p]
  BY DEF Apply, CreateReservation, CreateWalkIn, TimetableInv, TypeOK
<1>2. TimesGiven(q)' = TimesGiven(q)
  BY <1>1, SameTimes
<1>3. CASE q = r
  <2>1. rsv[q].group = Null
    BY <1>1, <1>3 DEF TimetableInv, AbsentSitsNowhere
  <2>2. TimesGiven(q) = {}
    BY <2>1, TimesInGroup, TimesAreSlots
  <2>. QED
    BY <1>1, <1>2, <1>3, <2>2, Unplaced
<1>4. CASE q # r
  BY <1>1, <1>2, <1>4, StaysPlaced
<1>. QED
  BY <1>3, <1>4

LEMMA WithdrawPlaced ==
  ASSUME TimetableInv, PlacedInv, Withdraw, NEW q \in RIds
  PROVE  Placed(rsv'[q], TimesGiven(q)')
<1>1. ASSUME NEW r \in RIds, RemoveReservation(r)
      PROVE  Placed(rsv'[q], TimesGiven(q)')
  <2>1. TimesGiven(q)' = IF q = r THEN {} ELSE TimesGiven(q)
    BY <1>1, RemoveReservationTimes
  <2>2. /\ rsv'[r].status # "GROUPED" /\ rsv'[r].group = Null
        /\ q # r => rsv'[q] = rsv[q]
    BY <1>1 DEF RemoveReservation, NoReservation, TimetableInv, TypeOK
  <2>. QED
    BY <2>1, <2>2, StaysPlaced, Unplaced
<1>2. ASSUME NEW c \in Children, RemoveChild(c)
      PROVE  Placed(rsv'[q], TimesGiven(q)')
  <2>1. /\ rsv'[q].status = rsv[q].status /\ rsv'[q].group = rsv[q].group
        /\ rsv'[q].prefs = rsv[q].prefs /\ slot' = slot
    BY <1>2 DEF RemoveChild, TimetableInv, TypeOK, Row
  <2>. QED
    BY <2>1, SameTimes, StaysPlaced
<1>. QED
  BY <1>1, <1>2 DEF Withdraw

LEMMA CreateGroupPlaced ==
  ASSUME TimetableInv, PlacedInv, NEW g \in GIds, NEW capacity, NEW minAge, NEW maxAge,
         NEW sched \in Ranges \cup {Null}, NEW ids \in SUBSET RIds,
         NEW assign \in [ids -> SUBSET Ranges],
         CreateGroup(g, assign, capacity, minAge, maxAge, sched), NEW q \in RIds
  PROVE  Placed(rsv'[q], TimesGiven(q)')
<1>1. TimesGiven(q)' = IF q \in ids THEN assign[q] ELSE TimesGiven(q)
  BY CreateGroupTimes
<1>2. DOMAIN assign = ids /\ rsv[q] \in Row /\ g # Null
  BY IdsAreDisjoint DEF TimetableInv, TypeOK
<1>3. rsv'[q] =
        IF q \in ids THEN [rsv[q] EXCEPT !.status = "GROUPED", !.group = g] ELSE rsv[q]
  BY <1>2 DEF CreateGroup, AcceptsGroup
<1>4. CASE q \in ids
  <2>1. assign[q] # {} /\ WithinPreferred(assign[q], rsv[q].prefs)
    BY <1>2, <1>4 DEF CreateGroup, AcceptsGroup
  <2>2. rsv'[q].status = "GROUPED" /\ rsv'[q].group = g /\ rsv'[q].prefs = rsv[q].prefs
    BY <1>2, <1>3, <1>4 DEF Row
  <2>. QED
    BY <1>1, <1>2, <1>4, <2>1, <2>2 DEF Placed
<1>5. CASE q \notin ids
  BY <1>1, <1>3, <1>5, StaysPlaced
<1>. QED
  BY <1>4, <1>5

LEMMA LifecyclePlaced ==
  ASSUME TimetableInv, PlacedInv, Lifecycle, NEW q \in RIds
  PROVE  Placed(rsv'[q], TimesGiven(q)')
<1>1. ASSUME NEW g \in GIds, NEW capacity, NEW minAge, NEW maxAge,
             NEW sched \in Ranges \cup {Null},
             UpdateGroup(g, capacity, minAge, maxAge, sched)
      PROVE  Placed(rsv'[q], TimesGiven(q)')
  <2>1. rsv' = rsv
    BY <1>1 DEF UpdateGroup
  <2>2. CASE TimesGiven(q)' = TimesGiven(q)
    BY <2>1, <2>2, StaysPlaced
  <2>3. CASE ~Seated(q, g) /\ q \in Members(g)
    <3>1. g # Null
      BY IdsAreDisjoint
    <3>. QED
      BY <2>3, <3>1 DEF PlacedInv, Placed, Seated, Members
  <2>4. CASE TimesGiven(q)' = {sched} /\ WithinPreferred({sched}, rsv[q].prefs)
    BY <2>1, <2>4 DEF PlacedInv, Placed
  <2>5. \/ TimesGiven(q)' = TimesGiven(q)
        \/ TimesGiven(q)' = {} /\ ~Seated(q, g) /\ q \in Members(g)
        \/ TimesGiven(q)' = {sched} /\ sched \in Ranges /\ WithinPreferred({sched}, rsv[q].prefs)
    BY <1>1, UpdateGroupTimes, Zenon
  <2>. QED
    BY <2>2, <2>3, <2>4, <2>5
<1>2. ASSUME NEW g \in GIds, RemoveGroup(g)
      PROVE  Placed(rsv'[q], TimesGiven(q)')
  <2>1. TimesGiven(q)' = IF rsv[q].group = g THEN {} ELSE TimesGiven(q)
    BY <1>2, RemoveGroupTimes
  <2>2. rsv[q] \in Row
    BY DEF TimetableInv, TypeOK
  <2>3. CASE rsv[q].group = g
    <3>1. rsv'[q].status = "WAITING" /\ rsv'[q].group = Null
      BY <1>2, <2>2, <2>3 DEF RemoveGroup, Row
    <3>. QED
      BY <2>1, <2>3, <3>1, Unplaced
  <2>4. CASE rsv[q].group # g
    <3>1. /\ rsv'[q].status = rsv[q].status /\ rsv'[q].group = rsv[q].group
          /\ rsv'[q].prefs = rsv[q].prefs
      BY <1>2, <2>2, <2>4 DEF RemoveGroup, Row
    <3>. QED
      BY <2>1, <2>4, <3>1, StaysPlaced
  <2>. QED
    BY <2>3, <2>4
<1>. QED
  BY <1>1, <1>2, CreateGroupPlaced DEF Lifecycle

LEMMA MembershipPlaced ==
  ASSUME TimetableInv, PlacedInv, Membership, NEW q \in RIds
  PROVE  Placed(rsv'[q], TimesGiven(q)')
<1>1. /\ \A p \in RIds : rsv[p] \in Row
      /\ Null \notin GIds
  BY IdsAreDisjoint DEF TimetableInv, TypeOK
<1>2. ASSUME NEW g \in GIds, NEW r \in RIds, NEW slots \in SUBSET Ranges,
             AddMember(g, r, slots)
      PROVE  Placed(rsv'[q], TimesGiven(q)')
  <2>1. TimesGiven(q)' = IF q = r THEN slots ELSE TimesGiven(q)
    BY <1>2, AddMemberTimes
  <2>2. slots # {} /\ WithinPreferred(slots, rsv[r].prefs)
    BY <1>2 DEF AddMember, IsWholeSchedule
  <2>3. /\ rsv'[r].status = "GROUPED" /\ rsv'[r].group = g /\ rsv'[r].prefs = rsv[r].prefs
        /\ q # r => rsv'[q] = rsv[q]
    BY <1>1, <1>2 DEF AddMember, TimetableInv, TypeOK, Row
  <2>4. CASE q = r
    BY <1>1, <2>1, <2>2, <2>3, <2>4 DEF Placed
  <2>5. CASE q # r
    BY <2>1, <2>3, <2>5, StaysPlaced
  <2>. QED
    BY <2>4, <2>5
<1>3. ASSUME NEW g \in GIds, NEW r \in RIds, NEW slots \in SUBSET Ranges,
             ReplaceMemberSlots(g, r, slots)
      PROVE  Placed(rsv'[q], TimesGiven(q)')
  <2>1. TimesGiven(q)' = IF q = r THEN slots ELSE TimesGiven(q)
    BY <1>3, ReplaceMemberSlotsTimes
  <2>2. slots # {} /\ WithinPreferred(slots, rsv[r].prefs) /\ rsv' = rsv
    BY <1>3 DEF ReplaceMemberSlots, IsWholeSchedule
  <2>3. CASE q = r
    BY <2>1, <2>2, <2>3 DEF Placed, PlacedInv
  <2>4. CASE q # r
    BY <2>1, <2>2, <2>4, StaysPlaced
  <2>. QED
    BY <2>3, <2>4
<1>4. ASSUME NEW g \in GIds, NEW target \in GIds, NEW r \in RIds,
             NEW slots \in SUBSET Ranges, MoveMember(g, target, r, slots)
      PROVE  Placed(rsv'[q], TimesGiven(q)')
  <2>1. TimesGiven(q)' = IF q = r THEN slots ELSE TimesGiven(q)
    BY <1>4, MoveMemberTimes
  <2>2. slots # {} /\ WithinPreferred(slots, slots)
    BY <1>4, CoversItself DEF MoveMember
  <2>3. /\ rsv'[r].status = "GROUPED" /\ rsv'[r].group = target /\ rsv'[r].prefs = slots
        /\ q # r => rsv'[q] = rsv[q]
    BY <1>1, <1>4 DEF MoveMember, Seated, TimetableInv, TypeOK, Row
  <2>4. CASE q = r
    BY <1>1, <2>1, <2>2, <2>3, <2>4 DEF Placed
  <2>5. CASE q # r
    BY <2>1, <2>3, <2>5, StaysPlaced
  <2>. QED
    BY <2>4, <2>5
<1>5. ASSUME NEW g \in GIds, NEW r \in RIds, RemoveMember(g, r)
      PROVE  Placed(rsv'[q], TimesGiven(q)')
  <2>1. TimesGiven(q)' = IF q = r THEN {} ELSE TimesGiven(q)
    BY <1>5, RemoveMemberTimes
  <2>2. /\ rsv'[r].status = "WAITING" /\ rsv'[r].group = Null
        /\ q # r => rsv'[q] = rsv[q]
    BY <1>1, <1>5 DEF RemoveMember, TimetableInv, TypeOK, Row
  <2>. QED
    BY <2>1, <2>2, StaysPlaced, Unplaced
<1>. QED
  BY <1>2, <1>3, <1>4, <1>5 DEF Membership

\* In an empty database every row is unplaced.
LEMMA InitPlaced == Init => PlacedInv
<1> SUFFICES ASSUME Init, NEW r \in RIds
             PROVE  Placed(rsv[r], TimesGiven(r))
  BY DEF PlacedInv
<1>1. TimesGiven(r) = {}
  BY DEF Init, TimesGiven
<1>2. rsv[r].status # "GROUPED" /\ rsv[r].group = Null
  BY DEF Init, NoReservation
<1>. QED
  BY <1>1, <1>2, Unplaced

\* Without the PATCH every reservation is placed or unplaced as a whole.
THEOREM PlacedInductive == SpecUnedited => [](TimetableInv /\ PlacedInv)
<1>1. TimetableInv /\ PlacedInv /\ [NextUnedited]_vars => (TimetableInv /\ PlacedInv)'
  <2> SUFFICES ASSUME TimetableInv, PlacedInv, [NextUnedited]_vars
               PROVE  TimetableInv' /\ PlacedInv'
    OBVIOUS
  <2>1. TimetableInv'
    BY StepTimetable DEF NextUnedited, Next
  <2>2. ASSUME NEW q \in RIds
        PROVE  Placed(rsv'[q], TimesGiven(q)')
    <3>1. CASE UNCHANGED vars
      <4>1. slot' = slot /\ rsv' = rsv
        BY <3>1 DEF vars
      <4>. QED
        BY <4>1, SameTimes, StaysPlaced
    <3>. QED
      BY <3>1, ApplyPlaced, WithdrawPlaced, LifecyclePlaced, MembershipPlaced
      DEF NextUnedited
  <2>. QED
    BY <2>1, <2>2 DEF PlacedInv
<1>. QED
  BY InitTimetable, InitPlaced, <1>1, PTL DEF SpecUnedited

\* A placed row that names a group has a slot in that very group.
LEMMA PlacedAreSeated == TimetableInv /\ PlacedInv => GroupedIffSeated
<1> SUFFICES ASSUME TimetableInv, PlacedInv, NEW r \in RIds
             PROVE  /\ rsv[r].status = "GROUPED" <=> rsv[r].group # Null
                    /\ rsv[r].group # Null => OwnedBy(rsv[r].group, r) # {}
  BY DEF GroupedIffSeated
<1>1. Placed(rsv[r], TimesGiven(r))
  BY DEF PlacedInv
<1>2. ASSUME rsv[r].group # Null
      PROVE  OwnedBy(rsv[r].group, r) # {}
  <2>1. PICK s \in slot : s.owner = r
    BY <1>1, <1>2 DEF Placed, TimesGiven
  <2>2. s.group = rsv[r].group
    BY <2>1, TimesInGroup
  <2>. QED
    BY <2>1, <2>2 DEF OwnedBy
<1>. QED
  BY <1>1, <1>2 DEF Placed

\* Without the PATCH, GROUPED means seated, with a place in that very group.
THEOREM GroupedAlwaysSeated == SpecUnedited => []GroupedIffSeated
BY PlacedAreSeated, PlacedInductive, PTL

\* Placed rows have no times outside their wishes.
LEMMA PlacedWithinWishes == TimetableInv /\ PlacedInv => SlotsWithinPreferences
<1> SUFFICES ASSUME TimetableInv, PlacedInv, NEW s \in slot, s.owner # Null
             PROVE  WithinPreferred({s.range}, rsv[s.owner].prefs)
  BY DEF SlotsWithinPreferences
<1>1. s.owner \in RIds
  BY DEF TimetableInv, TypeOK
<1>2. s.range \in TimesGiven(s.owner)
  BY DEF TimesGiven
<1>3. WithinPreferred(TimesGiven(s.owner), rsv[s.owner].prefs)
  BY <1>1 DEF PlacedInv, Placed
<1>. QED
  BY <1>2, <1>3 DEF WithinPreferred

\* Without the PATCH, nobody is put at a time its parent did not ask for: joins
\* and replacements are checked, a schedule change asks every member, and a move
\* rewrites the wishes themselves.
THEOREM SlotsStayWithinPreferences == SpecUnedited => []SlotsWithinPreferences
BY PlacedWithinWishes, PlacedInductive, PTL

-----------------------------------------------------------------------------
(* What a step may never do: the group services and the times of a group    *)
(* they empty, and the ages of the members of a group.                      *)

\* Taking the last member out keeps the times: its slots become anchors.
LEMMA VacatedKeepsRanges ==
  ASSUME TimetableInv, NEW g \in GIds, NEW r \in RIds, Members(g) = {r}
  PROVE  {s.range : s \in {t \in Vacated(g, r) : t.group = g}} = RangesOf(g)
<1>1. rsv[r].group = g
  BY DEF Members
<1>2. ASSUME NEW s \in Vacated(g, r), s.group = g  PROVE s.range \in RangesOf(g)
  <2>1. \E t \in slot : t.group = s.group /\ t.range = s.range
    BY <1>1, VacatedSlots
  <2> QED
    BY <1>2, <2>1 DEF RangesOf, SlotsOf
<1>3. ASSUME NEW s \in SlotsOf(g)
      PROVE  \E t \in Vacated(g, r) : t.group = g /\ t.range = s.range
  <2>1. s \in slot /\ s.group = g
        /\ s \in [group: GIds, owner: RIds \cup {Null}, range: Ranges]
    BY DEF SlotsOf, TimetableInv, TypeOK
  <2>2. CASE s \in OwnedBy(g, r)
    <3> DEFINE a == [s EXCEPT !.owner = Null]
    <3>1. a \in Vacated(g, r)
      BY <2>2 DEF Vacated
    <3>2. a.group = g /\ a.range = s.range
      BY <2>1
    <3> QED
      BY <3>1, <3>2
  <2>3. CASE s \notin OwnedBy(g, r)
    BY <2>1, <2>3 DEF Vacated
  <2> QED
    BY <2>2, <2>3
<1> QED
  BY <1>2, <1>3 DEF RangesOf

\* One group, and what keeps a member of it.
Deserted(g) ==
  /\ Live(g) /\ Live(g)'
  /\ Members(g) # {} /\ Members(g)' = {}
  /\ \A r \in Members(g) : Exists(r)'

LEMMA DesertedLosesAll ==
  ASSUME NEW g \in GIds, Deserted(g), NEW r \in Members(g)
  PROVE  r \in RIds /\ rsv[r].group = g /\ rsv'[r].group # g /\ rsv'[r].status # "NONE"
BY DEF Deserted, Members, Exists

\* The PATCH never touches the group column.
LEMMA EditSeatsNobody ==
  ASSUME rsv \in [RIds -> Row], NEW q \in RIds, NEW status, NEW age, NEW prefs, NEW wants,
         NEW c, UpdateReservation(q, status, age, prefs, wants, c), NEW r \in RIds
  PROVE  rsv'[r].group = rsv[r].group
<1>1. Edited(rsv[q], status, age, prefs, wants, c).group = rsv[q].group
  <2>1. rsv[q] \in Row
    OBVIOUS
  <2> QED
    BY <2>1 DEF Edited, Row
<1>2. CASE r = q
  BY <1>1, <1>2 DEF UpdateReservation
<1>3. CASE r # q
  BY <1>3 DEF UpdateReservation
<1> QED
  BY <1>2, <1>3

LEMMA OthersNeverDesert ==
  ASSUME TimetableInv, Apply \/ Edit \/ Withdraw \/ Lifecycle, NEW g \in GIds
  PROVE  ~Deserted(g)
<1> SUFFICES ASSUME Deserted(g) PROVE FALSE
  OBVIOUS
<1> PICK m \in Members(g) : TRUE
  BY DEF Deserted
<1>0. m \in RIds /\ rsv[m].group = g /\ rsv'[m].group # g /\ rsv'[m].status # "NONE"
  BY DesertedLosesAll
<1>n. g # Null /\ rsv \in [RIds -> Row] /\ rsv[m].status # "NONE"
  BY <1>0, IdsAreDisjoint DEF TimetableInv, TypeOK, AbsentSitsNowhere
<1>1. CASE Apply
  BY <1>0, <1>n, <1>1 DEF Apply, CreateReservation, CreateWalkIn
<1>2. CASE Edit
  BY <1>0, <1>n, <1>2, EditSeatsNobody DEF Edit
<1>3. CASE Withdraw
  BY <1>0, <1>n, <1>3 DEF Withdraw, RemoveReservation, RemoveChild, NoReservation, Row
<1>4. ASSUME NEW h \in GIds, RemoveGroup(h) PROVE FALSE
  <2>1. CASE h = g
    <3>1. ~Live(g)'
      BY <1>4, <2>1 DEF RemoveGroup, Live, NoGroup, GroupStatus, TimetableInv, TypeOK
    <3> QED
      BY <3>1 DEF Deserted
  <2>2. CASE h # g
    BY <1>0, <1>n, <1>4, <2>2 DEF RemoveGroup, Row
  <2> QED
    BY <2>1, <2>2
<1>5. ASSUME NEW h \in GIds, NEW minAge, NEW maxAge, NEW sched, NEW capacity,
             UpdateGroup(h, capacity, minAge, maxAge, sched)
      PROVE  FALSE
  BY <1>0, <1>5 DEF UpdateGroup
<1>6. ASSUME NEW h \in GIds, NEW minAge, NEW maxAge, NEW sched, NEW capacity,
             NEW ids \in SUBSET RIds, NEW assign \in [ids -> SUBSET Ranges],
             CreateGroup(h, assign, capacity, minAge, maxAge, sched)
      PROVE  FALSE
  <2>1. m \notin DOMAIN assign
    BY <1>0, <1>n, <1>6 DEF CreateGroup, AcceptsGroup
  <2>2. rsv'[m] = rsv[m]
    BY <1>0, <1>6, <2>1 DEF CreateGroup, AcceptsGroup
  <2> QED
    BY <1>0, <2>2
<1>7. CASE Lifecycle
  BY <1>4, <1>5, <1>6, <1>7 DEF Lifecycle
<1> QED
  BY <1>1, <1>2, <1>3, <1>7

LEMMA MembershipVacates ==
  ASSUME TimetableInv, Membership, NEW g \in GIds, Deserted(g)
  PROVE  grp'[g].status = "EMPTY" /\ RangesOf(g)' = RangesOf(g)
<1> DEFINE Goal == grp'[g].status = "EMPTY" /\ RangesOf(g)' = RangesOf(g)
<1>n. rsv \in [RIds -> Row] /\ grp \in [GIds -> GroupRow]
  BY DEF TimetableInv, TypeOK
<1>0. ASSUME NEW q \in RIds, \A p \in RIds : p # q => rsv'[p] = rsv[p]
      PROVE  Members(g) = {q}
  <2>1. ASSUME NEW p \in Members(g) PROVE p = q
    BY <1>0, DesertedLosesAll
  <2> QED
    BY <2>1 DEF Deserted
<1>1. ASSUME NEW h \in GIds, NEW r \in RIds, RemoveMember(h, r) PROVE Goal
  <2>0. \A p \in RIds : p # r => rsv'[p] = rsv[p]
    BY <1>n, <1>1 DEF RemoveMember
  <2>1. Members(g) = {r} /\ rsv[r].group = g
    BY <1>0, <2>0 DEF Members
  <2>2. h = g
    BY <1>1, <2>1 DEF RemoveMember, Seated
  <2>3. grp'[g].status = "EMPTY"
    BY <1>n, <1>1, <2>1, <2>2 DEF RemoveMember, GroupRow
  <2>4. RangesOf(g)' = {s.range : s \in {t \in Vacated(g, r) : t.group = g}}
    BY <1>1, <2>2 DEF RemoveMember, RangesOf, SlotsOf
  <2> QED
    BY <2>1, <2>3, <2>4, VacatedKeepsRanges
<1>2. ASSUME NEW h \in GIds, NEW r \in RIds, NEW slots, AddMember(h, r, slots) PROVE FALSE
  <2>0. \A p \in RIds : p # r => rsv'[p] = rsv[p]
    BY <1>n, <1>2 DEF AddMember
  <2>1. Members(g) = {r} /\ rsv[r].group = g
    BY <1>0, <2>0 DEF Members
  <2> QED
    BY <1>2, <2>1, IdsAreDisjoint DEF AddMember
<1>3. ASSUME NEW h \in GIds, NEW r \in RIds, NEW slots, ReplaceMemberSlots(h, r, slots)
      PROVE  FALSE
  BY <1>3 DEF ReplaceMemberSlots, Deserted, Members
<1>4. ASSUME NEW h \in GIds, NEW r \in RIds, NEW slots, NEW target \in GIds,
             MoveMember(h, target, r, slots)
      PROVE  Goal
  <2>0. \A p \in RIds : p # r => rsv'[p] = rsv[p]
    BY <1>n, <1>4 DEF MoveMember
  <2>1. Members(g) = {r} /\ rsv[r].group = g
    BY <1>0, <2>0 DEF Members
  <2>2. h = g /\ target # g
    BY <1>4, <2>1 DEF MoveMember, Seated
  <2>3. grp'[g].status = "EMPTY"
    BY <1>n, <1>4, <2>1, <2>2 DEF MoveMember, GroupRow
  <2>4. {t \in slot' : t.group = g} = {t \in Vacated(g, r) : t.group = g}
    BY <1>4, <2>2 DEF MoveMember, NewSlots, Anchors
  <2>5. RangesOf(g)' = {s.range : s \in {t \in Vacated(g, r) : t.group = g}}
    BY <2>4 DEF RangesOf, SlotsOf
  <2> QED
    BY <2>1, <2>3, <2>5, VacatedKeepsRanges
<1> QED
  BY <1>1, <1>2, <1>3, <1>4 DEF Membership

\* When the group services take the last member out, by removal or by a move, the
\* group is EMPTY and keeps its times (vacateMemberSlots), whatever happened
\* before.
THEOREM VacancyAlwaysKeepsTimetable == Spec => VacancyKeepsTimetable
<1>1. ASSUME TimetableInv, [Next]_vars, NEW g \in GIds, Deserted(g)
      PROVE  grp'[g].status = "EMPTY" /\ RangesOf(g)' = RangesOf(g)
  <2>1. CASE UNCHANGED vars
    BY <1>1, <2>1 DEF vars, Deserted, Members
  <2>2. CASE Next
    BY <1>1, <2>2, OthersNeverDesert, MembershipVacates DEF Next
  <2> QED
    BY <1>1, <2>1, <2>2
<1>2. TimetableInv /\ [Next]_vars =>
        \A g \in GIds :
          /\ Live(g) /\ Live(g)'
          /\ Members(g) # {} /\ Members(g)' = {}
          /\ \A r \in Members(g) : Exists(r)'
          => grp[g].status' = "EMPTY" /\ RangesOf(g)' = RangesOf(g)
  BY <1>1 DEF Deserted
<1> QED
  BY <1>2, TimetableInductive, PTL DEF Spec, VacancyKeepsTimetable

-----------------------------------------------------------------------------
\* Least and greatest of two numbers, as the widening uses them.
LEMMA WidenedHolds ==
  ASSUME NEW row \in GroupRow, NEW age \in 4..10
  PROVE  LET w == Widened(row, age) IN
         /\ w.minAge \in 4..10 /\ w.maxAge \in 4..10
         /\ w.minAge <= row.minAge /\ row.maxAge <= w.maxAge
         /\ w.minAge <= age /\ age <= w.maxAge
<1> DEFINE lo == {row.minAge, age}  hi == {row.maxAge, age}
<1>0. row.minAge \in 4..10 /\ row.maxAge \in 4..10
  BY DEF GroupRow
<1>1. \E x \in lo : \A y \in lo : x <= y
  BY <1>0
<1>2. \E x \in hi : \A y \in hi : y <= x
  BY <1>0
<1>3. Least(lo) \in lo /\ \A y \in lo : Least(lo) <= y
  BY <1>1 DEF Least
<1>4. Greatest(hi) \in hi /\ \A y \in hi : y <= Greatest(hi)
  BY <1>2 DEF Greatest
<1>5. Widened(row, age).minAge = Least(lo) /\ Widened(row, age).maxAge = Greatest(hi)
  BY DEF Widened, GroupRow
<1> QED
  BY <1>0, <1>3, <1>4, <1>5

\* One reservation and one group.
AgeKept(r, g) ==
  /\ Live(g) /\ rsv'[r].group = g /\ rsv'[r].age = rsv[r].age
  /\ rsv[r].group = g => AgeFits(r, g)
  => AgeFits(r, g)'

LEMMA SameAgeAndGroup ==
  ASSUME NEW r \in RIds, NEW g \in GIds,
         rsv'[r].group = g => rsv[r].group = g,
         grp'[g].minAge = grp[g].minAge, grp'[g].maxAge = grp[g].maxAge
  PROVE  AgeKept(r, g)
BY DEF AgeKept, AgeFits

LEMMA AgeStep ==
  ASSUME TypeOK, Next, NEW r \in RIds, NEW g \in GIds
  PROVE  AgeKept(r, g)
<1>n. g # Null /\ rsv \in [RIds -> Row] /\ grp \in [GIds -> GroupRow]
  BY IdsAreDisjoint DEF TypeOK
<1>1. CASE Apply \/ Edit \/ Withdraw
  <2>1. rsv'[r].group = g => rsv[r].group = g
    <3>1. CASE Apply
      BY <1>n, <3>1 DEF Apply, CreateReservation, CreateWalkIn
    <3>2. CASE Edit
      BY <1>n, <3>2, EditSeatsNobody DEF Edit
    <3>3. CASE Withdraw
      BY <1>n, <3>3 DEF Withdraw, RemoveReservation, RemoveChild, NoReservation, Row
    <3> QED
      BY <1>1, <3>1, <3>2, <3>3
  <2>2. grp' = grp
    BY <1>1 DEF Apply, Edit, Withdraw, CreateReservation, CreateWalkIn, UpdateReservation,
                RemoveReservation, RemoveChild
  <2> QED
    BY <2>1, <2>2, SameAgeAndGroup
<1>2. ASSUME NEW h \in GIds, RemoveGroup(h) PROVE AgeKept(r, g)
  <2>1. CASE h = g
    <3>1. rsv'[r].group # g
      BY <1>n, <1>2, <2>1 DEF RemoveGroup, Row
    <3> QED
      BY <3>1 DEF AgeKept
  <2>2. CASE h # g
    BY <1>n, <1>2, <2>2, SameAgeAndGroup, ZenonT(30) DEF RemoveGroup, Row
  <2> QED
    BY <2>1, <2>2
<1>3. ASSUME NEW h \in GIds, NEW minAge, NEW maxAge, NEW sched, NEW capacity,
             UpdateGroup(h, capacity, minAge, maxAge, sched)
      PROVE  AgeKept(r, g)
  <2> SUFFICES ASSUME rsv[r].group = g, AgeFits(r, g)  PROVE AgeFits(r, g)'
    BY <1>3 DEF AgeKept, UpdateGroup
  <2>1. rsv' = rsv /\ r \in Members(g)
    BY <1>3 DEF UpdateGroup, Members
  <2>2. CASE h # g
    BY <1>3, <2>1, <2>2 DEF UpdateGroup, AgeFits
  <2>3. CASE h = g
    <3>1. /\ grp'[g].minAge = OrElse(minAge, grp[g].minAge)
          /\ grp'[g].maxAge = OrElse(maxAge, grp[g].maxAge)
      BY <1>n, <1>3, <2>3 DEF UpdateGroup, EditedGroup, GroupRow
    <3>2. /\ minAge # Null => minAge <= rsv[r].age
          /\ maxAge # Null => rsv[r].age <= maxAge
      BY <1>3, <2>1, <2>3 DEF UpdateGroup, SuitsMembers
    <3> QED
      BY <2>1, <3>1, <3>2 DEF AgeFits, OrElse
  <2> QED
    BY <2>2, <2>3
<1>4. ASSUME NEW h \in GIds, NEW minAge, NEW maxAge, NEW sched, NEW capacity,
             NEW ids \in SUBSET RIds, NEW assign \in [ids -> SUBSET Ranges],
             CreateGroup(h, assign, capacity, minAge, maxAge, sched)
      PROVE  AgeKept(r, g)
  <2>1. CASE h = g
    <3>1. ~Live(g)
      BY <1>4, <2>1 DEF CreateGroup, AcceptsGroup, Live, GroupStatus
    <3> QED
      BY <3>1 DEF AgeKept
  <2>2. CASE h # g
    BY <1>n, <1>4, <2>2, SameAgeAndGroup DEF CreateGroup, AcceptsGroup, Row
  <2> QED
    BY <2>1, <2>2
<1>5. ASSUME NEW h \in GIds, NEW q \in RIds, RemoveMember(h, q) PROVE AgeKept(r, g)
  BY <1>n, <1>5, SameAgeAndGroup, SMTT(30) DEF RemoveMember, Row, GroupRow
<1>6. ASSUME NEW h \in GIds, NEW q \in RIds, NEW slots, AddMember(h, q, slots)
      PROVE  AgeKept(r, g)
  <2>1. grp'[g].minAge = grp[g].minAge /\ grp'[g].maxAge = grp[g].maxAge
    BY <1>n, <1>6 DEF AddMember, GroupRow
  <2>2. CASE q = r /\ h = g
    BY <1>6, <2>1, <2>2 DEF AddMember, AgeKept, AgeFits
  <2>3. CASE q # r \/ h # g
    BY <1>n, <1>6, <2>1, <2>3, SameAgeAndGroup DEF AddMember, Row
  <2> QED
    BY <2>2, <2>3
<1>7. ASSUME NEW h \in GIds, NEW q \in RIds, NEW slots, ReplaceMemberSlots(h, q, slots)
      PROVE  AgeKept(r, g)
  BY <1>7, SameAgeAndGroup DEF ReplaceMemberSlots
<1>8. ASSUME NEW h \in GIds, NEW q \in RIds, NEW slots, NEW target \in GIds,
             MoveMember(h, target, q, slots)
      PROVE  AgeKept(r, g)
  <2>1. CASE target # g
    <3>1. rsv'[r].group = g => rsv[r].group = g
      BY <1>n, <1>8, <2>1 DEF MoveMember
    <3>2. grp'[g].minAge = grp[g].minAge /\ grp'[g].maxAge = grp[g].maxAge
      BY <1>n, <1>8, <2>1 DEF MoveMember, GroupRow
    <3> QED
      BY <3>1, <3>2, SameAgeAndGroup
  <2>2. CASE target = g
    <3> SUFFICES ASSUME rsv'[r].group = g, rsv'[r].age = rsv[r].age,
                        rsv[r].group = g => AgeFits(r, g)
                 PROVE  AgeFits(r, g)'
      BY DEF AgeKept
    <3>1. grp'[g] = Widened(grp[g], rsv[q].age)
      BY <1>n, <1>8, <2>2 DEF MoveMember
    <3>2. rsv[q].age \in 4..10 /\ rsv[r].age \in 4..10 /\ grp[g] \in GroupRow
      BY <1>n DEF Row
    <3>3. /\ grp'[g].minAge \in 4..10 /\ grp'[g].maxAge \in 4..10
          /\ grp'[g].minAge <= grp[g].minAge /\ grp[g].maxAge <= grp'[g].maxAge
          /\ grp'[g].minAge <= rsv[q].age /\ rsv[q].age <= grp'[g].maxAge
      BY <3>1, <3>2, WidenedHolds
    <3>4. grp[g].minAge \in 4..10 /\ grp[g].maxAge \in 4..10
      BY <3>2 DEF GroupRow
    <3>5. CASE q = r
      BY <3>2, <3>3, <3>5 DEF AgeFits
    <3>6. CASE q # r
      <4>1. rsv[r].group = g
        BY <1>n, <1>8, <3>6 DEF MoveMember
      <4> QED
        BY <3>2, <3>3, <3>4, <4>1 DEF AgeFits
    <3> QED
      BY <3>5, <3>6
  <2> QED
    BY <2>1, <2>2
<1>9. CASE Lifecycle
  BY <1>2, <1>3, <1>4, <1>9 DEF Lifecycle
<1>10. CASE Membership
  BY <1>5, <1>6, <1>7, <1>8, <1>10 DEF Membership
<1> QED
  BY <1>1, <1>9, <1>10 DEF Next

\* Joining, moving and changing limits keep the members' ages within the limits
\* they check (validateAgeBounds, validateUpdateBounds, the widening in moveMember).
THEOREM AgeLimitsAlwaysKept == Spec => AgeLimitsKept
<1>1. TypeOK /\ [Next]_vars =>
        \A r \in RIds, g \in GIds :
          /\ Live(g) /\ rsv'[r].group = g /\ rsv'[r].age = rsv[r].age
          /\ rsv[r].group = g => AgeFits(r, g)
          => AgeFits(r, g)'
  <2> SUFFICES ASSUME TypeOK, [Next]_vars, NEW r \in RIds, NEW g \in GIds
               PROVE  AgeKept(r, g)
    BY DEF AgeKept
  <2>1. CASE UNCHANGED vars
    BY <2>1, SameAgeAndGroup DEF vars
  <2> QED
    BY <2>1, AgeStep
<1> QED
  BY <1>1, TypeCorrect, PTL DEF Spec, AgeLimitsKept

=============================================================================
