------------------------ MODULE MemberRemovalProofs ------------------------
(***************************************************************************)
(* Proofs about MemberRemoval, on top of those about ReservationGroups: a  *)
(* step of the desk next to open removals is a step of Next, so its lemmas *)
(* apply, and what is left is the transaction and what its locks protect.  *)
(***************************************************************************)
EXTENDS MemberRemoval, ReservationGroupsProofs

-----------------------------------------------------------------------------
(* What an open removal knows about rows it has read but not locked (seats) *)
(* and about rows it has locked.  A seat read may be gone, but it never     *)
(* becomes somebody else's: ids are not reused and no edit gives an         *)
(* application to another account.                                          *)

SeatsAreOwn ==
  \A p \in Parents : \A x \in removal[p].seats :
    rsv[x[1]].status = "NONE" \/ rsv[x[1]].parent = p
IdleIsClear ==
  \A p \in Parents : removal[p].phase = "IDLE" => removal[p] = NotRemoving
PurgedAreOwn ==
  \A p \in Parents : \A r \in removal[p].purged : rsv[r].parent = p
EmptiedAreLive ==
  \A p \in Parents : removal[p].emptied \subseteq LiveGroups
AnchoredAreSeats ==
  \A p \in Parents : \A s \in removal[p].anchored :
    s \in slot /\ s.owner # Null /\ <<s.owner, s.group>> \in removal[p].seats

RemovalInv ==
  /\ TimetableInv
  /\ accounts \subseteq Parents
  /\ removal \in [Parents -> Removal]
  /\ IdleIsClear
  /\ SeatsAreOwn
  /\ PurgedAreOwn
  /\ EmptiedAreLive
  /\ AnchoredAreSeats

\* No operation of the desk or the parents gives an application to another
\* account.
LEMMA ParentsStay ==
  ASSUME TypeOK, Next, NEW r \in RIds, Exists(r)
  PROVE  rsv'[r].status = "NONE" \/ rsv'[r].parent = rsv[r].parent
<1>0. rsv \in [RIds -> Row] /\ rsv[r].status # "NONE"
  BY DEF TypeOK, Exists
<1>1. CASE Apply
  BY <1>0, <1>1 DEF Apply, CreateReservation, CreateWalkIn
<1>2. CASE Edit
  BY <1>0, <1>2 DEF Edit, UpdateReservation, Edited, Row
<1>3. CASE Withdraw
  BY <1>0, <1>3 DEF Withdraw, RemoveReservation, RemoveChild, NoReservation, Row
<1>4. CASE Lifecycle
  <2>1. ASSUME NEW g, RemoveGroup(g) PROVE rsv'[r].parent = rsv[r].parent
    BY <1>0, <2>1 DEF RemoveGroup, Row
  <2>2. ASSUME NEW g, NEW assign, NEW capacity, NEW minAge, NEW maxAge, NEW sched,
               CreateGroup(g, assign, capacity, minAge, maxAge, sched)
        PROVE  rsv'[r].parent = rsv[r].parent
    BY <1>0, <2>2 DEF CreateGroup, AcceptsGroup, Row
  <2>3. ASSUME NEW g, NEW capacity, NEW minAge, NEW maxAge, NEW sched,
               UpdateGroup(g, capacity, minAge, maxAge, sched)
        PROVE  rsv'[r].parent = rsv[r].parent
    BY <2>3 DEF UpdateGroup
  <2> QED
    BY <1>4, <2>1, <2>2, <2>3 DEF Lifecycle
<1>5. CASE Membership
  <2>1. ASSUME NEW g, NEW q, RemoveMember(g, q) PROVE rsv'[r].parent = rsv[r].parent
    BY <1>0, <2>1 DEF RemoveMember, Row
  <2>2. ASSUME NEW g, NEW q, NEW slots, AddMember(g, q, slots)
        PROVE  rsv'[r].parent = rsv[r].parent
    BY <1>0, <2>2 DEF AddMember, Row
  <2>3. ASSUME NEW g, NEW q, NEW slots, ReplaceMemberSlots(g, q, slots)
        PROVE  rsv'[r].parent = rsv[r].parent
    BY <2>3 DEF ReplaceMemberSlots
  <2>4. ASSUME NEW g, NEW target, NEW q, NEW slots, MoveMember(g, target, q, slots)
        PROVE  rsv'[r].parent = rsv[r].parent
    <3>1. r = q => rsv'[r] = [rsv[r] EXCEPT !.group = target, !.wants = Null, !.prefs = slots]
      BY <1>0, <2>4 DEF MoveMember
    <3>2. r # q => rsv'[r] = rsv[r]
      BY <1>0, <2>4 DEF MoveMember
    <3> QED
      BY <1>0, <3>1, <3>2 DEF Row
  <2> QED
    BY <1>5, <2>1, <2>2, <2>3, <2>4 DEF Membership
<1> QED
  BY <1>1, <1>2, <1>3, <1>4, <1>5 DEF Next

\* A slot an open removal turns into an anchor belongs to the account's own
\* application.
LEMMA AnchoredOwners ==
  ASSUME RemovalInv, NEW p \in Parents, NEW s \in removal[p].anchored
  PROVE  /\ s \in slot /\ s.group \in GIds /\ s.owner \in RIds
         /\ rsv[s.owner].parent = p
<1>1. /\ s \in slot /\ s.owner # Null /\ <<s.owner, s.group>> \in removal[p].seats
      /\ s \in [group: GIds, owner: RIds \cup {Null}, range: Ranges]
  BY DEF RemovalInv, AnchoredAreSeats, TimetableInv, TypeOK
<1>2. s.owner \in RIds /\ s.group \in GIds
  BY <1>1
<1>3. rsv[s.owner].group = s.group
  BY <1>1 DEF RemovalInv, TimetableInv, SlotOwnerIsMember
<1>4. rsv[s.owner].status # "NONE"
  BY <1>2, <1>3, IdsAreDisjoint DEF RemovalInv, TimetableInv, AbsentSitsNowhere
<1>5. rsv[s.owner].parent = p
  BY <1>1, <1>4 DEF RemovalInv, SeatsAreOwn
<1> QED
  BY <1>1, <1>2, <1>5

\* What a commit does to the rows of applications and groups.
LEMMA CommittedRows ==
  ASSUME RemovalInv, NEW p \in Parents, CommitRemoval(p)
  PROVE  /\ \A r \in removal[p].purged : rsv'[r] = NoReservation
         /\ \A r \in RIds \ removal[p].purged :
              /\ rsv'[r].status = rsv[r].status /\ rsv'[r].group = rsv[r].group
              /\ rsv'[r].prefs = rsv[r].prefs /\ rsv'[r].wants = rsv[r].wants
              /\ rsv'[r].parent = IF rsv[r].parent = p THEN Null ELSE rsv[r].parent
         /\ \A g \in GIds :
              /\ grp'[g].status = IF g \in removal[p].emptied THEN "EMPTY" ELSE grp[g].status
              /\ grp'[g].capacity = grp[g].capacity
              /\ grp'[g].schedule = grp[g].schedule
<1>1. /\ rsv \in [RIds -> Row] /\ grp \in [GIds -> GroupRow] /\ removal[p].purged \subseteq RIds
  BY DEF RemovalInv, TimetableInv, TypeOK, Removal
<1>2. \A r \in removal[p].purged : rsv'[r] = NoReservation
  BY <1>1 DEF CommitRemoval
<1>3. ASSUME NEW r \in RIds \ removal[p].purged
      PROVE  /\ rsv'[r].status = rsv[r].status /\ rsv'[r].group = rsv[r].group
             /\ rsv'[r].prefs = rsv[r].prefs /\ rsv'[r].wants = rsv[r].wants
             /\ rsv'[r].parent = IF rsv[r].parent = p THEN Null ELSE rsv[r].parent
  BY <1>1, <1>3, ZenonT(30) DEF CommitRemoval, Row
<1>4. ASSUME NEW g \in GIds
      PROVE  /\ grp'[g].status = IF g \in removal[p].emptied THEN "EMPTY" ELSE grp[g].status
             /\ grp'[g].capacity = grp[g].capacity
             /\ grp'[g].schedule = grp[g].schedule
  BY <1>1 DEF CommitRemoval, GroupRow
<1> QED
  BY <1>2, <1>3, <1>4

LEMMA CommitType ==
  ASSUME RemovalInv, NEW p \in Parents, CommitRemoval(p)
  PROVE  TypeOK'
<1>0. /\ TypeOK /\ removal[p] \in Removal
      /\ NoReservation \in Row /\ "EMPTY" \in GroupStatus \cup {"NONE"}
  BY DEF RemovalInv, TimetableInv, NoReservation, Row, GroupStatus
<1>1. rsv' \in [RIds -> Row]
  <2>1. ASSUME NEW r \in RIds
        PROVE  [rsv[r] EXCEPT
                  !.parent = IF @ = p THEN Null ELSE @,
                  !.child = IF @ \in Children /\ ParentOf[@] = p THEN Null ELSE @] \in Row
    BY <1>0, ZenonT(30) DEF TypeOK, Row
  <2> QED
    BY <1>0, <2>1 DEF CommitRemoval
<1>2. grp' \in [GIds -> GroupRow]
  <2>1. ASSUME NEW g \in GIds
        PROVE  [grp[g] EXCEPT !.status = "EMPTY"] \in GroupRow
    BY <1>0 DEF TypeOK, GroupRow
  <2> QED
    BY <1>0, <2>1 DEF CommitRemoval, TypeOK
<1>3. slot' \subseteq [group: GIds, owner: RIds \cup {Null}, range: Ranges]
  <2>1. ASSUME NEW s \in removal[p].anchored
        PROVE  [s EXCEPT !.owner = Null] \in [group: GIds, owner: RIds \cup {Null}, range: Ranges]
    BY <1>0 DEF Removal, SlotRow
  <2> QED
    BY <1>0, <2>1 DEF CommitRemoval, SlotsAfter, TypeOK
<1> QED
  BY <1>1, <1>2, <1>3 DEF TypeOK

\* Where the slots of a commit come from: nobody's slot in a group is new.
LEMMA CommittedSlots ==
  ASSUME RemovalInv, NEW p \in Parents, CommitRemoval(p), NEW s \in slot'
  PROVE  /\ \E t \in slot : t.group = s.group /\ t.range = s.range
         /\ s.owner # Null => s \in slot \ removal[p].anchored /\ s.owner \notin removal[p].purged
<1>1. CASE s \in slot \ removal[p].anchored /\ s.owner \notin removal[p].purged
  BY <1>1
<1>2. ASSUME NEW t \in removal[p].anchored, s = [t EXCEPT !.owner = Null]
      PROVE  s.owner = Null /\ t \in slot /\ t.group = s.group /\ t.range = s.range
  <2>1. t \in slot /\ t \in [group: GIds, owner: RIds \cup {Null}, range: Ranges]
    BY AnchoredOwners DEF RemovalInv, TimetableInv, TypeOK
  <2> QED
    BY <1>2, <2>1
<1> QED
  BY <1>1, <1>2 DEF CommitRemoval, SlotsAfter

LEMMA CommitTimetable ==
  ASSUME RemovalInv, NEW p \in Parents, CommitRemoval(p)
  PROVE  TimetableInv'
<1>0. TypeOK' /\ TimetableInv
  BY CommitType DEF RemovalInv
<1>1. AbsentSitsNowhere'
  BY <1>0, CommittedRows DEF TimetableInv, AbsentSitsNowhere, NoReservation
<1>2. \A g \in GIds : Live(g)' <=> Live(g)
  BY CommittedRows DEF RemovalInv, EmptiedAreLive, LiveGroups, Live, GroupStatus
<1>3. SlotOwnerIsMember'
  <2> SUFFICES ASSUME NEW s \in slot'
               PROVE  Live(s.group)' /\ (s.owner # Null => rsv'[s.owner].group = s.group)
    BY DEF SlotOwnerIsMember
  <2>1. PICK t \in slot : t.group = s.group /\ t.range = s.range
    BY CommittedSlots
  <2>2. t.group \in GIds /\ Live(t.group)
    BY <1>0 DEF TimetableInv, TypeOK, SlotOwnerIsMember
  <2>3. ASSUME s.owner # Null PROVE rsv'[s.owner].group = s.group
    <3>1. s \in slot /\ s.owner \notin removal[p].purged /\ s.owner \in RIds
      BY <1>0, <2>3, CommittedSlots DEF TypeOK
    <3>2. rsv[s.owner].group = s.group
      BY <1>0, <2>3, <3>1 DEF TimetableInv, SlotOwnerIsMember
    <3> QED
      BY <3>1, <3>2, CommittedRows
  <2> QED
    BY <1>2, <2>1, <2>2, <2>3
<1>4. ScheduledSlotsMatch'
  <2> SUFFICES ASSUME NEW s \in slot'
               PROVE  grp'[s.group].schedule \in {Null, s.range}
    BY DEF ScheduledSlotsMatch
  <2>1. PICK t \in slot : t.group = s.group /\ t.range = s.range
    BY CommittedSlots
  <2>2. t.group \in GIds /\ grp[t.group].schedule \in {Null, t.range}
    BY <1>0 DEF TimetableInv, TypeOK, ScheduledSlotsMatch
  <2> QED
    BY <2>1, <2>2, CommittedRows
<1>5. ScheduledGroupsDisjoint'
  <2>1. \A g \in GIds : grp'[g].schedule = grp[g].schedule
    BY CommittedRows
  <2> QED
    BY <1>0, <1>2, <2>1 DEF TimetableInv, ScheduledGroupsDisjoint
<1> QED
  BY <1>0, <1>1, <1>3, <1>4, <1>5 DEF TimetableInv

-----------------------------------------------------------------------------
(* The invariant of open removals, statement by statement.                 *)

\* A statement that only reads: the tables stay as they are.
LEMMA StatementKeepsTables ==
  ASSUME RemovalInv, NEW p \in Parents, UNCHANGED <<vars, accounts>>,
         NEW m \in Removal, removal' = [removal EXCEPT ![p] = m],
         m.phase # "IDLE" \/ m = NotRemoving,
         \A x \in m.seats : rsv[x[1]].status = "NONE" \/ rsv[x[1]].parent = p,
         \A r \in m.purged : rsv[r].parent = p,
         m.emptied \subseteq LiveGroups,
         \A s \in m.anchored : s \in slot /\ s.owner # Null /\ <<s.owner, s.group>> \in m.seats
  PROVE  RemovalInv'
<1>1. removal' \in [Parents -> Removal] /\ accounts' \subseteq Parents
  BY DEF RemovalInv
<1>2. TimetableInv'
  BY StepTimetable DEF RemovalInv
<1>3. rsv' = rsv /\ slot' = slot /\ LiveGroups' = LiveGroups
  BY DEF vars, LiveGroups, Live
<1>4. \A q \in Parents : removal'[q] = IF q = p THEN m ELSE removal[q]
  BY DEF RemovalInv
<1>5. IdleIsClear' /\ SeatsAreOwn' /\ PurgedAreOwn'
  BY <1>3, <1>4 DEF RemovalInv, IdleIsClear, SeatsAreOwn, PurgedAreOwn
<1>6. EmptiedAreLive' /\ AnchoredAreSeats'
  BY <1>3, <1>4 DEF RemovalInv, EmptiedAreLive, AnchoredAreSeats
<1> QED
  BY <1>1, <1>2, <1>5, <1>6 DEF RemovalInv

LEMMA BeginRemovalSafe ==
  ASSUME RemovalInv, NEW p \in Parents, BeginRemoval(p)
  PROVE  RemovalInv'
<1> DEFINE seats == {<<r, rsv[r].group>> : r \in
                       {q \in RIds : rsv[q].parent = p /\ rsv[q].group # Null}}
           m == [NotRemoving EXCEPT !.phase = "VACATING", !.seats = seats,
                                    !.pending = {x[2] : x \in seats}]
<1>0. rsv \in [RIds -> Row] /\ removal[p] = NotRemoving
  BY DEF RemovalInv, TimetableInv, TypeOK, BeginRemoval, IdleIsClear
<1>1. \A x \in seats : x \in RIds \X GIds /\ x[2] \in GIds /\ rsv[x[1]].parent = p
  BY <1>0 DEF Row
<1>2. m \in Removal
  BY <1>1 DEF Removal, NotRemoving
<1>3. removal' = [removal EXCEPT ![p] = m]
  BY <1>0 DEF BeginRemoval, RemovalInv
<1>4. /\ m.phase # "IDLE" /\ m.seats = seats
      /\ m.purged = {} /\ m.emptied = {} /\ m.anchored = {}
  BY DEF NotRemoving
<1>5. UNCHANGED <<vars, accounts>>
  BY DEF BeginRemoval
<1> HIDE DEF m, seats
<1> QED
  BY <1>1, <1>2, <1>3, <1>4, <1>5, StatementKeepsTables

LEMMA CountRemainingSafe ==
  ASSUME RemovalInv, NEW p \in Parents, NEW g \in GIds, CountRemaining(p, g)
  PROVE  RemovalInv'
<1> DEFINE m == [removal[p] EXCEPT !.pending = @ \ {g},
                                   !.vacant = IF Remaining(p, g) = {} THEN {g} ELSE {}]
<1>0. removal[p] \in Removal
  BY DEF RemovalInv
<1>1. m \in Removal
  BY <1>0 DEF Removal
<1>2. removal' = [removal EXCEPT ![p] = m] /\ UNCHANGED <<vars, accounts>>
  BY DEF CountRemaining, RemovalInv
<1>3. /\ m.seats = removal[p].seats /\ m.phase = removal[p].phase
      /\ m.purged = removal[p].purged /\ m.emptied = removal[p].emptied
      /\ m.anchored = removal[p].anchored
  BY <1>0 DEF Removal
<1>4. m.phase # "IDLE"
  BY <1>3 DEF CountRemaining, RemovalInv, IdleIsClear, NotRemoving
<1> HIDE DEF m
<1>5. /\ \A x \in m.seats : rsv[x[1]].status = "NONE" \/ rsv[x[1]].parent = p
      /\ \A r \in m.purged : rsv[r].parent = p
      /\ m.emptied \subseteq LiveGroups
      /\ \A s \in m.anchored : s \in slot /\ s.owner # Null /\ <<s.owner, s.group>> \in m.seats
  BY <1>3 DEF RemovalInv, SeatsAreOwn, PurgedAreOwn, EmptiedAreLive, AnchoredAreSeats
<1> QED
  BY <1>1, <1>2, <1>4, <1>5, StatementKeepsTables

LEMMA VacateGroupSafe ==
  ASSUME RemovalInv, NEW p \in Parents, NEW g \in GIds, VacateGroup(p, g)
  PROVE  RemovalInv'
<1> DEFINE taken == {s \in SlotsOf(g) : s.owner \in Leaving(p, g)}
           m == [removal[p] EXCEPT !.vacant = {}, !.emptied = @ \cup {g},
                                   !.anchored = @ \cup taken]
<1>0. removal[p] \in Removal /\ slot \subseteq SlotRow
  BY DEF RemovalInv, TimetableInv, TypeOK, SlotRow
<1>1. \A s \in taken : /\ s \in slot /\ s.group = g /\ s.owner # Null
                       /\ <<s.owner, s.group>> \in removal[p].seats
  BY IdsAreDisjoint DEF SlotsOf, Leaving
<1>2. m \in Removal
  BY <1>0, <1>1 DEF Removal
<1>3. removal' = [removal EXCEPT ![p] = m] /\ UNCHANGED <<vars, accounts>>
  BY DEF VacateGroup, RemovalInv
<1>4. /\ m.seats = removal[p].seats /\ m.phase = removal[p].phase
      /\ m.purged = removal[p].purged /\ m.emptied = removal[p].emptied \cup {g}
      /\ m.anchored = removal[p].anchored \cup taken
  BY <1>0 DEF Removal
<1>5. g \in LiveGroups
  BY DEF VacateGroup, LiveGroups
<1>6. m.phase # "IDLE"
  BY <1>4 DEF VacateGroup, RemovalInv, IdleIsClear, NotRemoving
<1> HIDE DEF m, taken
<1>7. /\ \A x \in m.seats : rsv[x[1]].status = "NONE" \/ rsv[x[1]].parent = p
      /\ \A r \in m.purged : rsv[r].parent = p
      /\ m.emptied \subseteq LiveGroups
      /\ \A s \in m.anchored : s \in slot /\ s.owner # Null /\ <<s.owner, s.group>> \in m.seats
  BY <1>1, <1>4, <1>5 DEF RemovalInv, SeatsAreOwn, PurgedAreOwn, EmptiedAreLive, AnchoredAreSeats
<1> QED
  BY <1>2, <1>3, <1>6, <1>7, StatementKeepsTables

LEMMA PurgeReservationsSafe ==
  ASSUME RemovalInv, NEW p \in Parents, PurgeReservations(p)
  PROVE  RemovalInv'
<1> DEFINE own == {r \in RIds : rsv[r].parent = p}
           m == [removal[p] EXCEPT !.phase = "PURGED", !.purged = own]
<1>0. removal[p] \in Removal
  BY DEF RemovalInv
<1>1. m \in Removal
  BY <1>0 DEF Removal
<1>2. removal' = [removal EXCEPT ![p] = m] /\ UNCHANGED <<vars, accounts>>
  BY DEF PurgeReservations, RemovalInv
<1>3. /\ m.seats = removal[p].seats /\ m.phase = "PURGED"
      /\ m.purged = own /\ m.emptied = removal[p].emptied
      /\ m.anchored = removal[p].anchored
  BY <1>0 DEF Removal
<1> HIDE DEF m
<1>4. /\ \A x \in m.seats : rsv[x[1]].status = "NONE" \/ rsv[x[1]].parent = p
      /\ \A r \in m.purged : rsv[r].parent = p
      /\ m.emptied \subseteq LiveGroups
      /\ \A s \in m.anchored : s \in slot /\ s.owner # Null /\ <<s.owner, s.group>> \in m.seats
  BY <1>3 DEF RemovalInv, SeatsAreOwn, EmptiedAreLive, AnchoredAreSeats
<1> QED
  BY <1>1, <1>2, <1>3, <1>4, StatementKeepsTables

LEMMA NotRemovingType == NotRemoving \in Removal
BY DEF NotRemoving, Removal

LEMMA AbortRemovalSafe ==
  ASSUME RemovalInv, NEW p \in Parents, AbortRemoval(p)
  PROVE  RemovalInv'
<1>1. /\ NotRemoving.seats = {} /\ NotRemoving.purged = {} /\ NotRemoving.emptied = {}
      /\ NotRemoving.anchored = {}
  BY DEF NotRemoving
<1> QED
  BY <1>1, NotRemovingType, StatementKeepsTables DEF AbortRemoval

\* A commit leaves what the other open removals hold alone: their rows belong
\* to other accounts.
LEMMA CommitRemovalSafe ==
  ASSUME RemovalInv, NEW p \in Parents, CommitRemoval(p)
  PROVE  RemovalInv'
<1>1. TimetableInv'
  BY CommitTimetable
<1>2. /\ accounts' \subseteq Parents /\ removal' \in [Parents -> Removal]
      /\ removal'[p] = NotRemoving
      /\ \A q \in Parents : q # p => removal'[q] = removal[q]
  BY NotRemovingType DEF CommitRemoval, RemovalInv
<1>3. \A q \in Parents : q # Null
  BY IdsAreDisjoint
<1>4. \A q \in Parents : removal[q] \in Removal
  BY DEF RemovalInv
<1>5. ASSUME NEW q \in Parents, q # p, NEW r \in RIds, rsv[r].parent = q
      PROVE  r \notin removal[p].purged /\ rsv'[r].parent = q
  BY <1>5, CommittedRows DEF RemovalInv, PurgedAreOwn
<1>6. SeatsAreOwn'
  <2>1. ASSUME NEW q \in Parents, q # p, NEW x \in removal[q].seats
        PROVE  rsv'[x[1]].status = "NONE" \/ rsv'[x[1]].parent = q
    <3>1. x[1] \in RIds
      BY <1>4, <2>1 DEF Removal
    <3>2. rsv[x[1]].status = "NONE" \/ rsv[x[1]].parent = q
      BY <2>1 DEF RemovalInv, SeatsAreOwn
    <3>3. rsv[x[1]].status = "NONE" => rsv'[x[1]].status = "NONE"
      BY <3>1, CommittedRows DEF NoReservation
    <3> QED
      BY <1>5, <2>1, <3>1, <3>2, <3>3
  <2> QED
    BY <1>2, <2>1 DEF SeatsAreOwn, NotRemoving
<1>7. PurgedAreOwn'
  <2>1. ASSUME NEW q \in Parents, q # p, NEW r \in removal[q].purged
        PROVE  rsv'[r].parent = q
    BY <1>4, <1>5, <2>1 DEF RemovalInv, PurgedAreOwn, Removal
  <2> QED
    BY <1>2, <2>1 DEF PurgedAreOwn, NotRemoving
<1>8. EmptiedAreLive'
  <2>1. \A g \in GIds : Live(g) => Live(g)'
    BY CommittedRows DEF Live, GroupStatus
  <2>2. LiveGroups \subseteq LiveGroups'
    BY <2>1 DEF LiveGroups
  <2> QED
    BY <1>2, <2>2 DEF RemovalInv, EmptiedAreLive, NotRemoving
<1>9. AnchoredAreSeats'
  <2>1. ASSUME NEW q \in Parents, q # p, NEW s \in removal[q].anchored
        PROVE  s \in slot'
    <3>1. s \in slot /\ s.owner \in RIds /\ rsv[s.owner].parent = q
      BY <2>1, AnchoredOwners
    <3>2. s \notin removal[p].anchored
      BY <2>1, <3>1, AnchoredOwners
    <3>3. s.owner \notin removal[p].purged
      BY <1>5, <2>1, <3>1
    <3> QED
      BY <3>1, <3>2, <3>3 DEF CommitRemoval, SlotsAfter
  <2>2. ASSUME NEW q \in Parents, NEW s \in removal'[q].anchored
        PROVE  s \in slot' /\ s.owner # Null /\ <<s.owner, s.group>> \in removal'[q].seats
    <3>1. CASE q = p
      BY <1>2, <2>2, <3>1 DEF NotRemoving
    <3>2. CASE q # p
      BY <1>2, <2>1, <2>2, <3>2 DEF RemovalInv, AnchoredAreSeats
    <3> QED
      BY <3>1, <3>2
  <2> QED
    BY <2>2 DEF AnchoredAreSeats
<1>10. IdleIsClear'
  BY <1>2 DEF RemovalInv, IdleIsClear
<1> QED
  BY <1>1, <1>2, <1>6, <1>7, <1>8, <1>9, <1>10 DEF RemovalInv

\* Next to open removals the desk works on: locked rows stay as they are.
LEMMA BesideSafe ==
  ASSUME RemovalInv, Beside(Next)
  PROVE  RemovalInv'
<1>1. TimetableInv'
  BY StepTimetable DEF Beside, RemovalInv
<1>2. removal' = removal /\ accounts' = accounts
  BY DEF Beside
<1>3. ASSUME NEW p \in Parents, NEW x \in removal[p].seats
      PROVE  rsv'[x[1]].status = "NONE" \/ rsv'[x[1]].parent = p
  <2>1. x[1] \in RIds
    BY <1>3 DEF RemovalInv, Removal
  <2>2. rsv[x[1]].status = "NONE" \/ rsv[x[1]].parent = p
    BY <1>3 DEF RemovalInv, SeatsAreOwn
  <2>3. CASE Exists(x[1])
    BY <2>1, <2>2, <2>3, ParentsStay DEF Exists, Beside, RemovalInv, TimetableInv
  <2>4. CASE ~Exists(x[1])
    BY <1>3, <2>4 DEF Beside, Reuses, Exists
  <2> QED
    BY <2>3, <2>4
<1>4. ASSUME NEW p \in Parents
      PROVE  /\ \A r \in removal[p].purged : rsv'[r].parent = p
             /\ removal[p].emptied \subseteq LiveGroups'
             /\ removal[p].anchored \subseteq slot'
  <2>1. ~Waits(p)
    BY DEF Beside
  <2>2. \A r \in removal[p].purged : rsv'[r] = rsv[r]
    BY <2>1 DEF Waits
  <2>3. \A g \in removal[p].emptied : grp'[g] = grp[g]
    BY <2>1 DEF Waits
  <2>4. removal[p].anchored \subseteq slot'
    BY <2>1 DEF Waits
  <2> QED
    BY <2>2, <2>3, <2>4 DEF RemovalInv, PurgedAreOwn, EmptiedAreLive, LiveGroups, Live
<1>5. IdleIsClear' /\ SeatsAreOwn' /\ PurgedAreOwn' /\ EmptiedAreLive' /\ AnchoredAreSeats'
  BY <1>2, <1>3, <1>4
  DEF RemovalInv, IdleIsClear, SeatsAreOwn, PurgedAreOwn, EmptiedAreLive, AnchoredAreSeats
<1> QED
  BY <1>1, <1>2, <1>5 DEF RemovalInv

LEMMA RemovalInitSafe == RemovalInit => RemovalInv
<1> SUFFICES ASSUME RemovalInit PROVE RemovalInv
  OBVIOUS
<1>1. TimetableInv
  BY InitTimetable DEF RemovalInit
<1>2. \A p \in Parents : removal[p] = NotRemoving
  BY DEF RemovalInit
<1>3. removal \in [Parents -> Removal]
  BY NotRemovingType DEF RemovalInit
<1> QED
  BY <1>1, <1>2, <1>3
  DEF RemovalInv, RemovalInit, IdleIsClear, SeatsAreOwn, PurgedAreOwn, EmptiedAreLive,
      AnchoredAreSeats, NotRemoving

LEMMA RemovalStepSafe == RemovalInv /\ [RemovalNext]_removalVars => RemovalInv'
<1>1. RemovalInv /\ UNCHANGED removalVars => RemovalInv'
  <2> SUFFICES ASSUME RemovalInv, UNCHANGED removalVars PROVE RemovalInv'
    OBVIOUS
  <2>1. TimetableInv'
    BY StepTimetable DEF RemovalInv, removalVars
  <2> QED
    BY <2>1
    DEF RemovalInv, removalVars, vars, IdleIsClear, SeatsAreOwn, PurgedAreOwn, EmptiedAreLive,
                AnchoredAreSeats, LiveGroups, Live
<1> QED
  BY <1>1, BeginRemovalSafe, CountRemainingSafe, VacateGroupSafe, PurgeReservationsSafe,
     CommitRemovalSafe, AbortRemovalSafe, BesideSafe DEF RemovalNext, Removing

\* What open removals have read and locked stays true, however their statements
\* interleave with each other and with everything the desk and the parents do.
THEOREM RemovalInductive == RemovalSpec => []RemovalInv
BY RemovalInitSafe, RemovalStepSafe, PTL DEF RemovalSpec

\* Whatever removals run beside the desk, and beside each other, a slot belongs
\* to a member of its group and scheduled groups keep to disjoint schedules.
THEOREM RemovalsKeepTimetable ==
  RemovalSpec => [](SlotOwnerIsMember /\ ScheduledSlotsMatch /\ ScheduledGroupsDisjoint)
<1>1. RemovalInv => SlotOwnerIsMember /\ ScheduledSlotsMatch /\ ScheduledGroupsDisjoint
  BY DEF RemovalInv, TimetableInv
<1> QED
  BY <1>1, RemovalInductive, PTL

LEMMA CommitRoom ==
  ASSUME RemovalInv, RoomInv, NEW p \in Parents, CommitRemoval(p)
  PROVE  RoomInv'
<1>1. LiveGroups \subseteq LiveGroups'
  <2>1. \A g \in GIds : Live(g) => Live(g)'
    BY CommittedRows DEF Live, GroupStatus
  <2> QED
    BY <2>1 DEF LiveGroups
<1>2. \A r \in RIds : /\ {rsv'[r].group, rsv'[r].wants} \subseteq {rsv[r].group, rsv[r].wants, Null}
                      /\ rsv'[r].group \in {rsv[r].group, Null}
  BY CommittedRows DEF NoReservation
<1>3. NamedGroupsExist'
  BY <1>1, <1>2 DEF RoomInv, NamedGroupsExist
<1>4. CapacityRespected'
  <2> SUFFICES ASSUME NEW g \in GIds
               PROVE  Cardinality(Members(g)') <= grp'[g].capacity
    BY DEF CapacityRespected
  <2>1. Members(g)' \subseteq Members(g)
    BY <1>2, IdsAreDisjoint DEF Members
  <2>2. Cardinality(Members(g)') \in Nat /\ Cardinality(Members(g)') <= Cardinality(Members(g))
    BY <2>1, MembersFinite, FS_Subset, FS_CardinalityType
  <2>3. Cardinality(Members(g)) <= grp[g].capacity /\ grp[g].capacity \in Nat
    BY DEF RoomInv, CapacityRespected, RemovalInv, TimetableInv, TypeOK, GroupRow
  <2>4. grp'[g].capacity = grp[g].capacity
    BY CommittedRows
  <2> QED
    BY <2>2, <2>3, <2>4, MembersFinite
<1> QED
  BY <1>3, <1>4 DEF RoomInv

\* Seats stay within the capacities and groups named by an application exist,
\* next to any removals; that an EMPTY group is vacant does not survive them.
THEOREM RemovalsKeepRoom == RemovalSpec => [](NamedGroupsExist /\ CapacityRespected)
<1>1. RemovalInit => RoomInv
  BY InitOccupancy DEF RemovalInit, OccupancyInv
<1>2. RemovalInv /\ RoomInv /\ [RemovalNext]_removalVars => RoomInv'
  <2> SUFFICES ASSUME RemovalInv, RoomInv, [RemovalNext]_removalVars PROVE RoomInv'
    OBVIOUS
  <2>1. TimetableInv /\ TimetableInv'
    BY RemovalStepSafe DEF RemovalInv
  <2>2. CASE UNCHANGED vars
    BY <2>2 DEF vars, RoomInv, NamedGroupsExist, CapacityRespected, LiveGroups, Live, Members
  <2>3. CASE Next
    BY <2>1, <2>3, ApplyOccupancy, EditOccupancy, WithdrawOccupancy, LifecycleOccupancy,
       MembershipOccupancy DEF Next
  <2>4. ASSUME NEW p \in Parents, CommitRemoval(p) PROVE RoomInv'
    BY <2>4, CommitRoom
  <2> QED
    BY <2>2, <2>3, <2>4 DEF RemovalNext, Removing, removalVars, Beside, BeginRemoval,
       CountRemaining, VacateGroup, PurgeReservations, AbortRemoval
<1>3. RoomInv => NamedGroupsExist /\ CapacityRespected
  BY DEF RoomInv
<1> QED
  BY <1>1, <1>2, <1>3, RemovalInductive, PTL DEF RemovalSpec

\* Only a commit deletes an account, and only its own.
LEMMA OnlyCommitsDelete ==
  ASSUME RemovalInv, [RemovalNext]_removalVars, accounts' # accounts
  PROVE  \E p \in Parents : CommitRemoval(p) /\ accounts \ accounts' = {p}
<1>1. PICK p \in Parents : CommitRemoval(p)
  BY DEF RemovalNext, Removing, removalVars, Beside, BeginRemoval, CountRemaining,
         VacateGroup, PurgeReservations, AbortRemoval
<1> QED
  BY <1>1 DEF CommitRemoval

\* Deleting an account takes no seat and no time from anybody else's
\* application, whatever joined, moved or was edited since the transaction read
\* its seats.
THEOREM OthersAlwaysKeepTheirSeats == RemovalSpec => OthersKeepTheirSeats
<1>1. RemovalInv /\ [RemovalNext]_removalVars =>
        (accounts' # accounts =>
           \A r \in RIds : Exists(r) /\ rsv[r].parent \notin accounts \ accounts' =>
             /\ rsv'[r].status = rsv[r].status /\ rsv'[r].group = rsv[r].group
             /\ {s \in slot' : s.owner = r} = {s \in slot : s.owner = r})
  <2> SUFFICES ASSUME RemovalInv, [RemovalNext]_removalVars, accounts' # accounts,
                      NEW r \in RIds, rsv[r].parent \notin accounts \ accounts'
               PROVE  /\ rsv'[r].status = rsv[r].status /\ rsv'[r].group = rsv[r].group
                      /\ {s \in slot' : s.owner = r} = {s \in slot : s.owner = r}
    OBVIOUS
  <2>1. PICK p \in Parents : CommitRemoval(p) /\ accounts \ accounts' = {p}
    BY OnlyCommitsDelete
  <2>2. r \notin removal[p].purged
    BY <2>1 DEF RemovalInv, PurgedAreOwn
  <2>3. \A s \in removal[p].anchored : s.owner # r
    BY <2>1, AnchoredOwners
  <2>4. r # Null
    BY IdsAreDisjoint
  <2>5. ASSUME NEW s \in slot', s.owner = r PROVE s \in slot
    BY <2>1, <2>4, <2>5, CommittedSlots
  <2>6. ASSUME NEW s \in slot, s.owner = r PROVE s \in slot'
    BY <2>1, <2>2, <2>3, <2>6 DEF CommitRemoval, SlotsAfter
  <2> QED
    BY <2>1, <2>2, <2>5, <2>6, CommittedRows
<1> QED
  BY <1>1, RemovalInductive, PTL DEF RemovalSpec, OthersKeepTheirSeats

-----------------------------------------------------------------------------
(* How an EMPTY group comes to have members.  The loop counts who remains in *)
(* a group and writes EMPTY in two statements.  That a group is EMPTY or has *)
(* anchors only while it is vacant (VacancyInv) is lost by a commit and in   *)
(* no other way, of a removal in whose group somebody remained after all;    *)
(* and somebody remains there only who came between the count and the write. *)

\* Somebody remains in a group that was counted, or written, as empty.
Overtaken(p, g) ==
  g \in removal[p].vacant \cup removal[p].emptied /\ Remaining(p, g) # {}

\* What a removal has seen and is still there goes with the account.
PurgedIsAll ==
  \A p \in Parents : removal[p].phase = "PURGED" =>
    \A x \in removal[p].seats : rsv[x[1]].status = "NONE" \/ x[1] \in removal[p].purged
AnchoredAreEmptied ==
  \A p \in Parents : \A s \in removal[p].anchored : s.group \in removal[p].emptied

Statement(p) ==
  \/ BeginRemoval(p)
  \/ \E g \in GIds : CountRemaining(p, g) \/ VacateGroup(p, g)
  \/ PurgeReservations(p)
  \/ AbortRemoval(p)

LEMMA StatementIsOwn ==
  ASSUME RemovalInv, NEW p \in Parents, Statement(p)
  PROVE  UNCHANGED vars /\ \A q \in Parents \ {p} : removal'[q] = removal[q]
BY DEF RemovalInv, Statement, BeginRemoval, CountRemaining, VacateGroup, PurgeReservations,
       AbortRemoval

\* The two statements that matter, on the transaction's own record.
LEMMA Counted ==
  ASSUME RemovalInv, NEW p \in Parents, NEW g \in GIds, CountRemaining(p, g)
  PROVE  /\ removal'[p].phase = removal[p].phase /\ removal'[p].seats = removal[p].seats
         /\ removal'[p].emptied = removal[p].emptied
         /\ removal'[p].anchored = removal[p].anchored
         /\ removal'[p].purged = removal[p].purged
         /\ removal'[p].vacant = IF Remaining(p, g) = {} THEN {g} ELSE {}
<1>1. removal[p] \in Removal
  BY DEF RemovalInv
<1>2. removal'[p] = [removal[p] EXCEPT !.pending = @ \ {g},
                                       !.vacant = IF Remaining(p, g) = {} THEN {g} ELSE {}]
  BY DEF CountRemaining, RemovalInv
<1> QED
  BY <1>1, <1>2 DEF Removal

LEMMA Written ==
  ASSUME RemovalInv, NEW p \in Parents, NEW g \in GIds, VacateGroup(p, g)
  PROVE  /\ removal'[p].phase = removal[p].phase /\ removal'[p].seats = removal[p].seats
         /\ removal'[p].emptied = removal[p].emptied \cup {g}
         /\ removal'[p].anchored =
              removal[p].anchored \cup {s \in SlotsOf(g) : s.owner \in Leaving(p, g)}
         /\ removal'[p].purged = removal[p].purged
         /\ removal'[p].vacant = {} /\ g \in removal[p].vacant
<1> DEFINE taken == {s \in SlotsOf(g) : s.owner \in Leaving(p, g)}
<1>1. removal[p] \in Removal /\ g \in removal[p].vacant
  BY DEF RemovalInv, VacateGroup
<1>2. removal'[p] = [removal[p] EXCEPT !.vacant = {}, !.emptied = @ \cup {g},
                                       !.anchored = @ \cup taken]
  BY DEF VacateGroup, RemovalInv
<1> HIDE DEF taken
<1>3. /\ removal'[p].phase = removal[p].phase /\ removal'[p].seats = removal[p].seats
      /\ removal'[p].emptied = removal[p].emptied \cup {g}
      /\ removal'[p].anchored = removal[p].anchored \cup taken
      /\ removal'[p].purged = removal[p].purged /\ removal'[p].vacant = {}
  BY <1>1, <1>2 DEF Removal
<1> QED
  BY <1>1, <1>3 DEF taken

\* A removal begins with nothing counted and ends with nothing.
LEMMA BeginsClear ==
  ASSUME RemovalInv, NEW p \in Parents, BeginRemoval(p)
  PROVE  /\ removal'[p].phase = "VACATING"
         /\ removal'[p].vacant = {} /\ removal'[p].emptied = {} /\ removal'[p].anchored = {}
<1> DEFINE seats == {<<r, rsv[r].group>> : r \in
                       {q \in RIds : rsv[q].parent = p /\ rsv[q].group # Null}}
<1>1. removal[p] = NotRemoving
  BY DEF RemovalInv, BeginRemoval, IdleIsClear
<1>2. removal'[p] = [removal[p] EXCEPT !.phase = "VACATING", !.seats = seats,
                                       !.pending = {x[2] : x \in seats}]
  BY DEF BeginRemoval, RemovalInv
<1> HIDE DEF seats
<1> QED
  BY <1>1, <1>2 DEF NotRemoving

LEMMA Purged ==
  ASSUME RemovalInv, NEW p \in Parents, PurgeReservations(p)
  PROVE  /\ removal'[p].phase = "PURGED" /\ removal'[p].seats = removal[p].seats
         /\ removal'[p].emptied = removal[p].emptied
         /\ removal'[p].anchored = removal[p].anchored
         /\ removal'[p].vacant = removal[p].vacant
         /\ removal'[p].purged = {r \in RIds : rsv[r].parent = p}
<1>1. removal[p] \in Removal
  BY DEF RemovalInv
<1>2. removal'[p] = [removal[p] EXCEPT !.phase = "PURGED",
                                       !.purged = {r \in RIds : rsv[r].parent = p}]
  BY DEF PurgeReservations, RemovalInv
<1> QED
  BY <1>1, <1>2 DEF Removal

LEMMA Finished ==
  ASSUME RemovalInv, NEW p \in Parents, CommitRemoval(p) \/ AbortRemoval(p)
  PROVE  removal'[p] = NotRemoving /\ \A q \in Parents \ {p} : removal'[q] = removal[q]
BY DEF RemovalInv, CommitRemoval, AbortRemoval

\* What was seen and is there stays on its way out.
LEMMA PurgeStep ==
  ASSUME RemovalInv, PurgedIsAll, AnchoredAreEmptied, [RemovalNext]_removalVars
  PROVE  PurgedIsAll' /\ AnchoredAreEmptied'
<1> DEFINE All(p) == removal[p].phase = "PURGED" =>
             \A x \in removal[p].seats : rsv[x[1]].status = "NONE" \/ x[1] \in removal[p].purged
           Within(p) == \A s \in removal[p].anchored : s.group \in removal[p].emptied
<1>s. \A p \in Parents : \A x \in removal[p].seats : x[1] \in RIds
  BY DEF RemovalInv, Removal
<1>1. ASSUME NEW p \in Parents, removal'[p] = removal[p],
             \A x \in removal[p].seats :
               rsv[x[1]].status = "NONE" => rsv'[x[1]].status = "NONE"
      PROVE  All(p)' /\ Within(p)'
  BY <1>1 DEF PurgedIsAll, AnchoredAreEmptied
<1>2. ASSUME NEW p \in Parents, Statement(p) PROVE All(p)' /\ Within(p)'
  <2>0. rsv' = rsv /\ All(p) /\ Within(p)
    BY <1>2, StatementIsOwn DEF vars, PurgedIsAll, AnchoredAreEmptied
  <2>1. CASE BeginRemoval(p)
    BY <2>1, BeginsClear
  <2>2. ASSUME NEW g \in GIds, CountRemaining(p, g) PROVE All(p)' /\ Within(p)'
    BY <2>0, <2>2, Counted
  <2>3. ASSUME NEW g \in GIds, VacateGroup(p, g) PROVE All(p)' /\ Within(p)'
    <3>1. \A s \in SlotsOf(g) : s.group = g
      BY DEF SlotsOf
    <3> QED
      BY <2>0, <2>3, <3>1, Written
  <2>4. CASE PurgeReservations(p)
    BY <1>s, <2>0, <2>4, Purged DEF RemovalInv, SeatsAreOwn
  <2>5. CASE AbortRemoval(p)
    BY <2>5, Finished DEF NotRemoving
  <2> QED
    BY <1>2, <2>1, <2>2, <2>3, <2>4, <2>5 DEF Statement
<1>3. ASSUME NEW q \in Parents, Statement(q), NEW p \in Parents PROVE All(p)' /\ Within(p)'
  <2>1. CASE p = q
    BY <1>2, <1>3, <2>1
  <2>2. CASE p # q
    <3>1. rsv' = rsv /\ removal'[p] = removal[p]
      BY <1>3, <2>2, StatementIsOwn DEF vars
    <3> QED
      BY <1>1, <3>1
  <2> QED
    BY <2>1, <2>2
<1>4. ASSUME NEW q \in Parents, CommitRemoval(q), NEW p \in Parents PROVE All(p)' /\ Within(p)'
  <2>1. CASE p = q
    BY <1>4, <2>1, Finished DEF NotRemoving
  <2>2. CASE p # q
    <3>1. removal'[p] = removal[p]
      BY <1>4, <2>2, Finished
    <3>2. \A r \in RIds : rsv[r].status = "NONE" => rsv'[r].status = "NONE"
      BY <1>4, CommittedRows DEF NoReservation
    <3> QED
      BY <1>1, <1>s, <3>1, <3>2
  <2> QED
    BY <2>1, <2>2
<1>5. ASSUME Beside(Next), NEW p \in Parents PROVE All(p)' /\ Within(p)'
  <2>1. removal'[p] = removal[p] /\ ~Reuses(p)
    BY <1>5 DEF Beside
  <2>2. \A x \in removal[p].seats : rsv[x[1]].status = "NONE" => rsv'[x[1]].status = "NONE"
    BY <2>1 DEF Reuses, Exists
  <2> QED
    BY <1>1, <2>1, <2>2
<1>6. ASSUME UNCHANGED removalVars, NEW p \in Parents PROVE All(p)' /\ Within(p)'
  BY <1>1, <1>6 DEF removalVars, vars
<1>7. \A p \in Parents : All(p)' /\ Within(p)'
  BY <1>3, <1>4, <1>5, <1>6 DEF RemovalNext, Removing, Statement
<1> QED
  BY <1>7 DEF PurgedIsAll, AnchoredAreEmptied

\* A commit leaves an EMPTY group with members, or anchors beside members, only
\* if it was overtaken.
LEMMA OvertakenCommit ==
  ASSUME RemovalInv, PurgedIsAll, AnchoredAreEmptied, VacancyInv,
         NEW p \in Parents, CommitRemoval(p),
         \A g \in removal[p].emptied : Remaining(p, g) = {}
  PROVE  VacancyInv'
<1>1. /\ TimetableInv /\ removal[p].phase = "PURGED"
      /\ removal[p].emptied \subseteq GIds /\ removal[p].purged \subseteq RIds
  BY DEF RemovalInv, Removal, CommitRemoval
<1>2. ASSUME NEW g \in GIds PROVE Members(g)' \subseteq Members(g) \ removal[p].purged
  <2>1. \A r \in removal[p].purged : rsv'[r].group = Null
    BY CommittedRows DEF NoReservation
  <2>2. \A r \in RIds \ removal[p].purged : rsv'[r].group = rsv[r].group
    BY CommittedRows
  <2> QED
    BY <2>1, <2>2, IdsAreDisjoint DEF Members
<1>3. ASSUME NEW g \in removal[p].emptied PROVE Members(g)' = {}
  <2> SUFFICES ASSUME NEW r \in Members(g)' PROVE FALSE
    OBVIOUS
  <2>1. r \in RIds /\ rsv[r].group = g /\ r \notin removal[p].purged
    BY <1>1, <1>2 DEF Members
  <2>2. <<r, g>> \in removal[p].seats
    BY <2>1 DEF Remaining, Leaving, Members
  <2>3. rsv[r].status # "NONE"
    BY <1>1, <2>1, IdsAreDisjoint DEF TimetableInv, AbsentSitsNowhere
  <2>4. r = <<r, g>>[1]
    OBVIOUS
  <2> QED
    BY <1>1, <2>1, <2>2, <2>3, <2>4 DEF PurgedIsAll
<1>4. EmptyIsVacant'
  <2> SUFFICES ASSUME NEW g \in GIds, grp'[g].status = "EMPTY", g \notin removal[p].emptied
               PROVE  Members(g)' = {}
    BY <1>3 DEF EmptyIsVacant
  <2>1. Members(g) = {}
    BY CommittedRows DEF VacancyInv, EmptyIsVacant
  <2> QED
    BY <1>2, <2>1
<1>5. AnchorsOnlyWhenVacant'
  <2> SUFFICES ASSUME NEW s \in slot', s.owner = Null PROVE Members(s.group)' = {}
    BY DEF AnchorsOnlyWhenVacant
  <2>1. CASE s \in slot
    <3>1. Members(s.group) = {} /\ s.group \in GIds
      BY <1>1, <2>1 DEF VacancyInv, AnchorsOnlyWhenVacant, TimetableInv, TypeOK
    <3> QED
      BY <1>2, <3>1
  <2>2. ASSUME NEW t \in removal[p].anchored, s = [t EXCEPT !.owner = Null]
        PROVE  Members(s.group)' = {}
    <3>1. t \in [group: GIds, owner: RIds \cup {Null}, range: Ranges]
      BY <1>1, AnchoredOwners DEF TimetableInv, TypeOK
    <3>2. s.group = t.group /\ t.group \in removal[p].emptied
      BY <2>2, <3>1 DEF AnchoredAreEmptied
    <3> QED
      BY <1>3, <3>2
  <2> QED
    BY <2>1, <2>2 DEF CommitRemoval, SlotsAfter
<1> QED
  BY <1>4, <1>5 DEF VacancyInv

\* Whoever remains where nobody was counted has come since, before the write.
LEMMA OvertakenByJoin ==
  ASSUME RemovalInv, [RemovalNext]_removalVars, NEW p \in Parents, NEW g \in GIds,
         ~Overtaken(p, g), Overtaken(p, g)'
  PROVE  /\ g \in removal[p].vacant /\ Beside(Next)
         /\ ~(Members(g)' \subseteq Members(g))
<1> USE DEF Overtaken, Remaining, Leaving
<1>1. ASSUME removal'[p] = removal[p] PROVE ~(Members(g)' \subseteq Members(g))
  BY <1>1
<1>2. ASSUME NEW q \in Parents, Statement(q) PROVE FALSE
  <2>0. Members(g)' = Members(g)
    BY <1>2, StatementIsOwn DEF vars, Members
  <2>1. q = p
    BY <1>1, <1>2, <2>0, StatementIsOwn
  <2>2. CASE BeginRemoval(p)
    BY <2>2, BeginsClear
  <2>3. ASSUME NEW h \in GIds, CountRemaining(p, h) PROVE FALSE
    <3>1. g \in removal'[p].vacant \/ g \in removal[p].emptied
      BY <2>3, Counted
    <3>2. removal'[p].seats = removal[p].seats
      BY <2>3, Counted
    <3>3. Remaining(p, g) # {}
      BY <2>0, <3>2
    <3> HIDE DEF Remaining, Leaving
    <3>4. g \in removal'[p].vacant => g = h /\ Remaining(p, h) = {}
      <4>1. removal'[p].vacant = IF Remaining(p, h) = {} THEN {h} ELSE {}
        BY <2>3, Counted
      <4> QED
        BY <4>1
    <3> QED
      BY <3>1, <3>3, <3>4
  <2>4. ASSUME NEW h \in GIds, VacateGroup(p, h) PROVE FALSE
    BY <2>0, <2>4, Written
  <2>5. CASE PurgeReservations(p)
    BY <2>0, <2>5, Purged
  <2>6. CASE AbortRemoval(p)
    BY <2>6, Finished DEF NotRemoving
  <2> QED
    BY <1>2, <2>1, <2>2, <2>3, <2>4, <2>5, <2>6 DEF Statement
<1>3. ASSUME NEW q \in Parents, CommitRemoval(q) PROVE FALSE
  <2>1. q # p
    BY <1>3, Finished DEF NotRemoving
  <2>2. \A r \in RIds : rsv'[r].group \in {rsv[r].group, Null}
    BY <1>3, CommittedRows DEF NoReservation
  <2>3. Members(g)' \subseteq Members(g)
    BY <2>2, IdsAreDisjoint DEF Members
  <2> QED
    BY <1>1, <1>3, <2>1, <2>3, Finished
<1>4. CASE UNCHANGED removalVars
  BY <1>4 DEF removalVars, vars, Members
<1>5. CASE Beside(Next)
  <2>1. removal' = removal /\ ~Waits(p)
    BY <1>5 DEF Beside
  <2>2. ~(Members(g)' \subseteq Members(g))
    BY <1>1, <2>1
  <2>3. g \notin removal[p].emptied
    BY <2>1, <2>2 DEF Waits
  <2> QED
    BY <1>5, <2>1, <2>2, <2>3
<1> QED
  BY <1>2, <1>3, <1>4, <1>5 DEF RemovalNext, Removing, Statement

\* MembersService.remove: an EMPTY group has members, or a group anchors beside
\* members, only since the commit of a removal that was overtaken, and a removal is
\* overtaken only by somebody who takes a seat between its count of the group and
\* its write, for any number of removals beside everything the desk does.
THEOREM VacancyIsLostOnlyByOvertaking ==
  RemovalSpec =>
    /\ [][VacancyInv /\ ~VacancyInv' =>
            \E p \in Parents, g \in GIds : CommitRemoval(p) /\ Overtaken(p, g)]_removalVars
    /\ [][\A p \in Parents, g \in GIds : ~Overtaken(p, g) /\ Overtaken(p, g)' =>
            /\ g \in removal[p].vacant /\ Beside(Next)
            /\ ~(Members(g)' \subseteq Members(g))]_removalVars
<1>1. RemovalInit => PurgedIsAll /\ AnchoredAreEmptied
  BY DEF RemovalInit, PurgedIsAll, AnchoredAreEmptied, NotRemoving
<1>2. RemovalInv /\ PurgedIsAll /\ AnchoredAreEmptied /\ [RemovalNext]_removalVars
      => PurgedIsAll' /\ AnchoredAreEmptied'
  BY PurgeStep
<1>3. ASSUME RemovalInv, RemovalInv', NamedGroupsExist /\ CapacityRespected, PurgedIsAll,
             AnchoredAreEmptied, [RemovalNext]_removalVars, VacancyInv, ~VacancyInv'
      PROVE  \E p \in Parents, g \in GIds : CommitRemoval(p) /\ Overtaken(p, g)
  <2>0. TimetableInv /\ TimetableInv' /\ RoomInv
    BY <1>3 DEF RemovalInv, RoomInv
  <2>1. CASE UNCHANGED vars
    BY <1>3, <2>1 DEF vars, VacancyInv, EmptyIsVacant, AnchorsOnlyWhenVacant, Members
  <2>2. CASE Next
    BY <1>3, <2>0, <2>2, ApplyOccupancy, EditOccupancy, WithdrawOccupancy,
       LifecycleOccupancy, MembershipOccupancy DEF Next
  <2>3. ASSUME NEW p \in Parents, CommitRemoval(p)
        PROVE  \E g \in GIds : Overtaken(p, g)
    <3>1. PICK g \in removal[p].emptied : Remaining(p, g) # {}
      BY <1>3, <2>3, OvertakenCommit
    <3>2. g \in GIds
      BY <1>3 DEF RemovalInv, Removal
    <3> QED
      BY <3>1, <3>2 DEF Overtaken
  <2> QED
    BY <1>3, <2>1, <2>2, <2>3 DEF RemovalNext, Removing, removalVars, Beside, BeginRemoval,
       CountRemaining, VacateGroup, PurgeReservations, AbortRemoval
<1>4. RemovalInv /\ [RemovalNext]_removalVars =>
        \A p \in Parents, g \in GIds : ~Overtaken(p, g) /\ Overtaken(p, g)' =>
          /\ g \in removal[p].vacant /\ Beside(Next)
          /\ ~(Members(g)' \subseteq Members(g))
  BY OvertakenByJoin
<1> QED
  BY <1>1, <1>2, <1>3, <1>4, RemovalInductive, RemovalsKeepRoom, PTL DEF RemovalSpec

-----------------------------------------------------------------------------
(* A removal alone.  Nothing moves between its statements, so what it has   *)
(* read is what is there: its seats are the account's seats, the groups it  *)
(* has emptied are those it has reached and which only its applications     *)
(* used.  That is what other steps in between break.                        *)

Own(p) == {r \in RIds : rsv[r].parent = p}
Touched(p) == {x[2] : x \in removal[p].seats}

Accurate(p) ==
  LET m == removal[p] IN
  /\ \A r \in RIds, g \in GIds : <<r, g>> \in m.seats <=> r \in Own(p) /\ rsv[r].group = g
  /\ m.pending \cup m.vacant \subseteq Touched(p)
  /\ m.pending \cap m.vacant = {}
  /\ \A g, h \in m.vacant : g = h
  /\ \A g \in m.vacant : Members(g) \subseteq Own(p)
  /\ \A g \in GIds :
       g \in m.emptied <=> /\ g \in Touched(p) \ (m.pending \cup m.vacant)
                           /\ Members(g) \subseteq Own(p)
  /\ \A s \in slot : s \in m.anchored <=> s.group \in m.emptied /\ s.owner \in Own(p)
  /\ m.phase = "PURGED" => /\ m.pending = {} /\ m.vacant = {}
                           /\ m.purged = Own(p)

AloneInv ==
  /\ RemovalInv
  /\ OccupancyInv
  /\ PlacedInv
  /\ ConfirmedHasMembers
  /\ \A p \in Parents : removal[p].phase # "IDLE" => Accurate(p)

\* The bookkeeping steps: the tables stay, the other removals stay.
LEMMA TouchedGroups ==
  ASSUME RemovalInv, NEW p \in Parents, Accurate(p), NEW g \in GIds
  PROVE  /\ Leaving(p, g) = Members(g) \cap Own(p)
         /\ Remaining(p, g) = {} <=> Members(g) \subseteq Own(p)
         /\ g \in Touched(p) <=> Members(g) \cap Own(p) # {}
<1>1. removal[p].seats \subseteq RIds \X GIds
  BY DEF RemovalInv, Removal
<1>2. \A r \in RIds : <<r, g>> \in removal[p].seats <=> r \in Own(p) /\ rsv[r].group = g
  BY DEF Accurate
<1>3. Leaving(p, g) = Members(g) \cap Own(p)
  BY <1>2 DEF Leaving, Members, Own
<1>4. g \in Touched(p) <=> \E r \in RIds : <<r, g>> \in removal[p].seats
  <2>1. \A x \in removal[p].seats : x[1] \in RIds /\ x = <<x[1], x[2]>>
    BY <1>1
  <2>2. g \in Touched(p) => \E r \in RIds : <<r, g>> \in removal[p].seats
    BY <2>1 DEF Touched
  <2>3. ASSUME NEW r, <<r, g>> \in removal[p].seats PROVE g \in Touched(p)
    BY <2>3 DEF Touched
  <2> QED
    BY <2>2, <2>3
<1> QED
  BY <1>2, <1>3, <1>4 DEF Remaining, Members, Own

LEMMA BeginRemovalAccurate ==
  ASSUME RemovalInv, NEW p \in Parents, BeginRemoval(p)
  PROVE  Accurate(p)'
<1> DEFINE seats == {<<r, rsv[r].group>> : r \in
                       {q \in RIds : rsv[q].parent = p /\ rsv[q].group # Null}}
<1>0. rsv \in [RIds -> Row] /\ removal[p] = NotRemoving
  BY DEF RemovalInv, TimetableInv, TypeOK, BeginRemoval, IdleIsClear
<1>1. /\ removal'[p].phase = "VACATING" /\ removal'[p].seats = seats
      /\ removal'[p].pending = {x[2] : x \in seats} /\ removal'[p].vacant = {}
      /\ removal'[p].emptied = {} /\ removal'[p].anchored = {}
  <2> DEFINE m == [NotRemoving EXCEPT !.phase = "VACATING", !.seats = seats,
                                      !.pending = {x[2] : x \in seats}]
  <2>1. removal' = [removal EXCEPT ![p] = m]
    BY <1>0 DEF BeginRemoval, RemovalInv
  <2>2. removal'[p] = m
    BY <2>1 DEF RemovalInv
  <2> QED
    BY <2>2 DEF NotRemoving
<1>2. rsv' = rsv /\ slot' = slot
  BY DEF BeginRemoval, vars
<1>3. \A r \in RIds, g \in GIds : <<r, g>> \in seats <=> r \in Own(p) /\ rsv[r].group = g
  BY IdsAreDisjoint DEF Own
<1> QED
  BY <1>1, <1>2, <1>3 DEF Accurate, Touched, Own, Members

LEMMA CountRemainingAccurate ==
  ASSUME RemovalInv, NEW p \in Parents, Accurate(p), NEW g \in GIds, CountRemaining(p, g)
  PROVE  Accurate(p)'
<1>0. removal[p] \in Removal /\ removal \in [Parents -> Removal]
  BY DEF RemovalInv
<1>1. /\ removal'[p].phase = removal[p].phase /\ removal'[p].seats = removal[p].seats
      /\ removal'[p].pending = removal[p].pending \ {g}
      /\ removal'[p].vacant = IF Remaining(p, g) = {} THEN {g} ELSE {}
      /\ removal'[p].emptied = removal[p].emptied /\ removal'[p].anchored = removal[p].anchored
      /\ removal'[p].purged = removal[p].purged
  BY <1>0 DEF CountRemaining, Removal
<1>2. rsv' = rsv /\ slot' = slot /\ g \in removal[p].pending /\ removal[p].vacant = {}
  BY DEF CountRemaining, vars
<1>3. Remaining(p, g) = {} <=> Members(g) \subseteq Own(p)
  BY TouchedGroups
<1>4. /\ Own(p)' = Own(p) /\ Touched(p)' = Touched(p)
      /\ \A h \in GIds : Members(h)' = Members(h)
  BY <1>1, <1>2 DEF Own, Touched, Members
<1>5. removal[p].phase # "PURGED"
  BY <1>2 DEF Accurate
<1> QED
  BY <1>1, <1>2, <1>3, <1>4, <1>5 DEF Accurate

LEMMA VacateGroupAccurate ==
  ASSUME RemovalInv, NEW p \in Parents, Accurate(p), NEW g \in GIds, VacateGroup(p, g)
  PROVE  Accurate(p)'
<1>0. removal[p] \in Removal /\ removal \in [Parents -> Removal]
  BY DEF RemovalInv
<1>1. /\ removal'[p].phase = removal[p].phase /\ removal'[p].seats = removal[p].seats
      /\ removal'[p].pending = removal[p].pending /\ removal'[p].vacant = {}
      /\ removal'[p].emptied = removal[p].emptied \cup {g}
      /\ removal'[p].anchored =
           removal[p].anchored \cup {s \in SlotsOf(g) : s.owner \in Leaving(p, g)}
      /\ removal'[p].purged = removal[p].purged
  BY <1>0 DEF VacateGroup, Removal
<1>2. rsv' = rsv /\ slot' = slot /\ g \in removal[p].vacant
  BY DEF VacateGroup, vars
<1>3. /\ Own(p)' = Own(p) /\ Touched(p)' = Touched(p)
      /\ \A h \in GIds : Members(h)' = Members(h)
  BY <1>1, <1>2 DEF Own, Touched, Members
<1>4. /\ removal[p].phase # "PURGED" /\ removal[p].vacant = {g} /\ g \in Touched(p)
      /\ g \notin removal[p].pending /\ Members(g) \subseteq Own(p)
  BY <1>2 DEF Accurate
<1>5. ASSUME NEW s \in slot
      PROVE  s \in removal'[p].anchored <=> s.group \in removal'[p].emptied /\ s.owner \in Own(p)
  <2>1. s.owner \in Own(p) => rsv[s.owner].group = s.group /\ s.owner \in RIds
    BY IdsAreDisjoint DEF RemovalInv, TimetableInv, SlotOwnerIsMember, Own
  <2>2. s.owner \in Leaving(p, g) <=> s.owner \in Own(p) /\ s.owner \in Members(g)
    BY TouchedGroups
  <2>3. CASE s.group = g
    <3>1. s \in removal[p].anchored => s.owner \in Own(p)
      BY DEF Accurate
    <3>2. s \in SlotsOf(g)
      BY <2>3 DEF SlotsOf
    <3>3. s.owner \in Own(p) => s.owner \in Members(g)
      BY <2>1, <2>3 DEF Members
    <3> QED
      BY <1>1, <2>2, <2>3, <3>1, <3>2, <3>3
  <2>4. CASE s.group # g
    BY <1>1, <2>4 DEF SlotsOf, Accurate
  <2> QED
    BY <2>3, <2>4
<1>6. \A h \in GIds :
        h \in removal'[p].emptied <=>
          /\ h \in Touched(p) \ (removal'[p].pending \cup removal'[p].vacant)
          /\ Members(h) \subseteq Own(p)
  BY <1>1, <1>4 DEF Accurate
<1> QED
  BY <1>1, <1>2, <1>3, <1>4, <1>5, <1>6 DEF Accurate

LEMMA PurgeReservationsAccurate ==
  ASSUME RemovalInv, NEW p \in Parents, Accurate(p), PurgeReservations(p)
  PROVE  Accurate(p)'
<1>0. removal[p] \in Removal /\ removal \in [Parents -> Removal]
  BY DEF RemovalInv
<1>1. /\ removal'[p].seats = removal[p].seats
      /\ removal'[p].pending = {} /\ removal'[p].vacant = {}
      /\ removal[p].pending = {} /\ removal[p].vacant = {}
      /\ removal'[p].emptied = removal[p].emptied /\ removal'[p].anchored = removal[p].anchored
      /\ removal'[p].purged = Own(p)
  BY <1>0 DEF PurgeReservations, Removal, Own
<1>2. rsv' = rsv /\ slot' = slot
  BY DEF PurgeReservations, vars
<1> QED
  BY <1>1, <1>2 DEF Accurate, Own, Touched, Members

\* Who begins is not idle afterwards, and who is idle has no groups to visit.
LEMMA BeginRemovalPhase ==
  ASSUME RemovalInv, NEW p \in Parents, BeginRemoval(p)
  PROVE  removal'[p].phase = "VACATING"
<1>1. removal[p] \in Removal
  BY DEF RemovalInv
<1> QED
  BY <1>1 DEF BeginRemoval, RemovalInv, Removal

LEMMA IdleHasNothing ==
  ASSUME RemovalInv, NEW p \in Parents, removal[p].phase = "IDLE"
  PROVE  removal[p].pending = {} /\ removal[p].vacant = {}
BY DEF RemovalInv, IdleIsClear, NotRemoving

-----------------------------------------------------------------------------
(* The commit of a removal that nothing interrupted.                       *)

LEMMA CommitMembers ==
  ASSUME AloneInv, NEW p \in Parents, CommitRemoval(p)
  PROVE  /\ RemovalInv /\ Accurate(p) /\ removal[p].purged = Own(p)
         /\ \A g \in GIds : Members(g)' = Members(g) \ Own(p)
         /\ \A g \in GIds : g \in removal[p].emptied <=>
              Members(g) \cap Own(p) # {} /\ Members(g) \subseteq Own(p)
<1>1. RemovalInv /\ Accurate(p) /\ removal[p].phase = "PURGED"
  BY DEF AloneInv, CommitRemoval
<1>2. /\ removal[p].purged = Own(p) /\ removal[p].pending = {} /\ removal[p].vacant = {}
  BY <1>1 DEF Accurate
<1>3. ASSUME NEW g \in GIds PROVE Members(g)' = Members(g) \ Own(p)
  <2>1. \A r \in Own(p) : rsv'[r].group = Null /\ r \in RIds
    BY <1>1, <1>2, CommittedRows DEF NoReservation, Own
  <2>2. \A r \in RIds \ Own(p) : rsv'[r].group = rsv[r].group
    BY <1>1, <1>2, CommittedRows
  <2> QED
    BY <2>1, <2>2, IdsAreDisjoint DEF Members
<1>4. ASSUME NEW g \in GIds
      PROVE  g \in removal[p].emptied <=>
               Members(g) \cap Own(p) # {} /\ Members(g) \subseteq Own(p)
  <2>1. g \in removal[p].emptied <=> g \in Touched(p) /\ Members(g) \subseteq Own(p)
    BY <1>1, <1>2 DEF Accurate
  <2> QED
    BY <1>1, <2>1, TouchedGroups
<1> QED
  BY <1>1, <1>2, <1>3, <1>4

LEMMA CommitVacancy ==
  ASSUME AloneInv, NEW p \in Parents, CommitRemoval(p)
  PROVE  VacancyInv' /\ ConfirmedHasMembers'
<1>1. /\ RemovalInv /\ VacancyInv /\ ConfirmedHasMembers /\ TimetableInv /\ Accurate(p)
      /\ removal[p].purged = Own(p)
  BY CommitMembers DEF AloneInv, RemovalInv, OccupancyInv
<1>2. EmptyIsVacant'
  <2> SUFFICES ASSUME NEW g \in GIds, grp'[g].status = "EMPTY" PROVE Members(g)' = {}
    BY DEF EmptyIsVacant
  <2>1. CASE g \in removal[p].emptied
    BY <2>1, CommitMembers
  <2>2. CASE g \notin removal[p].emptied
    BY <1>1, <2>2, CommitMembers, CommittedRows DEF VacancyInv, EmptyIsVacant
  <2> QED
    BY <2>1, <2>2
<1>3. AnchorsOnlyWhenVacant'
  <2> SUFFICES ASSUME NEW s \in slot', s.owner = Null PROVE Members(s.group)' = {}
    BY DEF AnchorsOnlyWhenVacant
  <2>1. CASE s \in slot
    <3>1. Members(s.group) = {} /\ s.group \in GIds
      BY <1>1, <2>1 DEF VacancyInv, AnchorsOnlyWhenVacant, TimetableInv, TypeOK
    <3> QED
      BY <3>1, CommitMembers
  <2>2. ASSUME NEW t \in removal[p].anchored, s = [t EXCEPT !.owner = Null]
        PROVE  Members(s.group)' = {}
    <3>1. t \in slot /\ t \in [group: GIds, owner: RIds \cup {Null}, range: Ranges]
      BY <1>1, AnchoredOwners DEF TimetableInv, TypeOK
    <3>2. s.group = t.group /\ t.group \in removal[p].emptied
      BY <1>1, <2>2, <3>1 DEF Accurate
    <3> QED
      BY <3>1, <3>2, CommitMembers
  <2> QED
    BY <2>1, <2>2 DEF CommitRemoval, SlotsAfter
<1>4. ConfirmedHasMembers'
  <2> SUFFICES ASSUME NEW g \in GIds, grp'[g].status = "CONFIRMED" PROVE Members(g)' # {}
    BY DEF ConfirmedHasMembers
  <2>1. g \notin removal[p].emptied /\ grp[g].status = "CONFIRMED"
    BY <1>1, CommittedRows
  <2>2. Members(g) # {}
    BY <1>1, <2>1 DEF ConfirmedHasMembers
  <2> QED
    BY <2>1, <2>2, CommitMembers
<1> QED
  BY <1>2, <1>3, <1>4 DEF VacancyInv

LEMMA CommitPlaced ==
  ASSUME AloneInv, NEW p \in Parents, CommitRemoval(p)
  PROVE  PlacedInv'
<1>1. RemovalInv /\ PlacedInv /\ TimetableInv /\ Accurate(p) /\ removal[p].purged = Own(p)
  BY CommitMembers DEF AloneInv, RemovalInv
<1> SUFFICES ASSUME NEW q \in RIds
             PROVE  Placed(rsv'[q], TimesGiven(q)')
  BY DEF PlacedInv
<1>2. q # Null
  BY IdsAreDisjoint
<1>3. CASE q \in Own(p)
  <2>1. \A s \in slot' : s.owner # q
    BY <1>1, <1>2, <1>3, CommittedSlots
  <2>2. TimesGiven(q)' = {}
    BY <2>1, TimesAreSlotsPrime
  <2>3. rsv'[q].status # "GROUPED" /\ rsv'[q].group = Null
    BY <1>1, <1>3, CommittedRows DEF NoReservation
  <2> QED
    BY <2>2, <2>3, Unplaced
<1>4. CASE q \notin Own(p)
  <2>1. ASSUME NEW s, s.owner = q PROVE s \in slot' <=> s \in slot
    <3>1. s \in slot' => s \in slot
      BY <1>1, <1>2, <2>1, CommittedSlots
    <3>2. s \in slot => s \notin removal[p].anchored
      BY <1>1, <1>4, <2>1 DEF Accurate
    <3> QED
      BY <1>1, <1>4, <2>1, <3>1, <3>2 DEF CommitRemoval, SlotsAfter
  <2>2. TimesGiven(q)' = TimesGiven(q)
    BY <2>1, SameTimes
  <2>3. /\ rsv'[q].status = rsv[q].status /\ rsv'[q].group = rsv[q].group
        /\ rsv'[q].prefs = rsv[q].prefs
    BY <1>1, <1>4, CommittedRows
  <2> QED
    BY <1>1, <2>2, <2>3, StaysPlaced
<1> QED
  BY <1>3, <1>4

-----------------------------------------------------------------------------
(* The parents' applications and the group services between removals.      *)

\* Applying, creating, joining, moving and leaving: a group is CONFIRMED only
\* with somebody in it.
LEMMA SeatingKeepsMembers ==
  ASSUME TimetableInv, ConfirmedHasMembers, Seating
  PROVE  ConfirmedHasMembers'
<1> SUFFICES ASSUME NEW g \in GIds, grp'[g].status = "CONFIRMED"
             PROVE  Members(g)' # {}
  BY DEF ConfirmedHasMembers
<1>0. /\ rsv \in [RIds -> Row] /\ grp \in [GIds -> GroupRow] /\ g # Null
      /\ grp[g].status = "CONFIRMED" => Members(g) # {}
  BY IdsAreDisjoint DEF TimetableInv, TypeOK, ConfirmedHasMembers
<1>1. CASE Apply
  <2>1. grp' = grp /\ \A q \in RIds : rsv[q].group = g => rsv'[q] = rsv[q]
    BY <1>0, <1>1 DEF Apply, CreateReservation, CreateWalkIn, TimetableInv, AbsentSitsNowhere
  <2> QED
    BY <1>0, <2>1 DEF Members
<1>2. ASSUME NEW h \in GIds, RemoveGroup(h) PROVE Members(g)' # {}
  <2>1. h # g
    BY <1>0, <1>2 DEF RemoveGroup, NoGroup
  <2>2. /\ grp'[g] = grp[g]
        /\ \A q \in RIds : rsv[q].group = g => rsv'[q].group = g
    BY <1>0, <1>2, <2>1 DEF RemoveGroup, Row
  <2> QED
    BY <1>0, <2>2 DEF Members
<1>3. ASSUME NEW h \in GIds, NEW ids \in SUBSET RIds, NEW assign \in [ids -> SUBSET Ranges],
             NEW capacity, NEW minAge, NEW maxAge, NEW sched,
             CreateGroup(h, assign, capacity, minAge, maxAge, sched)
      PROVE  Members(g)' # {}
  <2>0. \A r \in ids : r \in RIds /\ rsv[r].group = Null /\ rsv'[r].group = h
    BY <1>0, <1>3 DEF CreateGroup, AcceptsGroup, Row
  <2>1. CASE h = g
    <3>1. ids # {}
      BY <1>0, <1>3, <2>1 DEF CreateGroup, AcceptsGroup
    <3> QED
      BY <2>0, <2>1, <3>1 DEF Members
  <2>2. CASE h # g
    <3>1. /\ grp'[g] = grp[g]
          /\ \A q \in RIds : q \notin ids => rsv'[q] = rsv[q]
      BY <1>0, <1>3, <2>2 DEF CreateGroup, AcceptsGroup
    <3> QED
      BY <1>0, <2>0, <3>1 DEF Members
  <2> QED
    BY <2>1, <2>2
<1>4. ASSUME NEW h \in GIds, NEW capacity, NEW minAge, NEW maxAge, NEW sched,
             UpdateGroup(h, capacity, minAge, maxAge, sched)
      PROVE  Members(g)' # {}
  <2>1. rsv' = rsv /\ grp'[g].status = grp[g].status
    BY <1>0, <1>4 DEF UpdateGroup, EditedGroup, GroupRow
  <2> QED
    BY <1>0, <2>1 DEF Members
<1>5. ASSUME NEW h \in GIds, NEW r \in RIds, RemoveMember(h, r) PROVE Members(g)' # {}
  <2>1. \A q \in RIds : q # r => rsv'[q] = rsv[q]
    BY <1>0, <1>5 DEF RemoveMember
  <2>2. CASE h = g
    <3>1. Members(g) # {r} /\ r \in Members(g)
      BY <1>0, <1>5, <2>2 DEF RemoveMember, Seated, Members, GroupRow
    <3>2. PICK q \in Members(g) : q # r
      BY <3>1
    <3> QED
      BY <2>1, <3>2 DEF Members
  <2>3. CASE h # g
    BY <1>0, <1>5, <2>1, <2>3 DEF RemoveMember, Seated, Members
  <2> QED
    BY <2>2, <2>3
<1>6. ASSUME NEW h \in GIds, NEW r \in RIds, NEW slots, AddMember(h, r, slots)
      PROVE  Members(g)' # {}
  <2>1. rsv[r].group = Null /\ rsv'[r].group = h /\ \A q \in RIds : q # r => rsv'[q] = rsv[q]
    BY <1>0, <1>6 DEF AddMember, Row
  <2>2. h # g => grp'[g] = grp[g]
    BY <1>0, <1>6 DEF AddMember
  <2> QED
    BY <1>0, <2>1, <2>2 DEF Members
<1>7. ASSUME NEW h \in GIds, NEW r \in RIds, NEW slots, ReplaceMemberSlots(h, r, slots)
      PROVE  Members(g)' # {}
  BY <1>0, <1>7 DEF ReplaceMemberSlots, Members
<1>8. ASSUME NEW h \in GIds, NEW target \in GIds, NEW r \in RIds, NEW slots,
             MoveMember(h, target, r, slots)
      PROVE  Members(g)' # {}
  <2>1. \A q \in RIds : q # r => rsv'[q] = rsv[q]
    BY <1>0, <1>8 DEF MoveMember
  <2>2. rsv[r].group = h /\ rsv'[r].group = target /\ h # target
    BY <1>0, <1>8 DEF MoveMember, Seated, Row
  <2>3. CASE g = target
    BY <2>2, <2>3 DEF Members
  <2>4. CASE g = h
    <3>1. grp'[g].status = IF Members(g) = {r} THEN "EMPTY" ELSE grp[g].status
      BY <1>0, <1>8, <2>2, <2>4 DEF MoveMember, GroupRow
    <3>2. Members(g) # {r} /\ r \in Members(g)
      BY <2>2, <2>4, <3>1 DEF Members
    <3>3. PICK q \in Members(g) : q # r
      BY <3>2
    <3> QED
      BY <2>1, <3>3 DEF Members
  <2>5. CASE g # target /\ g # h
    <3>1. grp'[g] = grp[g]
      BY <1>0, <1>8, <2>5 DEF MoveMember
    <3> QED
      BY <1>0, <2>1, <2>2, <2>5, <3>1 DEF Members
  <2> QED
    BY <2>3, <2>4, <2>5
<1>9. CASE Lifecycle
  BY <1>2, <1>3, <1>4, <1>9 DEF Lifecycle
<1>10. CASE Membership
  BY <1>5, <1>6, <1>7, <1>8, <1>10 DEF Membership
<1> QED
  BY <1>1, <1>9, <1>10 DEF Seating

LEMMA SeatingAlone ==
  ASSUME AloneInv, Quiet, Beside(Seating)
  PROVE  AloneInv'
<1>0. /\ RemovalInv /\ TimetableInv /\ OccupancyInv /\ PlacedInv /\ ConfirmedHasMembers
      /\ Seating /\ removal' = removal
  BY DEF AloneInv, RemovalInv, Beside
<1>1. RemovalInv'
  BY <1>0, BesideSafe DEF Beside, Seating, Next
<1>2. TimetableInv'
  BY <1>1 DEF RemovalInv
<1>3. OccupancyInv'
  BY <1>0, <1>2, ApplyOccupancy, LifecycleOccupancy, MembershipOccupancy
  DEF Seating, OccupancyInv
<1>4. PlacedInv'
  BY <1>0, ApplyPlaced, LifecyclePlaced, MembershipPlaced DEF Seating, PlacedInv
<1>5. ConfirmedHasMembers'
  BY <1>0, SeatingKeepsMembers
<1>6. \A p \in Parents : removal'[p].phase = "IDLE"
  BY <1>0 DEF Quiet
<1> QED
  BY <1>1, <1>3, <1>4, <1>5, <1>6 DEF AloneInv

\* Tables that stay keep everything that is said of tables.
LEMMA TablesStay ==
  ASSUME OccupancyInv, PlacedInv, ConfirmedHasMembers, UNCHANGED vars
  PROVE  OccupancyInv' /\ PlacedInv' /\ ConfirmedHasMembers'
<1>1. rsv' = rsv /\ grp' = grp /\ slot' = slot
  BY DEF vars
<1>2. \A r \in RIds : TimesGiven(r)' = TimesGiven(r)
  BY <1>1 DEF TimesGiven
<1> QED
  BY <1>1, <1>2
  DEF OccupancyInv, RoomInv, VacancyInv, NamedGroupsExist, EmptyIsVacant, LiveGroups,
      Live, AnchorsOnlyWhenVacant, CapacityRespected, Members, PlacedInv, ConfirmedHasMembers

\* A statement of one removal, the others idle.
LEMMA RemovingAlone ==
  ASSUME AloneInv, Removing, NEW p \in Parents,
         \A q \in Parents \ {p} : removal[q].phase = "IDLE" /\ removal'[q].phase = "IDLE"
  PROVE  AloneInv'
<1>0. RemovalInv /\ RemovalInv'
  BY RemovalStepSafe DEF AloneInv, RemovalNext
<1> SUFFICES /\ OccupancyInv' /\ PlacedInv' /\ ConfirmedHasMembers'
             /\ removal'[p].phase # "IDLE" => Accurate(p)'
  BY <1>0 DEF AloneInv
<1>1. PICK q \in Parents : \/ BeginRemoval(q)
                           \/ \E g \in GIds : CountRemaining(q, g) \/ VacateGroup(q, g)
                           \/ PurgeReservations(q)
                           \/ CommitRemoval(q)
                           \/ AbortRemoval(q)
  BY DEF Removing
<1>2. CASE CommitRemoval(q)
  <2>1. q = p
    BY <1>2 DEF CommitRemoval
  <2>2. removal'[p].phase = "IDLE"
    BY <1>0, <1>2, <2>1 DEF CommitRemoval, RemovalInv, NotRemoving
  <2> QED
    BY <1>0, <1>2, <2>2, CommitRoom, CommitVacancy, CommitPlaced DEF AloneInv, OccupancyInv
<1>3. CASE ~CommitRemoval(q)
  <2>1. UNCHANGED vars
    BY <1>1, <1>3 DEF BeginRemoval, CountRemaining, VacateGroup, PurgeReservations, AbortRemoval
  <2>2. ASSUME removal'[p].phase # "IDLE" PROVE Accurate(p)'
    <3>1. CASE BeginRemoval(q)
      <4>1. q = p
        BY <1>0, <3>1, BeginRemovalPhase
      <4> QED
        BY <1>0, <3>1, <4>1, BeginRemovalAccurate
    <3>2. CASE \E g \in GIds : CountRemaining(q, g) \/ VacateGroup(q, g)
      <4>1. q = p
        BY <1>0, <3>2, IdleHasNothing DEF CountRemaining, VacateGroup
      <4>2. Accurate(p)
        BY <1>0, <3>2, <4>1, IdleHasNothing DEF CountRemaining, VacateGroup, AloneInv
      <4> QED
        BY <1>0, <3>2, <4>1, <4>2, CountRemainingAccurate, VacateGroupAccurate
    <3>3. CASE PurgeReservations(q)
      <4>1. q = p /\ Accurate(p)
        BY <3>3 DEF PurgeReservations, AloneInv
      <4> QED
        BY <1>0, <3>3, <4>1, PurgeReservationsAccurate
    <3>4. CASE AbortRemoval(q)
      <4>1. q = p
        BY <3>4 DEF AbortRemoval
      <4>2. removal'[p].phase = "IDLE"
        BY <1>0, <3>4, <4>1 DEF AbortRemoval, RemovalInv, NotRemoving
      <4> QED
        BY <2>2, <4>2
    <3> QED
      BY <1>1, <1>3, <3>1, <3>2, <3>3, <3>4
  <2> QED
    BY <2>1, <2>2, TablesStay DEF AloneInv
<1> QED
  BY <1>2, <1>3

\* A removal that nothing interrupts and the services between removals keep
\* seats, times, requests and removals in step.
THEOREM AloneInductive == AloneSpec => []AloneInv
<1>1. RemovalInit => AloneInv
  <2> SUFFICES ASSUME RemovalInit PROVE AloneInv
    OBVIOUS
  <2>1. RemovalInv
    BY RemovalInitSafe
  <2>2. OccupancyInv /\ PlacedInv
    BY InitOccupancy, InitPlaced DEF RemovalInit
  <2>3. ConfirmedHasMembers
    BY DEF RemovalInit, Init, NoGroup, ConfirmedHasMembers
  <2>4. \A p \in Parents : removal[p].phase = "IDLE"
    BY DEF RemovalInit, NotRemoving
  <2> QED
    BY <2>1, <2>2, <2>3, <2>4 DEF AloneInv
<1>2. AloneInv /\ [AloneNext]_removalVars => AloneInv'
  <2> SUFFICES ASSUME AloneInv, [AloneNext]_removalVars PROVE AloneInv'
    OBVIOUS
  <2>1. CASE UNCHANGED removalVars
    <3>1. RemovalInv'
      BY <2>1, RemovalStepSafe DEF AloneInv
    <3>2. OccupancyInv' /\ PlacedInv' /\ ConfirmedHasMembers'
      BY <2>1, TablesStay DEF AloneInv, removalVars
    <3>3. \A p \in Parents : Accurate(p) => Accurate(p)'
      BY <2>1 DEF removalVars, vars, Accurate, Own, Touched, Members
    <3> QED
      BY <2>1, <3>1, <3>2, <3>3 DEF AloneInv, removalVars
  <2> QED
    BY <2>1, SeatingAlone, RemovingAlone DEF AloneNext
<1> QED
  BY <1>1, <1>2, PTL DEF AloneSpec

\* With one removal at a time and none of the unchecked edits and deletes, a
\* CONFIRMED group has members, whatever accounts are deleted.
THEOREM ConfirmedGroupsHaveMembers == AloneSpec => []ConfirmedHasMembers
<1>1. AloneInv => ConfirmedHasMembers
  BY DEF AloneInv
<1> QED
  BY <1>1, AloneInductive, PTL

\* Removals alone leave no application in a group that is gone, nobody GROUPED
\* without a seat and no time outside an application's wishes.
THEOREM RemovalsAloneKeepPlaces ==
  AloneSpec => [](NamedGroupsExist /\ GroupedIffSeated /\ SlotsWithinPreferences)
<1>1. AloneInv => NamedGroupsExist /\ GroupedIffSeated /\ SlotsWithinPreferences
  BY PlacedAreSeated, PlacedWithinWishes DEF AloneInv, RemovalInv, OccupancyInv, RoomInv
<1> QED
  BY <1>1, AloneInductive, PTL

\* Only a commit deletes an account, also of a removal alone.
LEMMA AloneDeletesByCommit ==
  ASSUME AloneInv, [AloneNext]_removalVars, accounts' # accounts
  PROVE  \E p \in Parents : CommitRemoval(p) /\ accounts \ accounts' = {p}
<1>1. [RemovalNext]_removalVars
  BY DEF AloneNext, RemovalNext, Beside, Seating, Next
<1> QED
  BY <1>1, OnlyCommitsDelete DEF AloneInv

\* When nothing runs between its statements, a removal deletes every
\* application of the account.
THEOREM ApplicationsAlwaysLeave == AloneSpec => ApplicationsLeaveWithAccount
<1>1. AloneInv /\ [AloneNext]_removalVars =>
        \A p \in accounts \ accounts', r \in RIds : rsv[r].parent = p => ~Exists(r)'
  <2> SUFFICES ASSUME AloneInv, [AloneNext]_removalVars,
                      NEW p \in accounts \ accounts', NEW r \in RIds, rsv[r].parent = p
               PROVE  ~Exists(r)'
    OBVIOUS
  <2>1. PICK q \in Parents : CommitRemoval(q) /\ accounts \ accounts' = {q}
    BY AloneDeletesByCommit
  <2>2. r \in removal[q].purged
    BY <2>1, CommitMembers DEF Own
  <2> QED
    BY <2>1, <2>2, CommittedRows DEF AloneInv, NoReservation, Exists
<1> QED
  BY <1>1, AloneInductive, PTL DEF AloneSpec, ApplicationsLeaveWithAccount

\* A group whose last members leave with their account is EMPTY and keeps its
\* times: the leavers' slots are anchors, the others' stay.
THEOREM RemovalAlwaysKeepsTimetable == AloneSpec => RemovalKeepsTimetable
<1>1. ASSUME AloneInv, NEW p \in Parents, CommitRemoval(p), NEW g \in GIds,
             Members(g) # {}, Members(g)' = {}
      PROVE  grp'[g].status = "EMPTY" /\ RangesOf(g)' = RangesOf(g)
  <2>1. /\ RemovalInv /\ TimetableInv /\ Accurate(p) /\ removal[p].purged = Own(p)
        /\ OccupancyInv
    BY <1>1, CommitMembers DEF AloneInv, RemovalInv
  <2>2. Members(g) \subseteq Own(p) /\ g \in removal[p].emptied
    BY <1>1, CommitMembers
  <2>3. ASSUME NEW s \in slot', s.group = g
        PROVE  s.range \in RangesOf(g)
    <3>1. PICK t \in slot : t.group = s.group /\ t.range = s.range
      BY <1>1, <2>1, CommittedSlots
    <3> QED
      BY <2>3, <3>1 DEF RangesOf, SlotsOf
  <2>4. ASSUME NEW s \in slot, s.group = g
        PROVE  \E t \in slot' : t.group = g /\ t.range = s.range
    <3>1. s \in [group: GIds, owner: RIds \cup {Null}, range: Ranges]
      BY <2>1 DEF TimetableInv, TypeOK
    <3>2. s.owner # Null
      BY <1>1, <2>1, <2>4 DEF OccupancyInv, VacancyInv, AnchorsOnlyWhenVacant
    <3>3. s.owner \in Members(g)
      BY <2>1, <2>4, <3>1, <3>2 DEF TimetableInv, SlotOwnerIsMember, Members
    <3>4. s \in removal[p].anchored
      BY <2>1, <2>2, <2>4, <3>3 DEF Accurate
    <3>5. [s EXCEPT !.owner = Null] \in slot'
      BY <1>1, <3>4 DEF CommitRemoval, SlotsAfter
    <3>6. [s EXCEPT !.owner = Null].group = g /\ [s EXCEPT !.owner = Null].range = s.range
      BY <2>4, <3>1
    <3> QED
      BY <3>5, <3>6
  <2>5. RangesOf(g)' = RangesOf(g)
    BY <2>3, <2>4 DEF RangesOf, SlotsOf
  <2> QED
    BY <1>1, <2>1, <2>2, <2>5, CommittedRows
<1>2. AloneInv /\ [AloneNext]_removalVars =>
        (accounts' # accounts =>
           \A g \in GIds : Members(g) # {} /\ Members(g)' = {} =>
             grp'[g].status = "EMPTY" /\ RangesOf(g)' = RangesOf(g))
  BY <1>1, AloneDeletesByCommit
<1> QED
  BY <1>2, AloneInductive, PTL DEF AloneSpec, RemovalKeepsTimetable

=============================================================================
