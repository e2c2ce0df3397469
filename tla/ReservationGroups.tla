------------------------- MODULE ReservationGroups -------------------------
(***************************************************************************)
(* The reservation core of the academy backend: reservations (a child's    *)
(* application with its preferred weekly times), reservation groups (the   *)
(* classes an administrator builds out of them) and the group slots that   *)
(* place the members on the weekly timetable.                              *)
(*                                                                         *)
(* Every group operation runs in one Serializable transaction and every    *)
(* reservation edit is one statement, so each handler is one action.  A    *)
(* failing check rolls everything back: the checks are the guards.  Rows   *)
(* of the three tables are the three variables; e-mails are not modelled.  *)
(***************************************************************************)
EXTENDS Integers, FiniteSets

CONSTANTS
  RIds,              \* reservation ids
  GIds,              \* group ids
  Children,          \* ids of registered children
  Parents,           \* ids of parent accounts
  ParentOf,          \* the account each child belongs to
  Null,              \* the database's NULL, and an absent DTO field
  Ranges,            \* weekly time ranges [day, start, end] inputs may name
  PrefChoices,       \* preferred-slot lists an application may carry
  Ages,              \* child ages inputs may name
  AgeLimits,         \* age limits a group's DTO may name
  Capacities,        \* group capacities inputs may name
  RequestableGroups, \* groups an application may ask to join
  StatusEdits        \* statuses the reservation PATCH may write

ReservationStatus == {"WAITING", "GROUPED", "CANCELLED"}
GroupStatus == {"CONFIRMED", "EMPTY"}

\* What the DTOs accept: times in order, at least one of them in an
\* application, ages 4 to 10, a seat or more, and one of the three statuses.
IsRange(x) == x \in [day: STRING, start: Nat, end: Nat] /\ x.start < x.end
Applicable == (SUBSET Ranges) \ {{}}
AgeBounds == 4..10
Seats == Nat \ {0}

ASSUME IdsAreDisjoint ==
  /\ IsFiniteSet(RIds)
  /\ Null \notin RIds /\ Null \notin GIds /\ Null \notin Ranges
  /\ Null \notin Children /\ Null \notin Parents
  /\ ParentOf \in [Children -> Parents]

ASSUME RangesAreValid == \A x \in Ranges : IsRange(x)

ASSUME InputsAreValid ==
  /\ PrefChoices \subseteq Applicable
  /\ Ages \subseteq AgeBounds /\ AgeLimits \subseteq AgeBounds
  /\ Capacities \subseteq Seats
  /\ RequestableGroups \subseteq GIds
  /\ StatusEdits \subseteq ReservationStatus

VARIABLES
  rsv,   \* Reservation rows by id; status "NONE" is a row that does not exist
  grp,   \* ReservationGroup rows by id
  slot   \* ReservationGroupSlot rows; owner Null is an "anchor"

vars == <<rsv, grp, slot>>

Row == [status: ReservationStatus \cup {"NONE"}, age: 4..10,
        prefs: SUBSET Ranges, group: GIds \cup {Null}, wants: GIds \cup {Null},
        child: Children \cup {Null}, parent: Parents \cup {Null}]
GroupRow == [status: GroupStatus \cup {"NONE"}, capacity: Nat, minAge: 4..10,
             maxAge: 4..10, schedule: Ranges \cup {Null}]

NoReservation == [status |-> "NONE", age |-> 4, prefs |-> {}, group |-> Null,
                  wants |-> Null, child |-> Null, parent |-> Null]
NoGroup == [status |-> "NONE", capacity |-> 0, minAge |-> 4, maxAge |-> 10,
            schedule |-> Null]

TypeOK ==
  /\ rsv \in [RIds -> Row]
  /\ grp \in [GIds -> GroupRow]
  /\ slot \subseteq [group: GIds, owner: RIds \cup {Null}, range: Ranges]

-----------------------------------------------------------------------------
(* Ranges, and the checks of ReservationGroupsValidator.                   *)

Overlaps(a, b) == a.day = b.day /\ a.start < b.end /\ b.start < a.end
Covers(p, s) == p.day = s.day /\ p.start <= s.start /\ s.end <= p.end

WithinPreferred(slots, prefs) == \A s \in slots : \E p \in prefs : Covers(p, s)
OverlapExisting(slots, existing) ==
  \A s \in slots : \E e \in existing : Overlaps(s, e)

\* Sorted by start, each slot of a day starts where the previous one ends.
NoGaps(slots) ==
  /\ \A s, t \in slots : s # t => ~Overlaps(s, t)
  /\ \A s, t \in slots : t.day = s.day /\ t.start < s.start =>
       \E p \in slots : p.day = s.day /\ p.end = s.start

Exists(r) == rsv[r].status # "NONE"
Live(g) == grp[g].status \in GroupStatus
LiveGroups == {g \in GIds : Live(g)}
Members(g) == {r \in RIds : rsv[r].group = g}
SlotsOf(g) == {s \in slot : s.group = g}
RangesOf(g) == {s.range : s \in SlotsOf(g)}
\* Mutant: the joining member is not counted.
HasRoomOffByOne(g) == Cardinality(Members(g)) <= grp[g].capacity
HasRoom(g) == Cardinality(Members(g)) + 1 <= grp[g].capacity
AgeFits(r, g) == rsv[r].age \in grp[g].minAge .. grp[g].maxAge

\* New limits may not leave out a member; Null is a limit that stays.
SuitsMembers(g, capacity, minAge, maxAge) ==
  /\ capacity # Null => Cardinality(Members(g)) <= capacity
  /\ \A r \in Members(g) : /\ minAge # Null => minAge <= rsv[r].age
                           /\ maxAge # Null => rsv[r].age <= maxAge

\* A member of a group with a schedule gets exactly that time.
IsWholeSchedule(slots, g) == slots = {grp[g].schedule}
Seated(r, g) == rsv[r].group = g /\ rsv[r].status = "GROUPED"
InUse(g) == grp[g].status = "CONFIRMED"

\* Mutant: a group without slots occupies nothing.
OccupiedBySlots(g) == RangesOf(g)

\* What a group occupies for validateScheduleOverlap: its slots, or its
\* schedule when it has none.
Occupied(g) ==
  IF SlotsOf(g) # {} THEN RangesOf(g) ELSE {grp[g].schedule} \ {Null}
ScheduleIsFree(sched, others) ==
  \A g \in others \cap LiveGroups : \A x \in Occupied(g) : ~Overlaps(sched, x)

NewSlots(g, r, ranges) == {[group |-> g, owner |-> r, range |-> x] : x \in ranges}
OwnedBy(g, r) == {s \in slot : s.group = g /\ s.owner = r}
Anchors(g) == {s \in slot : s.group = g /\ s.owner = Null}
\* Mutant: an absent field overwrites the stored one.
OrElseAbsent(field, default) == field
OrElse(field, default) == IF field = Null THEN default ELSE field
Least(S) == CHOOSE x \in S : \A y \in S : x <= y
\* Mutant: Math.min where Math.max is meant.
GreatestSwapped(S) == CHOOSE x \in S : \A y \in S : x <= y
Greatest(S) == CHOOSE x \in S : \A y \in S : y <= x

-----------------------------------------------------------------------------
(* ReservationsService                                                     *)

\* A parent applies for a child; another live application of the same child
\* with an overlapping preferred time is a conflict.
CreateReservation(r, c, age, prefs, wants) ==
  /\ rsv[r].status = "NONE"
  /\ wants \in {Null} \cup LiveGroups
  /\ \A q \in RIds : rsv[q].child = c /\ rsv[q].status # "CANCELLED" =>
       \A x \in prefs, y \in rsv[q].prefs : ~Overlaps(x, y)
  /\ rsv' = [rsv EXCEPT ![r] =
       [status |-> "WAITING", age |-> age, prefs |-> prefs, group |-> Null,
        wants |-> wants, child |-> c, parent |-> ParentOf[c]]]
  /\ UNCHANGED <<grp, slot>>

\* The administrator enters an application taken at the desk.
CreateWalkIn(r, age, prefs) ==
  /\ rsv[r].status = "NONE"
  /\ rsv' = [rsv EXCEPT ![r] =
       [status |-> "WAITING", age |-> age, prefs |-> prefs, group |-> Null,
        wants |-> Null, child |-> Null, parent |-> Null]]
  /\ UNCHANGED <<grp, slot>>

Edited(row, status, age, prefs, wants, c) ==
  [row EXCEPT !.status = OrElse(status, row.status), !.age = OrElse(age, row.age),
              !.prefs = OrElse(prefs, row.prefs), !.wants = OrElse(wants, row.wants),
              !.child = OrElse(c, row.child)]

\* The administrator's PATCH: any field, the status included, with no check
\* against the group the reservation sits in.  Null is an absent field.
UpdateReservation(r, status, age, prefs, wants, c) ==
  /\ Exists(r)
  /\ wants \in {Null} \cup LiveGroups
  /\ rsv' = [rsv EXCEPT ![r] = Edited(@, status, age, prefs, wants, c)]
  /\ UNCHANGED <<grp, slot>>

\* Deleting a reservation cascades to its slots; the group row is not touched.
RemoveReservation(r) ==
  /\ Exists(r)
  /\ rsv' = [rsv EXCEPT ![r] = NoReservation]
  /\ slot' = {s \in slot : s.owner # r}
  /\ UNCHANGED grp

\* ChildrenService.remove: childId of the child's reservations becomes NULL.
RemoveChild(c) ==
  /\ rsv' = [r \in RIds |->
       IF rsv[r].child = c THEN [rsv[r] EXCEPT !.child = Null] ELSE rsv[r]]
  /\ UNCHANGED <<grp, slot>>

-----------------------------------------------------------------------------
(* ReservationGroupLifecycleService                                        *)

\* What the server checks of a new group: assign maps each selected reservation
\* to the slots chosen for it.
AcceptsGroup(g, assign, capacity, sched) ==
  LET ids == DOMAIN assign IN
  /\ grp[g].status = "NONE"
  /\ \A r \in ids : rsv[r].status = "WAITING" /\ rsv[r].group = Null
  /\ Cardinality(ids) <= capacity
  /\ IF sched # Null
       THEN /\ ScheduleIsFree(sched, GIds)
            /\ \A r \in ids : /\ WithinPreferred({sched}, rsv[r].prefs)
                              /\ assign[r] = {sched}
       ELSE \A r \in ids : /\ assign[r] # {}
                           /\ WithinPreferred(assign[r], rsv[r].prefs)
  /\ \A r \in ids : NoGaps(assign[r])

CreateGroup(g, assign, capacity, minAge, maxAge, sched) ==
  LET ids == DOMAIN assign
      ages == {rsv[r].age : r \in ids} IN
  /\ AcceptsGroup(g, assign, capacity, sched)
  /\ grp' = [grp EXCEPT ![g] =
       [status |-> IF ids = {} THEN "EMPTY" ELSE "CONFIRMED",
        capacity |-> capacity,
        minAge |-> OrElse(minAge, IF ids = {} THEN 4 ELSE Least(ages)),
        maxAge |-> OrElse(maxAge, IF ids = {} THEN 10 ELSE Greatest(ages)),
        schedule |-> sched]]
  /\ slot' = slot \cup UNION {NewSlots(g, r, assign[r]) : r \in ids}
  /\ rsv' = [r \in RIds |->
       IF r \in ids THEN [rsv[r] EXCEPT !.status = "GROUPED", !.group = g]
                    ELSE rsv[r]]

\* Mutant: the old slots survive a schedule change.
RescheduledAppending(g, sched) ==
  LET grouped == {r \in Members(g) : rsv[r].status = "GROUPED"} IN
  /\ ScheduleIsFree(sched, GIds \ {g})
  /\ \A r \in grouped : WithinPreferred({sched}, rsv[r].prefs)
  /\ slot' = slot \cup UNION {NewSlots(g, r, {sched}) : r \in grouped}

\* Mutant: the members' preferred times are not checked.
RescheduledUnchecked(g, sched) ==
  LET grouped == {r \in Members(g) : rsv[r].status = "GROUPED"} IN
  /\ ScheduleIsFree(sched, GIds \ {g})
  /\ slot' = (slot \ SlotsOf(g)) \cup UNION {NewSlots(g, r, {sched}) : r \in grouped}

\* A schedule change rewrites all the slots of the group: one per GROUPED
\* member, or one anchor if there is none and the group had an anchor.
Rescheduled(g, sched) ==
  LET grouped == {r \in Members(g) : rsv[r].status = "GROUPED"} IN
  /\ ScheduleIsFree(sched, GIds \ {g})
  /\ \A r \in grouped : WithinPreferred({sched}, rsv[r].prefs)
  /\ slot' = (slot \ SlotsOf(g)) \cup
             (IF grouped = {} /\ Anchors(g) # {} THEN NewSlots(g, Null, {sched})
              ELSE UNION {NewSlots(g, r, {sched}) : r \in grouped})

EditedGroup(row, capacity, minAge, maxAge, sched) ==
  [row EXCEPT !.capacity = OrElse(capacity, row.capacity),
              !.minAge = OrElse(minAge, row.minAge),
              !.maxAge = OrElse(maxAge, row.maxAge),
              !.schedule = OrElse(sched, row.schedule)]

UpdateGroup(g, capacity, minAge, maxAge, sched) ==
  /\ Live(g)
  /\ SuitsMembers(g, capacity, minAge, maxAge)
  /\ IF sched # Null THEN Rescheduled(g, sched) ELSE UNCHANGED slot
  /\ grp' = [grp EXCEPT ![g] = EditedGroup(@, capacity, minAge, maxAge, sched)]
  /\ UNCHANGED rsv

\* Mutant: requests to join the deleted group stay.
RemoveGroupKeepingRequests(g) ==
  /\ Live(g)
  /\ rsv' = [r \in RIds |->
       IF rsv[r].group = g THEN [rsv[r] EXCEPT !.group = Null, !.status = "WAITING"]
       ELSE rsv[r]]
  /\ grp' = [grp EXCEPT ![g] = NoGroup]
  /\ slot' = slot \ SlotsOf(g)

\* Every member goes back to WAITING, whatever its status was; slots cascade
\* and requests to join the group become NULL.
RemoveGroup(g) ==
  /\ Live(g)
  /\ rsv' = [r \in RIds |->
       LET wants == IF rsv[r].wants = g THEN Null ELSE rsv[r].wants IN
       IF rsv[r].group = g
         THEN [rsv[r] EXCEPT !.group = Null, !.status = "WAITING", !.wants = wants]
         ELSE [rsv[r] EXCEPT !.wants = wants]]
  /\ grp' = [grp EXCEPT ![g] = NoGroup]
  /\ slot' = slot \ SlotsOf(g)

-----------------------------------------------------------------------------
(* ReservationGroupMembershipService                                       *)

\* Mutants: the leaver's slots stay its own; the last leaver's slots go too.
VacatedNothing(g, r) == slot \cup OwnedBy(g, r)
VacatedAll(g, r) == slot \ OwnedBy(g, r)

\* The slots of group g after member r leaves: the last member's slots stay
\* behind as anchors, any other member's are deleted.
Vacated(g, r) ==
  (slot \ OwnedBy(g, r)) \cup
  (IF Members(g) = {r} THEN {[s EXCEPT !.owner = Null] : s \in OwnedBy(g, r)}
                       ELSE {})

AddMember(g, r, slots) ==
  /\ Live(g)
  /\ rsv[r].status = "WAITING" /\ rsv[r].group = Null
  /\ HasRoom(g)
  /\ AgeFits(r, g)
  /\ slots # {}
  /\ IF grp[g].schedule # Null
       THEN /\ WithinPreferred({grp[g].schedule}, rsv[r].prefs)
            /\ IsWholeSchedule(slots, g)
       ELSE /\ WithinPreferred(slots, rsv[r].prefs)
            /\ OverlapExisting(slots, RangesOf(g))
  /\ NoGaps(slots)
  /\ slot' = (slot \ Anchors(g)) \cup NewSlots(g, r, slots)
  /\ rsv' = [rsv EXCEPT ![r].status = "GROUPED", ![r].group = g,
                        ![r].wants = Null]
  /\ grp' = [grp EXCEPT ![g].status = "CONFIRMED"]

\* Mutant: the old slots of the member are kept.
ReplaceMemberSlotsAppending(g, r, slots) ==
  /\ InUse(g) /\ grp[g].schedule = Null
  /\ Seated(r, g)
  /\ slots # {} /\ WithinPreferred(slots, rsv[r].prefs) /\ NoGaps(slots)
  /\ slot' = slot \cup NewSlots(g, r, slots)
  /\ UNCHANGED <<rsv, grp>>
ReplaceMemberSlots(g, r, slots) ==
  /\ InUse(g)
  /\ Seated(r, g)
  /\ slots # {}
  /\ IF grp[g].schedule # Null
       THEN /\ WithinPreferred({grp[g].schedule}, rsv[r].prefs)
            /\ IsWholeSchedule(slots, g)
       ELSE WithinPreferred(slots, rsv[r].prefs)
  /\ NoGaps(slots)
  /\ slot' = (slot \ OwnedBy(g, r)) \cup NewSlots(g, r, slots)
  /\ UNCHANGED <<rsv, grp>>

Widened(row, age) ==
  [row EXCEPT !.status = "CONFIRMED", !.minAge = Least({row.minAge, age}),
              !.maxAge = Greatest({row.maxAge, age})]

\* Drag and drop between groups: the target's times and ages give way to the
\* member, and the member's preferred times become the slots it got.
MoveMember(g, target, r, slots) ==
  /\ g # target
  /\ InUse(g) /\ Live(target)
  /\ Seated(r, g)
  /\ HasRoom(target)
  /\ slots # {}
  /\ IF grp[target].schedule # Null THEN IsWholeSchedule(slots, target)
     ELSE SlotsOf(target) # {} => OverlapExisting(slots, RangesOf(target))
  /\ NoGaps(slots)
  /\ slot' = (Vacated(g, r) \ Anchors(target)) \cup NewSlots(target, r, slots)
  /\ rsv' = [rsv EXCEPT ![r].group = target, ![r].wants = Null,
                        ![r].prefs = slots]
  /\ grp' = [grp EXCEPT
       ![g].status = IF Members(g) = {r} THEN "EMPTY" ELSE @,
       ![target] = Widened(@, rsv[r].age)]

\* Mutants: the remaining members are miscounted; the status is not reset.
RemoveMemberMiscounted(g, r) ==
  /\ InUse(g)
  /\ Seated(r, g)
  /\ slot' = Vacated(g, r)
  /\ rsv' = [rsv EXCEPT ![r].group = Null, ![r].status = "WAITING"]
  /\ grp' = [grp EXCEPT
       ![g].status = IF Cardinality(Members(g)) <= 2 THEN "EMPTY" ELSE @]
RemoveMemberStillGrouped(g, r) ==
  /\ InUse(g)
  /\ Seated(r, g)
  /\ slot' = Vacated(g, r)
  /\ rsv' = [rsv EXCEPT ![r].group = Null]
  /\ grp' = [grp EXCEPT ![g].status = IF Members(g) = {r} THEN "EMPTY" ELSE @]

RemoveMember(g, r) ==
  /\ InUse(g)
  /\ Seated(r, g)
  /\ slot' = Vacated(g, r)
  /\ rsv' = [rsv EXCEPT ![r].group = Null, ![r].status = "WAITING"]
  /\ grp' = [grp EXCEPT ![g].status = IF Members(g) = {r} THEN "EMPTY" ELSE @]

-----------------------------------------------------------------------------

Init ==
  /\ rsv = [r \in RIds |-> NoReservation]
  /\ grp = [g \in GIds |-> NoGroup]
  /\ slot = {}

Apply ==
  \E r \in RIds, age \in Ages, prefs \in PrefChoices :
    \/ \E c \in Children, wants \in RequestableGroups \cup {Null} :
         CreateReservation(r, c, age, prefs, wants)
    \/ CreateWalkIn(r, age, prefs)

Edit ==
  \E r \in RIds, status \in StatusEdits \cup {Null}, age \in Ages \cup {Null},
     prefs \in PrefChoices \cup {Null},
     wants \in RequestableGroups \cup {Null}, c \in Children \cup {Null} :
    UpdateReservation(r, status, age, prefs, wants, c)

Withdraw == (\E r \in RIds : RemoveReservation(r)) \/ (\E c \in Children : RemoveChild(c))

Lifecycle ==
  \E g \in GIds :
    \/ RemoveGroup(g)
    \/ \E minAge, maxAge \in AgeLimits \cup {Null}, sched \in Ranges \cup {Null} :
         \/ \E capacity \in Capacities, ids \in SUBSET RIds :
              \E assign \in [ids -> SUBSET Ranges] :
                CreateGroup(g, assign, capacity, minAge, maxAge, sched)
         \/ \E capacity \in Capacities \cup {Null} :
              UpdateGroup(g, capacity, minAge, maxAge, sched)

Membership ==
  \E g \in GIds, r \in RIds :
    \/ RemoveMember(g, r)
    \/ \E slots \in SUBSET Ranges :
         \/ AddMember(g, r, slots)
         \/ ReplaceMemberSlots(g, r, slots)
         \/ \E target \in GIds : MoveMember(g, target, r, slots)

Next == Apply \/ Edit \/ Withdraw \/ Lifecycle \/ Membership

Spec == Init /\ [][Next]_vars

\* The same system when nobody uses the unchecked PATCH.
NextUnedited == Apply \/ Withdraw \/ Lifecycle \/ Membership
SpecUnedited == Init /\ [][NextUnedited]_vars

-----------------------------------------------------------------------------
(* Safety.                                                                 *)

\* A slot belongs to a live group and its owner, if any, is a member of that
\* very group: no operation leaves a slot of a group its owner has left.
SlotOwnerIsMember ==
  \A s \in slot : /\ Live(s.group)
                  /\ s.owner # Null => rsv[s.owner].group = s.group

\* Every slot of a group with a schedule, an anchor included, is exactly that
\* schedule (validateScheduledMemberSlots and the rewrite in update).
ScheduledSlotsMatch ==
  \A s \in slot : grp[s.group].schedule \in {Null, s.range}

\* Two groups with schedules never overlap on the timetable
\* (validateScheduleOverlap).
ScheduledGroupsDisjoint ==
  \A g, h \in GIds :
    /\ g # h
    /\ Live(g) /\ grp[g].schedule # Null
    /\ Live(h) /\ grp[h].schedule # Null
    => ~Overlaps(grp[g].schedule, grp[h].schedule)

\* A group never holds more reservations than its capacity, whatever the
\* reservations' statuses have been edited to.
CapacityRespected ==
  \A g \in GIds : Cardinality(Members(g)) <= grp[g].capacity

\* A group shown as EMPTY has no reservation in it: joining, moving and
\* leaving keep the group's status in step with its members.
EmptyIsVacant == \A g \in GIds : grp[g].status = "EMPTY" => Members(g) = {}

\* An anchor (a time kept for nobody) never coexists with a member.
AnchorsOnlyWhenVacant ==
  \A s \in slot : s.owner = Null => Members(s.group) = {}

\* The slots of one member are free of gaps and overlaps on every day
\* (assertNoGaps), also after moves, replacements and schedule changes.
MemberSlotsContiguous ==
  \A r \in RIds : NoGaps({s.range : s \in {t \in slot : t.owner = r}})

\* When the group services take the last member out of a group, the group
\* becomes EMPTY and goes on occupying exactly the time it had.
VacancyKeepsTimetable ==
  [][\A g \in GIds :
       /\ Live(g) /\ Live(g)'
       /\ Members(g) # {} /\ Members(g)' = {}
       /\ \A r \in Members(g) : Exists(r)'
       => grp[g].status' = "EMPTY" /\ RangesOf(g)' = RangesOf(g)]_vars

\* Without the PATCH, a reservation is GROUPED exactly when it sits in a
\* group, and then it has a place on the timetable in that group.
GroupedIffSeated ==
  \A r \in RIds :
    /\ rsv[r].status = "GROUPED" <=> rsv[r].group # Null
    /\ rsv[r].group # Null => OwnedBy(rsv[r].group, r) # {}

\* Without the PATCH, the times a member was given lie within the times its
\* parent asked for (validateSlotsWithinPreferred).
SlotsWithinPreferences ==
  \A s \in slot : s.owner # Null => WithinPreferred({s.range}, rsv[s.owner].prefs)

\* The group a reservation sits in, and the one it asks to join, both exist:
\* deleting a group seats its members out and withdraws the requests to join
\* it, and nothing seats anyone in a group that is gone.
NamedGroupsExist ==
  \A r \in RIds : {rsv[r].group, rsv[r].wants} \subseteq {Null} \cup LiveGroups

\* Whoever joins an existing group is within its age limits afterwards, and no
\* join, move or limit change pushes a member whose age stays the same out of
\* them (validateAgeBounds, validateUpdateBounds, the widening in moveMember).
AgeLimitsKept ==
  [][\A r \in RIds, g \in GIds :
       /\ Live(g) /\ rsv'[r].group = g /\ rsv'[r].age = rsv[r].age
       /\ rsv[r].group = g => AgeFits(r, g)
       => AgeFits(r, g)']_vars

-----------------------------------------------------------------------------
(* What the documents say and the code does not keep.                      *)

\* cellMap.ts: time overlap between groups is blocked by the backend.
GroupsNeverOverlap ==
  \A s, t \in slot : s.group # t.group => ~Overlaps(s.range, t.range)

\* architecture.md: when its last member goes, a group is kept as EMPTY.
ConfirmedHasMembers ==
  \A g \in GIds : grp[g].status = "CONFIRMED" => Members(g) # {}

\* architecture.md: one child has no two applications for the same time.
ChildNeverDoubleBooked ==
  \A q, r \in RIds :
    /\ q # r /\ rsv[q].child = rsv[r].child /\ rsv[q].child # Null
    /\ rsv[q].status # "CANCELLED" /\ rsv[r].status # "CANCELLED"
    => \A x \in rsv[q].prefs, y \in rsv[r].prefs : ~Overlaps(x, y)

=============================================================================
