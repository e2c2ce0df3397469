--------------------------- MODULE TimetableDesk ---------------------------
(***************************************************************************)
(* The administrator's timetable page (screens/admin/reservations/): which *)
(* cells it renders, the students ticked in them, the group form, the      *)
(* "add to group" offers and drag and drop, each sent to the server of     *)
(* ReservationGroups.  The page is seen with its caches up to date (what   *)
(* happens when they are not is the subject of AdminCache).                *)
(*                                                                         *)
(* A row is one timetable step, a ticked cell [who, day, row].  Times are  *)
(* multiples of the step, so getRowRange's rounding changes nothing.       *)
(***************************************************************************)
EXTENDS ReservationGroups

CONSTANTS Weekdays, GridRows,
          Planned,    \* ranges of the groups made elsewhere or without students
          BlankCapacities, \* capacities of the groups made here without students
          MaxTicks    \* cells ticked together

\* The grid has a row for each step of the day, and what the page can make of
\* its rows, of its ticks and of the students' ages is what the server's DTOs
\* accept of it.
ASSUME GridFits ==
  /\ GridRows \subseteq Nat /\ \E n \in GridRows : GridRows = 0..n
  /\ \A x \in Ranges : x.day \in Weekdays
  /\ \A d \in Weekdays, f, t \in GridRows :
       f <= t => [day |-> d, start |-> f, end |-> t + 1] \in Ranges
  /\ Planned \subseteq Ranges
  /\ MaxTicks \in Nat
  /\ BlankCapacities \cup {2} \cup 1..MaxTicks \subseteq Capacities
  /\ AgeLimits = AgeBounds

VARIABLE selected   \* the ticked cells

gridVars == <<vars, selected>>

Ticks == [who : RIds, day : Weekdays, row : GridRows]
Waiting == {r \in RIds : rsv[r].status = "WAITING"}

RowsIn(ranges, d) ==
  {k \in GridRows : \E x \in ranges : x.day = d /\ x.start <= k /\ k < x.end}

\* A set of rows as its maximal runs, touching ranges merged.
Runs(steps, d) ==
  {[day |-> d, start |-> p[1], end |-> p[2] + 1] :
     p \in {q \in steps \X steps : /\ q[1] <= q[2] /\ q[1]..q[2] \subseteq steps
                                 /\ q[1] - 1 \notin steps
                                 /\ q[2] + 1 \notin steps}}

-----------------------------------------------------------------------------
(* cellMap.ts and useReservationTimetable.ts                                *)

\* What a group occupies on the grid.
Blocks(g) ==
  RangesOf(g) \cup
  (IF Members(g) = {} /\ SlotsOf(g) = {} THEN {grp[g].schedule} \ {Null} ELSE {})

\* A row strictly inside a block is covered by the block's row span.
SkipRender(d, k) ==
  \E g \in LiveGroups : \E x \in Blocks(g) : x.day = d /\ x.start < k /\ k < x.end

RenderableRow(d, k) == Greatest({j \in GridRows : j <= k /\ ~SkipRender(d, j)})

\* The rendered cells in which a waiting student appears.
WaitingInCell(d, k) ==
  {r \in Waiting : \E j \in RowsIn(rsv[r].prefs, d) : RenderableRow(d, j) = k}

-----------------------------------------------------------------------------
(* groupJoinability.ts                                                      *)

JoinableSlotsForDay(r, g, d) ==
  IF grp[g].schedule # Null
  THEN {x \in {grp[g].schedule} : x.day = d /\ \E p \in rsv[r].prefs : Covers(p, x)}
  ELSE Runs(RowsIn(RangesOf(g), d) \cap RowsIn(rsv[r].prefs, d), d)

JoinableSlotsForAllDays(r, g) ==
  UNION {JoinableSlotsForDay(r, g, d) : d \in {p.day : p \in rsv[r].prefs}}

IsGroupJoinable(g, r, d) ==
  /\ Live(g)
  /\ Cardinality(Members(g)) < grp[g].capacity
  /\ grp[g].minAge <= rsv[r].age /\ rsv[r].age <= grp[g].maxAge
  /\ JoinableSlotsForDay(r, g, d) # {}

-----------------------------------------------------------------------------
(* slotMerging.ts and useGroupForm.ts                                       *)

Ticked == {t.who : t \in selected}
RowsTicked(r, d) == {t.row : t \in {s \in selected : s.who = r /\ s.day = d}}

\* findSlotGap: the rows of one student on one day follow each other.
NoSlotGap ==
  \A r \in Ticked, d \in Weekdays :
    \A x, y \in Runs(RowsTicked(r, d), d) : x = y

\* mergeContiguousSlots
MergedSlots == [r \in Ticked |-> UNION {Runs(RowsTicked(r, d), d) : d \in Weekdays}]

\* singleScheduleBlock: one block for all becomes the group's schedule.
ScheduleBlock ==
  LET blocks == UNION {MergedSlots[r] : r \in Ticked} IN
  IF \E x \in blocks : blocks = {x} THEN CHOOSE x \in blocks : blocks = {x} ELSE Null

HasScheduleOverlap(x) == \E g \in LiveGroups : \E y \in Occupied(g) : Overlaps(x, y)

\* The form without its own look at the other groups.
FormPassesUnchecked == Ticked # {} /\ NoSlotGap

FormPasses ==
  /\ Ticked # {}
  /\ NoSlotGap
  /\ \A r \in Ticked : \A x \in MergedSlots[r] : ~HasScheduleOverlap(x)

\* With the form's own capacity (the students ticked, at least 1) and ages.
ConfirmedGroup(g) ==
  CreateGroup(g, MergedSlots, Cardinality(Ticked),
              Least({rsv[r].age : r \in Ticked}), Greatest({rsv[r].age : r \in Ticked}),
              ScheduleBlock)

-----------------------------------------------------------------------------
(* useGridSelection.ts                                                      *)

ToggleSlot(r, d, k) ==
  /\ r \in WaitingInCell(d, k)
  /\ LET t == [who |-> r, day |-> d, row |-> k] IN
     /\ selected' = IF t \in selected THEN selected \ {t} ELSE selected \cup {t}
     /\ Cardinality(selected') <= MaxTicks
  /\ UNCHANGED vars

SelectCell(d, k) ==
  /\ WaitingInCell(d, k) # {}
  /\ selected' = selected \cup [who : WaitingInCell(d, k), day : {d}, row : {k}]
  /\ Cardinality(selected') <= MaxTicks
  /\ UNCHANGED vars

RemoveTick(t) == selected' = selected \ {t} /\ UNCHANGED vars

-----------------------------------------------------------------------------
(* useGroupForm.ts and useReservationAdminActions.ts: a request the server  *)
(* refuses leaves everything as it is.                                      *)

HandleConfirmGroup(g) ==
  /\ FormPasses
  /\ ConfirmedGroup(g)
  /\ selected' = {}

HandleCreateBlankGroup(g, capacity, x) ==
  /\ ~HasScheduleOverlap(x)
  /\ CreateGroup(g, [r \in {} |-> {}], capacity, Null, Null, x)
  /\ UNCHANGED selected

HandleAddToGroup(r, g, d) ==
  /\ r \in Waiting
  /\ IsGroupJoinable(g, r, d)
  /\ AddMember(g, r, JoinableSlotsForDay(r, g, d))
  /\ UNCHANGED selected

HandleApproveRequest(r, g) ==
  /\ r \in Waiting
  /\ Live(g)
  /\ AddMember(g, r, JoinableSlotsForAllDays(r, g))
  /\ UNCHANGED selected

\* Drag and drop: the target's times, or the student's own if it has none.
HandleMoveMember(r, g, to) ==
  /\ r \in Members(g)
  /\ Live(to)
  /\ MoveMember(g, to, r, IF Occupied(to) # {} THEN Occupied(to) ELSE rsv[r].prefs)
  /\ UNCHANGED selected

HandleCancelReservation(r) ==
  /\ r \in Waiting
  /\ RemoveReservation(r)
  /\ selected' = {t \in selected : t.who # r}

\* What the page's own dialogs and other sessions do meanwhile: families apply
\* and withdraw, the student dialog PATCHes a reservation, the group dialog and
\* the desks of others change groups and members (to times out of Planned).
Elsewhere ==
  /\ \/ Apply \/ Edit \/ Withdraw
     \/ \E g \in GIds :
          \/ RemoveGroup(g)
          \/ \E x \in Planned \cup {Null} :
               \/ UpdateGroup(g, Null, Null, Null, x)
               \/ \E c \in BlankCapacities, minAge, maxAge \in Ages :
                    UpdateGroup(g, c, minAge, maxAge, x)
          \/ \E ids \in SUBSET RIds : \E assign \in [ids -> {{x} : x \in Planned}] :
               CreateGroup(g, assign, 2, Null, Null, Null)
     \/ \E g \in GIds, r \in RIds :
          \/ RemoveMember(g, r)
          \/ \E slots \in SUBSET Planned :
               \/ AddMember(g, r, slots) \/ ReplaceMemberSlots(g, r, slots)
               \/ \E to \in GIds : MoveMember(g, to, r, slots)
  /\ UNCHANGED selected

GridInit == Init /\ selected = {}

GridNext ==
  \/ \E d \in Weekdays, k \in GridRows :
       SelectCell(d, k) \/ \E r \in RIds : ToggleSlot(r, d, k)
  \/ \E t \in selected : RemoveTick(t)
  \/ \E g \in GIds :
       \/ HandleConfirmGroup(g)
       \/ \E c \in BlankCapacities, x \in Planned : HandleCreateBlankGroup(g, c, x)
       \/ \E r \in RIds :
            \/ HandleApproveRequest(r, g)
            \/ \E d \in Weekdays : HandleAddToGroup(r, g, d)
            \/ \E to \in GIds : HandleMoveMember(r, g, to)
  \/ \E r \in RIds : HandleCancelReservation(r)
  \/ Elsewhere

GridSpec == GridInit /\ [][GridNext]_gridVars

-----------------------------------------------------------------------------
(* Properties.                                                              *)

\* The tables and the ticked cells keep their types.
GridTypeOK == TypeOK /\ selected \subseteq Ticks

\* No two preferred times of a day touch or overlap.
Apart(prefs) ==
  \A p, q \in prefs :
    p # q /\ p.day = q.day => p.end < q.start \/ q.end < p.start

\* A group the form lets through, for students who still wait and are still
\* shown where they were ticked, is one the server accepts, unless one of them
\* already sits in a group: gaps, overlaps with other groups and the block that
\* becomes the schedule are judged alike on both sides, also for students shown
\* in the first row of somebody else's block.  (The form does not look at the
\* seat: a member whose status the student dialog set to WAITING is shown, passes
\* and is refused.  And where two preferred times touch, the form merges them
\* into one slot and the server looks for one time around it: there they do not
\* agree.)
ConfirmIsAccepted ==
  /\ FormPasses
  /\ \A t \in selected : t.who \in WaitingInCell(t.day, t.row)
  /\ \A r \in Ticked : Apart(rsv[r].prefs)
  => \A g \in GIds :
       Live(g) \/ (AcceptsGroup(g, MergedSlots, Cardinality(Ticked), ScheduleBlock)
                     <=> \A r \in Ticked : rsv[r].group = Null)

\* groupJoinability.ts: the slots computed for an offer "can be sent to the
\* join API as they are".
JoinOffersAreAccepted ==
  \A r \in Waiting, g \in GIds, d \in Weekdays :
    rsv[r].group = Null /\ IsGroupJoinable(g, r, d)
    => ENABLED AddMember(g, r, JoinableSlotsForDay(r, g, d))
=============================================================================
