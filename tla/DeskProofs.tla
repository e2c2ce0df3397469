----------------------------- MODULE DeskProofs -----------------------------
(***************************************************************************)
(* Proofs about what happens in the administrator's browser: the query     *)
(* caches (AdminCache), the dialogs (GroupDialog) and the timetable page   *)
(* (TimetableDesk).                                                        *)
(***************************************************************************)
EXTENDS AdminCache, GroupDialog, TimetableDesk, ReservationGroupsProofs,
        WellFoundedInduction, TLAPS

-----------------------------------------------------------------------------
(* The caches, for any number of calls, clicks, groups and reservations,   *)
(* and whatever states they are opened on.  A call that writes the server  *)
(* ends with a refetch of what it wrote, so a list that is quiet, or an    *)
(* answer on its way, is the server's own as long as no call is left.      *)

IsBoard(b) ==
  /\ b = [grp |-> b.grp, slot |-> b.slot, inside |-> b.inside]
  /\ b.grp = [g \in GIds |-> b.grp[g]]
  /\ b.inside = [r \in RIds |-> b.inside[r]]

IsFetch(f) ==
  /\ f = [stage |-> f.stage, data |-> f.data]
  /\ f.stage \in {"idle", "asked", "read"}
  /\ f.stage = "idle" => f = Quiet

OpKinds == {"create", "delete", "add", "move", "remove", "update", "replace",
            "patch", "drop", "walkin"}

Busy(i) == calls[i].stage # "free"
BusyWithGroups(i) == Busy(i) /\ ~OnReservations(calls[i].op)

\* Records have their fields and maps their keys.
CacheShape ==
  /\ calls = [i \in Calls |-> calls[i]]
  /\ \A i \in Calls :
       /\ calls[i] = [stage |-> calls[i].stage, op |-> calls[i].op,
                      rows |-> calls[i].rows, board |-> calls[i].board]
       /\ Busy(i) => calls[i].op.kind \in OpKinds
       /\ BusyWithGroups(i) => IsBoard(calls[i].board)
  /\ fetch = [rows |-> fetch.rows, board |-> fetch.board]
  /\ IsFetch(fetch.rows) /\ IsFetch(fetch.board)
  /\ fetch.board.stage = "read" => IsBoard(fetch.board.data)
  /\ IsBoard(board)
  /\ grp = [g \in GIds |-> grp[g]]

\* With no call left the list of reservations, or the answer on its way to it,
\* is what the server has.
RowsFollow ==
  (\A i \in Calls : ~Busy(i)) =>
    /\ fetch.rows.stage = "idle" => rows = rsv
    /\ fetch.rows.stage = "read" => fetch.rows.data = rsv

\* So are the groups, unless a reservation endpoint wrote since they were read.
BoardFollows ==
  (\A i \in Calls : ~BusyWithGroups(i)) /\ ~aside =>
    /\ fetch.board.stage = "idle" => board = BoardOf(rsv, grp, slot)
    /\ fetch.board.stage = "read" => fetch.board.data = BoardOf(rsv, grp, slot)

CacheInv == CacheShape /\ RowsFollow /\ BoardFollows

\* What onMutate makes of a list of groups is one.
LEMMA LeaveIsBoard ==
  ASSUME NEW b, IsBoard(b), NEW g, NEW r
  PROVE  IsBoard(Leave(b, g, r))
<1> DEFINE last == Inside(b, g) \ {r} = {}
           own == {s \in b.slot : s.group = g /\ s.owner = r}
           status == IF last THEN "EMPTY" ELSE "CONFIRMED"
           groups == [b.grp EXCEPT ![g] = [b.grp[g] EXCEPT !.status = status]]
           slots == (b.slot \ own) \cup
                    (IF last THEN {[s EXCEPT !.owner = Null] : s \in own} ELSE {})
           members == [b.inside EXCEPT ![r] = NoReservation]
<1>1. groups = [h \in GIds |-> groups[h]] /\ members = [q \in RIds |-> members[q]]
  BY DEF IsBoard
<1>2. Leave(b, g, r) = [b EXCEPT !.inside = members, !.grp = groups, !.slot = slots]
  BY DEF Leave
<1> HIDE DEF groups, slots, members
<1>3. Leave(b, g, r) = [grp |-> groups, slot |-> slots, inside |-> members]
  BY <1>2 DEF IsBoard
<1> QED  BY <1>1, <1>3 DEF IsBoard

LEMMA JoinIsBoard ==
  ASSUME NEW b, IsBoard(b), NEW g, NEW r, NEW slots
  PROVE  IsBoard(Join(b, g, r, slots))
<1> DEFINE groups == [b.grp EXCEPT ![g] = [b.grp[g] EXCEPT !.status = "CONFIRMED"]]
           all == b.slot \cup NewSlots(g, r, slots)
           members == [b.inside EXCEPT ![r] = [rows[r] EXCEPT !.group = g]]
<1>1. groups = [h \in GIds |-> groups[h]] /\ members = [q \in RIds |-> members[q]]
  BY DEF IsBoard
<1>2. Join(b, g, r, slots) = [b EXCEPT !.inside = members, !.grp = groups, !.slot = all]
  BY DEF Join
<1> HIDE DEF groups, all, members
<1>3. Join(b, g, r, slots) = [grp |-> groups, slot |-> all, inside |-> members]
  BY <1>2 DEF IsBoard
<1> QED  BY <1>1, <1>3 DEF IsBoard

LEMMA ShownIsBoard ==
  ASSUME IsBoard(board), NEW o
  PROVE  IsBoard(ShownBoard(o))
<1>1. CASE o.kind = "create"  BY <1>1 DEF IsBoard, ShownBoard
<1>2. CASE o.kind = "delete"  BY <1>2 DEF IsBoard, ShownBoard
<1>3. CASE o.kind = "add"
  <2>1. ShownBoard(o) = Join(board, o.g, o.r, o.slots)  BY <1>3 DEF ShownBoard
  <2> QED  BY <2>1, JoinIsBoard
<1>4. CASE o.kind = "move"
  <2>1. ShownBoard(o) = Join(Leave(board, o.g, o.r), o.to, o.r, o.slots)
    BY <1>4 DEF ShownBoard
  <2>2. IsBoard(Leave(board, o.g, o.r))  BY LeaveIsBoard
  <2> QED  BY <2>1, <2>2, JoinIsBoard
<1>5. CASE o.kind = "remove"
  <2>1. ShownBoard(o) = Leave(board, o.g, o.r)  BY <1>5 DEF ShownBoard
  <2> QED  BY <2>1, LeaveIsBoard
<1>6. CASE o.kind = "replace"  BY <1>6 DEF IsBoard, ShownBoard
<1>7. CASE o.kind = "update"  BY <1>7 DEF IsBoard, ShownBoard
<1>8. CASE o.kind \notin {"create", "delete", "add", "move", "remove", "replace", "update"}
  <2>1. ShownBoard(o) = board  BY <1>8 DEF ShownBoard
  <2> QED  BY <2>1
<1> QED  BY <1>1, <1>2, <1>3, <1>4, <1>5, <1>6, <1>7, <1>8

\* What the server returns is a list of groups, and what a reservation endpoint
\* is expected to do leaves the groups alone.
LEMMA BoardOfIsBoard ==
  ASSUME NEW reservations, NEW groups, groups = [g \in GIds |-> groups[g]], NEW slots
  PROVE  IsBoard(BoardOf(reservations, groups, slots))
BY DEF IsBoard, BoardOf

LEMMA ReservationsLeaveBoard ==
  ASSUME NEW o, OnReservations(o)
  PROVE  ShownBoard(o) = board
BY DEF OnReservations, ShownBoard

LEMMA AppliedKeepsGroups ==
  ASSUME grp = [g \in GIds |-> grp[g]], NEW o, o.kind \in OpKinds, Applied(o)
  PROVE  grp' = [g \in GIds |-> grp'[g]]
<1>1. CASE o.kind = "create"
  <2>1. CreateGroup(o.g, o.assign, o.capacity, Null, Null, o.sched)  BY <1>1 DEF Applied
  <2> QED  BY <2>1 DEF CreateGroup, AcceptsGroup
<1>2. CASE o.kind = "delete"
  <2>1. RemoveGroup(o.g)  BY <1>2 DEF Applied
  <2> QED  BY <2>1 DEF RemoveGroup
<1>3. CASE o.kind = "add"
  <2>1. AddMember(o.g, o.r, o.slots)  BY <1>3 DEF Applied
  <2> QED  BY <2>1 DEF AddMember
<1>4. CASE o.kind = "move"
  <2>1. MoveMember(o.g, o.to, o.r, o.slots)  BY <1>4 DEF Applied
  <2> QED  BY <2>1 DEF MoveMember
<1>5. CASE o.kind = "remove"
  <2>1. RemoveMember(o.g, o.r)  BY <1>5 DEF Applied
  <2> QED  BY <2>1 DEF RemoveMember
<1>6. CASE o.kind = "update"
  <2>1. UpdateGroup(o.g, o.capacity, Null, Null, Null)  BY <1>6 DEF Applied
  <2> QED  BY <2>1 DEF UpdateGroup
<1>7. CASE o.kind \in {"replace", "patch", "drop", "walkin"}
  <2>1. UNCHANGED grp
    BY <1>7 DEF Applied, ReplaceMemberSlots, UpdateReservation, RemoveReservation, CreateWalkIn
  <2> QED  BY <2>1
<1> QED  BY <1>1, <1>2, <1>3, <1>4, <1>5, <1>6, <1>7 DEF OpKinds

LEMMA OfferedKinds == ASSUME NEW o \in Offered PROVE o.kind \in OpKinds
<1>1. CASE o \in OnGroups  BY <1>1 DEF OnGroups, OpKinds
<1>2. CASE o \in OnApplications  BY <1>2 DEF OnApplications, OpKinds
<1>3. ASSUME NEW g \in GIds, o \in OnMembers(g) PROVE o.kind \in OpKinds
  BY <1>3 DEF OnMembers, OpKinds
<1> QED  BY <1>1, <1>2, <1>3 DEF Offered

\* A mutation starts: it is busy from now on, and a reservation mutation leaves
\* the groups, and the answer on its way to them, as they were.
LEMMA MutateKeepsCaches ==
  ASSUME CacheInv, NEW i \in Calls, NEW o \in Offered, Mutate(i, o)
  PROVE  CacheInv'
<1> USE DEF Busy, BusyWithGroups
<1> DEFINE call == [stage |-> "sent", op |-> o, rows |-> rows,
                    board |-> IF OnReservations(o) THEN <<>> ELSE board]
<1>1. /\ calls[i].stage = "free" /\ calls' = [calls EXCEPT ![i] = call]
      /\ board' = ShownBoard(o) /\ UNCHANGED <<rsv, grp, slot, aside>>
      /\ fetch' = IF OnReservations(o) THEN [fetch EXCEPT !.rows = Quiet]
                  ELSE [rows |-> Quiet, board |-> Quiet]
  BY DEF Mutate, vars
<1>2. o.kind \in OpKinds  BY OfferedKinds
<1>3. /\ call.stage = "sent" /\ call.op = o
      /\ call = [stage |-> call.stage, op |-> call.op, rows |-> call.rows, board |-> call.board]
      /\ ~OnReservations(o) => call.board = board
  OBVIOUS
<1> HIDE DEF call
<1>4. /\ calls' = [j \in Calls |-> calls'[j]] /\ calls'[i] = call
      /\ \A j \in Calls \ {i} : calls'[j] = calls[j]
  BY <1>1 DEF CacheInv, CacheShape
<1>5. IsBoard(board')  BY <1>1, ShownIsBoard DEF CacheInv, CacheShape
<1>6. /\ fetch' = [rows |-> fetch'.rows, board |-> fetch'.board]
      /\ fetch'.rows = Quiet
      /\ fetch'.board = IF OnReservations(o) THEN fetch.board ELSE Quiet
  BY <1>1 DEF CacheInv, CacheShape
<1>7. IsFetch(Quiet)  BY DEF IsFetch, Quiet
<1>8. CacheShape'
  <2>1. ASSUME NEW j \in Calls
        PROVE  /\ calls'[j] = [stage |-> calls'[j].stage, op |-> calls'[j].op,
                               rows |-> calls'[j].rows, board |-> calls'[j].board]
               /\ Busy(j)' => calls'[j].op.kind \in OpKinds
               /\ BusyWithGroups(j)' => IsBoard(calls'[j].board)
    <3>1. CASE j = i  BY <1>2, <1>3, <1>4, <3>1 DEF CacheInv, CacheShape, OnReservations
    <3>2. CASE j # i  BY <1>4, <3>2 DEF CacheInv, CacheShape, OnReservations
    <3> QED  BY <3>1, <3>2
  <2>2. IsFetch(fetch'.rows) /\ IsFetch(fetch'.board)
    BY <1>6, <1>7 DEF CacheInv, CacheShape
  <2>3. fetch'.board.stage = "read" => IsBoard(fetch'.board.data)
    BY <1>6 DEF CacheInv, CacheShape, Quiet
  <2>4. grp' = [g \in GIds |-> grp'[g]]  BY <1>1 DEF CacheInv, CacheShape
  <2> QED  BY <1>4, <1>5, <1>6, <2>1, <2>2, <2>3, <2>4 DEF CacheShape
<1>9. RowsFollow'  BY <1>3, <1>4 DEF RowsFollow
<1>10. BoardFollows'
  <2>1. CASE ~OnReservations(o)
    BY <1>3, <1>4, <2>1 DEF BoardFollows, OnReservations
  <2>2. CASE OnReservations(o)
    <3>1. board' = board /\ fetch'.board = fetch.board
      BY <1>1, <1>6, <2>2, ReservationsLeaveBoard
    <3>2. BoardOf(rsv, grp, slot)' = BoardOf(rsv, grp, slot)  BY <1>1 DEF BoardOf
    <3>3. \A j \in Calls : BusyWithGroups(j) => BusyWithGroups(j)'
      BY <1>1, <1>4 DEF OnReservations
    <3> QED  BY <1>1, <3>1, <3>2, <3>3 DEF BoardFollows, CacheInv
  <2> QED  BY <2>1, <2>2
<1> QED  BY <1>8, <1>9, <1>10 DEF CacheInv

\* The server carries out a request: its call is still busy, and a reservation
\* endpoint has written.
LEMMA ServeKeepsCaches ==
  ASSUME CacheInv, NEW i \in Calls, Serve(i)
  PROVE  CacheInv'
<1> USE DEF Busy, BusyWithGroups
<1>1. /\ calls[i].stage = "sent" /\ calls' = [calls EXCEPT ![i].stage = "served"]
      /\ Applied(calls[i].op) /\ aside' = (aside \/ OnReservations(calls[i].op))
      /\ UNCHANGED <<board, rows, fetch>>
  BY DEF Serve
<1>2. /\ calls' = [j \in Calls |-> calls'[j]]
      /\ \A j \in Calls \ {i} : calls'[j] = calls[j]
      /\ calls'[i] = [stage |-> "served", op |-> calls[i].op,
                      rows |-> calls[i].rows, board |-> calls[i].board]
  <2>1. calls'[i] = [calls[i] EXCEPT !.stage = "served"]
    BY <1>1 DEF CacheInv, CacheShape
  <2>2. calls[i] = [stage |-> calls[i].stage, op |-> calls[i].op,
                    rows |-> calls[i].rows, board |-> calls[i].board]
    BY DEF CacheInv, CacheShape
  <2>3. calls'[i] = [stage |-> "served", op |-> calls[i].op,
                     rows |-> calls[i].rows, board |-> calls[i].board]
    BY <2>1, <2>2
  <2> QED  BY <1>1, <2>3 DEF CacheInv, CacheShape
<1>3. grp' = [g \in GIds |-> grp'[g]]
  BY <1>1, AppliedKeepsGroups DEF CacheInv, CacheShape
<1>4. CacheShape'
  <2>1. ASSUME NEW j \in Calls
        PROVE  /\ calls'[j] = [stage |-> calls'[j].stage, op |-> calls'[j].op,
                               rows |-> calls'[j].rows, board |-> calls'[j].board]
               /\ Busy(j)' => calls'[j].op.kind \in OpKinds
               /\ BusyWithGroups(j)' => IsBoard(calls'[j].board)
    <3>1. CASE j = i  BY <1>1, <1>2, <3>1 DEF CacheInv, CacheShape, OnReservations
    <3>2. CASE j # i  BY <1>2, <3>2 DEF CacheInv, CacheShape, OnReservations
    <3> QED  BY <3>1, <3>2
  <2> QED  BY <1>1, <1>2, <1>3, <2>1 DEF CacheShape, CacheInv
<1>5. Busy(i)'  BY <1>2
<1>6. RowsFollow'  BY <1>5 DEF RowsFollow
<1>7. BoardFollows'
  <2>1. CASE OnReservations(calls[i].op)  BY <1>1, <2>1 DEF BoardFollows
  <2>2. CASE ~OnReservations(calls[i].op)
    <3>1. BusyWithGroups(i)'  BY <1>2, <2>2 DEF OnReservations
    <3> QED  BY <3>1 DEF BoardFollows
  <2> QED  BY <2>1, <2>2
<1> QED  BY <1>4, <1>6, <1>7 DEF CacheInv

\* A call ends, well or not: what it wrote is read again, and the end of a
\* reservation mutation leaves the groups as they were.
LEMMA EndKeepsCaches ==
  ASSUME CacheInv, NEW i \in Calls, Busy(i),
         calls' = [calls EXCEPT ![i] = NoCall], fetch' = Refetching(calls[i].op),
         UNCHANGED <<rsv, grp, slot, aside>>, IsBoard(board'),
         OnReservations(calls[i].op) => board' = board
  PROVE  CacheInv'
<1> USE DEF Busy, BusyWithGroups
<1> DEFINE asked == [stage |-> "asked", data |-> <<>>]
<1>1. IsFetch(asked) /\ asked.stage = "asked"  BY DEF IsFetch
<1>2. /\ calls' = [j \in Calls |-> calls'[j]] /\ calls'[i] = NoCall
      /\ \A j \in Calls \ {i} : calls'[j] = calls[j]
  BY DEF CacheInv, CacheShape
<1>3. /\ fetch' = [rows |-> fetch'.rows, board |-> fetch'.board]
      /\ fetch'.rows = asked
      /\ fetch'.board = IF OnReservations(calls[i].op) THEN fetch.board ELSE asked
  BY DEF Refetching, CacheInv, CacheShape
<1> HIDE DEF asked
<1>4. CacheShape'
  <2>1. ASSUME NEW j \in Calls
        PROVE  /\ calls'[j] = [stage |-> calls'[j].stage, op |-> calls'[j].op,
                               rows |-> calls'[j].rows, board |-> calls'[j].board]
               /\ Busy(j)' => calls'[j].op.kind \in OpKinds
               /\ BusyWithGroups(j)' => IsBoard(calls'[j].board)
    <3>1. CASE j = i  BY <1>2, <3>1 DEF NoCall
    <3>2. CASE j # i  BY <1>2, <3>2 DEF CacheInv, CacheShape, OnReservations
    <3> QED  BY <3>1, <3>2
  <2>2. IsFetch(fetch'.rows) /\ IsFetch(fetch'.board)
    BY <1>1, <1>3 DEF CacheInv, CacheShape
  <2>3. fetch'.board.stage = "read" => IsBoard(fetch'.board.data)
    BY <1>1, <1>3 DEF CacheInv, CacheShape
  <2>4. grp' = [g \in GIds |-> grp'[g]]  BY DEF CacheInv, CacheShape
  <2> QED  BY <1>2, <1>3, <2>1, <2>2, <2>3, <2>4 DEF CacheShape
<1>5. RowsFollow'  BY <1>1, <1>3 DEF RowsFollow
<1>6. BoardFollows'
  <2>1. CASE ~OnReservations(calls[i].op)  BY <1>1, <1>3, <2>1 DEF BoardFollows
  <2>2. CASE OnReservations(calls[i].op)
    <3>1. board' = board /\ fetch'.board = fetch.board  BY <1>3, <2>2
    <3>2. BoardOf(rsv, grp, slot)' = BoardOf(rsv, grp, slot)  BY DEF BoardOf
    <3>3. \A j \in Calls : BusyWithGroups(j) => BusyWithGroups(j)'
      BY <1>2, <2>2 DEF OnReservations
    <3> QED  BY <3>1, <3>2, <3>3 DEF BoardFollows, CacheInv
  <2> QED  BY <2>1, <2>2
<1> QED  BY <1>4, <1>5, <1>6 DEF CacheInv

\* Every mutation, answer, refetch and click keeps the caches as CacheInv says.
LEMMA CacheStep == ASSUME CacheInv, [DeskNext]_deskVars PROVE CacheInv'
<1> USE DEF Busy, BusyWithGroups
<1>1. ASSUME NEW i \in Calls, NEW o \in Offered, Mutate(i, o) PROVE CacheInv'
  BY <1>1, MutateKeepsCaches
<1>2. ASSUME NEW i \in Calls, Serve(i) PROVE CacheInv'
  BY <1>2, ServeKeepsCaches
<1>3. ASSUME NEW i \in Calls, Succeed(i) PROVE CacheInv'
  <2>1. /\ Busy(i) /\ calls' = [calls EXCEPT ![i] = NoCall]
        /\ fetch' = Refetching(calls[i].op) /\ UNCHANGED <<rsv, grp, slot, aside>>
    BY <1>3 DEF Succeed, vars
  <2>2. IsBoard(board')  BY <1>3 DEF Succeed, IsBoard
  <2>3. ASSUME OnReservations(calls[i].op) PROVE board' = board
    <3>1. board' = [grp |-> [g \in GIds |-> board.grp[g]], slot |-> {s \in board.slot : TRUE},
                    inside |-> [r \in RIds |-> board.inside[r]]]
      BY <1>3, <2>3 DEF Succeed, OnReservations
    <3>2. {s \in board.slot : TRUE} = board.slot  OBVIOUS
    <3> QED  BY <3>1, <3>2 DEF CacheInv, CacheShape, IsBoard
  <2> QED  BY <2>1, <2>2, <2>3, EndKeepsCaches
<1>4. ASSUME NEW i \in Calls, Fail(i) PROVE CacheInv'
  <2>1. /\ Busy(i) /\ calls' = [calls EXCEPT ![i] = NoCall]
        /\ fetch' = Refetching(calls[i].op) /\ UNCHANGED <<rsv, grp, slot, aside>>
        /\ board' = IF OnReservations(calls[i].op) THEN board ELSE calls[i].board
    BY <1>4 DEF Fail, RolledBack, vars
  <2>2. IsBoard(board')  BY <2>1 DEF CacheInv, CacheShape
  <2> QED  BY <2>1, <2>2, EndKeepsCaches
<1>5. ASSUME UNCHANGED <<rsv, grp, slot, calls>>, IsBoard(board'),
             fetch' = [rows |-> fetch'.rows, board |-> fetch'.board],
             IsFetch(fetch'.rows), IsFetch(fetch'.board),
             fetch'.board.stage = "read" => IsBoard(fetch'.board.data),
             RowsFollow', BoardFollows'
      PROVE  CacheInv'
  BY <1>5 DEF CacheInv, CacheShape, OnReservations
<1> DEFINE read(data) == [stage |-> "read", data |-> data]
<1>6. \A data : IsFetch(read(data)) /\ read(data).stage = "read" /\ read(data).data = data
  BY DEF IsFetch
<1>7. IsFetch(Quiet) /\ Quiet.stage = "idle"  BY DEF IsFetch, Quiet
<1>8. BoardOf(rsv, grp, slot)' = BoardOf(rsv', grp', slot')  BY DEF BoardOf
<1>9. IsBoard(BoardOf(rsv, grp, slot))
  BY BoardOfIsBoard DEF CacheInv, CacheShape
<1> HIDE DEF read
<1>10. CASE ReadRows
  <2>1. /\ UNCHANGED <<rsv, grp, slot, calls, board, rows, aside>>
        /\ fetch' = [fetch EXCEPT !.rows = read(rsv)]
    BY <1>10 DEF ReadRows, vars, read
  <2>2. /\ fetch' = [rows |-> fetch'.rows, board |-> fetch'.board]
        /\ fetch'.rows = read(rsv) /\ fetch'.board = fetch.board
    BY <2>1 DEF CacheInv, CacheShape
  <2>3. RowsFollow'  BY <1>6, <2>1, <2>2 DEF RowsFollow
  <2>4. BoardFollows'
    BY <1>8, <2>1, <2>2 DEF CacheInv, BoardFollows, OnReservations
  <2> QED  BY <1>5, <1>6, <2>1, <2>2, <2>3, <2>4 DEF CacheInv, CacheShape
<1>11. CASE ReadBoard
  <2>1. /\ UNCHANGED <<rsv, grp, slot, calls, board, rows>>
        /\ fetch' = [fetch EXCEPT !.board = read(BoardOf(rsv, grp, slot))]
    BY <1>11 DEF ReadBoard, vars, read
  <2>2. /\ fetch' = [rows |-> fetch'.rows, board |-> fetch'.board]
        /\ fetch'.rows = fetch.rows /\ fetch'.board = read(BoardOf(rsv, grp, slot))
    BY <2>1 DEF CacheInv, CacheShape
  <2>3. RowsFollow'  BY <2>1, <2>2 DEF CacheInv, RowsFollow
  <2>4. BoardFollows'
    BY <1>6, <1>8, <2>1, <2>2 DEF BoardFollows
  <2> QED  BY <1>5, <1>6, <1>9, <2>1, <2>2, <2>3, <2>4 DEF CacheInv, CacheShape
<1>12. CASE ArriveRows
  <2>1. /\ UNCHANGED <<rsv, grp, slot, calls, board, aside>> /\ rows' = fetch.rows.data
        /\ fetch.rows.stage = "read" /\ fetch' = [fetch EXCEPT !.rows = Quiet]
    BY <1>12 DEF ArriveRows, vars
  <2>2. /\ fetch' = [rows |-> fetch'.rows, board |-> fetch'.board]
        /\ fetch'.rows = Quiet /\ fetch'.board = fetch.board
    BY <2>1 DEF CacheInv, CacheShape
  <2>3. RowsFollow'  BY <1>7, <2>1, <2>2 DEF CacheInv, RowsFollow
  <2>4. BoardFollows'
    BY <1>8, <2>1, <2>2 DEF CacheInv, BoardFollows, OnReservations
  <2> QED  BY <1>5, <1>7, <2>1, <2>2, <2>3, <2>4 DEF CacheInv, CacheShape
<1>13. CASE ArriveBoard
  <2>1. /\ UNCHANGED <<rsv, grp, slot, calls, rows, aside>> /\ board' = fetch.board.data
        /\ fetch.board.stage = "read" /\ fetch' = [fetch EXCEPT !.board = Quiet]
    BY <1>13 DEF ArriveBoard, vars
  <2>2. /\ fetch' = [rows |-> fetch'.rows, board |-> fetch'.board]
        /\ fetch'.rows = fetch.rows /\ fetch'.board = Quiet
    BY <2>1 DEF CacheInv, CacheShape
  <2>3. RowsFollow'  BY <2>1, <2>2 DEF CacheInv, RowsFollow
  <2>4. BoardFollows'
    BY <1>7, <1>8, <2>1, <2>2 DEF CacheInv, BoardFollows, OnReservations
  <2> QED  BY <1>5, <1>7, <2>1, <2>2, <2>3, <2>4 DEF CacheInv, CacheShape
<1>14. CASE Refocus
  <2>1. UNCHANGED <<rsv, grp, slot, calls, board, rows, aside>>
    BY <1>14 DEF Refocus, vars
  <2>2. Quiet = [stage |-> "idle", data |-> <<>>]  BY DEF Quiet
  <2>3. IsFetch([stage |-> "asked", data |-> <<>>])  BY DEF IsFetch
  <2>4. CASE fetch.rows = Quiet /\ fetch' = [fetch EXCEPT !.rows.stage = "asked"]
    <3>1. /\ fetch' = [rows |-> fetch'.rows, board |-> fetch'.board]
          /\ fetch'.rows = [stage |-> "asked", data |-> <<>>] /\ fetch'.board = fetch.board
      BY <2>2, <2>4 DEF CacheInv, CacheShape
    <3>2. RowsFollow'  BY <3>1 DEF RowsFollow
    <3>3. BoardFollows'
      BY <1>8, <2>1, <3>1 DEF CacheInv, BoardFollows, OnReservations
    <3> QED  BY <1>5, <2>1, <2>3, <3>1, <3>2, <3>3 DEF CacheInv, CacheShape
  <2>5. CASE fetch.board = Quiet /\ fetch' = [fetch EXCEPT !.board.stage = "asked"]
    <3>1. /\ fetch' = [rows |-> fetch'.rows, board |-> fetch'.board]
          /\ fetch'.board = [stage |-> "asked", data |-> <<>>] /\ fetch'.rows = fetch.rows
      BY <2>2, <2>5 DEF CacheInv, CacheShape
    <3>2. RowsFollow'  BY <2>1, <3>1 DEF CacheInv, RowsFollow
    <3>3. BoardFollows'  BY <3>1 DEF BoardFollows
    <3> QED  BY <1>5, <2>1, <2>3, <3>1, <3>2, <3>3 DEF CacheInv, CacheShape
  <2> QED  BY <1>14, <2>4, <2>5 DEF Refocus
<1>15. CASE UNCHANGED deskVars
  <2>1. UNCHANGED <<rsv, grp, slot, rows, board, calls, fetch, aside>>
    BY <1>15 DEF deskVars, vars
  <2>2. RowsFollow' /\ BoardFollows'
    BY <1>8, <2>1 DEF CacheInv, RowsFollow, BoardFollows, OnReservations
  <2> QED  BY <1>5, <2>1, <2>2 DEF CacheInv, CacheShape
<1> QED
  BY <1>1, <1>2, <1>3, <1>4, <1>10, <1>11, <1>12, <1>13, <1>14, <1>15 DEF DeskNext

\* The caches of the timetable page and the refetches on their way to them.
THEOREM CacheInductive == DeskSpec => []CacheInv
<1>1. DeskInit => CacheInv
  <2> SUFFICES ASSUME DeskInit PROVE CacheInv
    OBVIOUS
  <2>1. PICK s \in ServerStart : /\ rsv = s.rsv /\ grp = s.grp /\ slot = s.slot
                                 /\ rows = s.rsv /\ board = BoardOf(s.rsv, s.grp, s.slot)
    BY DEF DeskInit
  <2>2. grp = [g \in GIds |-> grp[g]]
    <3>1. s.grp \in [GIds -> GroupRow]  BY StartsAreTyped
    <3> QED  BY <2>1, <3>1
  <2>3. IsBoard(board)  BY <2>1, <2>2, BoardOfIsBoard
  <2>4. calls = [i \in Calls |-> NoCall] /\ fetch = [rows |-> Quiet, board |-> Quiet]
    BY DEF DeskInit
  <2>5. CacheShape
    BY <2>2, <2>3, <2>4
    DEF CacheShape, IsFetch, Busy, BusyWithGroups, NoCall, Quiet
  <2>6. RowsFollow /\ BoardFollows
    BY <2>1, <2>4 DEF RowsFollow, BoardFollows, Quiet
  <2> QED  BY <2>5, <2>6 DEF CacheInv
<1>2. CacheInv /\ [DeskNext]_deskVars => CacheInv'
  BY CacheStep
<1> QED  BY <1>1, <1>2, PTL DEF DeskSpec

\* useReservationMutations, useReservationGroupMutations and optimisticCache: what
\* the page shows when all is quiet is the server's, for any number of mutations.
THEOREM CachesAlwaysSettleTrue == DeskSpec => []CachesSettleTrue
<1>1. CacheInv => CachesSettleTrue
  <2> SUFFICES ASSUME CacheInv, Settled PROVE CachesSettleTrue
    BY DEF CachesSettleTrue
  <2>1. /\ fetch.rows.stage = "idle" /\ fetch.board.stage = "idle"
        /\ \A i \in Calls : ~Busy(i)
    BY DEF Settled, Quiet, NoCall, Busy
  <2> QED  BY <2>1 DEF CacheInv, RowsFollow, BoardFollows, BusyWithGroups, CachesSettleTrue
<1> QED  BY <1>1, CacheInductive, PTL

-----------------------------------------------------------------------------
(* What the desk sends.  However old the caches are that the screens offer  *)
(* from, a request names rows, groups, times and values the server's        *)
(* handlers take, so that the desk is one of the server's clients and the   *)
(* server's tables, and the caches made of them, keep their types.          *)

SlotRows == [group: GIds, owner: RIds \cup {Null}, range: Ranges]

BoardIsTyped(b) ==
  b.grp \in [GIds -> GroupRow] /\ b.slot \subseteq SlotRows /\ b.inside \in [RIds -> Row]

IsRequest(o) ==
  /\ o.kind \in OpKinds
  /\ o.kind \in OpKinds \ {"patch", "drop", "walkin"} => o.g \in GIds
  /\ o.kind \in OpKinds \ {"create", "delete", "update"} => o.r \in RIds
  /\ o.kind = "create" => /\ o.capacity \in Capacities /\ o.sched \in Ranges
                          /\ \E ids \in SUBSET RIds : o.assign \in [ids -> SUBSET Ranges]
  /\ o.kind = "update" => o.capacity \in Capacities
  /\ o.kind \in {"add", "move", "replace"} => o.slots \in SUBSET Ranges
  /\ o.kind = "move" => o.to \in GIds
  /\ o.kind = "patch" => o.status \in StatusEdits /\ o.prefs \in PrefChoices
  /\ o.kind = "walkin" => o.age \in Ages /\ o.prefs \in PrefChoices

\* Every request under way is one the server takes, every snapshot and every
\* answer on its way is typed like what it was taken of.
DeskTyped ==
  /\ DeskTypeOK
  /\ \A i \in Calls : Busy(i) => IsRequest(calls[i].op)
  /\ \A i \in Calls : BusyWithGroups(i) => BoardIsTyped(calls[i].board)
  /\ fetch.rows.stage = "read" => fetch.rows.data \in [RIds -> Row]
  /\ fetch.board.stage = "read" => BoardIsTyped(fetch.board.data)

LEMMA OfferedAreRequests ==
  ASSUME BoardIsTyped(board), NEW o \in Offered
  PROVE  IsRequest(o)
<1>1. /\ ShownWaiting \subseteq RIds
      /\ \A g \in GIds : Inside(board, g) \subseteq RIds /\ TimesOf(g) \subseteq Ranges
  BY DEF ShownWaiting, Inside, TimesOf, BoardIsTyped, SlotRows, GroupRow
<1>2. CASE o \in OnGroups
  <2>1. \A rs \in SUBSET ShownWaiting, x \in Ranges :
          \E ids \in SUBSET RIds : [r \in rs |-> {x}] \in [ids -> SUBSET Ranges]
    BY <1>1
  <2>. QED
    BY <1>2, <2>1 DEF OnGroups, IsRequest, OpKinds
<1>3. CASE o \in OnApplications
  BY <1>1, <1>3 DEF OnApplications, IsRequest, OpKinds
<1>4. ASSUME NEW g \in GIds, o \in OnMembers(g)
      PROVE  IsRequest(o)
  BY <1>1, <1>4 DEF OnMembers, IsRequest, OpKinds
<1>. QED
  BY <1>2, <1>3, <1>4 DEF Offered

\* The server's handler of a request is a step of the server.
LEMMA AppliedIsServed ==
  ASSUME NEW o, IsRequest(o), Applied(o)
  PROVE  Next
<1> USE DEF IsRequest, OpKinds
<1>1. CASE o.kind = "create"
  <2>1. CreateGroup(o.g, o.assign, o.capacity, Null, Null, o.sched)
    BY <1>1 DEF Applied
  <2>. QED
    BY <1>1, <2>1 DEF Next, Lifecycle
<1>2. CASE o.kind = "delete"
  <2>1. RemoveGroup(o.g)
    BY <1>2 DEF Applied
  <2>. QED
    BY <1>2, <2>1 DEF Next, Lifecycle
<1>3. CASE o.kind = "update"
  <2>1. UpdateGroup(o.g, o.capacity, Null, Null, Null)
    BY <1>3 DEF Applied
  <2>. QED
    BY <1>3, <2>1 DEF Next, Lifecycle
<1>4. CASE o.kind = "add"
  <2>1. AddMember(o.g, o.r, o.slots)
    BY <1>4 DEF Applied
  <2>. QED
    BY <1>4, <2>1 DEF Next, Membership
<1>5. CASE o.kind = "move"
  <2>1. MoveMember(o.g, o.to, o.r, o.slots)
    BY <1>5 DEF Applied
  <2>. QED
    BY <1>5, <2>1 DEF Next, Membership
<1>6. CASE o.kind = "remove"
  <2>1. RemoveMember(o.g, o.r)
    BY <1>6 DEF Applied
  <2>. QED
    BY <1>6, <2>1 DEF Next, Membership
<1>7. CASE o.kind = "replace"
  <2>1. ReplaceMemberSlots(o.g, o.r, o.slots)
    BY <1>7 DEF Applied
  <2>. QED
    BY <1>7, <2>1 DEF Next, Membership
<1>8. CASE o.kind = "patch"
  <2>1. UpdateReservation(o.r, o.status, Null, o.prefs, Null, Null)
    BY <1>8 DEF Applied
  <2>. QED
    BY <1>8, <2>1 DEF Next, Edit
<1>9. CASE o.kind = "drop"
  <2>1. RemoveReservation(o.r)
    BY <1>9 DEF Applied
  <2>. QED
    BY <1>9, <2>1 DEF Next, Withdraw
<1>10. CASE o.kind = "walkin"
  <2>1. CreateWalkIn(o.r, o.age, o.prefs)
    BY <1>10 DEF Applied
  <2>. QED
    BY <1>10, <2>1 DEF Next, Apply
<1>. QED
  BY <1>1, <1>2, <1>3, <1>4, <1>5, <1>6, <1>7, <1>8, <1>9, <1>10

\* What onMutate writes into the list of reservations.
LEMMA SeatIsRows ==
  ASSUME NEW list \in [RIds -> Row], NEW rs, NEW g \in GIds
  PROVE  Seat(list, rs, g) \in [RIds -> Row]
<1>1. \A r \in RIds : [list[r] EXCEPT !.status = "GROUPED", !.group = g] \in Row
  BY DEF Row, ReservationStatus
<1>. QED
  BY <1>1 DEF Seat

LEMMA UnseatIsRows ==
  ASSUME NEW list \in [RIds -> Row], NEW rs
  PROVE  Unseat(list, rs) \in [RIds -> Row]
<1>1. \A r \in RIds : [list[r] EXCEPT !.status = "WAITING", !.group = Null] \in Row
  BY DEF Row, ReservationStatus
<1>. QED
  BY <1>1 DEF Unseat

LEMMA EditedIsRow ==
  ASSUME NEW row \in Row, NEW status \in StatusEdits, NEW prefs \in PrefChoices
  PROVE  Edited(row, status, Null, prefs, Null, Null) \in Row
<1>1. /\ OrElse(status, row.status) \in ReservationStatus \cup {"NONE"}
      /\ OrElse(prefs, row.prefs) \in SUBSET Ranges
      /\ \A x : OrElse(Null, x) = x
  BY InputsAreValid DEF OrElse, Row, Applicable
<1>. QED
  BY <1>1 DEF Edited, Row

LEMMA ShownRowsAreRows ==
  ASSUME rows \in [RIds -> Row], NEW o, IsRequest(o)
  PROVE  ShownRows(o) \in [RIds -> Row]
<1>1. \A rs : Unseat(rows, rs) \in [RIds -> Row]
  BY UnseatIsRows
<1> USE DEF IsRequest, OpKinds
<1>2. CASE o.kind = "create"
  <2>1. ShownRows(o) = Seat(rows, DOMAIN o.assign, o.g)
    BY <1>2 DEF ShownRows
  <2>. QED
    BY <1>2, <2>1, SeatIsRows
<1>3. CASE o.kind = "delete"
  <2>1. ShownRows(o) = Unseat(rows, {r \in RIds : rows[r].group = o.g})
    BY <1>3 DEF ShownRows
  <2>. QED
    BY <1>1, <2>1
<1>4. CASE o.kind = "add"
  <2>1. ShownRows(o) = Seat(rows, {o.r}, o.g)
    BY <1>4 DEF ShownRows
  <2>. QED
    BY <1>4, <2>1, SeatIsRows
<1>5. CASE o.kind = "move"
  <2>1. ShownRows(o) = Seat(rows, {o.r}, o.to)
    BY <1>5 DEF ShownRows
  <2>. QED
    BY <1>5, <2>1, SeatIsRows
<1>6. CASE o.kind = "remove"
  <2>1. ShownRows(o) = Unseat(rows, {o.r})
    BY <1>6 DEF ShownRows
  <2>. QED
    BY <1>1, <2>1
<1>7. CASE o.kind = "patch"
  <2> DEFINE row == Edited(rows[o.r], o.status, Null, o.prefs, Null, Null)
  <2>1. row \in Row
    BY <1>7, EditedIsRow
  <2>2. ShownRows(o) = [rows EXCEPT ![o.r] = row]
    BY <1>7 DEF ShownRows
  <2> HIDE DEF row
  <2>. QED
    BY <2>1, <2>2
<1>8. CASE o.kind = "drop"
  <2>1. NoReservation \in Row
    BY DEF NoReservation, Row
  <2>2. ShownRows(o) = [rows EXCEPT ![o.r] = NoReservation]
    BY <1>8 DEF ShownRows
  <2>. QED
    BY <2>1, <2>2
<1>9. CASE o.kind = "walkin"
  <2> DEFINE row == [NoReservation EXCEPT !.status = "WAITING", !.age = o.age, !.prefs = o.prefs]
  <2>1. o.age \in 4..10 /\ o.prefs \in SUBSET Ranges
    BY <1>9, InputsAreValid DEF AgeBounds, Applicable
  <2>2. row \in Row
    BY <2>1 DEF NoReservation, Row, ReservationStatus
  <2>3. ShownRows(o) = [rows EXCEPT ![o.r] = row]
    BY <1>9 DEF ShownRows
  <2> HIDE DEF row
  <2>. QED
    BY <2>2, <2>3
<1>10. CASE o.kind \in {"update", "replace"}
  <2>1. ShownRows(o) = rows
    BY <1>10 DEF ShownRows
  <2>. QED
    BY <2>1
<1>. QED
  BY <1>2, <1>3, <1>4, <1>5, <1>6, <1>7, <1>8, <1>9, <1>10

\* What it writes into the list of groups.
LEMMA LeaveIsTyped ==
  ASSUME NEW b, IsBoard(b), BoardIsTyped(b), NEW g \in GIds, NEW r \in RIds
  PROVE  BoardIsTyped(Leave(b, g, r))
<1> DEFINE last == Inside(b, g) \ {r} = {}
           own == {s \in b.slot : s.group = g /\ s.owner = r}
           status == IF last THEN "EMPTY" ELSE "CONFIRMED"
           groups == [b.grp EXCEPT ![g] = [b.grp[g] EXCEPT !.status = status]]
           slots == (b.slot \ own) \cup
                    (IF last THEN {[s EXCEPT !.owner = Null] : s \in own} ELSE {})
           members == [b.inside EXCEPT ![r] = NoReservation]
<1>1. groups \in [GIds -> GroupRow]
  <2>1. b.grp \in [GIds -> GroupRow]
    BY DEF BoardIsTyped
  <2>2. [b.grp[g] EXCEPT !.status = status] \in GroupRow
    BY <2>1 DEF GroupRow, GroupStatus
  <2> HIDE DEF status
  <2>. QED
    BY <2>1, <2>2
<1>2. members \in [RIds -> Row]
  BY DEF BoardIsTyped, NoReservation, Row
<1>3. slots \subseteq SlotRows
  <2>1. \A s \in own : [s EXCEPT !.owner = Null] \in SlotRows
    BY DEF BoardIsTyped, SlotRows
  <2>. QED
    BY <2>1 DEF BoardIsTyped
<1>4. Leave(b, g, r) = [b EXCEPT !.inside = members, !.grp = groups, !.slot = slots]
  BY DEF Leave
<1> HIDE DEF groups, slots, members
<1>5. Leave(b, g, r) = [grp |-> groups, slot |-> slots, inside |-> members]
  BY <1>4 DEF IsBoard
<1>. QED
  BY <1>1, <1>2, <1>3, <1>5 DEF BoardIsTyped

LEMMA JoinIsTyped ==
  ASSUME NEW b, IsBoard(b), BoardIsTyped(b), rows \in [RIds -> Row],
         NEW g \in GIds, NEW r \in RIds, NEW slots \in SUBSET Ranges
  PROVE  BoardIsTyped(Join(b, g, r, slots))
<1> DEFINE groups == [b.grp EXCEPT ![g] = [b.grp[g] EXCEPT !.status = "CONFIRMED"]]
           all == b.slot \cup NewSlots(g, r, slots)
           members == [b.inside EXCEPT ![r] = [rows[r] EXCEPT !.group = g]]
<1>1. groups \in [GIds -> GroupRow]
  <2>1. b.grp \in [GIds -> GroupRow]
    BY DEF BoardIsTyped
  <2>2. [b.grp[g] EXCEPT !.status = "CONFIRMED"] \in GroupRow
    BY <2>1 DEF GroupRow, GroupStatus
  <2>. QED
    BY <2>1, <2>2
<1>2. members \in [RIds -> Row]
  <2>1. [rows[r] EXCEPT !.group = g] \in Row
    BY DEF Row
  <2>. QED
    BY <2>1 DEF BoardIsTyped
<1>3. all \subseteq SlotRows
  BY NewSlotsType DEF BoardIsTyped, SlotRows
<1>4. Join(b, g, r, slots) = [b EXCEPT !.inside = members, !.grp = groups, !.slot = all]
  BY DEF Join
<1> HIDE DEF groups, all, members
<1>5. Join(b, g, r, slots) = [grp |-> groups, slot |-> all, inside |-> members]
  BY <1>4 DEF IsBoard
<1>. QED
  BY <1>1, <1>2, <1>3, <1>5 DEF BoardIsTyped

LEMMA ShownBoardIsTyped ==
  ASSUME IsBoard(board), BoardIsTyped(board), rows \in [RIds -> Row], NEW o, IsRequest(o)
  PROVE  BoardIsTyped(ShownBoard(o))
<1> USE DEF IsRequest, OpKinds
<1>1. CASE o.kind = "create"
  <2> DEFINE row == [status |-> IF DOMAIN o.assign = {} THEN "EMPTY" ELSE "CONFIRMED",
                     capacity |-> o.capacity, minAge |-> 4, maxAge |-> 10,
                     schedule |-> o.sched]
             groups == [board.grp EXCEPT ![o.g] = row]
             all == board.slot \cup
                    UNION {NewSlots(o.g, r, o.assign[r]) : r \in DOMAIN o.assign}
             members == [r \in RIds |-> IF r \in DOMAIN o.assign
                                        THEN [rows[r] EXCEPT !.group = o.g]
                                        ELSE board.inside[r]]
  <2>1. PICK ids \in SUBSET RIds : o.assign \in [ids -> SUBSET Ranges]
    BY <1>1
  <2>2. row \in GroupRow
    <3>1. o.capacity \in Nat
      BY <1>1, InputsAreValid DEF Seats
    <3>. QED
      BY <1>1, <3>1 DEF GroupRow, GroupStatus
  <2>3. groups \in [GIds -> GroupRow]
    <3> HIDE DEF row
    <3>. QED
      BY <2>2 DEF BoardIsTyped
  <2>4. all \subseteq SlotRows
    <3>1. \A r \in ids : NewSlots(o.g, r, o.assign[r]) \subseteq SlotRows
      BY <1>1, <2>1, NewSlotsType DEF SlotRows
    <3>. QED
      BY <2>1, <3>1 DEF BoardIsTyped
  <2>5. members \in [RIds -> Row]
    <3>1. \A r \in RIds : [rows[r] EXCEPT !.group = o.g] \in Row
      BY <1>1 DEF Row
    <3>. QED
      BY <3>1 DEF BoardIsTyped
  <2>6. ShownBoard(o) = [board EXCEPT !.grp = groups, !.slot = all, !.inside = members]
    BY <1>1 DEF ShownBoard
  <2> HIDE DEF groups, all, members
  <2>7. ShownBoard(o) = [grp |-> groups, slot |-> all, inside |-> members]
    BY <2>6 DEF IsBoard
  <2>. QED
    BY <2>3, <2>4, <2>5, <2>7 DEF BoardIsTyped
<1>2. CASE o.kind = "delete"
  <2> DEFINE groups == [board.grp EXCEPT ![o.g] = NoGroup]
             all == {s \in board.slot : s.group # o.g}
             members == [r \in RIds |-> IF board.inside[r].group = o.g THEN NoReservation
                                        ELSE board.inside[r]]
  <2>1. NoGroup \in GroupRow /\ NoReservation \in Row
    BY DEF NoGroup, GroupRow, NoReservation, Row
  <2>2. /\ groups \in [GIds -> GroupRow] /\ all \subseteq SlotRows
        /\ members \in [RIds -> Row]
    BY <2>1 DEF BoardIsTyped
  <2>3. ShownBoard(o) = [board EXCEPT !.grp = groups, !.slot = all, !.inside = members]
    BY <1>2 DEF ShownBoard
  <2> HIDE DEF groups, all, members
  <2>4. ShownBoard(o) = [grp |-> groups, slot |-> all, inside |-> members]
    BY <2>3 DEF IsBoard
  <2>. QED
    BY <2>2, <2>4 DEF BoardIsTyped
<1>3. CASE o.kind = "add"
  <2>1. ShownBoard(o) = Join(board, o.g, o.r, o.slots)
    BY <1>3 DEF ShownBoard
  <2>. QED
    BY <1>3, <2>1, JoinIsTyped
<1>4. CASE o.kind = "move"
  <2>1. ShownBoard(o) = Join(Leave(board, o.g, o.r), o.to, o.r, o.slots)
    BY <1>4 DEF ShownBoard
  <2>2. IsBoard(Leave(board, o.g, o.r)) /\ BoardIsTyped(Leave(board, o.g, o.r))
    BY <1>4, LeaveIsBoard, LeaveIsTyped
  <2>. QED
    BY <1>4, <2>1, <2>2, JoinIsTyped
<1>5. CASE o.kind = "remove"
  <2>1. ShownBoard(o) = Leave(board, o.g, o.r)
    BY <1>5 DEF ShownBoard
  <2>. QED
    BY <1>5, <2>1, LeaveIsTyped
<1>6. CASE o.kind = "replace"
  <2> DEFINE all == {s \in board.slot : s.group # o.g \/ s.owner # o.r} \cup
                    NewSlots(o.g, o.r, o.slots)
  <2>1. all \subseteq SlotRows
    BY <1>6, NewSlotsType DEF BoardIsTyped, SlotRows
  <2>2. ShownBoard(o) = [board EXCEPT !.slot = all]
    BY <1>6 DEF ShownBoard
  <2> HIDE DEF all
  <2>3. ShownBoard(o) = [grp |-> board.grp, slot |-> all, inside |-> board.inside]
    BY <2>2 DEF IsBoard
  <2>. QED
    BY <2>1, <2>3 DEF BoardIsTyped
<1>7. CASE o.kind = "update"
  <2> DEFINE groups == [board.grp EXCEPT ![o.g] = [board.grp[o.g] EXCEPT !.capacity = o.capacity]]
  <2>1. groups \in [GIds -> GroupRow]
    <3>1. board.grp \in [GIds -> GroupRow] /\ o.capacity \in Nat
      BY <1>7, InputsAreValid DEF BoardIsTyped, Seats
    <3>2. [board.grp[o.g] EXCEPT !.capacity = o.capacity] \in GroupRow
      BY <1>7, <3>1 DEF GroupRow
    <3>. QED
      BY <3>1, <3>2
  <2>2. ShownBoard(o) = [board EXCEPT !.grp = groups]
    BY <1>7 DEF ShownBoard
  <2> HIDE DEF groups
  <2>3. ShownBoard(o) = [grp |-> groups, slot |-> board.slot, inside |-> board.inside]
    BY <2>2 DEF IsBoard
  <2>. QED
    BY <2>1, <2>3 DEF BoardIsTyped
<1>8. CASE OnReservations(o)
  BY <1>8, ReservationsLeaveBoard
<1>. QED
  BY <1>1, <1>2, <1>3, <1>4, <1>5, <1>6, <1>7, <1>8 DEF OnReservations

LEMMA BoardOfIsTyped ==
  ASSUME NEW reservations \in [RIds -> Row], NEW groups \in [GIds -> GroupRow],
         NEW slots \in SUBSET SlotRows
  PROVE  BoardIsTyped(BoardOf(reservations, groups, slots))
<1>1. NoReservation \in Row
  BY DEF NoReservation, Row
<1>. QED
  BY <1>1 DEF BoardIsTyped, BoardOf

\* A mutation starts: its request is one the server takes, its snapshots and
\* what it writes into the caches are typed as they were.
LEMMA MutateKeepsTypes ==
  ASSUME CacheInv, DeskTyped, NEW i \in Calls, NEW o \in Offered, Mutate(i, o)
  PROVE  DeskTyped'
<1> USE DEF Busy, BusyWithGroups
<1> DEFINE call == [stage |-> "sent", op |-> o, rows |-> rows,
                    board |-> IF OnReservations(o) THEN <<>> ELSE board]
<1>1. /\ calls[i].stage = "free" /\ calls' = [calls EXCEPT ![i] = call]
      /\ clicks < MaxClicks /\ clicks' = clicks + 1
      /\ rows' = ShownRows(o) /\ board' = ShownBoard(o) /\ UNCHANGED <<rsv, grp, slot>>
      /\ fetch' = IF OnReservations(o) THEN [fetch EXCEPT !.rows = Quiet]
                  ELSE [rows |-> Quiet, board |-> Quiet]
  BY DEF Mutate, vars
<1>2. /\ call.stage = "sent" /\ call.op = o /\ call.rows = rows
      /\ ~OnReservations(o) => call.board = board
  OBVIOUS
<1> HIDE DEF call
<1>3. BoardIsTyped(board) /\ IsBoard(board) /\ rows \in [RIds -> Row]
  BY DEF DeskTyped, DeskTypeOK, BoardIsTyped, SlotRows, CacheInv, CacheShape
<1>4. IsRequest(o)
  BY <1>3, OfferedAreRequests
<1>5. rows' \in [RIds -> Row] /\ BoardIsTyped(board')
  BY <1>1, <1>3, <1>4, ShownRowsAreRows, ShownBoardIsTyped
<1>6. calls'[i] = call /\ \A j \in Calls \ {i} : calls'[j] = calls[j]
  BY <1>1 DEF CacheInv, CacheShape
<1>7. ASSUME NEW j \in Calls
      PROVE  /\ calls'[j].stage \in {"free", "sent", "served"}
             /\ Busy(j)' => calls'[j].rows \in [RIds -> Row] /\ IsRequest(calls'[j].op)
             /\ BusyWithGroups(j)' => BoardIsTyped(calls'[j].board)
  <2>1. CASE j = i
    BY <1>2, <1>3, <1>4, <1>6, <2>1 DEF OnReservations
  <2>2. CASE j # i
    <3>1. calls'[j] = calls[j]
      BY <1>6, <2>2
    <3>. QED
      BY <3>1 DEF DeskTyped, DeskTypeOK, OnReservations
  <2>. QED
    BY <2>1, <2>2
<1>8. /\ fetch'.rows.stage # "read"
      /\ fetch'.board.stage = "read" => BoardIsTyped(fetch'.board.data)
  <2>1. CASE OnReservations(o)
    <3>1. fetch'.rows = Quiet /\ fetch'.board = fetch.board
      BY <1>1, <2>1 DEF CacheInv, CacheShape
    <3>. QED
      BY <3>1 DEF Quiet, DeskTyped
  <2>2. CASE ~OnReservations(o)
    BY <1>1, <2>2 DEF Quiet
  <2>. QED
    BY <2>1, <2>2
<1>9. clicks' \in 0..MaxClicks /\ TypeOK'
  BY <1>1, ClicksAreBounded DEF DeskTyped, DeskTypeOK, TypeOK
<1>. QED
  BY <1>5, <1>7, <1>8, <1>9 DEF DeskTyped, DeskTypeOK, BoardIsTyped, SlotRows

\* The server carries a request out: its tables keep their types.
LEMMA ServeKeepsTypes ==
  ASSUME CacheInv, DeskTyped, NEW i \in Calls, Serve(i)
  PROVE  DeskTyped' /\ Next
<1> USE DEF Busy, BusyWithGroups
<1>1. /\ calls[i].stage = "sent" /\ calls' = [calls EXCEPT ![i].stage = "served"]
      /\ Applied(calls[i].op) /\ UNCHANGED <<rows, board, fetch, clicks>>
  BY DEF Serve
<1>2. IsRequest(calls[i].op)
  BY <1>1 DEF DeskTyped
<1>3. Next
  BY <1>1, <1>2, AppliedIsServed
<1>4. TypeOK'
  BY <1>3, ApplyType, EditType, WithdrawType, LifecycleType, MembershipType
  DEF Next, DeskTyped, DeskTypeOK
<1>5. /\ \A j \in Calls \ {i} : calls'[j] = calls[j]
      /\ calls'[i].stage = "served" /\ calls'[i].op = calls[i].op
      /\ calls'[i].rows = calls[i].rows /\ calls'[i].board = calls[i].board
  <2>1. calls'[i] = [calls[i] EXCEPT !.stage = "served"]
    BY <1>1 DEF CacheInv, CacheShape
  <2>2. calls[i] = [stage |-> calls[i].stage, op |-> calls[i].op,
                    rows |-> calls[i].rows, board |-> calls[i].board]
    BY DEF CacheInv, CacheShape
  <2>3. calls'[i] = [stage |-> "served", op |-> calls[i].op,
                     rows |-> calls[i].rows, board |-> calls[i].board]
    BY <2>1, <2>2
  <2>. QED
    BY <1>1, <2>3 DEF CacheInv, CacheShape
<1>6. ASSUME NEW j \in Calls
      PROVE  /\ calls'[j].stage \in {"free", "sent", "served"}
             /\ Busy(j)' => calls'[j].rows \in [RIds -> Row] /\ IsRequest(calls'[j].op)
             /\ BusyWithGroups(j)' => BoardIsTyped(calls'[j].board)
  <2>1. CASE j = i
    BY <1>1, <1>5, <2>1 DEF DeskTyped, DeskTypeOK, OnReservations
  <2>2. CASE j # i
    <3>1. calls'[j] = calls[j]
      BY <1>5, <2>2
    <3>. QED
      BY <3>1 DEF DeskTyped, DeskTypeOK, OnReservations
  <2>. QED
    BY <2>1, <2>2
<1>7. DeskTyped'
  BY <1>1, <1>4, <1>6 DEF DeskTyped, DeskTypeOK
<1>. QED
  BY <1>3, <1>7

\* A call ends: whatever it leaves in the caches is typed, so is the rest.
LEMMA EndKeepsTypes ==
  ASSUME CacheInv, DeskTyped, NEW i \in Calls, calls' = [calls EXCEPT ![i] = NoCall],
         fetch' = Refetching(calls[i].op), UNCHANGED <<rsv, grp, slot, clicks>>,
         rows' \in [RIds -> Row], BoardIsTyped(board')
  PROVE  DeskTyped'
<1> USE DEF Busy, BusyWithGroups
<1>1. calls'[i] = NoCall /\ \A j \in Calls \ {i} : calls'[j] = calls[j]
  BY DEF CacheInv, CacheShape
<1>2. ASSUME NEW j \in Calls
      PROVE  /\ calls'[j].stage \in {"free", "sent", "served"}
             /\ Busy(j)' => calls'[j].rows \in [RIds -> Row] /\ IsRequest(calls'[j].op)
             /\ BusyWithGroups(j)' => BoardIsTyped(calls'[j].board)
  <2>1. CASE j = i
    BY <1>1, <2>1 DEF NoCall
  <2>2. CASE j # i
    <3>1. calls'[j] = calls[j]
      BY <1>1, <2>2
    <3>. QED
      BY <3>1 DEF DeskTyped, DeskTypeOK, OnReservations
  <2>. QED
    BY <2>1, <2>2
<1>3. /\ fetch'.rows.stage # "read"
      /\ fetch'.board.stage = "read" => BoardIsTyped(fetch'.board.data)
  <2>1. CASE OnReservations(calls[i].op)
    <3>1. fetch'.rows.stage = "asked" /\ fetch'.board = fetch.board
      BY <2>1 DEF CacheInv, CacheShape, Refetching
    <3>. QED
      BY <3>1 DEF DeskTyped
  <2>2. CASE ~OnReservations(calls[i].op)
    BY <2>2 DEF Refetching
  <2>. QED
    BY <2>1, <2>2
<1>4. TypeOK' /\ clicks' \in 0..MaxClicks
  BY DEF DeskTyped, DeskTypeOK, TypeOK
<1>. QED
  BY <1>2, <1>3, <1>4 DEF DeskTyped, DeskTypeOK, BoardIsTyped, SlotRows

LEMMA SucceedKeepsTypes ==
  ASSUME CacheInv, DeskTyped, NEW i \in Calls, Succeed(i)
  PROVE  DeskTyped'
<1> DEFINE o == calls[i].op
           back == CASE o.kind = "move" -> {o.to}
                     [] o.kind \in {"create", "add", "replace", "update"} -> {o.g}
                     [] OTHER -> {}
           now == BoardOf(rsv, grp, slot)
           groups == [g \in GIds |-> IF g \in back THEN grp[g] ELSE board.grp[g]]
           slots == {s \in board.slot : s.group \notin back} \cup
                    {s \in slot : s.group \in back}
           members == [r \in RIds |->
                         IF now.inside[r].group \in back THEN now.inside[r]
                         ELSE IF board.inside[r].group \in back THEN NoReservation
                         ELSE board.inside[r]]
<1>1. /\ calls[i].stage = "served" /\ calls' = [calls EXCEPT ![i] = NoCall]
      /\ fetch' = Refetching(calls[i].op) /\ UNCHANGED <<rsv, grp, slot, clicks>>
      /\ rows' = IF o.kind \in {"patch", "walkin"} THEN [rows EXCEPT ![o.r] = rsv[o.r]]
                 ELSE rows
      /\ board' = [grp |-> groups, slot |-> slots, inside |-> members]
  BY DEF Succeed, vars
<1>2. /\ TypeOK /\ rows \in [RIds -> Row] /\ BoardIsTyped(board)
      /\ IsRequest(o)
  BY <1>1 DEF DeskTyped, DeskTypeOK, BoardIsTyped, SlotRows, Busy
<1>3. rows' \in [RIds -> Row]
  <2>1. CASE o.kind \in {"patch", "walkin"}
    <3>1. o.r \in RIds
      BY <1>2, <2>1 DEF IsRequest, OpKinds
    <3>2. rsv[o.r] \in Row
      BY <1>2, <3>1 DEF TypeOK
    <3>. QED
      BY <1>1, <1>2, <2>1, <3>2
  <2>2. CASE o.kind \notin {"patch", "walkin"}
    BY <1>1, <1>2, <2>2
  <2>. QED
    BY <2>1, <2>2
<1> HIDE DEF back
<1>4. BoardIsTyped(now)
  BY <1>2, BoardOfIsTyped DEF TypeOK, SlotRows
<1> HIDE DEF now
<1>5. NoReservation \in Row
  BY DEF NoReservation, Row
<1>6. /\ groups \in [GIds -> GroupRow] /\ slots \subseteq SlotRows
      /\ members \in [RIds -> Row]
  BY <1>2, <1>4, <1>5 DEF BoardIsTyped, TypeOK, SlotRows
<1> HIDE DEF groups, slots, members
<1>7. BoardIsTyped(board')
  BY <1>1, <1>6 DEF BoardIsTyped
<1>. QED
  BY <1>1, <1>3, <1>7, EndKeepsTypes

LEMMA FailKeepsTypes ==
  ASSUME CacheInv, DeskTyped, NEW i \in Calls, Fail(i)
  PROVE  DeskTyped'
<1>1. /\ Busy(i) /\ calls' = [calls EXCEPT ![i] = NoCall] /\ rows' = calls[i].rows
      /\ board' = IF OnReservations(calls[i].op) THEN board ELSE calls[i].board
      /\ fetch' = Refetching(calls[i].op) /\ UNCHANGED <<rsv, grp, slot, clicks>>
  BY DEF Fail, RolledBack, vars, Busy
<1>2. rows' \in [RIds -> Row]
  BY <1>1 DEF DeskTyped, DeskTypeOK, Busy
<1>3. BoardIsTyped(board')
  BY <1>1 DEF DeskTyped, DeskTypeOK, BoardIsTyped, SlotRows, BusyWithGroups
<1>. QED
  BY <1>1, <1>2, <1>3, EndKeepsTypes

\* A refetch is asked for, read or installed.
LEMMA FetchKeepsTypes ==
  ASSUME CacheInv, DeskTyped, ReadRows \/ ReadBoard \/ ArriveRows \/ ArriveBoard \/ Refocus
  PROVE  DeskTyped'
<1> USE DEF Busy, BusyWithGroups
<1>1. UNCHANGED <<rsv, grp, slot, calls, clicks>>
  BY DEF ReadRows, ReadBoard, ArriveRows, ArriveBoard, Refocus, vars
<1>2. /\ TypeOK' /\ clicks' \in 0..MaxClicks
      /\ \A j \in Calls : calls'[j].stage \in {"free", "sent", "served"}
      /\ \A j \in Calls : Busy(j)' => calls'[j].rows \in [RIds -> Row] /\ IsRequest(calls'[j].op)
      /\ \A j \in Calls : BusyWithGroups(j)' => BoardIsTyped(calls'[j].board)
  BY <1>1 DEF DeskTyped, DeskTypeOK, TypeOK, OnReservations
<1>3. /\ rows' \in [RIds -> Row] /\ BoardIsTyped(board')
      /\ fetch'.rows.stage = "read" => fetch'.rows.data \in [RIds -> Row]
      /\ fetch'.board.stage = "read" => BoardIsTyped(fetch'.board.data)
  <2>1. /\ TypeOK /\ rows \in [RIds -> Row] /\ BoardIsTyped(board)
        /\ fetch.rows.stage = "read" => fetch.rows.data \in [RIds -> Row]
        /\ fetch.board.stage = "read" => BoardIsTyped(fetch.board.data)
        /\ fetch = [rows |-> fetch.rows, board |-> fetch.board]
        /\ IsFetch(fetch.rows) /\ IsFetch(fetch.board)
    BY DEF DeskTyped, DeskTypeOK, BoardIsTyped, SlotRows, CacheInv, CacheShape
  <2>2. CASE ReadRows
    <3>1. /\ UNCHANGED <<rows, board>> /\ fetch'.board = fetch.board
          /\ fetch'.rows.data = rsv
      BY <2>1, <2>2 DEF ReadRows
    <3>. QED
      BY <2>1, <3>1 DEF TypeOK
  <2>3. CASE ReadBoard
    <3>1. /\ UNCHANGED <<rows, board>> /\ fetch'.rows = fetch.rows
          /\ fetch'.board.data = BoardOf(rsv, grp, slot)
      BY <2>1, <2>3 DEF ReadBoard
    <3>. QED
      BY <2>1, <3>1, BoardOfIsTyped DEF TypeOK, SlotRows
  <2>4. CASE ArriveRows
    <3>1. /\ rows' \in [RIds -> Row] /\ UNCHANGED board /\ fetch'.board = fetch.board
          /\ fetch'.rows.stage # "read"
      BY <2>1, <2>4 DEF ArriveRows, Quiet
    <3>. QED
      BY <2>1, <3>1
  <2>5. CASE ArriveBoard
    <3>1. /\ BoardIsTyped(board') /\ UNCHANGED rows /\ fetch'.rows = fetch.rows
          /\ fetch'.board.stage # "read"
      BY <2>1, <2>5 DEF ArriveBoard, Quiet
    <3>. QED
      BY <2>1, <3>1
  <2>6. CASE Refocus
    <3>1. UNCHANGED <<rows, board>>
      BY <2>6 DEF Refocus
    <3>2. CASE fetch' = [fetch EXCEPT !.rows.stage = "asked"]
      <4>1. fetch'.board = fetch.board /\ fetch'.rows.stage # "read"
        BY <2>1, <3>2 DEF IsFetch
      <4>. QED
        BY <2>1, <3>1, <4>1
    <3>3. CASE fetch' = [fetch EXCEPT !.board.stage = "asked"]
      <4>1. fetch'.rows = fetch.rows /\ fetch'.board.stage # "read"
        BY <2>1, <3>3 DEF IsFetch
      <4>. QED
        BY <2>1, <3>1, <4>1
    <3>. QED
      BY <2>6, <3>2, <3>3 DEF Refocus
  <2>. QED
    BY <2>2, <2>3, <2>4, <2>5, <2>6
<1>. QED
  BY <1>2, <1>3 DEF DeskTyped, DeskTypeOK, BoardIsTyped, SlotRows

LEMMA DeskStep ==
  ASSUME CacheInv, DeskTyped, [DeskNext]_deskVars
  PROVE  DeskTyped' /\ [Next]_vars
<1>1. ASSUME NEW i \in Calls, NEW o \in Offered, Mutate(i, o)
      PROVE  DeskTyped' /\ UNCHANGED vars
  BY <1>1, MutateKeepsTypes DEF Mutate
<1>2. ASSUME NEW i \in Calls, Serve(i)
      PROVE  DeskTyped' /\ Next
  BY <1>2, ServeKeepsTypes
<1>3. ASSUME NEW i \in Calls, Succeed(i)
      PROVE  DeskTyped' /\ UNCHANGED vars
  BY <1>3, SucceedKeepsTypes DEF Succeed
<1>4. ASSUME NEW i \in Calls, Fail(i)
      PROVE  DeskTyped' /\ UNCHANGED vars
  BY <1>4, FailKeepsTypes DEF Fail
<1>5. CASE ReadRows \/ ReadBoard \/ ArriveRows \/ ArriveBoard \/ Refocus
  BY <1>5, FetchKeepsTypes DEF ReadRows, ReadBoard, ArriveRows, ArriveBoard, Refocus
<1>6. CASE UNCHANGED deskVars
  BY <1>6 DEF deskVars, vars, DeskTyped, DeskTypeOK, TypeOK, Busy, BusyWithGroups, OnReservations
<1>. QED
  BY <1>1, <1>2, <1>3, <1>4, <1>5, <1>6 DEF DeskNext

LEMMA DeskStart == DeskInit => DeskTyped
<1> SUFFICES ASSUME DeskInit
             PROVE  DeskTyped
  OBVIOUS
<1> USE DEF DeskInit
<1>1. PICK s \in ServerStart :
        /\ rsv = s.rsv /\ grp = s.grp /\ slot = s.slot
        /\ rows = s.rsv /\ board = BoardOf(s.rsv, s.grp, s.slot)
  OBVIOUS
<1>2. TypeOK /\ rows = rsv /\ board = BoardOf(rsv, grp, slot)
  BY <1>1, StartsAreTyped DEF TypeOK
<1>3. BoardIsTyped(board) /\ rows \in [RIds -> Row]
  BY <1>2, BoardOfIsTyped DEF TypeOK, SlotRows
<1>4. \A i \in Calls : calls[i].stage = "free"
  BY DEF NoCall
<1>5. fetch.rows.stage = "idle" /\ fetch.board.stage = "idle"
  BY DEF Quiet
<1>6. clicks \in 0..MaxClicks
  BY ClicksAreBounded
<1>. QED
  BY <1>2, <1>3, <1>4, <1>5, <1>6
  DEF DeskTyped, DeskTypeOK, BoardIsTyped, SlotRows, Busy, BusyWithGroups

\* However old the caches are that the screens offer from and however often
\* calls fail, roll back or are overtaken by refetches, the server's tables,
\* both caches, and every snapshot keep the types of their rows.
THEOREM DeskKeepsTypes == DeskSpec => []DeskTypeOK
<1>1. DeskInit => DeskTyped
  BY DeskStart
<1>2. CacheInv /\ CacheInv' /\ DeskTyped /\ [DeskNext]_deskVars => DeskTyped'
  BY DeskStep
<1>3. DeskTyped => DeskTypeOK
  BY DEF DeskTyped
<1>. QED
  BY <1>1, <1>2, <1>3, CacheInductive, PTL DEF DeskSpec

\* The desk is one of the server's clients: whatever it sends, from however
\* stale a screen, the tables change only by steps of the server itself.
THEOREM CachesAreClients == DeskSpec => [][Next]_vars
<1>1. DeskInit => DeskTyped
  BY DeskStart
<1>2. CacheInv /\ DeskTyped /\ [DeskNext]_deskVars => DeskTyped' /\ [Next]_vars
  BY DeskStep
<1>. QED
  BY <1>1, <1>2, CacheInductive, PTL DEF DeskSpec

\* So a timetable that is in order when the desk opens stays in order.
THEOREM DeskKeepsTimetable == DeskSpec /\ TimetableInv => []TimetableInv
<1>1. TimetableInv /\ [Next]_vars => TimetableInv'
  BY StepTimetable
<1>. QED
  BY <1>1, CachesAreClients, PTL

-----------------------------------------------------------------------------
(* The student dialog, over any students, groups and sessions elsewhere.   *)
(* A form is there only while its own student is: whatever closes the      *)
(* dialog, the student's removal by somebody else included, takes it away. *)

Complete(row) ==
  row = [status |-> row.status, age |-> row.age, prefs |-> row.prefs, group |-> row.group,
         wants |-> row.wants, child |-> row.child, parent |-> row.parent]

RowsComplete == rsv = [r \in RIds |-> rsv[r]] /\ \A r \in RIds : Complete(rsv[r])

\* A form shows the student whose dialog is open; what it sends is a status.
FormInv ==
  /\ RowsComplete
  /\ form # Null => /\ detail # Null /\ detail \in RIds /\ Exists(detail)
                    /\ form = [status |-> form.status, prefs |-> form.prefs, of |-> form.of]
                    /\ form.of = detail /\ form.status # "NONE"
  /\ saving # Null => /\ saving = [who |-> saving.who, status |-> saving.status,
                                   prefs |-> saving.prefs, mounted |-> saving.mounted]
                      /\ saving.who \in RIds /\ saving.status # "NONE"

\* Nobody disappears.
AllStay == RowsComplete' /\ \A r \in RIds : Exists(r) => Exists(r)'

\* One row is rewritten, and still has a status.
LEMMA OneRowStays ==
  ASSUME RowsComplete, NEW r, NEW row, rsv' = [rsv EXCEPT ![r] = row],
         Complete(row), row.status # "NONE"
  PROVE  AllStay
BY DEF AllStay, RowsComplete, Exists

LEMMA AddMemberStays ==
  ASSUME RowsComplete, NEW g, NEW r, NEW slots, AddMember(g, r, slots)
  PROVE  AllStay
<1> DEFINE row == [rsv[r] EXCEPT !.status = "GROUPED", !.group = g, !.wants = Null]
<1>1. rsv' = [rsv EXCEPT ![r] = row]
  BY DEF AddMember
<1>2. CASE r \in RIds
  <2>1. Complete(rsv[r])  BY <1>2 DEF RowsComplete
  <2>2. row = [rsv[r] EXCEPT !.status = "GROUPED", !.group = g, !.wants = Null]
    OBVIOUS
  <2> HIDE DEF row
  <2>3. Complete(row) /\ row.status = "GROUPED"  BY <2>1, <2>2 DEF Complete
  <2> QED  BY <1>1, <2>3, OneRowStays
<1>3. CASE r \notin RIds
  <2>1. rsv' = rsv  BY <1>1, <1>3 DEF RowsComplete
  <2> QED  BY <2>1 DEF AllStay, RowsComplete, Exists
<1> QED  BY <1>2, <1>3

LEMMA RemoveMemberStays ==
  ASSUME RowsComplete, NEW g, NEW r \in RIds, RemoveMember(g, r)
  PROVE  AllStay
<1> DEFINE row == [rsv[r] EXCEPT !.group = Null, !.status = "WAITING"]
<1>1. rsv' = [rsv EXCEPT ![r] = row]
  BY DEF RemoveMember
<1>2. Complete(row) /\ row.status = "WAITING"
  <2>1. Complete(rsv[r])  BY DEF RowsComplete
  <2>2. row = [rsv[r] EXCEPT !.group = Null, !.status = "WAITING"]
    OBVIOUS
  <2> HIDE DEF row
  <2> QED  BY <2>1, <2>2 DEF Complete
<1> HIDE DEF row
<1> QED  BY <1>1, <1>2, OneRowStays

LEMMA MoveMemberStays ==
  ASSUME RowsComplete, NEW g, NEW to, NEW r \in RIds, NEW slots, MoveMember(g, to, r, slots)
  PROVE  AllStay
<1> DEFINE row == [rsv[r] EXCEPT !.group = to, !.wants = Null, !.prefs = slots]
<1>1. rsv' = [rsv EXCEPT ![r] = row] /\ rsv[r].status = "GROUPED"
  BY DEF MoveMember, Seated
<1>2. Complete(row) /\ row.status = "GROUPED"
  <2>1. Complete(rsv[r])  BY DEF RowsComplete
  <2>2. row = [rsv[r] EXCEPT !.group = to, !.wants = Null, !.prefs = slots]
    OBVIOUS
  <2> HIDE DEF row
  <2> QED  BY <1>1, <2>1, <2>2 DEF Complete
<1> HIDE DEF row
<1> QED  BY <1>1, <1>2, OneRowStays

LEMMA RemoveGroupStays ==
  ASSUME RowsComplete, NEW g, RemoveGroup(g)
  PROVE  AllStay
<1> DEFINE wants(r) == IF rsv[r].wants = g THEN Null ELSE rsv[r].wants
           row(r) == IF rsv[r].group = g
                     THEN [rsv[r] EXCEPT !.group = Null, !.status = "WAITING", !.wants = wants(r)]
                     ELSE [rsv[r] EXCEPT !.wants = wants(r)]
<1>1. rsv' = [r \in RIds |-> row(r)]  BY DEF RemoveGroup
<1>2. ASSUME NEW r \in RIds
      PROVE  Complete(row(r)) /\ (Exists(r) => row(r).status # "NONE")
  <2>1. Complete(rsv[r])  BY DEF RowsComplete
  <2>2. CASE rsv[r].group = g
    <3>1. row(r) = [rsv[r] EXCEPT !.group = Null, !.status = "WAITING", !.wants = wants(r)]
      BY <2>2
    <3> HIDE DEF wants
    <3> QED  BY <2>1, <3>1 DEF Complete
  <2>3. CASE rsv[r].group # g
    <3>1. row(r) = [rsv[r] EXCEPT !.wants = wants(r)]  BY <2>3
    <3> HIDE DEF wants
    <3> QED  BY <2>1, <3>1 DEF Complete, Exists
  <2> QED  BY <2>2, <2>3
<1> HIDE DEF row
<1> QED  BY <1>1, <1>2 DEF AllStay, RowsComplete, Exists

LEMMA SaveStays ==
  ASSUME RowsComplete, NEW r \in RIds, NEW status, status # "NONE", NEW prefs,
         UpdateReservation(r, status, Null, prefs, Null, Null)
  PROVE  AllStay
<1> DEFINE row == Edited(rsv[r], status, Null, prefs, Null, Null)
<1>1. rsv' = [rsv EXCEPT ![r] = row] /\ Exists(r)
  BY DEF UpdateReservation
<1>2. Complete(row) /\ row.status # "NONE"
  <2>1. Complete(rsv[r]) /\ rsv[r].status # "NONE"  BY <1>1 DEF RowsComplete, Exists
  <2> DEFINE old == rsv[r]
  <2>2. row = [old EXCEPT
                 !.status = OrElse(status, old.status), !.age = OrElse(Null, old.age),
                 !.prefs = OrElse(prefs, old.prefs), !.wants = OrElse(Null, old.wants),
                 !.child = OrElse(Null, old.child)]
    BY DEF Edited
  <2>3. OrElse(status, old.status) # "NONE"  BY <2>1 DEF OrElse
  <2>4. Complete(old)  BY <2>1
  <2> HIDE DEF row, old
  <2> QED  BY <2>2, <2>3, <2>4 DEF Complete
<1> HIDE DEF row
<1> QED  BY <1>1, <1>2, OneRowStays

\* Every use of the dialogs, every answer and every other session keeps the form
\* with its student.
LEMMA DialogStep == ASSUME FormInv, [DialogNext]_dialogVars PROVE FormInv'
<1>1. ASSUME AllStay, UNCHANGED <<detail, form, saving>> PROVE FormInv'
  BY <1>1 DEF FormInv, AllStay, Exists
<1>2. ASSUME UNCHANGED rsv PROVE AllStay
  BY <1>2 DEF FormInv, AllStay, RowsComplete, Exists
<1>3. CASE UNCHANGED dialogVars
  <2>1. UNCHANGED <<rsv, detail, form, saving>>  BY <1>3 DEF dialogVars, vars
  <2> QED  BY <1>1, <1>2, <2>1
<1>4. ASSUME NEW g \in GIds,
             \/ OpenGroup(g) \/ ChangeInfo(g) \/ DropInfo(g) \/ DropTimes(g)
             \/ \E x \in Ranges : ChangeSchedule(g, x) \/ PickTimes(g, x)
             \/ \E r \in RIds : EditTimes(g, r)
      PROVE  FormInv'
  <2>1. UNCHANGED <<rsv, detail, form, saving>>
    BY <1>4 DEF OpenGroup, ChangeInfo, DropInfo, DropTimes, ChangeSchedule,
                PickTimes, EditTimes, vars
  <2> QED  BY <1>1, <1>2, <2>1
<1>5. CASE CloseGroup
  <2>1. UNCHANGED <<rsv, detail, form, saving>>  BY <1>5 DEF CloseGroup, vars
  <2> QED  BY <1>1, <1>2, <2>1
<1>6. ASSUME NEW g \in GIds, SaveInfo(g) \/ SaveTimes(g) PROVE FormInv'
  <2>1. UNCHANGED <<rsv, detail, form, saving>>
    BY <1>6 DEF SaveInfo, SaveTimes, UpdateGroup, ReplaceMemberSlots, Refused, vars
  <2> QED  BY <1>1, <1>2, <2>1
<1>7. ASSUME NEW g \in GIds, CancelGroup(g) PROVE FormInv'
  <2>1. UNCHANGED <<detail, form, saving>> /\ (RemoveGroup(g) \/ UNCHANGED rsv)
    BY <1>7 DEF CancelGroup, Refused, vars
  <2> QED  BY <1>1, <1>2, <2>1, RemoveGroupStays DEF FormInv
<1>8. ASSUME NEW g \in GIds, NEW r \in RIds,
             \/ TakeOut(g, r) \/ \E to \in GIds : MoveTo(g, r, to)
             \/ \E slots \in SUBSET Ranges : Approve(g, r, slots)
      PROVE  FormInv'
  <2>1. UNCHANGED <<detail, form, saving>>
    BY <1>8 DEF TakeOut, MoveTo, Approve
  <2>2. AllStay
    BY <1>8, RemoveMemberStays, MoveMemberStays, AddMemberStays
    DEF TakeOut, MoveTo, Approve, FormInv
  <2> QED  BY <1>1, <2>1, <2>2
<1>9. ASSUME NEW r \in RIds, OpenStudent(r) PROVE FormInv'
  <2>1. NoDialog /\ UNCHANGED <<rsv, form, saving>>  BY <1>9 DEF OpenStudent, vars
  <2>2. form = Null  BY <2>1 DEF NoDialog, FormInv
  <2> QED  BY <2>1, <2>2 DEF FormInv, RowsComplete
<1>10. CASE CloseStudent
  <2>1. form' = Null /\ saving' = Unmounted /\ UNCHANGED rsv  BY <1>10 DEF CloseStudent, vars
  <2> QED  BY <2>1 DEF FormInv, RowsComplete, Unmounted
<1>11. ASSUME NEW r \in RIds, StartEdit(r) PROVE FormInv'
  <2>1. /\ detail = r /\ Exists(r) /\ UNCHANGED <<rsv, detail, saving>>
        /\ form' = [status |-> rsv[r].status, prefs |-> rsv[r].prefs, of |-> r]
    BY <1>11 DEF StartEdit, vars
  <2>2. form' # Null => r # Null  BY IdsAreDisjoint
  <2> QED  BY <2>1, <2>2 DEF FormInv, RowsComplete, Exists
<1>12. ASSUME NEW r \in RIds, ChangeForm(r) PROVE FormInv'
  <2>1. /\ detail = r /\ Exists(r) /\ form # Null /\ UNCHANGED <<rsv, detail, saving>>
        /\ \/ \E st \in StatusEdits : form' = [form EXCEPT !.status = st]
           \/ \E p \in PrefChoices : form' = [form EXCEPT !.prefs = p]
    BY <1>12 DEF ChangeForm, Editing, vars
  <2>2. /\ form = [status |-> form.status, prefs |-> form.prefs, of |-> form.of]
        /\ form.of = detail /\ form.status # "NONE"
    BY <2>1 DEF FormInv
  <2>3. \A st \in StatusEdits : st # "NONE"  BY InputsAreValid DEF ReservationStatus
  <2>4. /\ form' = [status |-> form'.status, prefs |-> form'.prefs, of |-> form'.of]
        /\ form'.of = detail /\ form'.status # "NONE"
    BY <2>1, <2>2, <2>3
  <2> QED  BY <2>1, <2>4 DEF FormInv, RowsComplete, Exists
<1>13. ASSUME NEW r \in RIds, DropForm(r) PROVE FormInv'
  <2>1. form' = Null /\ UNCHANGED <<rsv, saving>>  BY <1>13 DEF DropForm, vars
  <2> QED  BY <2>1 DEF FormInv, RowsComplete
<1>14. ASSUME NEW r \in RIds, HandleSubmit(r) PROVE FormInv'
  <2>1. /\ form # Null /\ UNCHANGED <<rsv, detail, form>>
        /\ saving' = [who |-> r, status |-> form.status, prefs |-> form.prefs, mounted |-> TRUE]
    BY <1>14 DEF HandleSubmit, Editing, vars
  <2> QED  BY <2>1 DEF FormInv, RowsComplete, Exists
<1>15. CASE SaveAnswered
  <2>1. saving # Null /\ saving' = Null /\ UNCHANGED detail /\ (form' = Null \/ form' = form)
    BY <1>15 DEF SaveAnswered
  <2>2. AllStay
    <3>1. CASE UNCHANGED rsv  BY <1>2, <3>1
    <3>2. CASE UpdateReservation(saving.who, saving.status, Null, saving.prefs, Null, Null)
      BY <2>1, <3>2, SaveStays DEF FormInv
    <3> QED  BY <1>15, <3>1, <3>2 DEF SaveAnswered, Refused, vars
  <2> QED  BY <2>1, <2>2 DEF FormInv, AllStay, Exists
<1>16. CASE OtherSession
  <2>1. RowsComplete'
    <3>1. ASSUME NEW r \in RIds, RemoveReservation(r) PROVE RowsComplete'
      <4>1. rsv' = [rsv EXCEPT ![r] = NoReservation] /\ Complete(NoReservation)
        BY <3>1 DEF RemoveReservation, Complete, NoReservation
      <4> QED  BY <4>1 DEF FormInv, RowsComplete
    <3> QED
      BY <1>16, <3>1, MoveMemberStays, RemoveMemberStays, RemoveGroupStays
      DEF OtherSession, AllStay, FormInv
  <2>2. CASE detail # Null /\ rsv'[detail].status = "NONE"
    <3>1. form' = Null /\ saving' = Unmounted  BY <1>16, <2>2 DEF OtherSession
    <3> QED  BY <2>1, <3>1 DEF FormInv, Unmounted
  <2>3. CASE ~(detail # Null /\ rsv'[detail].status = "NONE")
    <3>1. UNCHANGED <<detail, form, saving>>  BY <1>16, <2>3 DEF OtherSession
    <3> QED  BY <2>1, <2>3, <3>1 DEF FormInv, Exists
  <2> QED  BY <2>2, <2>3
<1> QED
  BY <1>3, <1>4, <1>5, <1>6, <1>7, <1>8, <1>9, <1>10, <1>11, <1>12, <1>13, <1>14, <1>15, <1>16
  DEF DialogNext

\* ReservationDetailModal: the forms and the saves under way.
THEOREM DialogInductive == DialogSpec => []FormInv
<1>1. DialogInit => FormInv
  <2> SUFFICES ASSUME DialogInit PROVE FormInv
    OBVIOUS
  <2>1. PICK s \in DialogStart : rsv = s.rsv  BY DEF DialogInit
  <2>2. rsv \in [RIds -> Row]  BY <2>1, DialogStartsAreTyped
  <2>3. RowsComplete
    <3>1. ASSUME NEW r \in RIds PROVE Complete(rsv[r])
      <4>1. rsv[r] \in Row  BY <2>2
      <4> QED  BY <4>1 DEF Row, Complete
    <3> QED  BY <2>2, <3>1 DEF RowsComplete
  <2> QED  BY <2>3 DEF DialogInit, FormInv
<1>2. FormInv /\ [DialogNext]_dialogVars => FormInv'
  BY DialogStep
<1> QED  BY <1>1, <1>2, PTL DEF DialogSpec

\* useReservationModals and ReservationDetailModal: the form on the screen is that
\* of the student shown, for any number of students and sessions elsewhere.
THEOREM FormAlwaysStaysWithStudent == DialogSpec => []FormStaysWithStudent
<1>1. FormInv => FormStaysWithStudent  BY DEF FormInv, FormStaysWithStudent
<1> QED  BY <1>1, DialogInductive, PTL

-----------------------------------------------------------------------------
(* What the dialogs send.  A draft is typed over the values of a row, by    *)
(* somebody who may look away for as long as they like, and a save sends    *)
(* all of it.  Whatever a save, a late answer or another session brings is  *)
(* a request the server's handlers take, so the tables, the ids looked up   *)
(* and the drafts keep their types and the database stays in order.         *)

\* The requests of the two dialogs and of the sessions elsewhere: the numbers of
\* a group's draft may be the group's own, the status of a form the student's own.
DialogRequest ==
  \/ Membership
  \/ \E r \in RIds : RemoveReservation(r)
  \/ \E g \in GIds : RemoveGroup(g)
  \/ \E g \in GIds, capacity \in Nat, minAge, maxAge \in AgeBounds, x \in Ranges \cup {Null} :
       UpdateGroup(g, capacity, minAge, maxAge, x)
  \/ \E r \in RIds, status \in ReservationStatus, prefs \in SUBSET Ranges :
       UpdateReservation(r, status, Null, prefs, Null, Null)

LEMMA RequestType == ASSUME TypeOK, DialogRequest PROVE TypeOK'
<1>1. ASSUME NEW r \in RIds, RemoveReservation(r) PROVE TypeOK'
  BY <1>1, WithdrawType DEF Withdraw
<1>2. ASSUME NEW r \in RIds, NEW status \in ReservationStatus, NEW prefs \in SUBSET Ranges,
             UpdateReservation(r, status, Null, prefs, Null, Null)
      PROVE  TypeOK'
  BY <1>2, UpdateReservationType
<1>. QED
  BY <1>1, <1>2, MembershipType, RemoveGroupType, UpdateGroupType DEF DialogRequest

\* The database in order: the timetable, the seats and the members' days.
InOrder == TimetableInv /\ OccupancyInv /\ MemberSlotsContiguous

LEMMA ContiguousIsPerMember ==
  MemberSlotsContiguous <=> \A r \in RIds : NoGaps(TimesGiven(r))
BY DEF MemberSlotsContiguous, TimesGiven

LEMMA NothingLeavesOrder == ASSUME InOrder, UNCHANGED vars PROVE InOrder'
<1>1. TimetableInv'
  BY StepTimetable DEF InOrder
<1>2. OccupancyInv'
  BY DEF InOrder, vars, OccupancyInv, RoomInv, VacancyInv, NamedGroupsExist, EmptyIsVacant,
         LiveGroups, Live, AnchorsOnlyWhenVacant, CapacityRespected, Members
<1>3. MemberSlotsContiguous'
  BY DEF InOrder, vars, MemberSlotsContiguous
<1>. QED
  BY <1>1, <1>2, <1>3 DEF InOrder

\* Any step of the server keeps the order, whoever asked for it.
LEMMA ServedInOrder == ASSUME InOrder, [Next]_vars PROVE InOrder'
<1>1. TimetableInv'
  BY StepTimetable DEF InOrder
<1>2. CASE Next
  <2>1. OccupancyInv'
    BY <1>1, <1>2, ApplyOccupancy, EditOccupancy, WithdrawOccupancy, LifecycleOccupancy,
       MembershipOccupancy DEF Next, OccupancyInv, InOrder
  <2>2. \A q \in RIds : NoGaps(TimesGiven(q)')
    BY ContiguousStep, ContiguousIsPerMember DEF InOrder
  <2>3. MemberSlotsContiguous'
    BY <2>2 DEF MemberSlotsContiguous, TimesGiven
  <2>. QED
    BY <1>1, <2>1, <2>3 DEF InOrder
<1>. QED
  BY <1>2, NothingLeavesOrder

\* So does a PATCH of a group with numbers no run's constants name ...
LEMMA UpdateInOrder ==
  ASSUME InOrder, NEW g \in GIds, NEW capacity \in Nat, NEW minAge \in AgeBounds,
         NEW maxAge \in AgeBounds, NEW x \in Ranges \cup {Null},
         UpdateGroup(g, capacity, minAge, maxAge, x)
  PROVE  InOrder'
<1>1. TimetableInv'
  BY UpdateGroupType, UpdateGroupTimetable DEF InOrder, TimetableInv
<1>2. OccupancyInv'
  BY <1>1, UpdateGroupOccupancy DEF InOrder, OccupancyInv
<1>3. ASSUME NEW q \in RIds PROVE NoGaps(TimesGiven(q)')
  <2>1. \/ TimesGiven(q)' = TimesGiven(q)
        \/ TimesGiven(q)' = {}
        \/ TimesGiven(q)' = {x} /\ x \in Ranges
    BY UpdateGroupTimes DEF InOrder
  <2>. QED
    BY <2>1, ContiguousIsPerMember, NoGapsInNone, NoGapsInOne DEF InOrder
<1>4. MemberSlotsContiguous'
  BY <1>3 DEF MemberSlotsContiguous, TimesGiven
<1>. QED
  BY <1>1, <1>2, <1>4 DEF InOrder

\* ... and one of a student with any status and any times.
LEMMA PatchInOrder ==
  ASSUME InOrder, NEW r \in RIds, NEW status \in ReservationStatus,
         NEW prefs \in SUBSET Ranges, UpdateReservation(r, status, Null, prefs, Null, Null)
  PROVE  InOrder'
<1>1. TimetableInv'
  BY UpdateReservationType, UpdateReservationTimetable DEF InOrder, TimetableInv
<1>2. OccupancyInv'
  BY <1>1, UpdateReservationOccupancy DEF InOrder, OccupancyInv
<1>3. MemberSlotsContiguous'
  BY DEF UpdateReservation, InOrder, MemberSlotsContiguous
<1>. QED
  BY <1>1, <1>2, <1>3 DEF InOrder

LEMMA RequestInOrder == ASSUME InOrder, DialogRequest PROVE InOrder'
<1>1. CASE Membership \/ \E r \in RIds : RemoveReservation(r)
  BY <1>1, ServedInOrder DEF Next, Withdraw
<1>2. ASSUME NEW g \in GIds, RemoveGroup(g) PROVE InOrder'
  <2>1. TimetableInv'
    BY <1>2, RemoveGroupType, RemoveGroupTimetable DEF InOrder, TimetableInv
  <2>2. OccupancyInv'
    BY <1>2, <2>1, RemoveGroupOccupancy DEF InOrder, OccupancyInv
  <2>3. \A q \in RIds : NoGaps(TimesGiven(q)')
    BY <1>2, RemoveGroupTimes, NoGapsInNone, ContiguousIsPerMember DEF InOrder
  <2>4. MemberSlotsContiguous'
    BY <2>3 DEF MemberSlotsContiguous, TimesGiven
  <2>. QED
    BY <2>1, <2>2, <2>4 DEF InOrder
<1>. QED
  BY <1>1, <1>2, UpdateInOrder, PatchInOrder DEF DialogRequest

\* What is typed, and where: every draft is a whole one.
DraftsTyped ==
  /\ opened \in GIds \cup {Null} /\ detail \in RIds \cup {Null}
  /\ info # Null => info \in [capacity: Nat, minAge: AgeBounds, maxAge: AgeBounds, of: GIds]
  /\ sched # Null => sched \in [range: Ranges, of: GIds]
  /\ times # Null => times \in [who: RIds, slots: SUBSET Ranges]
  /\ form # Null => form \in [status: ReservationStatus, prefs: SUBSET Ranges, of: RIds]
  /\ saving # Null => saving \in [who: RIds, status: ReservationStatus, prefs: SUBSET Ranges,
                                  mounted: BOOLEAN]

DialogTyped == TypeOK /\ DraftsTyped

LEMMA InfoIsTyped ==
  ASSUME DialogTyped, NEW g \in GIds
  PROVE  Info(g) \in [capacity: Nat, minAge: AgeBounds, maxAge: AgeBounds, of: GIds]
BY DEF DialogTyped, DraftsTyped, Info, TypeOK, GroupRow, AgeBounds

LEMMA UnmountedIsTyped ==
  ASSUME DraftsTyped, saving # Null
  PROVE  Unmounted \in [who: RIds, status: ReservationStatus, prefs: SUBSET Ranges,
                        mounted: BOOLEAN]
BY DEF DraftsTyped, Unmounted

LEMMA OccupiedAreRanges == ASSUME TypeOK, NEW g \in GIds PROVE Occupied(g) \subseteq Ranges
BY DEF TypeOK, GroupRow, Occupied, RangesOf, SlotsOf

\* A use of the group dialog.
LEMMA GroupDialogSends ==
  ASSUME DialogTyped, NEW g \in GIds,
         \/ SaveInfo(g) \/ SaveTimes(g) \/ CancelGroup(g)
         \/ \E r \in RIds : \/ TakeOut(g, r) \/ \E to \in GIds : MoveTo(g, r, to)
                            \/ \E slots \in SUBSET Ranges : Approve(g, r, slots)
  PROVE  (DialogRequest \/ UNCHANGED vars) /\ DraftsTyped'
<1>1. CASE SaveInfo(g)
  <2>1. /\ UpdateGroup(g, Info(g).capacity, Info(g).minAge, Info(g).maxAge,
                       IF sched = Null THEN Null ELSE sched.range) \/ UNCHANGED vars
        /\ info' = Null /\ sched' = Null /\ UNCHANGED <<opened, times, detail, form, saving>>
    BY <1>1 DEF SaveInfo, Refused
  <2>2. /\ Info(g).capacity \in Nat /\ Info(g).minAge \in AgeBounds
        /\ Info(g).maxAge \in AgeBounds
        /\ (IF sched = Null THEN Null ELSE sched.range) \in Ranges \cup {Null}
    BY InfoIsTyped DEF DialogTyped, DraftsTyped
  <2>. QED
    BY <2>1, <2>2 DEF DialogRequest, DialogTyped, DraftsTyped
<1>2. CASE SaveTimes(g)
  <2>1. /\ ReplaceMemberSlots(g, times.who, times.slots) \/ UNCHANGED vars
        /\ times # Null
        /\ times' = Null /\ UNCHANGED <<opened, info, sched, detail, form, saving>>
    BY <1>2 DEF SaveTimes, TimesShown, Refused
  <2>2. times.who \in RIds /\ times.slots \in SUBSET Ranges
    BY <2>1 DEF DialogTyped, DraftsTyped
  <2>. QED
    BY <2>1, <2>2 DEF DialogRequest, Membership, DialogTyped, DraftsTyped
<1>3. CASE CancelGroup(g)
  BY <1>3 DEF CancelGroup, Refused, groupDraft, DialogRequest, DialogTyped, DraftsTyped
<1>4. ASSUME NEW r \in RIds, TakeOut(g, r)
      PROVE  DialogRequest /\ DraftsTyped'
  BY <1>4 DEF TakeOut, groupDraft, DialogRequest, Membership, DialogTyped, DraftsTyped
<1>5. ASSUME NEW r \in RIds, NEW to \in GIds, MoveTo(g, r, to)
      PROVE  DialogRequest /\ DraftsTyped'
  <2>1. \E slots \in SUBSET Ranges : MoveMember(g, to, r, slots)
    BY <1>5, OccupiedAreRanges DEF MoveTo, DialogTyped, TypeOK, Row
  <2>. QED
    BY <1>5, <2>1 DEF MoveTo, groupDraft, DialogRequest, Membership, DialogTyped, DraftsTyped
<1>6. ASSUME NEW r \in RIds, NEW slots \in SUBSET Ranges, Approve(g, r, slots)
      PROVE  DialogRequest /\ DraftsTyped'
  BY <1>6 DEF Approve, groupDraft, DialogRequest, Membership, DialogTyped, DraftsTyped
<1>. QED
  BY <1>1, <1>2, <1>3, <1>4, <1>5, <1>6

\* Typing in it.
LEMMA GroupDialogTypes ==
  ASSUME DialogTyped, NEW g \in GIds,
         \/ OpenGroup(g) \/ ChangeInfo(g) \/ DropInfo(g) \/ DropTimes(g) \/ CloseGroup
         \/ \E x \in Ranges : ChangeSchedule(g, x) \/ PickTimes(g, x)
         \/ \E r \in RIds : EditTimes(g, r)
  PROVE  UNCHANGED vars /\ DraftsTyped'
<1> USE DEF DialogTyped, DraftsTyped, groupDraft
<1>1. CASE OpenGroup(g) \/ CloseGroup \/ DropInfo(g) \/ DropTimes(g)
  BY <1>1 DEF OpenGroup, CloseGroup, DropInfo, DropTimes
<1>2. CASE ChangeInfo(g)
  <2>1. Capacities \subseteq Nat /\ AgeLimits \subseteq AgeBounds
    BY InputsAreValid DEF Seats
  <2>2. info' \in [capacity: Nat, minAge: AgeBounds, maxAge: AgeBounds, of: GIds]
    BY <1>2, <2>1, InfoIsTyped DEF ChangeInfo
  <2>. QED
    BY <1>2, <2>2 DEF ChangeInfo
<1>3. ASSUME NEW x \in Ranges, ChangeSchedule(g, x) PROVE UNCHANGED vars /\ DraftsTyped'
  BY <1>3 DEF ChangeSchedule
<1>4. ASSUME NEW x \in Ranges, PickTimes(g, x) PROVE UNCHANGED vars /\ DraftsTyped'
  <2>1. times \in [who: RIds, slots: SUBSET Ranges]
    BY <1>4 DEF PickTimes, TimesShown
  <2>2. times' \in [who: RIds, slots: SUBSET Ranges]
    BY <1>4, <2>1 DEF PickTimes
  <2>. QED
    BY <1>4, <2>2 DEF PickTimes
<1>5. ASSUME NEW r \in RIds, EditTimes(g, r) PROVE UNCHANGED vars /\ DraftsTyped'
  <2>1. {s.range : s \in OwnedBy(g, r)} \subseteq Ranges
    BY DEF OwnedBy, TypeOK
  <2>. QED
    BY <1>5, <2>1 DEF EditTimes
<1>. QED
  BY <1>1, <1>2, <1>3, <1>4, <1>5

\* The student dialog.
LEMMA StudentDialogTypes ==
  ASSUME DialogTyped, NEW r \in RIds,
         \/ OpenStudent(r) \/ StartEdit(r) \/ ChangeForm(r) \/ DropForm(r)
         \/ HandleSubmit(r) \/ CloseStudent
  PROVE  UNCHANGED vars /\ DraftsTyped'
<1> USE DEF DialogTyped, DraftsTyped, groupDraft
<1>1. CASE OpenStudent(r) \/ DropForm(r)
  BY <1>1 DEF OpenStudent, DropForm
<1>2. CASE StartEdit(r)
  <2>1. rsv[r] \in Row /\ rsv[r].status # "NONE"
    BY <1>2 DEF StartEdit, Exists, TypeOK
  <2>2. rsv[r].status \in ReservationStatus /\ rsv[r].prefs \in SUBSET Ranges
    BY <2>1 DEF Row
  <2>. QED
    BY <1>2, <2>2 DEF StartEdit
<1>3. CASE ChangeForm(r)
  <2>1. StatusEdits \subseteq ReservationStatus /\ PrefChoices \subseteq SUBSET Ranges
    BY InputsAreValid DEF Applicable
  <2>2. form \in [status: ReservationStatus, prefs: SUBSET Ranges, of: RIds]
    BY <1>3 DEF ChangeForm, Editing
  <2>3. form' \in [status: ReservationStatus, prefs: SUBSET Ranges, of: RIds]
    BY <1>3, <2>1, <2>2 DEF ChangeForm
  <2>. QED
    BY <1>3, <2>3 DEF ChangeForm
<1>4. CASE HandleSubmit(r)
  <2>1. form.status \in ReservationStatus /\ form.prefs \in SUBSET Ranges
    BY <1>4 DEF HandleSubmit, Editing
  <2>. QED
    BY <1>4, <2>1 DEF HandleSubmit
<1>5. CASE CloseStudent
  <2>1. saving' # Null => saving' = Unmounted /\ saving # Null
    BY <1>5 DEF CloseStudent, Unmounted
  <2>. QED
    BY <1>5, <2>1, UnmountedIsTyped DEF CloseStudent
<1>. QED
  BY <1>1, <1>2, <1>3, <1>4, <1>5

\* An answer, and the other sessions.
LEMMA AnswerIsRequest ==
  ASSUME DialogTyped, SaveAnswered \/ OtherSession
  PROVE  (DialogRequest \/ UNCHANGED vars) /\ DraftsTyped'
<1> USE DEF DialogTyped, DraftsTyped, groupDraft
<1>1. CASE SaveAnswered
  <2>1. /\ saving # Null /\ saving' = Null
        /\ form' = Null \/ form' = form
        /\ UNCHANGED <<opened, info, sched, times, detail>>
    BY <1>1 DEF SaveAnswered
  <2>2. /\ saving.who \in RIds /\ saving.status \in ReservationStatus
        /\ saving.prefs \in SUBSET Ranges
    BY <2>1
  <2>3. \/ UpdateReservation(saving.who, saving.status, Null, saving.prefs, Null, Null)
        \/ UNCHANGED vars
    BY <1>1 DEF SaveAnswered, Refused
  <2>. QED
    BY <2>1, <2>2, <2>3 DEF DialogRequest
<1>2. CASE OtherSession
  <2>1. DialogRequest
    <3>1. ASSUME NEW r \in RIds, NEW g \in GIds, NEW to \in GIds,
                 MoveMember(g, to, r, Occupied(to))
          PROVE  Membership
      <4>1. Occupied(to) \in SUBSET Ranges
        BY OccupiedAreRanges
      <4>. QED
        BY <3>1, <4>1 DEF Membership
    <3>2. ASSUME NEW r \in RIds, NEW g \in GIds, RemoveMember(g, r) PROVE Membership
      BY <3>2 DEF Membership
    <3>. QED
      BY <1>2, <3>1, <3>2 DEF OtherSession, DialogRequest
  <2>2. /\ UNCHANGED <<opened, info, sched, times, detail>>
        /\ form' = Null \/ form' = form
        /\ saving' = Unmounted \/ saving' = saving
    BY <1>2 DEF OtherSession
  <2>3. saving' # Null /\ saving' = Unmounted => saving # Null
    BY DEF Unmounted
  <2>. QED
    BY <2>1, <2>2, <2>3, UnmountedIsTyped
<1>. QED
  BY <1>1, <1>2

\* Every step of a dialog leaves the tables alone or is one request.
LEMMA DialogSends ==
  ASSUME DialogTyped, [DialogNext]_dialogVars
  PROVE  (DialogRequest \/ UNCHANGED vars) /\ DraftsTyped'
<1>1. CASE UNCHANGED dialogVars
  BY <1>1 DEF dialogVars, groupDraft, DialogTyped, DraftsTyped
<1>2. CASE CloseGroup
  <2>1. PICK g \in GIds : Shown(g)
    BY <1>2 DEF CloseGroup
  <2>. QED
    BY <1>2, GroupDialogTypes
<1>3. CASE CloseStudent
  <2>1. detail \in RIds
    BY <1>3 DEF CloseStudent, DialogTyped, DraftsTyped
  <2>. QED
    BY <1>3, <2>1, StudentDialogTypes
<1>4. CASE \E g \in GIds :
             \/ OpenGroup(g) \/ ChangeInfo(g) \/ DropInfo(g) \/ SaveInfo(g)
             \/ DropTimes(g) \/ SaveTimes(g) \/ CancelGroup(g)
             \/ \E x \in Ranges : ChangeSchedule(g, x) \/ PickTimes(g, x)
             \/ \E r \in RIds :
                  \/ EditTimes(g, r) \/ TakeOut(g, r)
                  \/ \E to \in GIds : MoveTo(g, r, to)
                  \/ \E slots \in SUBSET Ranges : Approve(g, r, slots)
  BY <1>4, GroupDialogTypes, GroupDialogSends
<1>5. CASE \E r \in RIds : \/ OpenStudent(r) \/ StartEdit(r) \/ ChangeForm(r)
                           \/ DropForm(r) \/ HandleSubmit(r)
  BY <1>5, StudentDialogTypes
<1>6. CASE SaveAnswered \/ OtherSession
  BY <1>6, AnswerIsRequest
<1>. QED
  BY <1>1, <1>2, <1>3, <1>4, <1>5, <1>6 DEF DialogNext

LEMMA DialogTypedStep ==
  ASSUME DialogTyped, [DialogNext]_dialogVars
  PROVE  DialogTyped'
<1>1. (DialogRequest \/ UNCHANGED vars) /\ DraftsTyped'
  BY DialogSends
<1>2. TypeOK'
  BY <1>1, RequestType DEF DialogTyped, TypeOK, vars
<1>. QED
  BY <1>1, <1>2 DEF DialogTyped

LEMMA DialogOpensTyped == DialogInit => DialogTyped
<1> SUFFICES ASSUME DialogInit PROVE DialogTyped
  OBVIOUS
<1>1. PICK s \in DialogStart : rsv = s.rsv /\ grp = s.grp /\ slot = s.slot
  BY DEF DialogInit
<1>2. TypeOK
  BY <1>1, DialogStartsAreTyped DEF TypeOK
<1>. QED
  BY <1>2 DEF DialogInit, DialogTyped, DraftsTyped

\* GroupDetailModal and ReservationDetailModal: whatever is typed, left lying,
\* saved late or overtaken by another session, the tables, the ids looked up in
\* the lists and every draft keep their types.
THEOREM DialogsKeepTypes == DialogSpec => []DialogTypeOK
<1>1. DialogTyped => DialogTypeOK
  BY DEF DialogTyped, DraftsTyped, DialogTypeOK
<1>2. DialogTyped /\ [DialogNext]_dialogVars => DialogTyped'
  BY DialogTypedStep
<1>. QED
  BY <1>1, <1>2, DialogOpensTyped, PTL DEF DialogSpec

\* A database in order when the page is opened stays in order, whatever the
\* dialogs send of drafts however old, and whatever other sessions do meanwhile:
\* the timetable, the seats and the members' days.
THEOREM DialogsKeepOrder == DialogSpec /\ InOrder => []InOrder
<1>1. DialogTyped /\ InOrder /\ [DialogNext]_dialogVars => DialogTyped' /\ InOrder'
  BY DialogTypedStep, DialogSends, RequestInOrder, NothingLeavesOrder
<1>. QED
  BY <1>1, DialogOpensTyped, PTL DEF DialogSpec

\* The same of the desk, whose screens offer from caches however stale.
THEOREM DeskKeepsOrder == DeskSpec /\ InOrder => []InOrder
<1>1. InOrder /\ [Next]_vars => InOrder'
  BY ServedInOrder
<1>. QED
  BY <1>1, CachesAreClients, PTL

-----------------------------------------------------------------------------
(* The timetable page, for any grid, any number of students and groups, and *)
(* any number of cells ticked together.  Whatever the page sends is an input *)
(* the server's handlers take, so the page is a client of the server and     *)
(* every theorem about the server holds under it.                            *)

\* At most MaxTicks cells are ticked, each a cell of the grid.
GridInv ==
  /\ GridTypeOK
  /\ IsFiniteSet(selected) /\ Cardinality(selected) <= MaxTicks

LEMMA RunsAreRanges ==
  ASSUME NEW steps \in SUBSET GridRows, NEW d \in Weekdays
  PROVE  Runs(steps, d) \subseteq Ranges
BY GridFits DEF Runs

LEMMA RowsOfGrid ==
  /\ \A ranges, d : RowsIn(ranges, d) \subseteq GridRows
  /\ selected \subseteq Ticks =>
       /\ Ticked \subseteq RIds
       /\ \A r, d : RowsTicked(r, d) \subseteq GridRows
BY DEF RowsIn, Ticked, RowsTicked, Ticks

LEMMA JoinableAreRanges ==
  ASSUME TypeOK, NEW r \in RIds, NEW g \in GIds
  PROVE  /\ \A d \in Weekdays : JoinableSlotsForDay(r, g, d) \subseteq Ranges
         /\ JoinableSlotsForAllDays(r, g) \subseteq Ranges
<1>1. grp[g].schedule \in Ranges \cup {Null} /\ rsv[r].prefs \subseteq Ranges
  BY DEF TypeOK, Row, GroupRow
<1>2. ASSUME NEW d \in Weekdays
      PROVE  JoinableSlotsForDay(r, g, d) \subseteq Ranges
  <2>1. RowsIn(RangesOf(g), d) \cap RowsIn(rsv[r].prefs, d) \subseteq GridRows
    BY RowsOfGrid
  <2>. QED
    BY <1>1, <2>1, RunsAreRanges DEF JoinableSlotsForDay
<1>3. \A p \in rsv[r].prefs : p.day \in Weekdays
  BY <1>1, GridFits
<1>. QED
  BY <1>2, <1>3 DEF JoinableSlotsForAllDays

LEMMA MergedAreRanges ==
  ASSUME selected \subseteq Ticks
  PROVE  /\ MergedSlots \in [Ticked -> SUBSET Ranges]
         /\ ScheduleBlock \in Ranges \cup {Null}
<1>1. ASSUME NEW r \in Ticked
      PROVE  UNION {Runs(RowsTicked(r, d), d) : d \in Weekdays} \subseteq Ranges
  BY RowsOfGrid, RunsAreRanges
<1>2. MergedSlots \in [Ticked -> SUBSET Ranges]
  BY <1>1 DEF MergedSlots
<1>3. UNION {MergedSlots[r] : r \in Ticked} \subseteq Ranges
  BY <1>2
<1>. QED
  BY <1>2, <1>3 DEF ScheduleBlock

\* No more students are ticked than cells.
LEMMA FewTicked ==
  ASSUME GridInv
  PROVE  /\ IsFiniteSet(Ticked) /\ Cardinality(Ticked) \in Nat
         /\ Ticked # {} => Cardinality(Ticked) \in Capacities
<1> DEFINE f == [t \in selected |-> t.who]
<1>1. f \in Surjection(selected, Ticked)
  BY DEF Surjection, Ticked
<1>2. IsFiniteSet(Ticked) /\ Cardinality(Ticked) <= Cardinality(selected)
  <2> HIDE DEF f
  <2>. QED
    BY <1>1, FS_Surjection DEF GridInv, GridTypeOK
<1>3. Cardinality(Ticked) \in Nat /\ Cardinality(selected) \in Nat
  BY <1>2, FS_CardinalityType DEF GridInv, GridTypeOK
<1>4. Ticked # {} => Cardinality(Ticked) # 0
  BY <1>2, FS_EmptySet
<1>5. MaxTicks \in Nat /\ 1..MaxTicks \subseteq Capacities
  BY GridFits
<1>. QED
  BY <1>2, <1>3, <1>4, <1>5 DEF GridInv, GridTypeOK

LEMMA ConfirmIsCreation ==
  ASSUME GridInv, NEW g \in GIds, FormPasses, ConfirmedGroup(g)
  PROVE  Lifecycle
<1> DEFINE ages == {rsv[r].age : r \in Ticked}
<1>1. Ticked \subseteq RIds /\ MergedSlots \in [Ticked -> SUBSET Ranges]
      /\ ScheduleBlock \in Ranges \cup {Null}
  BY RowsOfGrid, MergedAreRanges DEF GridInv, GridTypeOK
<1>2. Least(ages) \in AgeLimits /\ Greatest(ages) \in AgeLimits
  <2>1. ages \subseteq 4..10 /\ ages # {}
    BY <1>1 DEF GridInv, GridTypeOK, TypeOK, Row, FormPasses
  <2>2. Least(ages) \in ages /\ Greatest(ages) \in ages
    BY <2>1, LeastInSet, GreatestInSet
  <2>. QED
    BY <2>1, <2>2, GridFits DEF AgeBounds
<1>3. Cardinality(Ticked) \in Capacities
  BY FewTicked DEF FormPasses
<1>4. CreateGroup(g, MergedSlots, Cardinality(Ticked), Least(ages), Greatest(ages),
                  ScheduleBlock)
  BY DEF ConfirmedGroup
<1> HIDE DEF ages
<1>. QED
  BY <1>1, <1>2, <1>3, <1>4 DEF Lifecycle

LEMMA BlankIsCreation ==
  ASSUME NEW g \in GIds, NEW c \in BlankCapacities, NEW x \in Planned,
         HandleCreateBlankGroup(g, c, x)
  PROVE  Lifecycle
<1>1. [r \in {} |-> {}] \in [{} -> SUBSET Ranges]
  OBVIOUS
<1>2. x \in Ranges /\ c \in Capacities
  BY GridFits
<1>. QED
  BY <1>1, <1>2 DEF HandleCreateBlankGroup, Lifecycle

LEMMA JoinsAreMemberships ==
  ASSUME TypeOK, NEW g \in GIds, NEW r \in RIds,
         \/ HandleApproveRequest(r, g)
         \/ \E d \in Weekdays : HandleAddToGroup(r, g, d)
         \/ \E to \in GIds : HandleMoveMember(r, g, to)
  PROVE  Membership
<1>1. CASE HandleApproveRequest(r, g)
  BY <1>1, JoinableAreRanges DEF HandleApproveRequest, Membership
<1>2. CASE \E d \in Weekdays : HandleAddToGroup(r, g, d)
  BY <1>2, JoinableAreRanges DEF HandleAddToGroup, Membership
<1>3. CASE \E to \in GIds : HandleMoveMember(r, g, to)
  <2>1. PICK to \in GIds : HandleMoveMember(r, g, to)
    BY <1>3
  <2>2. Occupied(to) \subseteq Ranges /\ rsv[r].prefs \subseteq Ranges
    BY DEF TypeOK, Row, GroupRow, Occupied, RangesOf, SlotsOf
  <2>. QED
    BY <2>1, <2>2 DEF HandleMoveMember, Membership
<1>. QED
  BY <1>1, <1>2, <1>3

LEMMA ElsewhereIsServed == ASSUME Elsewhere PROVE Next
<1>1. CASE Apply \/ Edit \/ Withdraw
  BY <1>1 DEF Next
<1>2. ASSUME NEW g \in GIds, RemoveGroup(g) PROVE Next
  BY <1>2 DEF Next, Lifecycle
<1>3. ASSUME NEW g \in GIds, NEW x \in Planned \cup {Null},
             \/ UpdateGroup(g, Null, Null, Null, x)
             \/ \E c \in BlankCapacities, minAge, maxAge \in Ages :
                  UpdateGroup(g, c, minAge, maxAge, x)
      PROVE  Next
  <2>1. Ages \subseteq AgeLimits /\ Planned \subseteq Ranges /\ BlankCapacities \subseteq Capacities
    BY InputsAreValid, GridFits
  <2>2. PICK c \in Capacities \cup {Null}, minAge, maxAge \in AgeLimits \cup {Null} :
               UpdateGroup(g, c, minAge, maxAge, x)
    BY <1>3, <2>1
  <2>. QED
    BY <2>1, <2>2 DEF Next, Lifecycle
<1>4. ASSUME NEW g \in GIds, NEW ids \in SUBSET RIds,
             NEW assign \in [ids -> {{x} : x \in Planned}],
             CreateGroup(g, assign, 2, Null, Null, Null)
      PROVE  Next
  <2>1. assign \in [ids -> SUBSET Ranges] /\ 2 \in Capacities
    BY GridFits
  <2>. QED
    BY <1>4, <2>1 DEF Next, Lifecycle
<1>5. ASSUME NEW g \in GIds, NEW r \in RIds, RemoveMember(g, r) PROVE Next
  BY <1>5 DEF Next, Membership
<1>6. ASSUME NEW g \in GIds, NEW r \in RIds, NEW slots \in SUBSET Planned,
             \/ AddMember(g, r, slots) \/ ReplaceMemberSlots(g, r, slots)
             \/ \E to \in GIds : MoveMember(g, to, r, slots)
      PROVE  Next
  <2>1. slots \in SUBSET Ranges
    BY GridFits
  <2>. QED
    BY <1>6, <2>1 DEF Next, Membership
<1>. QED
  BY <1>1, <1>2, <1>3, <1>4, <1>5, <1>6 DEF Elsewhere

\* Every step of the page is a step of the server, or leaves it alone.
LEMMA PageStep ==
  ASSUME GridInv, [GridNext]_gridVars
  PROVE  [Next]_vars
<1>1. CASE UNCHANGED gridVars
  BY <1>1 DEF gridVars, vars
<1>2. ASSUME NEW d \in Weekdays, NEW k \in GridRows,
             SelectCell(d, k) \/ \E r \in RIds : ToggleSlot(r, d, k)
      PROVE  UNCHANGED vars
  BY <1>2 DEF SelectCell, ToggleSlot
<1>3. ASSUME NEW t \in selected, RemoveTick(t)
      PROVE  UNCHANGED vars
  BY <1>3 DEF RemoveTick
<1>4. ASSUME NEW g \in GIds, HandleConfirmGroup(g)
      PROVE  Next
  BY <1>4, ConfirmIsCreation DEF HandleConfirmGroup, Next
<1>5. ASSUME NEW g \in GIds, NEW c \in BlankCapacities, NEW x \in Planned,
             HandleCreateBlankGroup(g, c, x)
      PROVE  Next
  BY <1>5, BlankIsCreation DEF Next
<1>6. ASSUME NEW g \in GIds, NEW r \in RIds,
             \/ HandleApproveRequest(r, g)
             \/ \E d \in Weekdays : HandleAddToGroup(r, g, d)
             \/ \E to \in GIds : HandleMoveMember(r, g, to)
      PROVE  Next
  BY <1>6, JoinsAreMemberships DEF GridInv, GridTypeOK, Next
<1>7. ASSUME NEW r \in RIds, HandleCancelReservation(r)
      PROVE  Next
  BY <1>7 DEF HandleCancelReservation, Next, Withdraw
<1>. QED
  BY <1>1, <1>2, <1>3, <1>4, <1>5, <1>6, <1>7, ElsewhereIsServed DEF GridNext

LEMMA ServerType == ASSUME TypeOK, [Next]_vars PROVE TypeOK'
<1>1. CASE UNCHANGED vars
  BY <1>1 DEF vars, TypeOK
<1>. QED
  BY <1>1, ApplyType, EditType, WithdrawType, LifecycleType, MembershipType DEF Next

\* What the page does to the ticked cells.
LEMMA TicksStep ==
  ASSUME GridInv, [GridNext]_gridVars
  PROVE  \/ selected' \subseteq selected
         \/ /\ \E C \in SUBSET Ticks : IsFiniteSet(C) /\ selected' = selected \cup C
            /\ Cardinality(selected') <= MaxTicks
<1>1. CASE UNCHANGED gridVars
  BY <1>1 DEF gridVars
<1>2. ASSUME NEW d \in Weekdays, NEW k \in GridRows, SelectCell(d, k)
      PROVE  /\ \E C \in SUBSET Ticks : IsFiniteSet(C) /\ selected' = selected \cup C
             /\ Cardinality(selected') <= MaxTicks
  <2> DEFINE W == WaitingInCell(d, k)
             C == [who : W, day : {d}, row : {k}]
             f == [r \in W |-> [who |-> r, day |-> d, row |-> k]]
  <2>1. W \in SUBSET RIds /\ IsFiniteSet(RIds)
    BY IdsAreDisjoint DEF WaitingInCell, Waiting
  <2>2. IsFiniteSet(W)
    BY <2>1, FS_Subset
  <2>3. f \in Surjection(W, C)
    BY DEF Surjection
  <2>4. IsFiniteSet(C)
    <3> HIDE DEF f, W, C
    <3>. QED
      BY <2>2, <2>3, FS_Surjection
  <2>5. C \in SUBSET Ticks
    BY <2>1 DEF Ticks
  <2>. QED
    BY <1>2, <2>4, <2>5 DEF SelectCell
<1>3. ASSUME NEW d \in Weekdays, NEW k \in GridRows, NEW r \in RIds, ToggleSlot(r, d, k)
      PROVE  \/ selected' \subseteq selected
             \/ /\ \E C \in SUBSET Ticks : IsFiniteSet(C) /\ selected' = selected \cup C
                /\ Cardinality(selected') <= MaxTicks
  <2> DEFINE t == [who |-> r, day |-> d, row |-> k]
  <2>1. {t} \in SUBSET Ticks
    BY DEF Ticks
  <2>2. IsFiniteSet({t})
    BY FS_Singleton
  <2>3. selected' = (IF t \in selected THEN selected \ {t} ELSE selected \cup {t})
        /\ Cardinality(selected') <= MaxTicks
    BY <1>3 DEF ToggleSlot
  <2> HIDE DEF t
  <2>. QED
    BY <2>1, <2>2, <2>3
<1>4. ASSUME NEW t \in selected, RemoveTick(t)
      PROVE  selected' \subseteq selected
  BY <1>4 DEF RemoveTick
<1>5. ASSUME NEW g \in GIds,
             \/ HandleConfirmGroup(g)
             \/ \E c \in BlankCapacities, x \in Planned : HandleCreateBlankGroup(g, c, x)
             \/ \E r \in RIds :
                  \/ HandleApproveRequest(r, g)
                  \/ \E d \in Weekdays : HandleAddToGroup(r, g, d)
                  \/ \E to \in GIds : HandleMoveMember(r, g, to)
      PROVE  selected' \subseteq selected
  BY <1>5 DEF HandleConfirmGroup, HandleCreateBlankGroup, HandleApproveRequest,
              HandleAddToGroup, HandleMoveMember
<1>6. ASSUME NEW r \in RIds, HandleCancelReservation(r)
      PROVE  selected' \subseteq selected
  BY <1>6 DEF HandleCancelReservation
<1>7. CASE Elsewhere
  BY <1>7 DEF Elsewhere
<1>. QED
  BY <1>1, <1>2, <1>3, <1>4, <1>5, <1>6, <1>7 DEF GridNext

LEMMA GridStep == ASSUME GridInv, [GridNext]_gridVars PROVE GridInv'
<1>1. TypeOK'
  BY PageStep, ServerType DEF GridInv, GridTypeOK
<1>2. CASE selected' \subseteq selected
  <2>1. IsFiniteSet(selected') /\ Cardinality(selected') <= Cardinality(selected)
    BY <1>2, FS_Subset DEF GridInv, GridTypeOK
  <2>2. Cardinality(selected') \in Nat /\ Cardinality(selected) \in Nat
    BY <2>1, FS_CardinalityType DEF GridInv, GridTypeOK
  <2>. QED
    BY <1>1, <1>2, <2>1, <2>2, GridFits DEF GridInv, GridTypeOK
<1>3. ASSUME NEW C \in SUBSET Ticks, IsFiniteSet(C), selected' = selected \cup C,
             Cardinality(selected') <= MaxTicks
      PROVE  GridInv'
  <2>1. IsFiniteSet(selected')
    BY <1>3, FS_Union DEF GridInv, GridTypeOK
  <2>. QED
    BY <1>1, <1>3, <2>1 DEF GridInv, GridTypeOK, Ticks
<1>. QED
  BY <1>2, <1>3, TicksStep

\* No more than MaxTicks cells are ticked, each a cell of the grid, and the
\* tables keep their types whatever the page sends.
THEOREM GridInductive == GridSpec => []GridInv
<1>1. GridInit => GridInv
  <2> SUFFICES ASSUME GridInit PROVE GridInv
    OBVIOUS
  <2>1. TypeOK
    BY DEF GridInit, Init, TypeOK, NoReservation, NoGroup, Row, GroupRow
  <2>. QED
    BY <2>1, FS_EmptySet, GridFits DEF GridInit, GridInv, GridTypeOK
<1>. QED
  BY <1>1, GridStep, PTL DEF GridSpec

\* The page is a client of the server: every behaviour of the page, the PATCH of
\* its student dialog and the work of other sessions included, is for the tables
\* a behaviour of ReservationGroups.
THEOREM DeskIsClient == GridSpec => Spec
<1>1. GridInit => Init
  BY DEF GridInit
<1>. QED
  BY <1>1, PageStep, GridInductive, PTL DEF GridSpec, Spec
-----------------------------------------------------------------------------
(* The form and the server judge alike.  A ticked cell is a row in which its  *)
(* student can come: if it were shown there for a row further down, that row  *)
(* would lie inside another group's block, the block would also cover the     *)
(* ticked row, and the form would have refused the overlap.  So every run of  *)
(* ticked rows lies within preferred times, and within one of them if no two  *)
(* of them touch.                                                             *)

LEMMA LeastNumber ==
  ASSUME NEW S \in SUBSET Nat, S # {}
  PROVE  \E x \in S : \A y \in S : x <= y
<1>1. PICK x \in S : \A y \in S : <<y, x>> \notin OpToRel(<, Nat)
  BY NatLessThanWellFounded, WFMin
<1>2. \A y \in S : ~(y < x)
  BY <1>1 DEF OpToRel
<1>. QED
  BY <1>2

\* Every row of a finite set of rows lies in a run.
LEMMA RunThrough ==
  ASSUME NEW steps \in SUBSET GridRows, NEW k \in steps, NEW d
  PROVE  \E f, t \in steps : /\ f <= k /\ k <= t
                            /\ [day |-> d, start |-> f, end |-> t + 1] \in Runs(steps, d)
<1>1. PICK n \in Nat : GridRows = 0..n
  BY GridFits
<1> DEFINE Up == {m \in Nat : k + m + 1 \notin steps}
           Down == {m \in Nat : k - m - 1 \notin steps}
<1>2. k \in Nat /\ k \in 0..n
  BY <1>1
<1>3. n \in Up /\ k \in Down
  BY <1>1, <1>2
<1>4. PICK u \in Up : \A m \in Up : u <= m
  <2>1. Up \in SUBSET Nat /\ Up # {}
    BY <1>3
  <2> HIDE DEF Up
  <2>. QED
    BY <2>1, LeastNumber
<1>5. PICK w \in Down : \A m \in Down : w <= m
  <2>1. Down \in SUBSET Nat /\ Down # {}
    BY <1>3
  <2> HIDE DEF Down
  <2>. QED
    BY <2>1, LeastNumber
<1>6. ASSUME NEW i \in k..(k + u) PROVE i \in steps
  <2>1. CASE i = k
    BY <2>1
  <2>2. CASE i # k
    <3>1. i - k - 1 \in Nat /\ i - k - 1 < u
      BY <1>2, <2>2
    <3>2. i - k - 1 \notin Up
      BY <1>4, <3>1
    <3>3. k + (i - k - 1) + 1 = i
      BY <1>2
    <3>. QED
      BY <3>1, <3>2, <3>3
  <2>. QED
    BY <2>1, <2>2
<1>7. ASSUME NEW i \in (k - w)..k PROVE i \in steps
  <2>1. CASE i = k
    BY <2>1
  <2>2. CASE i # k
    <3>1. k - i - 1 \in Nat /\ k - i - 1 < w
      BY <1>2, <2>2
    <3>2. k - i - 1 \notin Down
      BY <1>5, <3>1
    <3>3. k - (k - i - 1) - 1 = i
      BY <1>2
    <3>. QED
      BY <3>1, <3>2, <3>3
  <2>. QED
    BY <2>1, <2>2
<1> DEFINE f == k - w
           t == k + u
           p == <<f, t>>
<1>8. /\ f \in Int /\ t \in Int /\ f <= k /\ k <= t
      /\ f - 1 \notin steps /\ t + 1 \notin steps
  <2>1. k - w - 1 \notin steps /\ k + u + 1 \notin steps
    BY <1>4, <1>5
  <2>. QED
    BY <1>2, <2>1
<1>9. f \in steps /\ t \in steps
  BY <1>2, <1>6, <1>7, <1>8
<1>10. f..t \subseteq steps
  <2> SUFFICES ASSUME NEW i \in f..t PROVE i \in steps
    OBVIOUS
  <2>1. i \in (k - w)..k \/ i \in k..(k + u)
    BY <1>2, <1>8
  <2>. QED
    BY <2>1, <1>6, <1>7
<1> HIDE DEF f, t, Up, Down
<1>11. p \in {q \in steps \X steps : /\ q[1] <= q[2] /\ q[1]..q[2] \subseteq steps
                                   /\ q[1] - 1 \notin steps
                                   /\ q[2] + 1 \notin steps}
  BY <1>1, <1>2, <1>8, <1>9, <1>10
<1>12. [day |-> d, start |-> f, end |-> t + 1] \in Runs(steps, d)
  BY <1>11 DEF Runs
<1>. QED
  BY <1>8, <1>9, <1>12

\* What a run is.
LEMMA RunIs ==
  ASSUME NEW steps \in SUBSET GridRows, NEW d, NEW x \in Runs(steps, d)
  PROVE  /\ x.day = d /\ x.start \in Nat /\ x.end \in Nat /\ x.start < x.end
         /\ \A k \in x.start..(x.end - 1) : k \in steps
<1>1. PICK p \in steps \X steps :
        /\ x = [day |-> d, start |-> p[1], end |-> p[2] + 1]
        /\ p[1] <= p[2] /\ p[1]..p[2] \subseteq steps
  BY DEF Runs
<1>2. p[1] \in Nat /\ p[2] \in Nat
  BY GridFits
<1>. QED
  BY <1>1, <1>2

\* The row a cell is shown in.
LEMMA ShownAbove ==
  ASSUME TypeOK, NEW d, NEW j \in GridRows
  PROVE  LET k == RenderableRow(d, j) IN
         /\ k \in GridRows /\ k <= j
         /\ k < j => SkipRender(d, k + 1)
<1>1. PICK n \in Nat : GridRows = 0..n
  BY GridFits
<1> DEFINE S == {i \in GridRows : i <= j /\ ~SkipRender(d, i)}
           D == {m \in Nat : j - m \in S}
<1>2. ~SkipRender(d, 0)
  <2> SUFFICES ASSUME NEW g \in LiveGroups, NEW x \in Blocks(g), x.start < 0
               PROVE  FALSE
    BY DEF SkipRender
  <2>1. Blocks(g) \subseteq Ranges
    BY DEF Blocks, RangesOf, SlotsOf, LiveGroups, TypeOK, GroupRow
  <2>2. x.start \in Nat
    BY <2>1, RangesAreValid DEF IsRange
  <2>. QED
    BY <2>2
<1>3. j \in D
  BY <1>1, <1>2
<1>4. PICK m \in D : \A i \in D : m <= i
  <2>1. D \in SUBSET Nat /\ D # {}
    BY <1>3
  <2> HIDE DEF D
  <2>. QED
    BY <2>1, LeastNumber
<1>5. j - m \in S /\ \A i \in S : i <= j - m
  <2>1. ASSUME NEW i \in S PROVE i <= j - m
    <3>1. j \in Nat /\ i \in Nat /\ i <= j /\ m \in Nat
      BY <1>1
    <3>2. j - i \in Nat /\ j - (j - i) = i
      BY <3>1
    <3>3. j - i \in D
      BY <3>2
    <3>4. m <= j - i
      BY <1>4, <3>3
    <3> HIDE DEF S, D
    <3>. QED
      BY <3>1, <3>4
  <2>. QED
    BY <2>1
<1>6. RenderableRow(d, j) = Greatest(S)
  BY DEF RenderableRow
<1>7. Greatest(S) \in S /\ \A i \in S : i <= Greatest(S)
  <2> HIDE DEF S
  <2>. QED
    BY <1>5 DEF Greatest
<1>8. ASSUME Greatest(S) < j PROVE SkipRender(d, Greatest(S) + 1)
  <2>1. Greatest(S) + 1 \in GridRows /\ Greatest(S) + 1 <= j
    BY <1>1, <1>7, <1>8
  <2>2. Greatest(S) + 1 \notin S
    BY <1>1, <1>7
  <2>. QED
    BY <2>1, <2>2
<1>. QED
  BY <1>6, <1>7, <1>8

\* A block of a live group is time the form finds occupied.
LEMMA BlockedIsOverlap ==
  ASSUME TypeOK, NEW d, NEW k \in Nat, SkipRender(d, k + 1),
         NEW x, x.day = d, x.start \in Nat, x.end \in Nat, x.start <= k, k < x.end
  PROVE  HasScheduleOverlap(x)
<1>1. PICK g \in LiveGroups :
        \E y \in Blocks(g) : y.day = d /\ y.start < k + 1 /\ k + 1 < y.end
  BY DEF SkipRender
<1>2. PICK y \in Blocks(g) : y.day = d /\ y.start < k + 1 /\ k + 1 < y.end
  BY <1>1
<1>3. y \in Occupied(g)
  BY DEF Blocks, Occupied, RangesOf
<1>4. y \in Ranges
  BY <1>3 DEF Occupied, RangesOf, SlotsOf, LiveGroups, TypeOK, GroupRow
<1>5. y.start \in Nat /\ y.end \in Nat
  BY <1>4, RangesAreValid DEF IsRange
<1>. QED
  BY <1>2, <1>3, <1>5 DEF HasScheduleOverlap, Overlaps

\* A ticked cell of a group the form lets through is a preferred row.
LEMMA TickedIsPreferred ==
  ASSUME GridInv, FormPasses, NEW t \in selected, t.who \in WaitingInCell(t.day, t.row)
  PROVE  t.row \in RowsIn(rsv[t.who].prefs, t.day)
<1> DEFINE d == t.day
           r == t.who
<1>1. t \in Ticks /\ r \in Ticked /\ d \in Weekdays /\ t.row \in RowsTicked(r, d)
  BY DEF GridInv, GridTypeOK, Ticked, RowsTicked, Ticks
<1>2. PICK j \in RowsIn(rsv[r].prefs, d) : RenderableRow(d, j) = t.row
  BY DEF WaitingInCell
<1>3. j \in GridRows
  BY <1>2, RowsOfGrid
<1>4. /\ t.row \in GridRows /\ t.row <= j
      /\ t.row < j => SkipRender(d, t.row + 1)
  BY <1>2, <1>3, ShownAbove DEF GridInv, GridTypeOK
<1>5. CASE t.row < j
  <2>1. RowsTicked(r, d) \in SUBSET GridRows
    BY RowsOfGrid DEF GridInv, GridTypeOK
  <2>2. PICK x \in Runs(RowsTicked(r, d), d) : x.start <= t.row /\ t.row < x.end
    <3>1. PICK f, e \in RowsTicked(r, d) :
            /\ f <= t.row /\ t.row <= e
            /\ [day |-> d, start |-> f, end |-> e + 1] \in Runs(RowsTicked(r, d), d)
      BY <1>1, <2>1, RunThrough
    <3>2. f \in Nat /\ e \in Nat /\ t.row \in Nat
      BY <1>4, <2>1, GridFits
    <3>. QED
      BY <3>1, <3>2
  <2>3. x.day = d /\ x.start \in Nat /\ x.end \in Nat
    BY <2>1, RunIs
  <2>4. x \in MergedSlots[r]
    BY <1>1, <2>2 DEF MergedSlots
  <2>5. ~HasScheduleOverlap(x)
    BY <1>1, <2>4 DEF FormPasses
  <2>6. t.row \in Nat
    BY <1>4, GridFits
  <2>. QED
    BY <1>4, <1>5, <2>2, <2>3, <2>5, <2>6, BlockedIsOverlap DEF GridInv, GridTypeOK
<1>6. CASE t.row = j
  BY <1>2, <1>6
<1>7. t.row \in Nat /\ j \in Nat
  BY <1>3, <1>4, GridFits
<1>. QED
  BY <1>4, <1>5, <1>6, <1>7

\* Times that do not touch cover a run only if one of them does.
LEMMA OneCovers ==
  ASSUME NEW prefs \in SUBSET Ranges, Apart(prefs), NEW d, NEW steps \in SUBSET GridRows,
         steps \subseteq RowsIn(prefs, d), NEW x \in Runs(steps, d)
  PROVE  \E p \in prefs : Covers(p, x)
<1>1. /\ x.day = d /\ x.start \in Nat /\ x.end \in Nat /\ x.start < x.end
      /\ \A k \in x.start..(x.end - 1) : k \in RowsIn(prefs, d)
  BY RunIs
<1>2. PICK p \in prefs : p.day = d /\ p.start <= x.start /\ x.start < p.end
  <2>1. x.start \in RowsIn(prefs, d)
    BY <1>1
  <2>. QED
    BY <2>1 DEF RowsIn
<1>3. p.start \in Nat /\ p.end \in Nat
  BY RangesAreValid DEF IsRange
<1>4. x.end <= p.end
  <2> SUFFICES ASSUME p.end < x.end PROVE FALSE
    BY <1>1, <1>3
  <2>1. p.end \in x.start..(x.end - 1)
    BY <1>1, <1>2, <1>3
  <2>2. PICK q \in prefs : q.day = d /\ q.start <= p.end /\ p.end < q.end
    BY <1>1, <2>1 DEF RowsIn
  <2>3. q.start \in Nat /\ q.end \in Nat
    BY RangesAreValid DEF IsRange
  <2>4. p # q
    BY <1>3, <2>2
  <2>5. p.end < q.start \/ q.end < p.start
    BY <1>2, <2>2, <2>4 DEF Apart
  <2>. QED
    BY <1>1, <1>2, <1>3, <2>2, <2>3, <2>5
<1>. QED
  BY <1>1, <1>2, <1>4 DEF Covers

\* The slots the form sends for a student.
LEMMA MergedAreFit ==
  ASSUME GridInv, FormPasses, \A t \in selected : t.who \in WaitingInCell(t.day, t.row),
         NEW r \in Ticked, Apart(rsv[r].prefs)
  PROVE  /\ MergedSlots[r] # {}
         /\ WithinPreferred(MergedSlots[r], rsv[r].prefs)
         /\ NoGaps(MergedSlots[r])
<1>1. MergedSlots[r] = UNION {Runs(RowsTicked(r, d), d) : d \in Weekdays}
  BY DEF MergedSlots
<1>2. \A d : RowsTicked(r, d) \in SUBSET GridRows
  BY RowsOfGrid DEF GridInv, GridTypeOK
<1>3. MergedSlots[r] # {}
  <2>1. PICK t \in selected : t.who = r
    BY DEF Ticked
  <2>2. t.day \in Weekdays /\ t.row \in RowsTicked(r, t.day)
    BY <2>1 DEF GridInv, GridTypeOK, Ticks, RowsTicked
  <2>3. Runs(RowsTicked(r, t.day), t.day) # {}
    BY <1>2, <2>2, RunThrough
  <2>. QED
    BY <1>1, <2>2, <2>3
<1>4. r \in RIds /\ rsv[r].prefs \in SUBSET Ranges
  BY RowsOfGrid DEF GridInv, GridTypeOK, TypeOK, Row
<1>5. ASSUME NEW d \in Weekdays, NEW x \in Runs(RowsTicked(r, d), d)
      PROVE  \E p \in rsv[r].prefs : Covers(p, x)
  <2>1. RowsTicked(r, d) \subseteq RowsIn(rsv[r].prefs, d)
    BY TickedIsPreferred DEF RowsTicked
  <2>. QED
    BY <1>2, <1>4, <2>1, OneCovers
<1>6. \A d \in Weekdays : \A x \in Runs(RowsTicked(r, d), d) :
        x.day = d /\ x.start \in Nat
  BY <1>2, RunIs
<1>7. \A x, y \in MergedSlots[r] : x.day = y.day => x = y
  BY <1>1, <1>6 DEF FormPasses, NoSlotGap
<1>8. \A x \in MergedSlots[r] : x.start \in Nat
  BY <1>1, <1>6
<1>9. NoGaps(MergedSlots[r])
  BY <1>7, <1>8 DEF NoGaps, Overlaps
<1>. QED
  BY <1>1, <1>3, <1>5, <1>9 DEF WithinPreferred

\* Whatever the form lets through for students who still wait, are still shown
\* where they were ticked and have no touching preferred times, the server
\* accepts, for any grid and any groups on it.
LEMMA FormIsAccepted == ASSUME GridInv PROVE ConfirmIsAccepted
<1> SUFFICES ASSUME FormPasses,
                    \A t \in selected : t.who \in WaitingInCell(t.day, t.row),
                    \A r \in Ticked : Apart(rsv[r].prefs),
                    NEW g \in GIds, ~Live(g)
             PROVE  AcceptsGroup(g, MergedSlots, Cardinality(Ticked), ScheduleBlock)
                      <=> \A r \in Ticked : rsv[r].group = Null
  BY DEF ConfirmIsAccepted
<1>1. DOMAIN MergedSlots = Ticked /\ Ticked \subseteq RIds /\ Ticked # {}
  BY RowsOfGrid DEF MergedSlots, GridInv, GridTypeOK, FormPasses
<1>2. grp[g].status = "NONE"
  BY DEF GridInv, GridTypeOK, TypeOK, GroupRow, Live
<1>3. \A r \in Ticked : rsv[r].status = "WAITING"
  BY DEF Ticked, WaitingInCell, Waiting
<1>4. Cardinality(Ticked) <= Cardinality(Ticked)
  BY FewTicked
<1>5. \A r \in Ticked : /\ MergedSlots[r] # {}
                        /\ WithinPreferred(MergedSlots[r], rsv[r].prefs)
                        /\ NoGaps(MergedSlots[r])
  BY MergedAreFit
<1>6. ASSUME ScheduleBlock # Null
      PROVE  /\ ScheduleIsFree(ScheduleBlock, GIds)
             /\ \A r \in Ticked : MergedSlots[r] = {ScheduleBlock}
  <2> DEFINE blocks == UNION {MergedSlots[r] : r \in Ticked}
  <2>1. blocks = {ScheduleBlock}
    <3> HIDE DEF blocks
    <3>1. ScheduleBlock = IF \E x \in blocks : blocks = {x}
                            THEN CHOOSE x \in blocks : blocks = {x} ELSE Null
      BY DEF ScheduleBlock, blocks
    <3>. QED
      BY <1>6, <3>1
  <2>2. \A r \in Ticked : MergedSlots[r] = {ScheduleBlock}
    BY <1>5, <2>1
  <2>3. ~HasScheduleOverlap(ScheduleBlock)
    BY <1>1, <2>2 DEF FormPasses
  <2>. QED
    BY <2>2, <2>3 DEF HasScheduleOverlap, ScheduleIsFree
<1>. QED
  BY <1>1, <1>2, <1>3, <1>4, <1>5, <1>6 DEF AcceptsGroup

\* The page never offers to confirm a group the server would refuse, but for
\* students who sit in a group already, as long as nobody's preferred times touch.
THEOREM ConfirmAlwaysAccepted == GridSpec => []ConfirmIsAccepted
BY FormIsAccepted, GridInductive, PTL
=============================================================================
