---------------------------- MODULE AdminCache ----------------------------
(***************************************************************************)
(* The two query caches behind the administrator's timetable and the       *)
(* optimistic mutations that write them (useReservationMutations.ts,       *)
(* useReservationGroupMutations.ts, queries/optimisticCache.ts), over the  *)
(* server of ReservationGroups.                                            *)
(*                                                                         *)
(* A mutation cancels the refetches under way, snapshots the caches and    *)
(* writes the expected result into them at once; later its request is      *)
(* applied, refused or lost, the answer restores the snapshot or installs  *)
(* the server's row, and a refetch of the caches it names begins.  Several *)
(* mutations, refetches and a click on the window overlap freely.          *)
(*                                                                         *)
(* The list of reservations is cached without a filter.  A new row carries *)
(* the id the server gives it.  A request the browser has given up on is   *)
(* either applied already or never.                                        *)
(***************************************************************************)
EXTENDS ReservationGroups

CONSTANTS Calls,      \* mutations that may be under way together
          MaxClicks,  \* mutations of one behaviour
          ServerStart \* states [rsv, grp, slot] the desk may be opened on

ASSUME StartsAreTyped ==
  ServerStart \subseteq
    [rsv: [RIds -> Row], grp: [GIds -> GroupRow],
     slot: SUBSET [group: GIds, owner: RIds \cup {Null}, range: Ranges]]

ASSUME ClicksAreBounded == MaxClicks \in Nat

VARIABLES rows,     \* cache of the reservations list: [RIds -> Row]
          board,    \* cache of the groups list: [grp, slot, inside]
          calls,    \* mutations: [stage, op, rows, board], the last two the snapshot
          fetch,    \* per cache: [stage, data]
          clicks,   \* mutations started so far
          aside     \* a reservation endpoint wrote since the groups were read

deskVars == <<vars, rows, board, calls, fetch, clicks, aside>>

Quiet == [stage |-> "idle", data |-> <<>>]
NoCall == [stage |-> "free", op |-> <<>>, rows |-> <<>>, board |-> <<>>]

\* What GET /reservation-groups returns: groups, slots and, inside each group,
\* a copy of its members' rows.
BoardOf(reservations, groups, slots) ==
  [grp |-> groups, slot |-> slots,
   inside |-> [r \in RIds |-> IF reservations[r].group = Null THEN NoReservation
                              ELSE reservations[r]]]

Inside(b, g) == {r \in RIds : b.inside[r].group = g}

-----------------------------------------------------------------------------
(* What onMutate writes.                                                    *)

Seat(reservations, rs, g) ==
  [r \in RIds |-> IF r \in rs THEN [reservations[r] EXCEPT !.status = "GROUPED", !.group = g]
                              ELSE reservations[r]]

Unseat(reservations, rs) ==
  [r \in RIds |-> IF r \in rs THEN [reservations[r] EXCEPT !.status = "WAITING", !.group = Null]
                              ELSE reservations[r]]

\* A member out of its group: the last one leaves its slots behind as anchors.
Leave(b, g, r) ==
  LET last == Inside(b, g) \ {r} = {}
      own == {s \in b.slot : s.group = g /\ s.owner = r} IN
  [b EXCEPT !.inside[r] = NoReservation,
            !.grp[g].status = IF last THEN "EMPTY" ELSE "CONFIRMED",
            !.slot = (b.slot \ own) \cup
                     (IF last THEN {[s EXCEPT !.owner = Null] : s \in own} ELSE {})]

\* A member into a group; its row appears in it as the list has it.
Join(b, g, r, slots) ==
  [b EXCEPT !.inside[r] = [rows[r] EXCEPT !.group = g],
            !.grp[g].status = "CONFIRMED",
            !.slot = @ \cup NewSlots(g, r, slots)]

ShownRows(o) ==
  CASE o.kind = "create" -> Seat(rows, DOMAIN o.assign, o.g)
    [] o.kind = "delete" -> Unseat(rows, {r \in RIds : rows[r].group = o.g})
    [] o.kind \in {"add", "move"} ->
         Seat(rows, {o.r}, IF o.kind = "add" THEN o.g ELSE o.to)
    [] o.kind = "remove" -> Unseat(rows, {o.r})
    [] o.kind = "patch" -> [rows EXCEPT ![o.r] = Edited(@, o.status, Null, o.prefs, Null, Null)]
    [] o.kind = "drop" -> [rows EXCEPT ![o.r] = NoReservation]
    [] o.kind = "walkin" -> [rows EXCEPT ![o.r] =
         [NoReservation EXCEPT !.status = "WAITING", !.age = o.age, !.prefs = o.prefs]]
    [] OTHER -> rows

ShownBoard(o) ==
  CASE o.kind = "create" ->
         [board EXCEPT
            !.grp[o.g] = [status |-> IF DOMAIN o.assign = {} THEN "EMPTY" ELSE "CONFIRMED",
                          capacity |-> o.capacity, minAge |-> 4, maxAge |-> 10,
                          schedule |-> o.sched],
            !.slot = @ \cup UNION {NewSlots(o.g, r, o.assign[r]) : r \in DOMAIN o.assign},
            !.inside = [r \in RIds |-> IF r \in DOMAIN o.assign
                                       THEN [rows[r] EXCEPT !.group = o.g] ELSE @[r]]]
    [] o.kind = "delete" ->
         [board EXCEPT !.grp[o.g] = NoGroup,
                       !.slot = {s \in @ : s.group # o.g},
                       !.inside = [r \in RIds |-> IF @[r].group = o.g THEN NoReservation ELSE @[r]]]
    [] o.kind = "add" -> Join(board, o.g, o.r, o.slots)
    [] o.kind = "move" -> Join(Leave(board, o.g, o.r), o.to, o.r, o.slots)
    [] o.kind = "remove" -> Leave(board, o.g, o.r)
    [] o.kind = "replace" ->
         [board EXCEPT !.slot = {s \in @ : s.group # o.g \/ s.owner # o.r} \cup
                                NewSlots(o.g, o.r, o.slots)]
    [] o.kind = "update" -> [board EXCEPT !.grp[o.g].capacity = o.capacity]
    [] OTHER -> board

OnReservations(o) == o.kind \in {"patch", "drop", "walkin"}

-----------------------------------------------------------------------------
(* What the screens offer on the caches as they are.                        *)

ShownLive(g) == board.grp[g].status \in GroupStatus
ShownWaiting == {r \in RIds : rows[r].status = "WAITING"}
TimesOf(g) ==
  LET ranges == {s.range : s \in {t \in board.slot : t.group = g}} IN
  IF ranges # {} THEN ranges ELSE {board.grp[g].schedule} \ {Null}

OnGroups ==
  {[kind |-> "create", g |-> g, assign |-> a, capacity |-> c, sched |-> x] :
     g \in {h \in GIds : ~ShownLive(h) /\ ~Live(h)},
     a \in {[r \in rs |-> {x}] : rs \in SUBSET ShownWaiting, x \in Ranges},
     c \in Capacities, x \in Ranges}
  \cup {[kind |-> "delete", g |-> g] : g \in {h \in GIds : ShownLive(h)}}
  \cup {[kind |-> "update", g |-> g, capacity |-> c] :
          g \in {h \in GIds : ShownLive(h)}, c \in Capacities}

OnMembers(g) ==
  {[kind |-> "add", g |-> g, r |-> r, slots |-> TimesOf(g)] :
     r \in {q \in ShownWaiting : TimesOf(g) # {}}}
  \cup {[kind |-> "remove", g |-> g, r |-> r] : r \in Inside(board, g)}
  \cup {[kind |-> "replace", g |-> g, r |-> r, slots |-> {x}] :
          r \in Inside(board, g), x \in Ranges}
  \cup {[kind |-> "move", g |-> g, r |-> r, to |-> to, slots |-> TimesOf(to)] :
          r \in Inside(board, g),
          to \in {h \in GIds \ {g} : ShownLive(h) /\ TimesOf(h) # {}}}

OnApplications ==
  {[kind |-> "patch", r |-> r, status |-> st, prefs |-> p] :
     r \in {q \in RIds : rows[q].status # "NONE"}, st \in StatusEdits, p \in PrefChoices}
  \cup {[kind |-> "drop", r |-> r] : r \in ShownWaiting}
  \cup {[kind |-> "walkin", r |-> r, age |-> a, prefs |-> p] :
          r \in {q \in RIds : rows[q].status = "NONE" /\ ~Exists(q)}, a \in Ages, p \in PrefChoices}

Offered ==
  OnGroups \cup OnApplications \cup UNION {OnMembers(g) : g \in {h \in GIds : ShownLive(h)}}

\* The server's handler for a request.
Applied(o) ==
  CASE o.kind = "create" -> CreateGroup(o.g, o.assign, o.capacity, Null, Null, o.sched)
    [] o.kind = "delete" -> RemoveGroup(o.g)
    [] o.kind = "add" -> AddMember(o.g, o.r, o.slots)
    [] o.kind = "move" -> MoveMember(o.g, o.to, o.r, o.slots)
    [] o.kind = "remove" -> RemoveMember(o.g, o.r)
    [] o.kind = "replace" -> ReplaceMemberSlots(o.g, o.r, o.slots)
    [] o.kind = "update" -> UpdateGroup(o.g, o.capacity, Null, Null, Null)
    [] o.kind = "patch" -> UpdateReservation(o.r, o.status, Null, o.prefs, Null, Null)
    [] o.kind = "drop" -> RemoveReservation(o.r)
    [] o.kind = "walkin" -> CreateWalkIn(o.r, o.age, o.prefs)

-----------------------------------------------------------------------------
(* Steps.                                                                   *)

\* onMutate: cancel, snapshot, write.  Reservation mutations leave the
\* groups' cache and its refetch alone.
Mutate(i, o) ==
  /\ calls[i].stage = "free"
  /\ clicks < MaxClicks
  /\ o \in Offered
  /\ clicks' = clicks + 1
  /\ fetch' = IF OnReservations(o) THEN [fetch EXCEPT !.rows = Quiet]
              ELSE [rows |-> Quiet, board |-> Quiet]
  /\ calls' = [calls EXCEPT ![i] = [stage |-> "sent", op |-> o, rows |-> rows,
                 board |-> IF OnReservations(o) THEN <<>> ELSE board]]
  /\ rows' = ShownRows(o)
  /\ board' = ShownBoard(o)
  /\ UNCHANGED <<vars, aside>>

Serve(i) ==
  /\ calls[i].stage = "sent"
  /\ Applied(calls[i].op)
  /\ calls' = [calls EXCEPT ![i].stage = "served"]
  /\ aside' = (aside \/ OnReservations(calls[i].op))
  /\ UNCHANGED <<rows, board, fetch, clicks>>

Refetching(o) ==
  LET asked == [stage |-> "asked", data |-> <<>>] IN
  IF OnReservations(o) THEN [fetch EXCEPT !.rows = asked]
  ELSE [rows |-> asked, board |-> asked]

\* onSuccess installs the row of the answer: the group of a group mutation
\* (delete and remove return none), the reservation of a reservation mutation.
Succeed(i) ==
  LET o == calls[i].op
      back == CASE o.kind = "move" -> {o.to}
                [] o.kind \in {"create", "add", "replace", "update"} -> {o.g}
                [] OTHER -> {}
      now == BoardOf(rsv, grp, slot) IN
  /\ calls[i].stage = "served"
  /\ rows' = IF o.kind \in {"patch", "walkin"} THEN [rows EXCEPT ![o.r] = rsv[o.r]] ELSE rows
  /\ board' = [grp |-> [g \in GIds |-> IF g \in back THEN grp[g] ELSE board.grp[g]],
               slot |-> {s \in board.slot : s.group \notin back} \cup
                        {s \in slot : s.group \in back},
               inside |-> [r \in RIds |->
                 IF now.inside[r].group \in back THEN now.inside[r]
                 ELSE IF board.inside[r].group \in back THEN NoReservation
                 ELSE board.inside[r]]]
  /\ calls' = [calls EXCEPT ![i] = NoCall]
  /\ fetch' = Refetching(o)
  /\ UNCHANGED <<vars, clicks, aside>>

RolledBack(i) ==
  /\ rows' = calls[i].rows
  /\ board' = IF OnReservations(calls[i].op) THEN board ELSE calls[i].board
  /\ calls' = [calls EXCEPT ![i] = NoCall]

\* Invalidation in onSuccess only.
FailQuietly(i) ==
  /\ calls[i].stage # "free"
  /\ RolledBack(i)
  /\ UNCHANGED <<vars, fetch, clicks, aside>>

\* The request was refused or lost, or its answer was.
Fail(i) ==
  /\ calls[i].stage # "free"
  /\ RolledBack(i)
  /\ fetch' = Refetching(calls[i].op)
  /\ UNCHANGED <<vars, clicks, aside>>

\* The server answers a refetch with what it has now; the answer travels.
ReadRows ==
  /\ fetch.rows.stage = "asked"
  /\ fetch' = [fetch EXCEPT !.rows = [stage |-> "read", data |-> rsv]]
  /\ UNCHANGED <<vars, rows, board, calls, clicks, aside>>

ReadBoard ==
  /\ fetch.board.stage = "asked"
  /\ fetch' = [fetch EXCEPT !.board = [stage |-> "read", data |-> BoardOf(rsv, grp, slot)]]
  /\ aside' = FALSE
  /\ UNCHANGED <<vars, rows, board, calls, clicks>>

ArriveRows ==
  /\ fetch.rows.stage = "read"
  /\ rows' = fetch.rows.data
  /\ fetch' = [fetch EXCEPT !.rows = Quiet]
  /\ UNCHANGED <<vars, board, calls, clicks, aside>>

ArriveBoard ==
  /\ fetch.board.stage = "read"
  /\ board' = fetch.board.data
  /\ fetch' = [fetch EXCEPT !.board = Quiet]
  /\ UNCHANGED <<vars, rows, calls, clicks, aside>>

\* Coming back to the window refetches what is stale.
Refocus ==
  /\ calls # [i \in Calls |-> NoCall]
  /\ \/ fetch.rows = Quiet /\ fetch' = [fetch EXCEPT !.rows.stage = "asked"]
     \/ fetch.board = Quiet /\ fetch' = [fetch EXCEPT !.board.stage = "asked"]
  /\ UNCHANGED <<vars, rows, board, calls, clicks, aside>>

DeskInit ==
  /\ \E s \in ServerStart :
       /\ rsv = s.rsv /\ grp = s.grp /\ slot = s.slot
       /\ rows = s.rsv /\ board = BoardOf(s.rsv, s.grp, s.slot)
  /\ calls = [i \in Calls |-> NoCall]
  /\ fetch = [rows |-> Quiet, board |-> Quiet]
  /\ clicks = 0
  /\ aside = FALSE

DeskNext ==
  \/ \E i \in Calls :
       \/ \E o \in Offered : Mutate(i, o)
       \/ Serve(i) \/ Succeed(i) \/ Fail(i)
  \/ ReadRows \/ ReadBoard \/ ArriveRows \/ ArriveBoard \/ Refocus

DeskSpec == DeskInit /\ [][DeskNext]_deskVars

-----------------------------------------------------------------------------
(* Properties.                                                              *)

\* The server's tables and both caches keep the types of rows, groups and
\* slots, and every mutation under way holds its snapshot.
DeskTypeOK ==
  /\ TypeOK
  /\ rows \in [RIds -> Row]
  /\ board.grp \in [GIds -> GroupRow] /\ board.inside \in [RIds -> Row]
  /\ board.slot \subseteq [group: GIds, owner: RIds \cup {Null}, range: Ranges]
  /\ \A i \in Calls : calls[i].stage \in {"free", "sent", "served"}
  /\ \A i \in Calls : calls[i].stage # "free" => calls[i].rows \in [RIds -> Row]
  /\ clicks \in 0..MaxClicks

Settled == fetch = [rows |-> Quiet, board |-> Quiet] /\ calls = [i \in Calls |-> NoCall]

\* However mutations, failures, lost answers, rollbacks and refetches overlap,
\* once all has settled the list of reservations is the server's, and so is the
\* list of groups unless a reservation endpoint wrote since it was read: no
\* rollback to an old snapshot and no late refetch is what stays on the screen.
CachesSettleTrue ==
  Settled => /\ rows = rsv
             /\ ~aside => board = BoardOf(rsv, grp, slot)

\* architecture.md: an optimistic mutation updates every cache it affects and
\* invalidates on settling, so what the desk shows when all is settled is what
\* the server holds.
GroupsShownTrue == Settled => board = BoardOf(rsv, grp, slot)
=============================================================================
