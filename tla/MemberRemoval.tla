--------------------------- MODULE MemberRemoval ---------------------------
(***************************************************************************)
(* Deleting a parent account (MembersService.remove) next to the desk's    *)
(* other work.  Unlike the group operations this transaction runs at the   *)
(* database's default READ COMMITTED level: each statement sees what is    *)
(* committed when it runs, so each read and each write is a step of its    *)
(* own, and the writes reach the tables at the commit.  Until then the     *)
(* rows it has written are locked: whoever would write them waits.         *)
(***************************************************************************)
EXTENDS ReservationGroups

VARIABLES
  accounts,  \* ParentUser rows that exist
  removal    \* by account: the open transaction that deletes it

removalVars == <<vars, accounts, removal>>

\* seats: the reservation/group pairs its first query returned.  pending: the
\* groups the loop has not reached.  vacant: groups counted empty but not yet
\* written.  emptied, anchored, purged: rows written and locked.
NotRemoving == [phase |-> "IDLE", seats |-> {}, pending |-> {}, vacant |-> {},
                emptied |-> {}, anchored |-> {}, purged |-> {}]
SlotRow == [group: GIds, owner: RIds \cup {Null}, range: Ranges]
Removal == [phase: {"IDLE", "VACATING", "PURGED"}, seats: SUBSET (RIds \X GIds),
            pending: SUBSET GIds, vacant: SUBSET GIds, emptied: SUBSET GIds,
            anchored: SUBSET SlotRow, purged: SUBSET RIds]

RemovalTypeOK ==
  /\ TypeOK
  /\ accounts \subseteq Parents
  /\ removal \in [Parents -> Removal]

RemovalInit == Init /\ accounts = Parents /\ removal = [p \in Parents |-> NotRemoving]

-----------------------------------------------------------------------------
(* The statements of the transaction.                                      *)

BeginRemoval(p) ==
  /\ p \in accounts /\ removal[p].phase = "IDLE"
  /\ LET seats == {<<r, rsv[r].group>> : r \in
                     {q \in RIds : rsv[q].parent = p /\ rsv[q].group # Null}} IN
     removal' = [removal EXCEPT ![p].phase = "VACATING", ![p].seats = seats,
                                ![p].pending = {x[2] : x \in seats}]
  /\ UNCHANGED <<vars, accounts>>

Leaving(p, g) == {r \in RIds : <<r, g>> \in removal[p].seats}

\* Mutant: the leavers are counted as well.
RemainingAll(p, g) == Members(g)
Remaining(p, g) == Members(g) \ Leaving(p, g)

CountRemaining(p, g) ==
  /\ g \in removal[p].pending /\ removal[p].vacant = {}
  /\ removal' = [removal EXCEPT ![p].pending = @ \ {g},
                                ![p].vacant = IF Remaining(p, g) = {} THEN {g} ELSE {}]
  /\ UNCHANGED <<vars, accounts>>

\* Mutants: the leavers' slots are left to the cascade; every slot of the
\* group becomes an anchor.
VacateGroupOnly(p, g) ==
  /\ g \in removal[p].vacant /\ Live(g)
  /\ \A q \in Parents \ {p} : g \notin removal[q].emptied
  /\ removal' = [removal EXCEPT ![p].vacant = {}, ![p].emptied = @ \cup {g}]
  /\ UNCHANGED <<vars, accounts>>

VacateGroupWholly(p, g) ==
  /\ g \in removal[p].vacant /\ Live(g)
  /\ \A q \in Parents \ {p} : g \notin removal[q].emptied
  /\ removal' = [removal EXCEPT ![p].vacant = {}, ![p].emptied = @ \cup {g},
                                ![p].anchored = @ \cup SlotsOf(g)]
  /\ UNCHANGED <<vars, accounts>>

\* The slot update and the group update: only the group's row decides who
\* waits for whom, so the two statements are one step.
VacateGroup(p, g) ==
  /\ g \in removal[p].vacant /\ Live(g)
  /\ \A q \in Parents \ {p} : g \notin removal[q].emptied
  /\ removal' = [removal EXCEPT
       ![p].vacant = {}, ![p].emptied = @ \cup {g},
       ![p].anchored = @ \cup {s \in SlotsOf(g) : s.owner \in Leaving(p, g)}]
  /\ UNCHANGED <<vars, accounts>>

\* Mutant: only the applications that were in a group are deleted.
PurgeSeated(p) ==
  /\ removal[p].phase = "VACATING" /\ removal[p].pending = {} /\ removal[p].vacant = {}
  /\ removal' = [removal EXCEPT
       ![p].phase = "PURGED", ![p].purged = {x[1] : x \in removal[p].seats}]
  /\ UNCHANGED <<vars, accounts>>
PurgeReservations(p) ==
  /\ removal[p].phase = "VACATING" /\ removal[p].pending = {} /\ removal[p].vacant = {}
  /\ removal' = [removal EXCEPT
       ![p].phase = "PURGED", ![p].purged = {r \in RIds : rsv[r].parent = p}]
  /\ UNCHANGED <<vars, accounts>>

SlotsAfter(m) ==
  {s \in slot \ m.anchored : s.owner \notin m.purged} \cup
  {[s EXCEPT !.owner = Null] : s \in m.anchored}

\* The account's own row goes last: its children cascade, and what still
\* names them or the account is set to NULL.
CommitRemoval(p) ==
  LET m == removal[p] IN
  /\ m.phase = "PURGED"
  /\ slot' = SlotsAfter(m)
  /\ grp' = [g \in GIds |->
       IF g \in m.emptied THEN [grp[g] EXCEPT !.status = "EMPTY"] ELSE grp[g]]
  /\ rsv' = [r \in RIds |->
       IF r \in m.purged THEN NoReservation
       ELSE [rsv[r] EXCEPT
              !.parent = IF @ = p THEN Null ELSE @,
              !.child = IF @ \in Children /\ ParentOf[@] = p THEN Null ELSE @]]
  /\ accounts' = accounts \ {p}
  /\ removal' = [removal EXCEPT ![p] = NotRemoving]

\* A deadlock, a lost connection, a group deleted under the loop, or a login
\* session opened since its sessions were deleted.
AbortRemoval(p) ==
  /\ removal[p].phase # "IDLE"
  /\ removal' = [removal EXCEPT ![p] = NotRemoving]
  /\ UNCHANGED <<vars, accounts>>

-----------------------------------------------------------------------------
(* The desk and the parents, next to open removals.                        *)

\* A step that would write a locked row waits; joining a group writes its row.
\* A new row never gets the id of one an open removal still names.
Waits(p) ==
  LET m == removal[p] IN
  \/ \E g \in m.emptied : grp'[g] # grp[g] \/ ~(Members(g)' \subseteq Members(g))
  \/ \E r \in m.purged :
       \/ rsv'[r] # rsv[r]
       \/ {s \in slot' : s.owner = r} # {s \in slot : s.owner = r}
  \/ ~(m.anchored \subseteq slot')
Reuses(p) ==
  \E x \in removal[p].seats :
    \/ Exists(x[1])' /\ ~Exists(x[1])
    \/ Live(x[2])' /\ ~Live(x[2])

\* Foreign keys: a row cannot name an account or a child that is gone.
ForeignKeys ==
  \A r \in RIds :
    /\ rsv[r].parent \in accounts \cup {Null}
    /\ rsv[r].child # Null => ParentOf[rsv[r].child] \in accounts

Beside(step) ==
  /\ UNCHANGED <<accounts, removal>>
  /\ step
  /\ ForeignKeys'
  /\ \A p \in Parents : ~Waits(p) /\ ~Reuses(p)

Removing ==
  \E p \in Parents :
    \/ BeginRemoval(p)
    \/ \E g \in GIds : CountRemaining(p, g) \/ VacateGroup(p, g)
    \/ PurgeReservations(p)
    \/ CommitRemoval(p)
    \/ AbortRemoval(p)

RemovalNext == Removing \/ Beside(Next)
RemovalSpec == RemovalInit /\ [][RemovalNext]_removalVars

\* Only the parents' applications and the group services beside removals: the
\* deletes and edits that empty a group by themselves are left out.
Seating == Apply \/ Lifecycle \/ Membership
SeatingNext == Removing \/ Beside(Seating)
SeatingSpec == RemovalInit /\ [][SeatingNext]_removalVars

\* One removal at a time, and nothing else meanwhile.
Quiet == \A p \in Parents : removal[p].phase = "IDLE"
AloneNext ==
  \/ Removing /\ \E p \in Parents : \A q \in Parents \ {p} :
       removal[q].phase = "IDLE" /\ removal'[q].phase = "IDLE"
  \/ Quiet /\ Beside(Seating)
AloneSpec == RemovalInit /\ [][AloneNext]_removalVars

-----------------------------------------------------------------------------

\* Deleting an account deletes every application it made
\* (members.service.spec.ts: the member's applications are deleted).
ApplicationsLeaveWithAccount ==
  [][\A p \in accounts \ accounts', r \in RIds :
       rsv[r].parent = p => ~Exists(r)']_removalVars

\* Whatever joins, moves and edits run beside it, deleting an account takes
\* nobody else's seat or times away.
OthersKeepTheirSeats ==
  [][accounts' # accounts =>
       \A r \in RIds : Exists(r) /\ rsv[r].parent \notin accounts \ accounts' =>
         /\ rsv'[r].status = rsv[r].status /\ rsv'[r].group = rsv[r].group
         /\ {s \in slot' : s.owner = r} = {s \in slot : s.owner = r}]_removalVars

\* A group whose last members leave with their account is EMPTY and keeps the
\* time it had on the timetable.
RemovalKeepsTimetable ==
  [][accounts' # accounts =>
       \A g \in GIds : Members(g) # {} /\ Members(g)' = {} =>
         grp'[g].status = "EMPTY" /\ RangesOf(g)' = RangesOf(g)]_removalVars

=============================================================================
