------------------------------- MODULE MCDesk -------------------------------
(* Small instances of what happens in the administrator's browser over the  *)
(* server of ReservationGroups: the query caches under optimistic mutations *)
(* (AdminCache), or the dialogs over caches that are up to date             *)
(* (GroupDialog).  `part` says which of the two runs.                       *)
EXTENDS AdminCache, GroupDialog

VARIABLE part

cacheVars == <<rows, board, calls, fetch, clicks, aside>>
drafts == <<opened, info, sched, times, detail, form, saving>>

MCTime == [day |-> "MON", start |-> 0, end |-> 2]
MCRanges == {MCTime}
MCPrefChoices == {{MCTime}}
MCNoParents == [c \in {} |-> "p"]

Applicant == [NoReservation EXCEPT !.status = "WAITING", !.prefs = {MCTime}]
MemberOf(g) == [Applicant EXCEPT !.status = "GROUPED", !.group = g]
Class(status, schedule) ==
  [status |-> status, capacity |-> 2, minAge |-> 4, maxAge |-> 10, schedule |-> schedule]
Seat1(r) == [group |-> "g1", owner |-> r, range |-> MCTime]

\* A class of one and a waiting student, or a class of two.
MCServerStart ==
  {[rsv |-> [r1 |-> MemberOf("g1"), r2 |-> Applicant],
    grp |-> [g1 |-> Class("CONFIRMED", MCTime), g2 |-> NoGroup], slot |-> {Seat1("r1")}],
   [rsv |-> [r1 |-> MemberOf("g1"), r2 |-> MemberOf("g1")],
    grp |-> [g1 |-> Class("CONFIRMED", MCTime), g2 |-> NoGroup],
    slot |-> {Seat1("r1"), Seat1("r2")}]}

\* A class without a schedule whose second student asks to join, and a blank one.
MCDialogStart ==
  {[rsv |-> [r1 |-> MemberOf("g1"), r2 |-> [Applicant EXCEPT !.wants = "g1"]],
    grp |-> [g1 |-> Class("CONFIRMED", Null), g2 |-> Class("EMPTY", MCTime)],
    slot |-> {Seat1("r1")}]}

\* The caches while the dialogs run: not settled, as a refetch never ends.
CacheIdle ==
  /\ rows = rsv /\ board = BoardOf(rsv, grp, slot)
  /\ calls = [i \in Calls |-> NoCall]
  /\ fetch = [cache \in {"rows", "board"} |-> [stage |-> "asked", data |-> <<>>]]
  /\ clicks = 0 /\ aside = FALSE

DialogIdle == opened = Null /\ detail = Null /\ form = Null /\ saving = Null
              /\ info = Null /\ sched = Null /\ times = Null

MCDeskInit ==
  \/ part = "caches" /\ DeskInit /\ DialogIdle
  \/ part = "dialogs" /\ DialogInit /\ CacheIdle

MCDeskNext ==
  \/ part = "caches" /\ DeskNext /\ UNCHANGED <<part, drafts>>
  \/ part = "dialogs" /\ DialogNext /\ UNCHANGED <<part, cacheVars>>

MCDeskSpec == MCDeskInit /\ [][MCDeskNext]_<<part, vars, cacheVars, drafts>>
=============================================================================
