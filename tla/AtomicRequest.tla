--------------------------- MODULE AtomicRequest ---------------------------
(***************************************************************************)
(* What a handler that writes promises its caller: it is carried out once  *)
(* and as a whole, or it is refused for a reason that held while it was    *)
(* open, or it fails, and then it was carried out once or not at all.      *)
(* SerializableTx is shown to implement it.                                *)
(***************************************************************************)
CONSTANTS
  Handlers,  \* requests, one call of a handler each
  Database,  \* states of the rows the handlers read and write
  Empty,     \* the state the database starts in
  Refused,   \* what a handler makes of a state in which a check of it fails
  Effect     \* per request, what its operation makes of each state

VARIABLES
  db,
  outcome,   \* how far each request is: "applied" is carried out, not answered
  seen       \* the states the database has been in while a request was open


Start ==
  /\ db = Empty
  /\ outcome = [q \in Handlers |-> "open"]
  /\ seen = [q \in Handlers |-> {Empty}]

Becomes(q, from, to) == outcome[q] = from /\ outcome' = [outcome EXCEPT ![q] = to]

Apply(q) ==
  /\ Effect[q][db] # Refused
  /\ db' = Effect[q][db]
  /\ seen' = [p \in Handlers |-> seen[p] \cup {db'}]

CarryOut(q) == Becomes(q, "open", "applied") /\ Apply(q)
Confirm(q) == Becomes(q, "applied", "done") /\ UNCHANGED <<db, seen>>
Turn(q) ==
  /\ Becomes(q, "open", "refused")
  /\ \E s \in seen[q] : Effect[q][s] = Refused
  /\ UNCHANGED <<db, seen>>
Fail(q) ==
  \/ Becomes(q, "open", "failed") /\ (Apply(q) \/ UNCHANGED <<db, seen>>)
  \/ Becomes(q, "applied", "failed") /\ UNCHANGED <<db, seen>>

Step == \E q \in Handlers : CarryOut(q) \/ Confirm(q) \/ Turn(q) \/ Fail(q)

Promise == Start /\ [][Step]_<<db, outcome, seen>>
=============================================================================
