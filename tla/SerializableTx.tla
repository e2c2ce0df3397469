--------------------------- MODULE SerializableTx ---------------------------
(***************************************************************************)
(* How a handler of the reservation services is carried out: its body runs *)
(* in a Serializable transaction, which is tried again after a conflict    *)
(* (P2034) and three times at most; after the commit the mails go out,     *)
(* each tried once, and then the caller gets the answer.  The database     *)
(* itself is external: a transaction works on the snapshot it took and     *)
(* commits only if nobody has changed the rows it depends on since.        *)
(***************************************************************************)
EXTENDS Naturals

CONSTANTS
  Handlers, Database, Empty, Refused, Effect,  \* as in AtomicRequest
  Attempts,  \* the loop's bound, 3
  Mails      \* notifications sent after the commit

ASSUME HandlersAreFunctions ==
  /\ Empty \in Database /\ Refused \notin Database
  /\ Effect \in [Handlers -> [Database -> Database \cup {Refused}]]
  /\ Attempts \in Nat \ {0} /\ Mails \in Nat

VARIABLES
  db,
  call,     \* each request: its phase, the attempts it has begun, its snapshot
  applied,  \* history: how often the operation of a request has been committed
  mails,    \* per request, the notifications sent or given up
  sent,     \* history: those that were sent
  seen      \* history: the states of the database while a request is open

txVars == <<db, call, applied, mails, sent, seen>>

TxPhases == {"starting", "running", "notifying", "done", "refused", "failed"}
NewCall == [phase |-> "starting", attempt |-> 0, snapshot |-> Empty]

TxTypeOK ==
  /\ db \in Database
  /\ call \in [Handlers -> [phase: TxPhases, attempt: 0..Attempts, snapshot: Database]]
  /\ applied \in [Handlers -> Nat]
  /\ mails \in [Handlers -> 0..Mails] /\ sent \in [Handlers -> 0..Mails]
  /\ seen \in [Handlers -> SUBSET Database]

TxInit ==
  /\ db = Empty
  /\ call = [q \in Handlers |-> NewCall]
  /\ applied = [q \in Handlers |-> 0]
  /\ mails = [q \in Handlers |-> 0] /\ sent = [q \in Handlers |-> 0]
  /\ seen = [q \in Handlers |-> {Empty}]

Goes(q, phase) == call' = [call EXCEPT ![q].phase = phase]

\* An attempt begins: the transaction takes its snapshot.
BeginAttempt(q) ==
  /\ call[q].phase = "starting"
  /\ call' = [call EXCEPT ![q] = [phase |-> "running", attempt |-> @.attempt + 1,
                                  snapshot |-> db]]
  /\ UNCHANGED <<db, applied, mails, sent, seen>>

\* A check of the body throws: rolled back, and no conflict, so not repeated.
Refuse(q) ==
  /\ call[q].phase = "running"
  /\ Effect[q][call[q].snapshot] = Refused
  /\ Goes(q, "refused")
  /\ UNCHANGED <<db, applied, mails, sent, seen>>

Write(q) ==
  /\ call[q].phase = "running"
  /\ db = call[q].snapshot
  /\ Effect[q][db] # Refused
  /\ db' = Effect[q][db]
  /\ applied' = [applied EXCEPT ![q] = @ + 1]
  /\ seen' = [p \in Handlers |-> seen[p] \cup {db'}]
Commit(q) == Write(q) /\ Goes(q, "notifying") /\ UNCHANGED <<mails, sent>>

\* Mutant: the loop has no bound.
ConflictForever(q) ==
  /\ call[q].phase = "running"
  /\ call' = [call EXCEPT ![q] = [@ EXCEPT !.phase = "starting", !.attempt = 0]]
  /\ UNCHANGED <<db, applied, mails, sent, seen>>
\* P2034.  Nothing was written; the last attempt hands the error on.
Conflict(q) ==
  /\ call[q].phase = "running"
  /\ Goes(q, IF call[q].attempt = Attempts THEN "failed" ELSE "starting")
  /\ UNCHANGED <<db, applied, mails, sent, seen>>

\* Mutant: every error is taken for a conflict.
BreakRetried(q) ==
  /\ call[q].phase = "running"
  /\ Goes(q, IF call[q].attempt = Attempts THEN "failed" ELSE "starting")
  /\ UNCHANGED <<mails, sent>>
  /\ \/ Write(q)
     \/ UNCHANGED <<db, applied, seen>>
\* Any other error, a connection lost during the COMMIT included, of which
\* nobody knows whether it took effect.  It is handed on at once.
Break(q) ==
  /\ call[q].phase = "running"
  /\ Goes(q, "failed")
  /\ UNCHANGED <<mails, sent>>
  /\ \/ Write(q)
     \/ UNCHANGED <<db, applied, seen>>

\* One notification: sent, or its failure is logged and swallowed (no receiver,
\* no SMTP server, an error, ten seconds without an answer).
Notify(q) ==
  /\ call[q].phase = "notifying" /\ mails[q] < Mails
  /\ mails' = [mails EXCEPT ![q] = @ + 1]
  /\ \/ sent' = [sent EXCEPT ![q] = @ + 1]
     \/ UNCHANGED sent
  /\ UNCHANGED <<db, call, applied, seen>>

Answer(q) ==
  /\ call[q].phase = "notifying" /\ mails[q] = Mails
  /\ Goes(q, "done")
  /\ UNCHANGED <<db, applied, mails, sent, seen>>

\* The process ends; an open transaction is rolled back, what is committed
\* stays, and mails that were not sent never are.
CrashCall(q) ==
  /\ call[q].phase \in {"starting", "running", "notifying"}
  /\ Goes(q, "failed")
  /\ UNCHANGED <<db, applied, mails, sent, seen>>

Proceed(q) ==
  BeginAttempt(q) \/ Refuse(q) \/ Commit(q) \/ Conflict(q) \/ Break(q)
  \/ Notify(q) \/ Answer(q)

TxNext == \E q \in Handlers : Proceed(q) \/ CrashCall(q)

\* Statements, the COMMIT and the mails all end, one way or another.
TxFairness == \A q \in Handlers : WF_txVars(Proceed(q))
TxSpec == TxInit /\ [][TxNext]_txVars /\ TxFairness

-----------------------------------------------------------------------------

Outcome(q) == CASE call[q].phase \in {"starting", "running"} -> "open"
                [] call[q].phase = "notifying" -> "applied"
                [] OTHER -> call[q].phase

Promised == INSTANCE AtomicRequest WITH outcome <- [q \in Handlers |-> Outcome(q)]

\* However attempts, commits, mails and crashes interleave, a handler is carried
\* out at most once, as a whole, on the current rows; a refusal has a reason
\* that held; only a handler that was carried out is answered as done.
RequestsAreAtomic == Promised!Promise

\* Nobody is told of something that was rolled back, nor twice of anything,
\* however often the transaction was attempted.
MailsTellTheTruth ==
  \A q \in Handlers :
    /\ sent[q] <= applied[q] * Mails
    /\ call[q].phase = "done" => applied[q] = 1
    /\ call[q].phase = "refused" => applied[q] = 0

\* The loop is bounded and no mail server is waited for without end: every
\* request that is not cut off is answered, whatever the others do.
EveryRequestEnds ==
  \A q \in Handlers : <>(call[q].phase \in {"done", "refused", "failed"})
=============================================================================
