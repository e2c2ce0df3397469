------------------------ MODULE SerializableTxProofs ------------------------
(***************************************************************************)
(* The retried Serializable transaction implements one atomic operation or *)
(* none, for any number of requests, operations, attempts and mails.       *)
(***************************************************************************)
EXTENDS SerializableTx, TLAPS

\* A request that is tried again has attempts left.
AttemptsLeft == \A q \in Handlers : call[q].phase = "starting" => call[q].attempt < Attempts

\* What a refusal is decided on was the state of the database while the
\* request was open.
SnapshotWasSeen == \A q \in Handlers : call[q].phase = "running" => call[q].snapshot \in seen[q]

PresentIsSeen == \A q \in Handlers : db \in seen[q]

\* An operation is carried out once, and before anything is mailed or answered.
\* (A request that failed may or may not have been carried out.)
CarriedOutOnce ==
  \A q \in Handlers :
    /\ call[q].phase \in {"starting", "running", "refused"} => applied[q] = 0
    /\ call[q].phase \in {"notifying", "done"} => applied[q] = 1
    /\ applied[q] \in {0, 1}
    /\ sent[q] <= mails[q]
    /\ applied[q] = 0 => mails[q] = 0

TxInv == TxTypeOK /\ AttemptsLeft /\ SnapshotWasSeen /\ PresentIsSeen /\ CarriedOutOnce

-----------------------------------------------------------------------------

LEMMA TxInitInv == TxInit => TxInv
  BY HandlersAreFunctions
  DEF TxInit, TxInv, TxTypeOK, TxPhases, NewCall, AttemptsLeft, SnapshotWasSeen, PresentIsSeen,
      CarriedOutOnce

\* What a write does to the database and the histories.
LEMMA WriteStep ==
  ASSUME TxTypeOK, NEW q \in Handlers, Write(q)
  PROVE  /\ db' \in Database
         /\ applied' \in [Handlers -> Nat] /\ applied'[q] = applied[q] + 1
         /\ \A p \in Handlers : p # q => applied'[p] = applied[p]
         /\ seen' \in [Handlers -> SUBSET Database]
         /\ \A p \in Handlers : seen'[p] = seen[p] \cup {db'}
<1>1. db' \in Database
  <2>1. db \in Database /\ Effect[q] \in [Database -> Database \cup {Refused}]
    BY HandlersAreFunctions DEF TxTypeOK
  <2>2. Effect[q][db] \in Database \cup {Refused}
    BY <2>1
  <2> QED
    BY <2>2 DEF Write
<1> QED
  BY <1>1 DEF TxTypeOK, Write

LEMMA Below == ASSUME NEW n \in Nat, NEW k \in 0..n, k # n PROVE k < n
  OBVIOUS

LEMMA TxStep ==
  ASSUME TxInv, [TxNext]_txVars
  PROVE  TxInv'
<1> USE HandlersAreFunctions
    DEF TxInv, TxTypeOK, AttemptsLeft, SnapshotWasSeen, PresentIsSeen, CarriedOutOnce
<1>1. ASSUME NEW q \in Handlers, BeginAttempt(q) PROVE TxInv'
  <2>1. call[q].attempt + 1 \in 0..Attempts
    BY <1>1 DEF BeginAttempt
  <2>2. call' \in [Handlers -> [phase: TxPhases, attempt: 0..Attempts, snapshot: Database]]
    BY <1>1, <2>1 DEF BeginAttempt, TxPhases
  <2> QED BY <1>1, <2>2 DEF BeginAttempt
<1>2. ASSUME NEW q \in Handlers, Refuse(q) PROVE TxInv'
  BY <1>2, SMTT(30) DEF Refuse, Goes, TxPhases
<1>3. ASSUME NEW q \in Handlers, Commit(q) PROVE TxInv'
  <2>1. Write(q) /\ call[q].phase = "running" /\ UNCHANGED <<mails, sent>>
    BY <1>3 DEF Commit, Write
  <2>2. call' \in [Handlers -> [phase: TxPhases, attempt: 0..Attempts, snapshot: Database]]
    BY <1>3, SMTT(30) DEF Commit, Goes, TxPhases
  <2>3. /\ call'[q].phase = "notifying"
        /\ \A p \in Handlers : p # q => call'[p] = call[p]
    BY <1>3 DEF Commit, Goes
  <2>4. TxTypeOK'
    BY <2>1, <2>2, WriteStep
  <2>5. AttemptsLeft' /\ SnapshotWasSeen' /\ PresentIsSeen'
    BY <2>1, <2>3, WriteStep, ZenonT(30)
  <2>6. CarriedOutOnce'
    BY <2>1, <2>3, WriteStep
  <2> QED BY <2>4, <2>5, <2>6
<1>4. ASSUME NEW q \in Handlers, Conflict(q) PROVE TxInv'
  <2>1. call' \in [Handlers -> [phase: TxPhases, attempt: 0..Attempts, snapshot: Database]]
    BY <1>4 DEF Conflict, Goes, TxPhases
  <2>2. /\ call[q].phase = "running" /\ call'[q].attempt = call[q].attempt
        /\ call'[q].phase = IF call[q].attempt = Attempts THEN "failed" ELSE "starting"
        /\ \A p \in Handlers : p # q => call'[p] = call[p]
        /\ UNCHANGED <<db, applied, mails, sent, seen>>
    BY <1>4 DEF Conflict, Goes
  <2>3. call[q].attempt \in 0..Attempts /\ Attempts \in Nat
    OBVIOUS
  <2>4. call'[q].phase = "starting" => call'[q].attempt < Attempts
    <3>1. CASE call[q].attempt = Attempts
      BY <2>2, <3>1
    <3>2. CASE call[q].attempt # Attempts
      <4>1. call'[q].attempt \in 0..Attempts /\ call'[q].attempt # Attempts
        BY <2>1, <2>2, <3>2
      <4> QED BY <2>3, <4>1, Below
    <3> QED BY <3>1, <3>2
  <2>5. AttemptsLeft'
    BY <2>2, <2>4
  <2> QED BY <2>1, <2>2, <2>5
<1>5. ASSUME NEW q \in Handlers, Break(q) PROVE TxInv'
  <2>2. call' \in [Handlers -> [phase: TxPhases, attempt: 0..Attempts, snapshot: Database]]
    BY <1>5, SMTT(30) DEF Break, Goes, TxPhases
  <2>3. /\ call[q].phase = "running" /\ call'[q].phase = "failed"
        /\ \A p \in Handlers : p # q => call'[p] = call[p]
        /\ UNCHANGED <<mails, sent>>
    BY <1>5 DEF Break, Goes
  <2>4. CASE Write(q)
    <3>1. TxTypeOK'
      BY <2>2, <2>3, <2>4, WriteStep
    <3>2. AttemptsLeft' /\ SnapshotWasSeen' /\ PresentIsSeen'
      BY <2>3, <2>4, WriteStep, ZenonT(30)
    <3>3. CarriedOutOnce'
      BY <2>3, <2>4, WriteStep
    <3> QED BY <3>1, <3>2, <3>3
  <2>5. CASE UNCHANGED <<db, applied, seen>>
    BY <2>2, <2>3, <2>5
  <2> QED BY <1>5, <2>4, <2>5 DEF Break
<1>6. ASSUME NEW q \in Handlers, Notify(q) PROVE TxInv'
  BY <1>6 DEF Notify
<1>7. ASSUME NEW q \in Handlers, Answer(q) PROVE TxInv'
  BY <1>7 DEF Answer, Goes, TxPhases
<1>8. ASSUME NEW q \in Handlers, CrashCall(q) PROVE TxInv'
  BY <1>8 DEF CrashCall, Goes, TxPhases
<1>9. CASE UNCHANGED txVars
  BY <1>9 DEF txVars
<1> QED
  BY <1>1, <1>2, <1>3, <1>4, <1>5, <1>6, <1>7, <1>8, <1>9 DEF TxNext, Proceed

\* None of what follows needs fairness.
THEOREM TxInductive == TxInit /\ [][TxNext]_txVars => []TxInv
  BY TxInitInv, TxStep, PTL

\* The calls, the rows and the mails of the transaction service keep their types.
THEOREM TxTypeCorrect == TxSpec => []TxTypeOK
  BY TxInductive, PTL DEF TxInv, TxSpec

\* Nobody is told of something that was rolled back, nor twice of anything,
\* however often ReservationGroupTransactionService attempts the transaction.
THEOREM MailsAlwaysTellTheTruth ==
  TxInit /\ [][TxNext]_txVars => []MailsTellTheTruth
<1>1. TxInv => MailsTellTheTruth
  <2> SUFFICES ASSUME TxInv, NEW q \in Handlers
               PROVE  /\ sent[q] <= applied[q] * Mails
                      /\ call[q].phase = "done" => applied[q] = 1
                      /\ call[q].phase = "refused" => applied[q] = 0
    BY DEF MailsTellTheTruth
  <2>1. sent[q] \in 0..Mails /\ mails[q] \in 0..Mails /\ Mails \in Nat
    BY HandlersAreFunctions DEF TxInv, TxTypeOK
  <2>2. CASE applied[q] = 0
    BY <2>1, <2>2 DEF TxInv, CarriedOutOnce
  <2>3. CASE applied[q] = 1
    BY <2>1, <2>3 DEF TxInv, CarriedOutOnce
  <2> QED
    BY <2>2, <2>3 DEF TxInv, CarriedOutOnce
<1> QED
  BY <1>1, TxInductive, PTL

-----------------------------------------------------------------------------
(* The refinement.                                                          *)

\* A step of one request is a step of what was promised to its caller.
LEMMA PhaseStep ==
  ASSUME TxTypeOK, NEW q \in Handlers, NEW phase \in TxPhases, Goes(q, phase)
  PROVE  LET after == CASE phase \in {"starting", "running"} -> "open"
                        [] phase = "notifying" -> "applied"
                        [] OTHER -> phase
         IN [p \in Handlers |-> Outcome(p)]' =
              [[p \in Handlers |-> Outcome(p)] EXCEPT ![q] = after]
  BY DEF TxTypeOK, TxPhases, Goes, Outcome

LEMMA RefinedStep ==
  ASSUME TxInv, [TxNext]_txVars
  PROVE  [Promised!Step]_<<db, [q \in Handlers |-> Outcome(q)], seen>>
<1> DEFINE out == [q \in Handlers |-> Outcome(q)]
           Goal == Promised!Step \/ UNCHANGED <<db, out, seen>>
<1> USE DEF TxInv
<1>1. ASSUME NEW q \in Handlers, BeginAttempt(q) PROVE Goal
  BY <1>1 DEF BeginAttempt, Outcome, TxTypeOK
<1>2. ASSUME NEW q \in Handlers, Refuse(q) PROVE Goal
  <2>1. out[q] = "open" /\ out' = [out EXCEPT ![q] = "refused"]
    BY <1>2, PhaseStep DEF Refuse, Outcome, TxPhases
  <2>2. Promised!Turn(q)
    BY <1>2, <2>1 DEF Refuse, Promised!Turn, Promised!Becomes, SnapshotWasSeen
  <2> QED BY <2>2 DEF Promised!Step
<1>3. ASSUME NEW q \in Handlers, Write(q) PROVE Promised!Apply(q)
  BY <1>3 DEF Write, Promised!Apply
<1>4. ASSUME NEW q \in Handlers, Commit(q) PROVE Goal
  <2>1. out[q] = "open" /\ out' = [out EXCEPT ![q] = "applied"]
    BY <1>4, PhaseStep DEF Commit, Write, Outcome, TxPhases
  <2>2. Promised!CarryOut(q)
    BY <1>3, <1>4, <2>1 DEF Commit, Promised!CarryOut, Promised!Becomes
  <2> QED BY <2>2 DEF Promised!Step
<1>5. ASSUME NEW q \in Handlers, Conflict(q) PROVE Goal
  <2>1. CASE call[q].attempt = Attempts
    <3>1. out[q] = "open" /\ out' = [out EXCEPT ![q] = "failed"]
      BY <1>5, <2>1, PhaseStep DEF Conflict, Outcome, TxPhases
    <3>2. Promised!Fail(q)
      BY <1>5, <3>1 DEF Conflict, Promised!Fail, Promised!Becomes
    <3> QED BY <3>2 DEF Promised!Step
  <2>2. CASE call[q].attempt # Attempts
    BY <1>5, <2>2 DEF Conflict, Goes, Outcome, TxTypeOK
  <2> QED BY <2>1, <2>2
<1>6. ASSUME NEW q \in Handlers, Break(q) PROVE Goal
  <2>1. out[q] = "open" /\ out' = [out EXCEPT ![q] = "failed"]
    BY <1>6, PhaseStep DEF Break, Outcome, TxPhases
  <2>2. Promised!Fail(q)
    BY <1>3, <1>6, <2>1 DEF Break, Promised!Fail, Promised!Becomes
  <2> QED BY <2>2 DEF Promised!Step
<1>7. ASSUME NEW q \in Handlers, Notify(q) PROVE Goal
  BY <1>7 DEF Notify, Outcome
<1>8. ASSUME NEW q \in Handlers, Answer(q) PROVE Goal
  <2>1. out[q] = "applied" /\ out' = [out EXCEPT ![q] = "done"]
    BY <1>8, PhaseStep DEF Answer, Outcome, TxPhases
  <2>2. Promised!Confirm(q)
    BY <1>8, <2>1 DEF Answer, Promised!Confirm, Promised!Becomes
  <2> QED BY <2>2 DEF Promised!Step
<1>9. ASSUME NEW q \in Handlers, CrashCall(q) PROVE Goal
  <2>1. out[q] \in {"open", "applied"} /\ out' = [out EXCEPT ![q] = "failed"]
    BY <1>9, PhaseStep DEF CrashCall, Outcome, TxPhases
  <2>2. Promised!Fail(q)
    BY <1>9, <2>1 DEF CrashCall, Promised!Fail, Promised!Becomes
  <2> QED BY <2>2 DEF Promised!Step
<1>10. CASE UNCHANGED txVars
  BY <1>10 DEF txVars, Outcome
<1> QED
  BY <1>1, <1>2, <1>4, <1>5, <1>6, <1>7, <1>8, <1>9, <1>10 DEF TxNext, Proceed

\* However attempts, commits, mails and crashes interleave, a handler of the
\* reservation services is carried out at most once, as a whole, on the current
\* rows; a refusal has a reason that held.
THEOREM HandlersAreAtomic == TxInit /\ [][TxNext]_txVars => RequestsAreAtomic
<1>1. TxInit => Promised!Start
  BY DEF TxInit, Promised!Start, Outcome, NewCall
<1> QED
  BY <1>1, TxInductive, RefinedStep, PTL DEF RequestsAreAtomic, Promised!Promise

-----------------------------------------------------------------------------
(* What a request has left to do.  Every statement of it makes this less,  *)
(* and no other request's makes it more: the loop is bounded.  With the    *)
(* fairness of TxSpec and Proceed enabled until the end, that is why       *)
(* requests are answered; the last step is left to TLC.                    *)

Ended == {"done", "refused", "failed"}

Calls == [phase: TxPhases, attempt: 0..Attempts, snapshot: Database]
Left(c, m) ==
  CASE c.phase = "starting" -> 2 * (Attempts - c.attempt) + Mails + 2
    [] c.phase = "running" -> 2 * (Attempts - c.attempt) + Mails + 3
    [] c.phase = "notifying" -> (Mails - m) + 1
    [] OTHER -> 0
Remaining(q) == Left(call[q], mails[q])

\* It is a number, and 0 at the end only.
LEMMA LeftIsNatural ==
  ASSUME NEW c \in Calls, NEW m \in 0..Mails
  PROVE  Left(c, m) \in Nat /\ (Left(c, m) = 0 <=> c.phase \in Ended)
<1> USE HandlersAreFunctions
<1>0. c.attempt \in 0..Attempts /\ c.phase \in TxPhases  BY DEF Calls
<1>1. CASE c.phase = "starting"  BY <1>0, <1>1 DEF Left, Ended
<1>2. CASE c.phase = "running"  BY <1>0, <1>2 DEF Left, Ended
<1>3. CASE c.phase = "notifying"  BY <1>3 DEF Left, Ended
<1>4. CASE c.phase \in Ended  BY <1>4 DEF Left, Ended
<1> QED  BY <1>0, <1>1, <1>2, <1>3, <1>4 DEF TxPhases, Ended

\* The numbers a request is made of.
LEMMA CallNumbers ==
  TxInv => /\ call \in [Handlers -> Calls] /\ mails \in [Handlers -> 0..Mails]
           /\ \A q \in Handlers : /\ call[q].attempt \in 0..Attempts /\ mails[q] \in 0..Mails
                                  /\ Remaining(q) \in Nat
                                  /\ Remaining(q) = 0 <=> call[q].phase \in Ended
<1> SUFFICES ASSUME TxInv
             PROVE  /\ call \in [Handlers -> Calls] /\ mails \in [Handlers -> 0..Mails]
                    /\ \A q \in Handlers :
                         /\ call[q].attempt \in 0..Attempts /\ mails[q] \in 0..Mails
                         /\ Remaining(q) \in Nat
                         /\ Remaining(q) = 0 <=> call[q].phase \in Ended
  OBVIOUS
<1>1. call \in [Handlers -> Calls] /\ mails \in [Handlers -> 0..Mails]
  BY DEF TxInv, TxTypeOK, Calls
<1>2. \A c \in Calls : c.attempt \in 0..Attempts  BY DEF Calls
<1> QED  BY <1>1, <1>2, LeftIsNatural DEF Remaining

\* A statement of a request leaves it less to do and the others what they had.
LEMMA StatementsCount ==
  ASSUME TxInv, TxInv', NEW q \in Handlers, Proceed(q) \/ CrashCall(q)
  PROVE  /\ Remaining(q)' < Remaining(q) /\ Remaining(q)' \in Nat
         /\ \A p \in Handlers : p # q => Remaining(p)' = Remaining(p)
<1>1. /\ call \in [Handlers -> Calls] /\ mails \in [Handlers -> 0..Mails]
      /\ Attempts \in Nat /\ Mails \in Nat
  BY CallNumbers, HandlersAreFunctions
<1>2. /\ call[q].attempt \in 0..Attempts /\ mails[q] \in 0..Mails
      /\ call'[q].attempt \in 0..Attempts /\ mails'[q] \in 0..Mails
  <2>1. \A c \in Calls : c.attempt \in 0..Attempts  BY DEF Calls
  <2>2. call' \in [Handlers -> Calls] /\ mails' \in [Handlers -> 0..Mails]
    BY DEF TxInv, TxTypeOK, Calls
  <2> QED  BY <1>1, <2>1, <2>2
<1>3. ASSUME NEW p \in Handlers, p # q PROVE Remaining(p)' = Remaining(p)
  <2>1. call'[p] = call[p] /\ mails'[p] = mails[p]
    BY <1>1, <1>3 DEF Proceed, BeginAttempt, Refuse, Commit, Conflict, Break, Notify, Answer,
                      CrashCall, Goes
  <2> QED  BY <2>1 DEF Remaining
<1>4. ASSUME BeginAttempt(q) PROVE Remaining(q)' < Remaining(q)
  <2>1. /\ call[q].phase = "starting" /\ call'[q].phase = "running"
        /\ call'[q].attempt = call[q].attempt + 1
    BY <1>1, <1>4 DEF BeginAttempt, Calls
  <2> QED  BY <1>1, <1>2, <2>1 DEF Remaining, Left
<1>5. ASSUME Refuse(q) \/ Break(q) PROVE Remaining(q)' < Remaining(q)
  <2>1. call[q].phase = "running" /\ call'[q].phase \in Ended
    BY <1>1, <1>5 DEF Refuse, Break, Goes, Calls, Ended
  <2> QED  BY <1>1, <1>2, <2>1 DEF Remaining, Left, Ended
<1>6. ASSUME Commit(q) PROVE Remaining(q)' < Remaining(q)
  <2>1. call[q].phase = "running" /\ call'[q].phase = "notifying" /\ mails'[q] = mails[q]
    BY <1>1, <1>6 DEF Commit, Write, Goes, Calls
  <2> QED  BY <1>1, <1>2, <2>1 DEF Remaining, Left
<1>7. ASSUME Conflict(q) PROVE Remaining(q)' < Remaining(q)
  <2>1. /\ call[q].phase = "running" /\ call'[q].attempt = call[q].attempt
        /\ call'[q].phase \in {"failed", "starting"}
    BY <1>1, <1>7 DEF Conflict, Goes, Calls
  <2> QED  BY <1>1, <1>2, <2>1 DEF Remaining, Left
<1>8. ASSUME Notify(q) PROVE Remaining(q)' < Remaining(q)
  <2>1. /\ call[q].phase = "notifying" /\ call'[q].phase = "notifying"
        /\ mails'[q] = mails[q] + 1
    BY <1>1, <1>8 DEF Notify
  <2> QED  BY <1>1, <1>2, <2>1 DEF Remaining, Left
<1>9. ASSUME Answer(q) PROVE Remaining(q)' < Remaining(q)
  <2>1. call[q].phase = "notifying" /\ call'[q].phase = "done"
    BY <1>1, <1>9 DEF Answer, Goes, Calls
  <2> QED  BY <1>1, <1>2, <2>1 DEF Remaining, Left
<1>10. ASSUME CrashCall(q) PROVE Remaining(q)' < Remaining(q)
  <2>1. call[q].phase \in {"starting", "running", "notifying"} /\ call'[q].phase = "failed"
    BY <1>1, <1>10 DEF CrashCall, Goes, Calls
  <2> QED  BY <1>1, <1>2, <2>1 DEF Remaining, Left
<1>11. Remaining(q)' \in Nat
  <2>1. call' \in [Handlers -> Calls] /\ mails' \in [Handlers -> 0..Mails]
    BY DEF TxInv, TxTypeOK, Calls
  <2> QED  BY <2>1, LeftIsNatural DEF Remaining
<1> QED
  BY <1>11, <1>3, <1>4, <1>5, <1>6, <1>7, <1>8, <1>9, <1>10 DEF Proceed

Counts == \A q \in Handlers : Remaining(q) \in Nat /\ (Remaining(q) = 0 <=> call[q].phase \in Ended)
CountsDown ==
  \A q \in Handlers :
    /\ Remaining(q)' <= Remaining(q)
    /\ Proceed(q) \/ CrashCall(q) => Remaining(q)' < Remaining(q)

\* withSerializableTransaction and what follows it: a request makes no more than
\* 2 * Attempts + Mails + 2 statements, whatever the other requests do between.
THEOREM RequestsRunOut ==
  TxInit /\ [][TxNext]_txVars =>
    /\ \A q \in Handlers : Remaining(q) = 2 * Attempts + Mails + 2
    /\ []Counts
    /\ [][CountsDown]_txVars
<1>1. TxInit => \A q \in Handlers : Remaining(q) = 2 * Attempts + Mails + 2
  <2> SUFFICES ASSUME TxInit, NEW q \in Handlers
               PROVE  Remaining(q) = 2 * Attempts + Mails + 2
    OBVIOUS
  <2>1. call[q].phase = "starting" /\ call[q].attempt = 0  BY DEF TxInit, NewCall
  <2> QED  BY <2>1, HandlersAreFunctions DEF Remaining, Left
<1>2. TxInv => Counts
  BY CallNumbers DEF Counts
<1>3. ASSUME TxInv, TxInv', [TxNext]_txVars PROVE [CountsDown]_txVars
  <2>1. \A q \in Handlers : Remaining(q) \in Nat
    BY <1>3, CallNumbers
  <2>2. ASSUME NEW p \in Handlers, Proceed(p) \/ CrashCall(p) PROVE CountsDown
    <3>1. ASSUME NEW q \in Handlers, Proceed(q) \/ CrashCall(q)
          PROVE  Remaining(q)' < Remaining(q)
      BY <1>3, <3>1, StatementsCount
    <3>2. ASSUME NEW q \in Handlers, q # p PROVE Remaining(q)' = Remaining(q)
      BY <1>3, <2>2, <3>2, StatementsCount
    <3>3. Remaining(p)' \in Nat
      BY <1>3, <2>2, StatementsCount
    <3>4. \A q \in Handlers : Remaining(q)' <= Remaining(q)
      BY <2>1, <2>2, <3>1, <3>2, <3>3
    <3> QED  BY <3>1, <3>4 DEF CountsDown
  <2> QED  BY <1>3, <2>2 DEF TxNext
<1> QED  BY <1>1, <1>2, <1>3, TxInductive, PTL
=============================================================================
