-------------------------- MODULE MarketingProofs --------------------------
(***************************************************************************)
(* Proofs about the marketing dashboard and what feeds it: the             *)
(* synchronisation with Meta, the intake of leads and events, and what the *)
(* dashboard adds up; about the administrators' bell; and about the        *)
(* composition of these with the transactions.  They share no state.       *)
(***************************************************************************)
EXTENDS MCSite, SerializableTxProofs, FiniteSetTheorems

-----------------------------------------------------------------------------
(* The synchronisation, for any runs, stale time and bounds.  Until a run  *)
(* is late, the run at work is the one that holds the lock, the lock is as *)
(* old as that run, and so nobody may take it over.                        *)

\* Until a run is late, every run at work holds the lock and is as old as it.
RunHoldsLock ==
  ~late => \A r \in Runners : Active(r) =>
    /\ lock.running
    /\ lock.age = run[r].age
    /\ run[r].age <= StaleAfter

\* A run that has not tried the lock yet has just read the clock.
StartsAreRecent ==
  \A r \in Runners : run[r].phase = "starting" => run[r].age <= MaxDelay

LockInv == TypeOK /\ StartsAreRecent /\ RunHoldsLock /\ OneRunAtATime

\* What is stored was published, and what a run is about to store is no older.
WriterIsCurrent ==
  /\ stored <= published
  /\ ~late => \A r \in Runners : run[r].phase = "writing" =>
       stored <= run[r].fetched
  /\ \A r \in Runners : run[r].fetched <= published

\* Every step of every run, tick and report keeps the state well typed, and
\* a lock that is held has a start time.
LEMMA TypeStep == ASSUME TypeOK, [Next]_vars PROVE TypeOK'
<1> USE BoundsAreValid DEF AgeCap, Never
<1>1. CASE UNCHANGED vars  BY <1>1 DEF TypeOK, vars
<1>2. CASE Publish  BY <1>2 DEF TypeOK, Publish
<1>3. CASE Tick
  <2>1. \A a \in 0..AgeCap : Older(a) \in 0..AgeCap  BY DEF Older
  <2>2. \A a \in 0..Never : /\ Older(a) \in 0..Never
                            /\ a # Never => Older(a) # Never
    BY DEF Older
  <2>3. lock' = [lock EXCEPT !.age = Older(@)]  BY <1>3 DEF Tick
  <2>4. run' \in [Runners -> [phase: Phases, age: 0..AgeCap, fetched: 0..MaxVersion]]
    BY <1>3, <2>1 DEF Tick, TypeOK
  <2> QED  BY <1>3, <2>2, <2>3, <2>4 DEF Tick, TypeOK
<1>4. ASSUME NEW r \in Runners, Begin(r) \/ Step(r) \/ Fail(r) \/ Crash(r)
      PROVE  TypeOK'
  <2>1. CASE Begin(r)  BY <2>1 DEF TypeOK, Begin, Idle, Phases
  <2>2. CASE Acquire(r)
    <3>1. run[r] \in [phase: Phases, age: 0..AgeCap, fetched: 0..MaxVersion]
      BY DEF TypeOK
    <3>2. CASE Takeable(r)
      <4>1. /\ lock' = [running |-> TRUE, age |-> run[r].age, failed |-> FALSE]
            /\ run' = [run EXCEPT ![r].phase = "fetching"]
            /\ UNCHANGED <<published, stored, crashes, late>>
        BY <2>2, <3>2 DEF Acquire
      <4>2. run[r].age \in 0..Never /\ run[r].age # Never
        BY <3>1
      <4>3. lock' \in [running: BOOLEAN, age: 0..Never, failed: BOOLEAN]
        BY <4>1, <4>2
      <4>4. lock'.age # Never  BY <4>1, <4>2
      <4>5. run' \in [Runners -> [phase: Phases, age: 0..AgeCap, fetched: 0..MaxVersion]]
        BY <4>1 DEF TypeOK, Phases
      <4> QED  BY <4>1, <4>3, <4>4, <4>5 DEF TypeOK
    <3>3. CASE ~Takeable(r)  BY <2>2, <3>3 DEF TypeOK, Acquire, Idle, Phases
    <3> QED  BY <3>2, <3>3
  <2>3. CASE Fetch(r)
    <3>1. run' = [run EXCEPT ![r] = [@ EXCEPT !.phase = "writing", !.fetched = published]]
      BY <2>3 DEF Fetch
    <3>2. run' \in [Runners -> [phase: Phases, age: 0..AgeCap, fetched: 0..MaxVersion]]
      BY <3>1 DEF TypeOK, Phases
    <3> QED  BY <2>3, <3>2 DEF TypeOK, Fetch
  <2>4. CASE Upsert(r)
    <3>1. stored' \in 0..MaxVersion  BY <2>4 DEF TypeOK, Upsert
    <3> QED  BY <2>4, <3>1 DEF TypeOK, Upsert, Phases
  <2>5. CASE Finish(r) \/ Fail(r)
    <3>1. /\ lock' \in [running: BOOLEAN, age: 0..Never, failed: BOOLEAN]
          /\ ~lock'.running
      BY <2>5 DEF TypeOK, Finish, Fail
    <3>2. run' \in [Runners -> [phase: Phases, age: 0..AgeCap, fetched: 0..MaxVersion]]
      BY <2>5 DEF TypeOK, Finish, Fail, Idle, Phases
    <3> QED  BY <2>5, <3>1, <3>2 DEF TypeOK, Finish, Fail
  <2>7. CASE Crash(r)  BY <2>7 DEF TypeOK, Crash, Idle, Phases
  <2> QED  BY <1>4, <2>1, <2>2, <2>3, <2>4, <2>5, <2>7 DEF Step
<1> QED  BY <1>1, <1>2, <1>3, <1>4 DEF Next

\* Nobody is at work at first.
LEMMA InitInv == ASSUME Init PROVE LockInv /\ WriterIsCurrent
<1> USE BoundsAreValid DEF Init, Idle
<1>1. TypeOK
  <2>1. 0 \in 0..AgeCap /\ 0 \in 0..MaxVersion /\ 0 \in 0..MaxCrashes /\ Never \in 0..Never
    BY DEF AgeCap, Never
  <2>2. run \in [Runners -> [phase: Phases, age: 0..AgeCap, fetched: 0..MaxVersion]]
    BY <2>1 DEF Phases
  <2> QED  BY <2>1, <2>2 DEF TypeOK
<1>2. \A r \in Runners : run[r] = Idle  OBVIOUS
<1>3. StartsAreRecent /\ RunHoldsLock /\ OneRunAtATime
  BY <1>2 DEF StartsAreRecent, RunHoldsLock, OneRunAtATime, Active
<1> QED  BY <1>1, <1>2, <1>3 DEF LockInv, WriterIsCurrent

\* No step makes a run that has not tried the lock older than MaxDelay.
LEMMA StartStep == ASSUME TypeOK, StartsAreRecent, [Next]_vars PROVE StartsAreRecent'
<1> USE BoundsAreValid DEF StartsAreRecent
<1>1. CASE UNCHANGED vars  BY <1>1 DEF vars
<1>2. CASE Publish  BY <1>2 DEF Publish
<1>3. CASE Tick
  <2>1. ASSUME NEW r \in Runners, run'[r].phase = "starting"
        PROVE  run'[r].age <= MaxDelay
    <3>1. /\ run[r].phase = "starting" /\ run'[r].age = Older(run[r].age)
          /\ run[r].age < MaxDelay /\ run[r].age \in 0..AgeCap
      BY <1>3, <2>1 DEF Tick, TypeOK
    <3> QED  BY <3>1 DEF Older, AgeCap
  <2> QED  BY <2>1
<1>4. ASSUME NEW r \in Runners, Begin(r) \/ Step(r) \/ Fail(r) \/ Crash(r)
      PROVE  StartsAreRecent'
  <2>1. \A q \in Runners : q # r => run'[q] = run[q]
    BY <1>4 DEF Begin, Step, Acquire, Fetch, Upsert, Finish, Fail, Crash, TypeOK
  <2>2. run'[r].phase = "starting" => run'[r].age = 0
    BY <1>4 DEF Begin, Step, Acquire, Fetch, Upsert, Finish, Fail, Crash, Idle, TypeOK
  <2> QED  BY <2>1, <2>2
<1> QED  BY <1>1, <1>2, <1>3, <1>4 DEF Next

\* A lock its holder is in time with cannot be taken over.
LEMMA HeldLockIsNotTakeable ==
  ASSUME LockInv, ~late, NEW q \in Runners, Active(q), NEW r \in Runners
  PROVE  ~Takeable(r)
<1>1. lock.running /\ lock.age = run[q].age /\ run[q].age <= StaleAfter
  BY DEF LockInv, RunHoldsLock
<1>2. run[r].age \in Nat /\ run[q].age \in Nat
  BY BoundsAreValid DEF LockInv, TypeOK, AgeCap
<1> QED  BY <1>1, <1>2, BoundsAreValid DEF Takeable

\* Only the holder is at work, so releasing the lock leaves nobody at work.
LEMMA LockStep == ASSUME LockInv, [Next]_vars PROVE LockInv'
<1>t. TypeOK'  BY TypeStep DEF LockInv
<1>s. StartsAreRecent'  BY StartStep DEF LockInv
<1> SUFFICES RunHoldsLock' /\ OneRunAtATime'  BY <1>t, <1>s DEF LockInv
<1> TypeOK /\ StartsAreRecent /\ RunHoldsLock /\ OneRunAtATime  BY DEF LockInv
<1>1. CASE UNCHANGED vars
  BY <1>1 DEF vars, RunHoldsLock, OneRunAtATime, Active
<1>2. CASE Publish
  BY <1>2 DEF Publish, RunHoldsLock, OneRunAtATime, Active
<1>3. CASE Tick
  <2> SUFFICES ASSUME ~late' PROVE RunHoldsLock' /\ OneRunAtATime'
    BY DEF RunHoldsLock, OneRunAtATime
  <2>1. ~late /\ \A r \in Runners : Active(r) => run[r].age < StaleAfter
    <3>1. \A r \in Runners : run[r].age \in Nat
      BY BoundsAreValid DEF TypeOK, AgeCap
    <3>2. late' = (late \/ \E r \in Runners : Active(r) /\ run[r].age >= StaleAfter)
      BY <1>3 DEF Tick
    <3>3. ~late /\ \A r \in Runners : Active(r) => ~(run[r].age >= StaleAfter)
      BY <3>2, Zenon
    <3> QED  BY <3>1, <3>3, BoundsAreValid
  <2>2. \A r \in Runners : Active(r)' => Active(r) /\ run'[r].age = Older(run[r].age)
    BY <1>3 DEF Tick, Active, TypeOK
  <2>3. lock'.running = lock.running /\ lock'.age = Older(lock.age)
    BY <1>3 DEF Tick, TypeOK
  <2>4. \A r \in Runners : Active(r) => Older(run[r].age) <= StaleAfter
    <3>1. \A r \in Runners : run[r].age \in Nat
      BY BoundsAreValid DEF TypeOK, AgeCap
    <3> QED  BY <2>1, <3>1, BoundsAreValid DEF Older, AgeCap
  <2>5. RunHoldsLock'  BY <2>1, <2>2, <2>3, <2>4 DEF RunHoldsLock
  <2>6. OneRunAtATime'  BY <2>1, <2>2 DEF OneRunAtATime
  <2> QED  BY <2>5, <2>6
<1>4. ASSUME NEW r \in Runners, Begin(r) \/ Step(r) \/ Fail(r) \/ Crash(r)
      PROVE  RunHoldsLock' /\ OneRunAtATime'
  <2>0. \A q \in Runners : q # r => run'[q] = run[q]
    BY <1>4 DEF Begin, Step, Acquire, Fetch, Upsert, Finish, Fail, Crash, TypeOK
  <2>a. late' = late
    BY <1>4 DEF Begin, Step, Acquire, Fetch, Upsert, Finish, Fail, Crash
  <2> SUFFICES ASSUME ~late PROVE RunHoldsLock' /\ OneRunAtATime'
    BY <2>a DEF RunHoldsLock, OneRunAtATime
  <2>b. \A q \in Runners : q # r => (Active(q)' <=> Active(q))
    BY <2>0 DEF Active
  <2>1. CASE Begin(r) \/ Crash(r) \/ (Acquire(r) /\ ~Takeable(r))
    <3>1. ~Active(r)' /\ lock' = lock
      BY <2>1 DEF Begin, Crash, Acquire, Active, Idle, TypeOK
    <3> QED  BY <2>0, <2>a, <2>b, <3>1 DEF RunHoldsLock, OneRunAtATime
  <2>2. CASE Acquire(r) /\ Takeable(r)
    <3>1. \A q \in Runners : ~Active(q)
      BY <2>2, HeldLockIsNotTakeable
    <3>2. lock'.running /\ lock'.age = run[r].age /\ run'[r].age = run[r].age
      BY <2>2 DEF Acquire, TypeOK
    <3>3. run[r].age <= StaleAfter
      <4>1. run[r].age \in Nat /\ run[r].age <= MaxDelay
        BY <2>2, BoundsAreValid DEF Acquire, StartsAreRecent, TypeOK, AgeCap
      <4> QED  BY <4>1, BoundsAreValid
    <3> QED  BY <2>0, <2>b, <3>1, <3>2, <3>3 DEF RunHoldsLock, OneRunAtATime
  <2>3. CASE Fetch(r) \/ Upsert(r)
    <3>1. Active(r) /\ lock' = lock /\ run'[r].age = run[r].age
      BY <2>3 DEF Fetch, Upsert, Active, TypeOK
    <3> QED  BY <2>0, <2>b, <3>1 DEF RunHoldsLock, OneRunAtATime
  <2>4. CASE Finish(r) \/ Fail(r)
    <3>1. Active(r) /\ ~Active(r)'
      BY <2>4 DEF Finish, Fail, Active, Idle, TypeOK
    <3>2. \A q \in Runners : ~Active(q)'
      BY <2>b, <3>1 DEF OneRunAtATime
    <3> QED  BY <3>2 DEF RunHoldsLock, OneRunAtATime
  <2> QED  BY <1>4, <2>1, <2>2, <2>3, <2>4 DEF Step
<1> QED  BY <1>1, <1>2, <1>3, <1>4 DEF Next

\* What a run is about to store is no older than what is stored: it was
\* fetched after the run before was done.
LEMMA CurrentStep == ASSUME LockInv, WriterIsCurrent, [Next]_vars PROVE WriterIsCurrent'
<1> USE DEF WriterIsCurrent
<1> TypeOK  BY DEF LockInv
<1>n. published \in Nat /\ stored \in Nat /\ \A r \in Runners : run[r].fetched \in Nat
  BY BoundsAreValid DEF TypeOK
<1>1. CASE UNCHANGED vars  BY <1>1 DEF vars
<1>2. CASE Publish  BY <1>2, <1>n DEF Publish
<1>3. CASE Tick
  <2>1. \A r \in Runners : run'[r].phase = run[r].phase /\ run'[r].fetched = run[r].fetched
    BY <1>3 DEF Tick, TypeOK
  <2>2. ~late' => ~late
    <3>1. late' = (late \/ \E r \in Runners : Active(r) /\ run[r].age >= StaleAfter)
      BY <1>3 DEF Tick
    <3> QED  BY <3>1, Zenon
  <2>3. published' = published /\ stored' = stored  BY <1>3 DEF Tick
  <2> QED  BY <2>1, <2>2, <2>3
<1>4. ASSUME NEW r \in Runners, Begin(r) \/ Step(r) \/ Fail(r) \/ Crash(r)
      PROVE  WriterIsCurrent'
  <2>0. \A q \in Runners : q # r => run'[q] = run[q]
    BY <1>4 DEF Begin, Step, Acquire, Fetch, Upsert, Finish, Fail, Crash, TypeOK
  <2>a. late' = late /\ published' = published
    BY <1>4 DEF Begin, Step, Acquire, Fetch, Upsert, Finish, Fail, Crash
  <2>1. CASE Fetch(r)
    <3>1. run'[r].fetched = published /\ stored' = stored
      BY <2>1 DEF Fetch, TypeOK
    <3> QED  BY <2>0, <2>a, <3>1, <1>n
  <2>2. CASE Upsert(r)
    <3>1. /\ run[r].phase = "writing" /\ run'[r].phase = "finishing"
          /\ run'[r].fetched = run[r].fetched /\ stored' = run[r].fetched
      BY <2>2 DEF Upsert, TypeOK
    <3>2. ~late => \A q \in Runners : q # r => run[q].phase # "writing"
      BY <3>1 DEF LockInv, OneRunAtATime, Active
    <3> QED  BY <2>0, <2>a, <3>1, <3>2, <1>n
  <2>3. CASE Begin(r) \/ Acquire(r) \/ Finish(r) \/ Fail(r) \/ Crash(r)
    <3>1. /\ run'[r].phase # "writing" /\ run'[r].fetched \in {0, run[r].fetched}
          /\ stored' = stored
      BY <2>3 DEF Begin, Acquire, Finish, Fail, Crash, Idle, TypeOK
    <3> QED  BY <2>0, <2>a, <3>1, <1>n
  <2> QED  BY <1>4, <2>1, <2>2, <2>3 DEF Step
<1> QED  BY <1>1, <1>2, <1>3, <1>4 DEF Next

-----------------------------------------------------------------------------

\* The lock's invariant holds whatever the bounds, and needs no fairness.
THEOREM LockInductive == Init /\ [][Next]_vars => [](LockInv /\ WriterIsCurrent)
<1>1. Init => LockInv /\ WriterIsCurrent  BY InitInv
<1>2. LockInv /\ WriterIsCurrent /\ [Next]_vars => (LockInv /\ WriterIsCurrent)'
  BY LockStep, CurrentStep
<1> QED  BY <1>1, <1>2, PTL

\* A lock that is held always has a start time to go stale from.
THEOREM SyncTypeCorrect == Spec => []TypeOK
<1>1. LockInv => TypeOK  BY DEF LockInv
<1> QED  BY <1>1, LockInductive, PTL DEF Spec

\* Until a run outlives its lock, at most one run is at work.
THEOREM RunsExcludeEachOther == Spec => []OneRunAtATime
<1>1. LockInv => OneRunAtATime  BY DEF LockInv
<1> QED  BY <1>1, LockInductive, PTL DEF Spec

LEMMA InsightsStep ==
  ASSUME LockInv, WriterIsCurrent, [Next]_vars
  PROVE  [~late => stored' >= stored]_vars
<1>n. stored \in Nat  BY BoundsAreValid DEF LockInv, TypeOK
<1>1. CASE \E r \in Runners : Upsert(r)
  <2>1. PICK r \in Runners : Upsert(r)  BY <1>1
  <2>2. run[r].phase = "writing" /\ stored' = run[r].fetched
    BY <2>1 DEF Upsert
  <2>3. run[r].fetched \in Nat  BY BoundsAreValid DEF LockInv, TypeOK
  <2> QED  BY <2>2, <2>3, <1>n DEF WriterIsCurrent
<1>2. CASE ~\E r \in Runners : Upsert(r)
  <2>1. stored' = stored
    BY <1>2 DEF Next, vars, Publish, Tick, Begin, Step, Acquire, Fetch, Finish, Fail, Crash
  <2> QED  BY <2>1, <1>n
<1> QED  BY <1>1, <1>2

\* Until then no older insights replace newer ones.
THEOREM NewerInsightsStay == Spec => InsightsNeverGoBack
BY LockInductive, InsightsStep, PTL DEF Spec, InsightsNeverGoBack

-----------------------------------------------------------------------------
(* The intake, for any numbers, limits, windows and requests in flight.    *)
(* The limiter for events remembers every pass of the window that ends     *)
(* now; the one for leads lets LeadLimit pass in each window it counts,    *)
(* and any window of that length meets two of those at most.               *)

\* What passed since the limiter for leads last started a window, and in the
\* window's length before.
ThisWindow == {h \in passed["lead"] : bucket.resetAt <= h.at + LeadWindow}
LastWindow == {h \in passed["lead"] : /\ bucket.resetAt <= h.at + 2 * LeadWindow
                                      /\ h.at + LeadWindow < bucket.resetAt}

\* What the limiters let pass is finite, and no two of it are taken for one.
PassesCount ==
  \A kind \in Kinds :
    /\ IsFiniteSet(passed[kind])
    /\ \A h \in passed[kind] : h.no < Cardinality(passed[kind])

\* The limiter for events still has every event of the last window.
HitsAreRecent == \A h \in passed["event"] : h.at + EventWindow > now => h \in hits

\* A window that is counted was started after the ones before it, and its count
\* is that of what it let pass.
BucketCounts ==
  /\ bucket.resetAt <= now + LeadWindow
  /\ bucket.count = 0 => passed["lead"] = {}
  /\ \A h \in passed["lead"] : h.at < bucket.resetAt
  /\ Cardinality(ThisWindow) <= bucket.count /\ Cardinality(LastWindow) <= LeadLimit

\* A request about to create its lead has missed each other lead with its phone
\* that is not too old to count.
SearchesRemember ==
  \A s \in Submissions :
    submission[s].at = "creating" =>
      \A l \in SamePhone(s) : l.id \in submission[s].missed \/ l.at + DedupAge < now

LimitsInv == PassesCount /\ HitsAreRecent /\ BucketCounts /\ RateLimitsHold
IntakeInv == IntakeTypeOK /\ LimitsInv /\ SearchesRemember /\ DuplicatesOnlyByRace

-----------------------------------------------------------------------------

\* A part of what passed is finite, and its size a number.
LEMMA PartsOfPassed ==
  ASSUME PassesCount, NEW kind \in Kinds, NEW T \in SUBSET passed[kind]
  PROVE  IsFiniteSet(T) /\ Cardinality(T) \in Nat
<1>1. IsFiniteSet(passed[kind])  BY DEF PassesCount
<1>2. IsFiniteSet(T)  BY <1>1, FS_Subset
<1> QED  BY <1>2, FS_CardinalityType

\* A part of another part is not larger.
LEMMA PartsAreSmaller ==
  ASSUME PassesCount, NEW kind \in Kinds, NEW T \in SUBSET passed[kind], NEW U \in SUBSET T
  PROVE  Cardinality(U) <= Cardinality(T)
<1>1. IsFiniteSet(T)  BY PartsOfPassed
<1> QED  BY <1>1, FS_Subset

\* A part of two parts is not larger than they are together.
LEMMA PartsOfTwo ==
  ASSUME PassesCount, NEW kind \in Kinds,
         NEW A \in SUBSET passed[kind], NEW B \in SUBSET passed[kind], NEW T \in SUBSET (A \cup B)
  PROVE  Cardinality(T) <= Cardinality(A) + Cardinality(B)
<1>1. /\ IsFiniteSet(A) /\ IsFiniteSet(B) /\ IsFiniteSet(T)
      /\ Cardinality(A) \in Nat /\ Cardinality(B) \in Nat /\ Cardinality(T) \in Nat
  BY PartsOfPassed
<1>2. Cardinality(A \cap B) \in Nat  BY PartsOfPassed
<1>3. Cardinality(A \cup B) = Cardinality(A) + Cardinality(B) - Cardinality(A \cap B)
  BY <1>1, FS_Union
<1>4. Cardinality(T) <= Cardinality(A \cup B)  BY PartsAreSmaller
<1> QED  BY <1>1, <1>2, <1>3, <1>4

\* One more pass is one more element.
LEMMA OneMorePass ==
  ASSUME PassesCount, NEW kind \in Kinds, NEW T \in SUBSET passed[kind]
  PROVE  /\ Pass(kind) \notin passed[kind]
         /\ Cardinality(T \cup {Pass(kind)}) = Cardinality(T) + 1
<1>1. IsFiniteSet(passed[kind]) /\ Cardinality(passed[kind]) \in Nat
  BY PartsOfPassed
<1>2. Pass(kind) \notin passed[kind]
  <2>1. Pass(kind).no = Cardinality(passed[kind])  BY DEF Pass
  <2> QED  BY <1>1, <2>1 DEF PassesCount
<1>3. IsFiniteSet(T)  BY PartsOfPassed
<1> QED  BY <1>2, <1>3, FS_AddElement

\* What is added to the passes is told apart from all of them.
LEMMA PassesStep ==
  ASSUME PassesCount, passed \in [Kinds -> SUBSET [at: 0..now, no: Nat]],
         NEW kind \in Kinds, Passes(kind)
  PROVE  PassesCount'
<1> SUFFICES ASSUME NEW k \in Kinds
             PROVE  /\ IsFiniteSet(passed'[k])
                    /\ \A h \in passed'[k] : h.no < Cardinality(passed'[k])
  BY DEF PassesCount
<1>1. CASE k # kind
  <2>1. passed'[k] = passed[k]  BY <1>1 DEF Passes
  <2> QED  BY <2>1 DEF PassesCount
<1>2. CASE k = kind
  <2>1. passed'[k] = passed[k] \cup {Pass(k)}  BY <1>2 DEF Passes
  <2>2. IsFiniteSet(passed[k]) /\ Cardinality(passed[k]) \in Nat  BY PartsOfPassed
  <2>3. Cardinality(passed'[k]) = Cardinality(passed[k]) + 1  BY <2>1, OneMorePass
  <2>4. IsFiniteSet(passed'[k])  BY <2>1, <2>2, FS_AddElement
  <2>5. Pass(k).no = Cardinality(passed[k])  BY DEF Pass
  <2>6. \A h \in passed[k] : h.no \in Nat /\ h.no < Cardinality(passed[k])
    BY DEF PassesCount
  <2> QED  BY <2>1, <2>2, <2>3, <2>4, <2>5, <2>6
<1> QED  BY <1>1, <1>2

-----------------------------------------------------------------------------
(* The types.                                                              *)

\* What a request may be.
Asked == {Resting} \cup
  [at: {"verifying", "searching", "creating"}, phone: Numbers \X Formats,
   missed: SUBSET (1..leadsMade)]

LEMMA IntakeTypeStep ==
  ASSUME IntakeTypeOK, PassesCount, [IntakeNext]_intakeVars
  PROVE  IntakeTypeOK'
<1> USE IntakeBounds DEF IntakeTypeOK, Kinds
<1>1. CASE UNCHANGED intakeVars  BY <1>1 DEF intakeVars
<1>2. CASE SendEvent
  <2>1. Pass("event") \in [at: 0..now, no: Nat]
    BY PartsOfPassed DEF Pass
  <2>2. /\ passed' = [passed EXCEPT !["event"] = @ \cup {Pass("event")}]
        /\ hits' = Recent \cup {Pass("event")} /\ Recent \subseteq hits
        /\ UNCHANGED <<now, bucket, submission, leads, leadsMade>>
    BY <1>2 DEF SendEvent, Passes, Recent
  <2>3. /\ passed' \in [Kinds -> SUBSET [at: 0..now, no: Nat]]
        /\ hits' \subseteq passed'["event"]
    BY <2>1, <2>2
  <2>4. Cardinality(hits') = Cardinality(Recent) + 1  BY <2>2, OneMorePass
  <2>5. Cardinality(Recent) \in Nat /\ Cardinality(Recent) < EventLimit
    BY <1>2, <2>2, PartsOfPassed DEF SendEvent
  <2>6. Cardinality(hits') <= EventLimit  BY <2>4, <2>5
  <2> QED  BY <2>2, <2>3, <2>6
<1>3. CASE ClockTicks
  BY <1>3 DEF ClockTicks
<1>4. CASE RestartIntake
  <2>1. Cardinality({}) = 0  BY FS_EmptySet
  <2> QED  BY <1>4, <2>1 DEF RestartIntake, NoBucket, NothingPassed, Resting
<1>5. ASSUME NEW s \in Submissions, Verify(s) \/ FindDuplicate(s) \/ FailSubmission(s)
      PROVE  IntakeTypeOK'
  <2>1. submission \in [Submissions -> Asked]  BY DEF Asked
  <2>2. /\ UNCHANGED <<now, bucket, hits, leads, leadsMade, passed>>
        /\ submission[s] # Resting
        /\ Rests(s) \/ Reaches(s, "searching") \/ Reaches(s, "creating")
    BY <1>5 DEF Verify, FindDuplicate, FailSubmission, Resting
  <2>3. submission[s] \in [at: {"verifying", "searching", "creating"},
                           phone: Numbers \X Formats, missed: SUBSET (1..leadsMade)]
    BY <2>2
  <2>4. CASE Rests(s)
    <3>1. submission' \in [Submissions -> Asked]  BY <2>1, <2>4 DEF Rests, Asked
    <3> QED  BY <2>2, <3>1 DEF Asked
  <2>5. ASSUME NEW stage \in {"searching", "creating"}, Reaches(s, stage) PROVE IntakeTypeOK'
    <3>1. [submission[s] EXCEPT !.at = stage] \in Asked  BY <2>3 DEF Asked
    <3>2. submission' = [submission EXCEPT ![s] = [submission[s] EXCEPT !.at = stage]]
      BY <2>5 DEF Reaches
    <3>3. submission' \in [Submissions -> Asked]  BY <2>1, <3>1, <3>2
    <3> QED  BY <2>2, <3>3 DEF Asked
  <2> QED  BY <2>2, <2>4, <2>5
<1>6. ASSUME NEW s \in Submissions, NEW phone \in Numbers \X Formats, Submit(s, phone)
      PROVE  IntakeTypeOK'
  <2>1. Pass("lead") \in [at: 0..now, no: Nat]
    BY PartsOfPassed DEF Pass
  <2>2. /\ passed' = [passed EXCEPT !["lead"] = @ \cup {Pass("lead")}]
        /\ UNCHANGED <<now, hits, leads, leadsMade>>
    BY <1>6 DEF Submit, Passes
  <2>3. /\ passed' \in [Kinds -> SUBSET [at: 0..now, no: Nat]]
        /\ passed'["event"] = passed["event"]
    BY <2>1, <2>2
  <2>4. bucket' \in [count: 0..LeadLimit, resetAt: 0..(MaxTime + LeadWindow)]
    <3>1. /\ bucket.count \in 0..LeadLimit /\ LeadLimit \in Nat \ {0}
          /\ now + LeadWindow \in 0..(MaxTime + LeadWindow)
      OBVIOUS
    <3>2. CASE Expired(bucket)
      BY <1>6, <3>1, <3>2 DEF Submit
    <3>3. CASE ~Expired(bucket)
      <4>1. bucket' = [bucket EXCEPT !.count = @ + 1] /\ bucket.count < LeadLimit
        BY <1>6, <3>3 DEF Submit, BelowLimit
      <4>2. bucket.count + 1 \in 0..LeadLimit  BY <3>1, <4>1
      <4> QED  BY <4>1, <4>2
    <3> QED  BY <3>2, <3>3
  <2>5. submission' \in [Submissions -> Asked]
    <3>1. PICK stage \in {"verifying", "searching"} :
            submission' = [submission EXCEPT
              ![s] = [at |-> stage, phone |-> phone, missed |-> {}]]
      BY <1>6 DEF Submit
    <3>2. [at |-> stage, phone |-> phone, missed |-> {}] \in Asked
      BY DEF Asked
    <3>3. submission \in [Submissions -> Asked]  BY DEF Asked
    <3> QED  BY <3>1, <3>2, <3>3
  <2> QED  BY <2>2, <2>3, <2>4, <2>5 DEF Asked
<1>7. ASSUME NEW s \in Submissions, CreateLead(s) PROVE IntakeTypeOK'
  <2>1. /\ leadsMade' = leadsMade + 1 /\ leadsMade' \in 0..MaxLeads
        /\ UNCHANGED <<now, bucket, hits, passed>>
    BY <1>7 DEF CreateLead
  <2>2. leadsMade \in Nat /\ 1..leadsMade \subseteq 1..leadsMade' /\ leadsMade' \in 1..leadsMade'
    BY <2>1
  <2>3. submission[s].phone \in Numbers \X Formats /\ submission[s].missed \in SUBSET (1..leadsMade)
    BY <1>7 DEF CreateLead, Resting
  <2>4. leads' = leads \cup
          {[id |-> leadsMade', phone |-> Normalized(submission[s].phone), at |-> now,
            status |-> New, missed |-> submission[s].missed]}
    BY <1>7 DEF CreateLead
  <2>5. \A l \in leads' : l \in [id: 1..leadsMade', phone: Numbers \X {"digits"}, at: 0..now,
                                 status: Statuses, missed: SUBSET (1..leadsMade')]
    <3>1. Normalized(submission[s].phone) \in Numbers \X {"digits"}
      BY <2>3 DEF Normalized
    <3> QED  BY <2>2, <2>3, <2>4, <3>1
  <2>6. ASSUME NEW q \in Submissions PROVE submission'[q] \in Asked'
    <3>1. CASE q = s  BY <1>7, <3>1 DEF CreateLead, Asked
    <3>2. CASE q # s /\ submission[q].at = "creating"
      <4>1. submission'[q] = [submission[q] EXCEPT !.missed = @ \cup {leadsMade'}]
        BY <1>7, <3>2 DEF CreateLead
      <4>2. submission[q] \in [at: {"verifying", "searching", "creating"},
                               phone: Numbers \X Formats, missed: SUBSET (1..leadsMade)]
        BY <3>2 DEF Resting
      <4> QED  BY <2>2, <4>1, <4>2 DEF Asked
    <3>3. CASE q # s /\ submission[q].at # "creating"
      <4>1. submission'[q] = submission[q]  BY <1>7, <3>3 DEF CreateLead
      <4> QED  BY <2>2, <4>1 DEF Asked
    <3> QED  BY <3>1, <3>2, <3>3
  <2>7. DOMAIN submission' = Submissions /\ submission' = [q \in Submissions |-> submission'[q]]
    BY <1>7 DEF CreateLead
  <2> QED  BY <2>1, <2>5, <2>6, <2>7 DEF Asked
<1>8. ASSUME NEW l \in leads, RemoveLead(l) PROVE IntakeTypeOK'
  BY <1>8 DEF RemoveLead
<1>9. ASSUME NEW l \in leads, NEW status \in Statuses \ {l.status}, UpdateLead(l, status)
      PROVE  IntakeTypeOK'
  BY <1>9 DEF UpdateLead
<1> QED  BY <1>1, <1>2, <1>3, <1>4, <1>5, <1>6, <1>7, <1>8, <1>9 DEF IntakeNext

-----------------------------------------------------------------------------
(* The limiters.                                                           *)

\* An event passes: those of a window it falls into are all remembered.
LEMMA EventKeepsLimits ==
  ASSUME IntakeTypeOK, LimitsInv, SendEvent
  PROVE  LimitsInv'
<1> USE IntakeBounds DEF Kinds
<1>1. /\ passed' = [passed EXCEPT !["event"] = @ \cup {Pass("event")}]
      /\ hits' = Recent \cup {Pass("event")} /\ Recent \subseteq hits
      /\ Recent \in SUBSET passed["event"]
      /\ UNCHANGED <<now, bucket>>
  BY DEF SendEvent, Passes, Recent, IntakeTypeOK
<1>2. /\ passed'["event"] = passed["event"] \cup {Pass("event")}
      /\ passed'["lead"] = passed["lead"]
      /\ Pass("event").at = now /\ now \in Nat
      /\ \A h \in passed["event"] : h.at \in 0..now
  BY <1>1 DEF IntakeTypeOK, Pass
<1>3. PassesCount'
  <2>1. Passes("event")  BY DEF SendEvent
  <2> QED  BY <2>1, PassesStep DEF LimitsInv, IntakeTypeOK
<1>4. HitsAreRecent'
  BY <1>1, <1>2 DEF HitsAreRecent, LimitsInv, Recent
<1>5. BucketCounts'
  BY <1>1, <1>2 DEF BucketCounts, LimitsInv, ThisWindow, LastWindow
<1>6. ASSUME NEW t \in 0..MaxTime
      PROVE  Cardinality(PassedWithin("event", t, EventWindow)') <= EventLimit
  <2> DEFINE W == PassedWithin("event", t, EventWindow)
  <2>1. W \in SUBSET passed["event"] /\ W' \in SUBSET passed'["event"]
    BY DEF PassedWithin
  <2>2. CASE ~(t <= now /\ now < t + EventWindow)
    <3>1. W' = W  BY <1>2, <2>2 DEF PassedWithin
    <3> QED  BY <3>1 DEF LimitsInv, RateLimitsHold
  <2>3. CASE t <= now /\ now < t + EventWindow
    <3>1. W \in SUBSET Recent
      BY <1>2, <2>3 DEF PassedWithin, Recent, LimitsInv, HitsAreRecent
    <3>2. W' = W \cup {Pass("event")}  BY <1>2, <2>3 DEF PassedWithin
    <3>3. Cardinality(W') = Cardinality(W) + 1  BY <2>1, <3>2, OneMorePass DEF LimitsInv
    <3>4. Cardinality(W) <= Cardinality(Recent)
      BY <1>1, <3>1, PartsAreSmaller DEF LimitsInv
    <3>5. Cardinality(W) \in Nat /\ Cardinality(Recent) \in Nat
      BY <1>1, <2>1, PartsOfPassed DEF LimitsInv
    <3>6. Cardinality(Recent) < EventLimit  BY DEF SendEvent
    <3> QED  BY <3>3, <3>4, <3>5, <3>6
  <2> QED  BY <2>2, <2>3
<1>7. ASSUME NEW t \in 0..MaxTime
      PROVE  Cardinality(PassedWithin("lead", t, LeadWindow)') <= 2 * LeadLimit
  <2>1. PassedWithin("lead", t, LeadWindow)' = PassedWithin("lead", t, LeadWindow)
    BY <1>2 DEF PassedWithin
  <2> QED  BY <2>1 DEF LimitsInv, RateLimitsHold
<1>8. RateLimitsHold'  BY <1>6, <1>7 DEF RateLimitsHold
<1> QED  BY <1>3, <1>4, <1>5, <1>8 DEF LimitsInv

\* A request passes: in the window that is counted it fits, and whatever window
\* it falls into began no earlier than the one before.
LEMMA LeadKeepsLimits ==
  ASSUME IntakeTypeOK, LimitsInv, NEW s \in Submissions, NEW phone, Submit(s, phone)
  PROVE  LimitsInv'
<1> USE IntakeBounds DEF Kinds
<1> DEFINE new == Pass("lead")
<1>1. /\ passed' = [passed EXCEPT !["lead"] = @ \cup {new}]
      /\ UNCHANGED <<now, hits>>
  BY DEF Submit, Passes
<1>2. /\ passed'["lead"] = passed["lead"] \cup {new}
      /\ passed'["event"] = passed["event"]
      /\ new.at = now /\ now \in Nat
      /\ \A h \in passed["lead"] : h.at \in 0..now
  BY <1>1 DEF IntakeTypeOK, Pass
<1>3. PassesCount'
  <2>1. Passes("lead")  BY DEF Submit
  <2> QED  BY <2>1, PassesStep DEF LimitsInv, IntakeTypeOK
<1>4. HitsAreRecent'  BY <1>1, <1>2 DEF HitsAreRecent, LimitsInv
<1>5. /\ bucket.count \in Nat /\ bucket.count <= LeadLimit /\ bucket.resetAt \in Nat
      /\ LeadLimit \in Nat \ {0} /\ LeadWindow \in Nat \ {0}
  BY DEF IntakeTypeOK
<1>6. /\ ThisWindow \in SUBSET passed["lead"] /\ ThisWindow' \in SUBSET passed'["lead"]
      /\ Cardinality(ThisWindow) \in Nat
      /\ Cardinality(ThisWindow) <= bucket.count
      /\ LastWindow \in SUBSET passed["lead"] /\ Cardinality(LastWindow) \in Nat
      /\ Cardinality(LastWindow) <= LeadLimit
  BY PartsOfPassed DEF ThisWindow, LastWindow, LimitsInv, BucketCounts
<1>7. /\ bucket.resetAt <= now + LeadWindow
      /\ \A h \in passed["lead"] : h.at < bucket.resetAt
      /\ bucket.count = 0 => passed["lead"] = {}
  BY DEF LimitsInv, BucketCounts
<1>8. /\ BucketCounts'
      /\ \A t \in 0..MaxTime :
           Cardinality(PassedWithin("lead", t, LeadWindow)') <= 2 * LeadLimit
  <2>1. CASE Expired(bucket)
    <3>1. bucket'.count = 1 /\ bucket'.resetAt = now + LeadWindow
      BY <2>1 DEF Submit
    <3>2. \A h \in passed["lead"] : h.at < now
      BY <1>2, <1>5, <1>7, <2>1 DEF Expired
    <3>3. ThisWindow' = {new}
      <4>1. ThisWindow' = {h \in passed["lead"] \cup {new} : now + LeadWindow <= h.at + LeadWindow}
        BY <1>1, <1>2, <3>1 DEF ThisWindow
      <4>2. \A h \in passed["lead"] : ~(now + LeadWindow <= h.at + LeadWindow)
        BY <1>2, <1>5, <3>2
      <4>3. now + LeadWindow <= new.at + LeadWindow  BY <1>2, <1>5
      <4>4. ThisWindow' \subseteq {new}  BY <4>1, <4>2
      <4>5. new \in ThisWindow'  BY <4>1, <4>3
      <4> QED  BY <4>4, <4>5
    <3>4. Cardinality(ThisWindow') = 1  BY <3>3, FS_Singleton
    <3>5. BucketCounts'
      <4>1. LastWindow' \in SUBSET ThisWindow
        <5>1. ASSUME NEW h \in LastWindow' PROVE h \in ThisWindow
          <6>1. /\ h \in passed'["lead"] /\ now + LeadWindow <= h.at + 2 * LeadWindow
                /\ h.at + LeadWindow < now + LeadWindow
            BY <1>1, <3>1 DEF LastWindow
          <6>2. h \in passed["lead"] /\ h.at \in Nat  BY <1>2, <1>5, <6>1
          <6>3. bucket.resetAt <= now  BY <1>7, <2>1, <6>2 DEF Expired
          <6> QED  BY <1>2, <1>5, <6>1, <6>2, <6>3 DEF ThisWindow
        <5> QED  BY <5>1
      <4>2. Cardinality(LastWindow') <= Cardinality(ThisWindow)
        BY <1>6, <4>1, PartsAreSmaller DEF LimitsInv
      <4>3. Cardinality(LastWindow') \in Nat  BY <1>6, <4>1, PartsOfPassed DEF LimitsInv
      <4>4. Cardinality(LastWindow') <= LeadLimit  BY <1>5, <1>6, <4>2, <4>3
      <4> QED  BY <1>1, <1>2, <1>5, <3>1, <3>2, <3>4, <4>4 DEF BucketCounts
    <3>6. ASSUME NEW t \in 0..MaxTime
          PROVE  Cardinality(PassedWithin("lead", t, LeadWindow)') <= 2 * LeadLimit
      <4> DEFINE W == PassedWithin("lead", t, LeadWindow)
      <4>1. W \in SUBSET passed["lead"] /\ W' \in SUBSET passed'["lead"]
        BY DEF PassedWithin
      <4>2. CASE ~(t <= now /\ now < t + LeadWindow)
        <5>1. W' = W  BY <1>2, <4>2 DEF PassedWithin
        <5> QED  BY <5>1 DEF LimitsInv, RateLimitsHold
      <4>3. CASE t <= now /\ now < t + LeadWindow
        <5>1. W \in SUBSET ThisWindow
          <6> SUFFICES ASSUME NEW h \in W PROVE h \in ThisWindow
            OBVIOUS
          <6>1. h \in passed["lead"] /\ h.at \in Nat /\ t <= h.at /\ t \in Nat
            BY <1>2, <1>5 DEF PassedWithin
          <6>2. bucket.resetAt <= now  BY <1>7, <2>1, <6>1 DEF Expired
          <6> QED  BY <1>2, <1>5, <4>3, <6>1, <6>2 DEF ThisWindow
        <5>2. W' = W \cup {new}  BY <1>2, <4>3 DEF PassedWithin
        <5>3. Cardinality(W') = Cardinality(W) + 1
          BY <4>1, <5>2, OneMorePass DEF LimitsInv
        <5>4. Cardinality(W) <= Cardinality(ThisWindow)
          BY <1>6, <5>1, PartsAreSmaller DEF LimitsInv
        <5>5. Cardinality(W) \in Nat  BY <4>1, PartsOfPassed DEF LimitsInv
        <5> QED  BY <1>5, <1>6, <5>3, <5>4, <5>5
      <4> QED  BY <4>2, <4>3
    <3> QED  BY <3>5, <3>6
  <2>2. CASE ~Expired(bucket)
    <3>1. /\ bucket'.count = bucket.count + 1 /\ bucket'.resetAt = bucket.resetAt
          /\ bucket.count < LeadLimit
      BY <2>2 DEF Submit, BelowLimit, IntakeTypeOK
    <3>2. bucket.count > 0 /\ now < bucket.resetAt
      BY <1>2, <1>5, <2>2 DEF Expired
    <3>3. ThisWindow' = ThisWindow \cup {new}
      BY <1>2, <1>5, <1>7, <3>1 DEF ThisWindow
    <3>4. Cardinality(ThisWindow') = Cardinality(ThisWindow) + 1
      BY <1>6, <3>3, OneMorePass DEF LimitsInv
    <3>5. BucketCounts'
      <4>1. LastWindow' = LastWindow
        BY <1>2, <1>5, <1>7, <3>1 DEF LastWindow
      <4> QED  BY <1>1, <1>2, <1>5, <1>6, <1>7, <3>1, <3>2, <3>4, <4>1 DEF BucketCounts
    <3>6. ASSUME NEW t \in 0..MaxTime
          PROVE  Cardinality(PassedWithin("lead", t, LeadWindow)') <= 2 * LeadLimit
      <4> DEFINE W == PassedWithin("lead", t, LeadWindow)
      <4>1. W \in SUBSET passed["lead"] /\ W' \in SUBSET passed'["lead"]
        BY DEF PassedWithin
      <4>2. CASE ~(t <= now /\ now < t + LeadWindow)
        <5>1. W' = W  BY <1>2, <4>2 DEF PassedWithin
        <5> QED  BY <5>1 DEF LimitsInv, RateLimitsHold
      <4>3. CASE t <= now /\ now < t + LeadWindow
        <5>1. W \in SUBSET (ThisWindow \cup LastWindow)
          BY <1>2, <1>5, <1>7, <3>2, <4>3 DEF PassedWithin, ThisWindow, LastWindow
        <5>2. W' = W \cup {new}  BY <1>2, <4>3 DEF PassedWithin
        <5>3. Cardinality(W') = Cardinality(W) + 1
          BY <4>1, <5>2, OneMorePass DEF LimitsInv
        <5>4. Cardinality(W) <= Cardinality(ThisWindow) + Cardinality(LastWindow)
          BY <1>6, <5>1, PartsOfTwo DEF LimitsInv
        <5>5. Cardinality(W) \in Nat  BY <4>1, PartsOfPassed DEF LimitsInv
        <5> QED  BY <1>5, <1>6, <3>1, <5>3, <5>4, <5>5
      <4> QED  BY <4>2, <4>3
    <3> QED  BY <3>5, <3>6
  <2> QED  BY <2>1, <2>2
<1>9. ASSUME NEW t \in 0..MaxTime
      PROVE  Cardinality(PassedWithin("event", t, EventWindow)') <= EventLimit
  <2>1. PassedWithin("event", t, EventWindow)' = PassedWithin("event", t, EventWindow)
    BY <1>2 DEF PassedWithin
  <2> QED  BY <2>1 DEF LimitsInv, RateLimitsHold
<1>10. RateLimitsHold'  BY <1>8, <1>9 DEF RateLimitsHold
<1> QED  BY <1>3, <1>4, <1>8, <1>10 DEF LimitsInv

\* Every step leaves the limits as they should be.
LEMMA LimitsStep ==
  ASSUME IntakeTypeOK, LimitsInv, [IntakeNext]_intakeVars
  PROVE  LimitsInv'
<1> USE DEF LimitsInv
<1>1. ASSUME UNCHANGED <<now, bucket, hits, passed>> PROVE LimitsInv'
  BY <1>1 DEF PassesCount, HitsAreRecent, BucketCounts, ThisWindow, LastWindow,
              RateLimitsHold, PassedWithin
<1>2. CASE UNCHANGED intakeVars  BY <1>1, <1>2 DEF intakeVars
<1>3. CASE SendEvent  BY <1>3, EventKeepsLimits
<1>4. CASE ClockTicks
  <2>1. now' = now + 1 /\ UNCHANGED <<bucket, hits, passed>> /\ now \in Nat
        /\ \A h \in passed["event"] : h.at \in Nat
    BY <1>4 DEF ClockTicks, IntakeTypeOK, Kinds
  <2>2. LeadWindow \in Nat /\ EventWindow \in Nat /\ bucket.resetAt \in Nat
    BY IntakeBounds DEF IntakeTypeOK
  <2>3. PassesCount' /\ RateLimitsHold'
    BY <2>1 DEF PassesCount, RateLimitsHold, PassedWithin
  <2>4. HitsAreRecent'  BY <2>1, <2>2 DEF HitsAreRecent
  <2>5. BucketCounts'
    BY <2>1, <2>2 DEF BucketCounts, ThisWindow, LastWindow
  <2> QED  BY <2>3, <2>4, <2>5
<1>5. CASE RestartIntake
  <2>1. /\ bucket' = NoBucket /\ passed' = NothingPassed /\ UNCHANGED now
    BY <1>5 DEF RestartIntake
  <2>2. now \in Nat /\ \A k \in Kinds : passed'[k] = {}
    BY <2>1 DEF NothingPassed, IntakeTypeOK
  <2>3. PassesCount' /\ HitsAreRecent'
    BY <2>2, FS_EmptySet DEF PassesCount, HitsAreRecent, Kinds
  <2>4. ThisWindow' = {} /\ LastWindow' = {}
    BY <2>2 DEF ThisWindow, LastWindow, Kinds
  <2>5. BucketCounts'
    BY <2>1, <2>2, <2>4, FS_EmptySet, IntakeBounds DEF BucketCounts, NoBucket, Kinds
  <2>6. \A k \in Kinds : \A t, w : PassedWithin(k, t, w)' = {}
    BY <2>2 DEF PassedWithin
  <2>7. RateLimitsHold'
    <3>1. EventLimit \in Nat /\ LeadLimit \in Nat /\ 0 <= 2 * LeadLimit  BY IntakeBounds
    <3>2. Cardinality({}) = 0  BY FS_EmptySet
    <3>3. \A t : /\ Cardinality(PassedWithin("event", t, EventWindow)') = 0
                 /\ Cardinality(PassedWithin("lead", t, LeadWindow)') = 0
      BY <2>6, <3>2 DEF Kinds
    <3> QED  BY <3>1, <3>3 DEF RateLimitsHold
  <2> QED  BY <2>3, <2>5, <2>7
<1>6. ASSUME NEW s \in Submissions, NEW phone \in Numbers \X Formats, Submit(s, phone)
      PROVE  LimitsInv'
  BY <1>6, LeadKeepsLimits
<1>7. ASSUME NEW s \in Submissions,
             Verify(s) \/ FindDuplicate(s) \/ CreateLead(s) \/ FailSubmission(s)
      PROVE  LimitsInv'
  <2>1. UNCHANGED <<now, bucket, hits, passed>>
    BY <1>7 DEF Verify, FindDuplicate, CreateLead, FailSubmission
  <2> QED  BY <1>1, <2>1
<1>8. ASSUME NEW l \in leads, RemoveLead(l) \/ \E status \in Statuses : UpdateLead(l, status)
      PROVE  LimitsInv'
  <2>1. UNCHANGED <<now, bucket, hits, passed>>
    BY <1>8 DEF RemoveLead, UpdateLead
  <2> QED  BY <1>1, <2>1
<1> QED  BY <1>2, <1>3, <1>4, <1>5, <1>6, <1>7, <1>8 DEF IntakeNext

-----------------------------------------------------------------------------
(* The duplicates.                                                         *)

\* Every step leaves what the searches found, and the duplicates, explained.
LEMMA DuplicatesStep ==
  ASSUME IntakeTypeOK, SearchesRemember, DuplicatesOnlyByRace, [IntakeNext]_intakeVars
  PROVE  SearchesRemember' /\ DuplicatesOnlyByRace'
<1> USE IntakeBounds
<1> DEFINE Remembers(s) ==
      submission[s].at = "creating" =>
        \A l \in SamePhone(s) : l.id \in submission[s].missed \/ l.at + DedupAge < now
<1>1. /\ now \in Nat /\ DedupAge \in Nat /\ leadsMade \in Nat
      /\ \A l \in leads : l \in [id: 1..leadsMade, phone: Numbers \X {"digits"}, at: 0..now,
                                 status: Statuses, missed: SUBSET (1..leadsMade)]
      /\ \A s \in Submissions : Remembers(s)
  BY DEF IntakeTypeOK, SearchesRemember
<1>2. ASSUME UNCHANGED <<now, leads>>,
             \A s \in Submissions : submission'[s] = submission[s] \/ submission'[s].at # "creating"
      PROVE  SearchesRemember' /\ DuplicatesOnlyByRace'
  BY <1>1, <1>2 DEF SearchesRemember, DuplicatesOnlyByRace, SamePhone
<1>3. CASE UNCHANGED intakeVars  BY <1>2, <1>3 DEF intakeVars
<1>4. CASE SendEvent  BY <1>2, <1>4 DEF SendEvent
<1>5. CASE ClockTicks
  <2>1. now' = now + 1 /\ UNCHANGED <<submission, leads>>  BY <1>5 DEF ClockTicks
  <2>2. \A l \in leads : l.at \in Nat  BY <1>1
  <2>3. SearchesRemember'  BY <1>1, <2>1, <2>2 DEF SearchesRemember, SamePhone
  <2> QED  BY <2>1, <2>3 DEF DuplicatesOnlyByRace
<1>6. CASE RestartIntake
  BY <1>2, <1>6 DEF RestartIntake, Resting
<1>7. ASSUME NEW s \in Submissions, NEW phone \in Numbers \X Formats, Submit(s, phone)
      PROVE  SearchesRemember' /\ DuplicatesOnlyByRace'
  <2>1. \A q \in Submissions : submission'[q] = submission[q] \/ submission'[q].at # "creating"
    BY <1>7 DEF Submit, IntakeTypeOK
  <2> QED  BY <1>2, <1>7, <2>1 DEF Submit
<1>8. ASSUME NEW s \in Submissions, Verify(s) \/ FailSubmission(s)
      PROVE  SearchesRemember' /\ DuplicatesOnlyByRace'
  <2>1. UNCHANGED <<now, leads>> /\ (Rests(s) \/ Reaches(s, "searching"))
    BY <1>8 DEF Verify, FailSubmission
  <2>2. \A q \in Submissions : submission'[q] = submission[q] \/ submission'[q].at # "creating"
    BY <2>1 DEF Rests, Reaches, Resting, IntakeTypeOK
  <2> QED  BY <1>2, <2>1, <2>2
<1>9. ASSUME NEW s \in Submissions, FindDuplicate(s)
      PROVE  SearchesRemember' /\ DuplicatesOnlyByRace'
  <2>1. UNCHANGED <<now, leads>>  BY <1>9 DEF FindDuplicate
  <2>2. CASE Rests(s)
    <3>1. \A q \in Submissions : submission'[q] = submission[q] \/ submission'[q].at # "creating"
      BY <2>2 DEF Rests, Resting, IntakeTypeOK
    <3> QED  BY <1>2, <2>1, <3>1
  <2>3. CASE Reaches(s, "creating") /\ \A l \in SamePhone(s) : ~(l.at + DedupAge >= now)
    <3>1. /\ \A q \in Submissions \ {s} : submission'[q] = submission[q]
          /\ submission'[s].phone = submission[s].phone
      BY <2>3 DEF Reaches, IntakeTypeOK
    <3>2. SamePhone(s)' = SamePhone(s)  BY <2>1, <3>1 DEF SamePhone
    <3>3. \A l \in SamePhone(s) : l.at + DedupAge < now
      BY <1>1, <2>3 DEF SamePhone
    <3>4. SearchesRemember'
      BY <1>1, <2>1, <3>1, <3>2, <3>3 DEF SearchesRemember, SamePhone
    <3> QED  BY <2>1, <3>4 DEF DuplicatesOnlyByRace
  <2> QED  BY <1>9, <2>2, <2>3 DEF FindDuplicate
<1>10. ASSUME NEW s \in Submissions, CreateLead(s)
       PROVE  SearchesRemember' /\ DuplicatesOnlyByRace'
  <2> DEFINE new == [id |-> leadsMade', phone |-> Normalized(submission[s].phone), at |-> now,
                     status |-> New, missed |-> submission[s].missed]
  <2>1. /\ submission[s].at = "creating"
        /\ leadsMade' = leadsMade + 1 /\ leads' = leads \cup {new} /\ UNCHANGED now
    BY <1>10 DEF CreateLead
  <2>2. /\ new.id = leadsMade + 1 /\ new.phone = Normalized(submission[s].phone)
        /\ new.at = now /\ new.missed = submission[s].missed
    BY <2>1
  <2> HIDE DEF new
  <2>3. ASSUME NEW q \in Submissions PROVE Remembers(q)'
    <3>1. CASE q = s
      <4>1. submission'[q].at = "resting"  BY <1>10, <3>1 DEF CreateLead, Resting
      <4> QED  BY <4>1
    <3>2. CASE q # s /\ submission[q].at = "creating"
      <4>1. submission'[q] = [submission[q] EXCEPT !.missed = @ \cup {leadsMade'}]
        BY <1>10, <3>2 DEF CreateLead
      <4>2. submission[q] \in [at: {"verifying", "searching", "creating"},
                               phone: Numbers \X Formats, missed: SUBSET (1..leadsMade)]
        BY <3>2 DEF IntakeTypeOK, Resting
      <4>3. /\ submission'[q].phone = submission[q].phone
            /\ submission'[q].missed = submission[q].missed \cup {leadsMade + 1}
        BY <2>1, <4>1, <4>2
      <4>4. SamePhone(q)' \subseteq SamePhone(q) \cup {new}
        BY <2>1, <4>3 DEF SamePhone
      <4> QED  BY <1>1, <2>1, <2>2, <3>2, <4>3, <4>4
    <3>3. CASE q # s /\ submission[q].at # "creating"
      <4>1. submission'[q] = submission[q]  BY <1>10, <3>3 DEF CreateLead
      <4> QED  BY <3>3, <4>1
    <3> QED  BY <3>1, <3>2, <3>3
  <2>4. SearchesRemember'  BY <2>3 DEF SearchesRemember
  <2>5. submission[s].phone \in Numbers \X Formats
    BY <2>1 DEF IntakeTypeOK, Resting
  <2>6. ASSUME NEW a \in leads', NEW b \in leads',
               a.id < b.id, a.phone[1] = b.phone[1], b.at <= a.at + DedupAge
        PROVE  a.id \in b.missed
    <3>1. CASE a \in leads /\ b \in leads
      BY <2>6, <3>1 DEF DuplicatesOnlyByRace
    <3>2. CASE a = new
      <4>1. b.id <= leadsMade + 1 /\ b.id \in Nat  BY <1>1, <2>1, <2>2
      <4> QED  BY <1>1, <2>2, <2>6, <3>2, <4>1
    <3>3. CASE a \in leads /\ b = new
      <4>1. a.phone \in Numbers \X {"digits"} /\ a.at \in Nat  BY <1>1, <3>3
      <4>2. a.phone = Normalized(submission[s].phone)
        BY <2>2, <2>5, <2>6, <3>3, <4>1 DEF Normalized
      <4>3. a \in SamePhone(s)  BY <3>3, <4>2 DEF SamePhone
      <4>4. ~(a.at + DedupAge < now)  BY <1>1, <2>2, <2>6, <3>3, <4>1
      <4>5. a.id \in submission[s].missed  BY <1>1, <2>1, <4>3, <4>4
      <4> QED  BY <2>2, <3>3, <4>5
    <3> QED  BY <2>1, <3>1, <3>2, <3>3
  <2> QED  BY <2>4, <2>6 DEF DuplicatesOnlyByRace
<1>11. ASSUME NEW l \in leads, RemoveLead(l)
       PROVE  SearchesRemember' /\ DuplicatesOnlyByRace'
  <2>1. leads' \subseteq leads /\ UNCHANGED <<now, submission>>
    BY <1>11 DEF RemoveLead
  <2> QED  BY <1>1, <2>1 DEF SearchesRemember, DuplicatesOnlyByRace, SamePhone
<1>12. ASSUME NEW l \in leads, NEW status \in Statuses, UpdateLead(l, status)
       PROVE  SearchesRemember' /\ DuplicatesOnlyByRace'
  <2>1. leads' = (leads \ {l}) \cup {[l EXCEPT !.status = status]}
        /\ UNCHANGED <<now, submission>>
    BY <1>12 DEF UpdateLead
  <2>2. ASSUME NEW k \in leads'
        PROVE  \E m \in leads : /\ k.id = m.id /\ k.phone = m.phone /\ k.at = m.at
                                /\ k.missed = m.missed
    <3>1. CASE k \in leads  BY <3>1
    <3>2. CASE k = [l EXCEPT !.status = status]
      <4>1. l \in [id: 1..leadsMade, phone: Numbers \X {"digits"}, at: 0..now,
                   status: Statuses, missed: SUBSET (1..leadsMade)]
        BY <1>1
      <4>2. k.id = l.id /\ k.phone = l.phone /\ k.at = l.at /\ k.missed = l.missed
        BY <3>2, <4>1
      <4> QED  BY <4>2
    <3> QED  BY <2>1, <3>1, <3>2
  <2>3. SearchesRemember'
    <3> SUFFICES ASSUME NEW s \in Submissions, submission[s].at = "creating",
                        NEW k \in SamePhone(s)'
                 PROVE  k.id \in submission[s].missed \/ k.at + DedupAge < now
      BY <2>1 DEF SearchesRemember
    <3>1. k \in leads' /\ k.phone = Normalized(submission[s].phone)
      BY <2>1 DEF SamePhone
    <3>2. PICK m \in leads : k.id = m.id /\ k.phone = m.phone /\ k.at = m.at
      BY <2>2, <3>1
    <3> QED  BY <3>1, <3>2 DEF SearchesRemember, SamePhone
  <2>4. DuplicatesOnlyByRace'
    <3> SUFFICES ASSUME NEW a \in leads', NEW b \in leads',
                        a.id < b.id, a.phone[1] = b.phone[1], b.at <= a.at + DedupAge
                 PROVE  a.id \in b.missed
      BY DEF DuplicatesOnlyByRace
    <3>1. PICK m \in leads : a.id = m.id /\ a.phone = m.phone /\ a.at = m.at  BY <2>2
    <3>2. PICK n \in leads :
            b.id = n.id /\ b.phone = n.phone /\ b.at = n.at /\ b.missed = n.missed
      BY <2>2
    <3> QED  BY <3>1, <3>2 DEF DuplicatesOnlyByRace
  <2> QED  BY <2>3, <2>4
<1> QED
  BY <1>3, <1>4, <1>5, <1>6, <1>7, <1>8, <1>9, <1>10, <1>11, <1>12 DEF IntakeNext

-----------------------------------------------------------------------------

\* LeadsService, MarketingService.collect and their rate limiters: types, limits
\* and duplicates are as IntakeInv says, for any addresses' limits and windows.
THEOREM IntakeInductive == IntakeSpec => []IntakeInv
<1>1. IntakeInit => IntakeInv
  <2> SUFFICES ASSUME IntakeInit PROVE IntakeInv
    OBVIOUS
  <2>1. IntakeTypeOK
    <3>1. Cardinality({}) = 0  BY FS_EmptySet
    <3> QED  BY <3>1, IntakeBounds
             DEF IntakeInit, IntakeTypeOK, NoBucket, NothingPassed, Kinds
  <2>2. now = 0 /\ bucket = NoBucket /\ \A k \in Kinds : passed[k] = {}
    BY DEF IntakeInit, NothingPassed
  <2>3. PassesCount /\ HitsAreRecent
    BY <2>2, FS_EmptySet DEF PassesCount, HitsAreRecent, Kinds
  <2>4. ThisWindow = {} /\ LastWindow = {}
    BY <2>2 DEF ThisWindow, LastWindow, Kinds
  <2>5. BucketCounts
    BY <2>2, <2>4, FS_EmptySet, IntakeBounds DEF BucketCounts, NoBucket, Kinds
  <2>6. \A k \in Kinds : \A t, w : PassedWithin(k, t, w) = {}
    BY <2>2 DEF PassedWithin
  <2>7. RateLimitsHold
    <3>1. EventLimit \in Nat /\ LeadLimit \in Nat /\ 0 <= 2 * LeadLimit  BY IntakeBounds
    <3>2. Cardinality({}) = 0  BY FS_EmptySet
    <3>3. \A t : /\ Cardinality(PassedWithin("event", t, EventWindow)) = 0
                 /\ Cardinality(PassedWithin("lead", t, LeadWindow)) = 0
      BY <2>6, <3>2 DEF Kinds
    <3> QED  BY <3>1, <3>3 DEF RateLimitsHold
  <2>8. SearchesRemember /\ DuplicatesOnlyByRace
    BY DEF IntakeInit, SearchesRemember, DuplicatesOnlyByRace, Resting
  <2> QED  BY <2>1, <2>3, <2>5, <2>7, <2>8 DEF IntakeInv, LimitsInv
<1>2. IntakeInv /\ [IntakeNext]_intakeVars => IntakeInv'
  BY IntakeTypeStep, LimitsStep, DuplicatesStep DEF IntakeInv, LimitsInv
<1> QED  BY <1>1, <1>2, PTL DEF IntakeSpec

\* LeadRateLimiter and MarketingEventRateLimiter: whatever the limits and the
\* windows are, no window lets more pass than it may, for each process.
THEOREM LimitsAlwaysHold == IntakeSpec => []RateLimitsHold
<1>1. IntakeInv => RateLimitsHold  BY DEF IntakeInv, LimitsInv
<1> QED  BY <1>1, IntakeInductive, PTL

\* LeadsService.create: however many requests search and insert at a time, a
\* duplicate comes only of a search that was over before the first lead was there.
THEOREM DuplicatesAreAlwaysRaces == IntakeSpec => []DuplicatesOnlyByRace
<1>1. IntakeInv => DuplicatesOnlyByRace  BY DEF IntakeInv
<1> QED  BY <1>1, IntakeInductive, PTL

-----------------------------------------------------------------------------
(* Sums over finite sets.  The fold behind SumFunctionOnSet removes one    *)
(* element after another; which one does not matter.                       *)

\* The element a fold removes first.
FirstOf(s) == CHOOSE x \in s : TRUE

\* h holds the sums of f over the subsets of T.
Sums(f, h, T) ==
  h = [s \in SUBSET T |-> IF s = {} THEN 0 ELSE f[FirstOf(s)] + h[s \ {FirstOf(s)}]]

\* What holds of a subset whenever it holds of all smaller ones holds of every one.
LEMMA SubsetInduction ==
  ASSUME NEW U, IsFiniteSet(U), NEW Good,
         \A T \in SUBSET U : (\A V \in SUBSET T : V # T => V \in Good) => T \in Good
  PROVE  SUBSET U \subseteq Good
<1> DEFINE Bad == (SUBSET U) \ Good
<1>1. SUFFICES ASSUME Bad # {} PROVE FALSE
  OBVIOUS
<1>2. IsWellFoundedOn(StrictSubsetOrdering(U), FiniteSubsetsOf(U))
  BY FS_StrictSubsetOrderingWellFounded
<1>3. Bad \subseteq FiniteSubsetsOf(U)
  BY FS_FiniteSubsetsOfFinite
<1>4. PICK T \in Bad : \A V \in Bad : <<V, T>> \notin StrictSubsetOrdering(U)
  <2> HIDE DEF Bad
  <2>. QED
    BY <1>1, <1>2, <1>3, WFMin
<1>5. \A V \in SUBSET T : V # T => V \in Good
  <2> SUFFICES ASSUME NEW V \in SUBSET T, V # T, V \notin Good PROVE FALSE
    OBVIOUS
  <2>1. V \in Bad
    OBVIOUS
  <2>2. <<V, T>> \in StrictSubsetOrdering(U)
    BY DEF StrictSubsetOrdering
  <2>. QED
    BY <1>4, <2>1, <2>2
<1>. QED
  BY <1>5

LEMMA FirstIsElement ==
  ASSUME NEW s, s # {}
  PROVE  FirstOf(s) \in s
BY DEF FirstOf

LEMMA SumsAgree ==
  ASSUME NEW f, NEW T, IsFiniteSet(T), NEW V \in SUBSET T, NEW h, NEW k,
         Sums(f, h, T), Sums(f, k, V)
  PROVE  \A W \in SUBSET V : h[W] = k[W]
<1> DEFINE Good == {W \in SUBSET V : h[W] = k[W]}
<1>1. IsFiniteSet(V)
  BY FS_Subset
<1>2. ASSUME NEW W \in SUBSET V, \A X \in SUBSET W : X # W => X \in Good
      PROVE  W \in Good
  <2>1. /\ h[W] = IF W = {} THEN 0 ELSE f[FirstOf(W)] + h[W \ {FirstOf(W)}]
        /\ k[W] = IF W = {} THEN 0 ELSE f[FirstOf(W)] + k[W \ {FirstOf(W)}]
    BY DEF Sums
  <2>2. CASE W = {}
    BY <2>1, <2>2
  <2>3. CASE W # {}
    <3>1. W \ {FirstOf(W)} \in Good
      BY <1>2, <2>3, FirstIsElement
    <3>. QED
      BY <2>1, <2>3, <3>1
  <2>. QED
    BY <2>2, <2>3
<1>3. SUBSET V \subseteq Good
  <2> HIDE DEF Good
  <2>. QED
    BY <1>1, <1>2, SubsetInduction
<1>. QED
  BY <1>3

LEMMA SumsExist ==
  ASSUME NEW f, NEW U, IsFiniteSet(U)
  PROVE  \E h : Sums(f, h, U)
<1> DEFINE Good == {T \in SUBSET U : \E h : Sums(f, h, T)}
<1>1. ASSUME NEW T \in SUBSET U, \A V \in SUBSET T : V # T => V \in Good
      PROVE  T \in Good
  <2> DEFINE H(V) == CHOOSE h : Sums(f, h, V)
             Rest(s) == s \ {FirstOf(s)}
             k == [s \in SUBSET T |-> IF s = {} THEN 0
                                      ELSE f[FirstOf(s)] + H(Rest(s))[Rest(s)]]
  <2>1. ASSUME NEW V \in SUBSET T, V # T PROVE Sums(f, H(V), V) /\ IsFiniteSet(V)
    <3>1. \E h : Sums(f, h, V)
      BY <1>1, <2>1
    <3>. QED
      BY <3>1, FS_Subset
  <2>2. ASSUME NEW s \in SUBSET T, s # {}
        PROVE  Rest(s) \in SUBSET T /\ Rest(s) # T /\ Rest(s) \subseteq s
    BY <2>2, FirstIsElement
  <2>3. ASSUME NEW V \in SUBSET T, V # T PROVE k[V] = H(V)[V]
    <3>1. H(V)[V] = IF V = {} THEN 0 ELSE f[FirstOf(V)] + H(V)[Rest(V)]
      <4>1. Sums(f, H(V), V)
        BY <2>1, <2>3
      <4> HIDE DEF H
      <4>. QED
        BY <4>1 DEF Sums
    <3>2. CASE V = {}
      BY <3>1, <3>2
    <3>3. CASE V # {}
      <4>1. /\ Sums(f, H(V), V) /\ IsFiniteSet(V)
            /\ Rest(V) \in SUBSET V /\ Sums(f, H(Rest(V)), Rest(V))
        BY <2>1, <2>2, <2>3, <3>3
      <4>2. H(V)[Rest(V)] = H(Rest(V))[Rest(V)]
        <5> HIDE DEF H, Rest
        <5>. QED
          BY <4>1, SumsAgree
      <4>. QED
        BY <3>1, <3>3, <4>2
    <3>. QED
      BY <3>2, <3>3
  <2>4. \A s \in SUBSET T : s # {} => k[Rest(s)] = H(Rest(s))[Rest(s)]
    <3> HIDE DEF k, H, Rest
    <3>. QED
      BY <2>2, <2>3
  <2>5. k = [s \in SUBSET T |-> IF s = {} THEN 0 ELSE f[FirstOf(s)] + k[Rest(s)]]
    <3>1. \A s \in SUBSET T :
            k[s] = IF s = {} THEN 0 ELSE f[FirstOf(s)] + k[Rest(s)]
      <4>1. \A s \in SUBSET T :
              k[s] = IF s = {} THEN 0 ELSE f[FirstOf(s)] + H(Rest(s))[Rest(s)]
        OBVIOUS
      <4> HIDE DEF k, H, Rest
      <4>. QED
        BY <2>4, <4>1
    <3>2. k = [s \in SUBSET T |-> k[s]]
      OBVIOUS
    <3> HIDE DEF k, Rest
    <3>. QED
      BY <3>1, <3>2
  <2>6. Sums(f, k, T)
    <3> HIDE DEF k
    <3>. QED
      BY <2>5 DEF Sums
  <2>. QED
    BY <2>6
<1>2. SUBSET U \subseteq Good
  <2> HIDE DEF Good
  <2>. QED
    BY <1>1, SubsetInduction
<1>. QED
  BY <1>2

LEMMA SumIs ==
  ASSUME NEW f, NEW T
  PROVE  SumFunctionOnSet(f, T) = (CHOOSE h : Sums(f, h, T))[T]
BY DEF SumFunctionOnSet, FoldFunctionOnSet, MapThenFoldSet, Sums, FirstOf

\* The sum over nothing, and the sum with and without the first element.
LEMMA SumFirst ==
  ASSUME NEW f, NEW T, IsFiniteSet(T)
  PROVE  SumFunctionOnSet(f, T) =
           IF T = {} THEN 0
           ELSE f[FirstOf(T)] + SumFunctionOnSet(f, T \ {FirstOf(T)})
<1> DEFINE R == T \ {FirstOf(T)}
           h == CHOOSE g : Sums(f, g, T)
           k == CHOOSE g : Sums(f, g, R)
<1>1. Sums(f, h, T)
  BY SumsExist
<1>2. R \in SUBSET T /\ IsFiniteSet(R)
  BY FS_Subset
<1>3. Sums(f, k, R)
  BY <1>2, SumsExist
<1>4. SumFunctionOnSet(f, T) = h[T] /\ SumFunctionOnSet(f, R) = k[R]
  BY SumIs
<1> HIDE DEF h, k
<1>5. h[T] = IF T = {} THEN 0 ELSE f[FirstOf(T)] + h[R]
  BY <1>1 DEF Sums
<1>6. h[R] = k[R]
  <2> HIDE DEF R
  <2>. QED
    BY <1>1, <1>2, <1>3, SumsAgree
<1>. QED
  BY <1>4, <1>5, <1>6

LEMMA SumOfNone ==
  ASSUME NEW f
  PROVE  SumFunctionOnSet(f, {}) = 0
BY SumFirst, FS_EmptySet

LEMMA SumIsNat ==
  ASSUME NEW U, IsFiniteSet(U), NEW f, \A x \in U : f[x] \in Nat
  PROVE  \A T \in SUBSET U : SumFunctionOnSet(f, T) \in Nat
<1> DEFINE Good == {T \in SUBSET U : SumFunctionOnSet(f, T) \in Nat}
<1>1. ASSUME NEW T \in SUBSET U, \A V \in SUBSET T : V # T => V \in Good
      PROVE  T \in Good
  <2>1. IsFiniteSet(T)
    BY FS_Subset
  <2>2. CASE T = {}
    BY <2>2, SumOfNone
  <2>3. CASE T # {}
    <3>1. FirstOf(T) \in T /\ f[FirstOf(T)] \in Nat
      BY <2>3, FirstIsElement
    <3>2. SumFunctionOnSet(f, T \ {FirstOf(T)}) \in Nat
      BY <1>1, <3>1
    <3>. QED
      BY <2>1, <2>3, <3>1, <3>2, SumFirst
  <2>. QED
    BY <2>2, <2>3
<1>2. SUBSET U \subseteq Good
  <2> HIDE DEF Good
  <2>. QED
    BY <1>1, SubsetInduction
<1>. QED
  BY <1>2

\* Any element may be added last.
LEMMA SumTakes ==
  ASSUME NEW U, IsFiniteSet(U), NEW f, \A x \in U : f[x] \in Nat
  PROVE  \A T \in SUBSET U : \A x \in T :
           SumFunctionOnSet(f, T) = f[x] + SumFunctionOnSet(f, T \ {x})
<1> DEFINE Good == {T \in SUBSET U : \A x \in T :
                      SumFunctionOnSet(f, T) = f[x] + SumFunctionOnSet(f, T \ {x})}
<1>1. ASSUME NEW T \in SUBSET U, \A V \in SUBSET T : V # T => V \in Good
      PROVE  T \in Good
  <2> SUFFICES ASSUME NEW x \in T
               PROVE  SumFunctionOnSet(f, T) = f[x] + SumFunctionOnSet(f, T \ {x})
    OBVIOUS
  <2> DEFINE c == FirstOf(T)
             A == T \ {c}
             B == T \ {x}
             C == T \ {c, x}
  <2>1. c \in T /\ A \in SUBSET T /\ B \in SUBSET T /\ A # T /\ B # T
    BY FirstIsElement
  <2>2. SumFunctionOnSet(f, T) = f[c] + SumFunctionOnSet(f, A)
    <3>1. IsFiniteSet(T) /\ T # {}
      BY FS_Subset
    <3>. QED
      BY <3>1, SumFirst
  <2>3. CASE x = c
    BY <2>2, <2>3
  <2>4. CASE x # c
    <3>1. A \ {x} = C /\ B \ {c} = C /\ x \in A /\ c \in B /\ C \in SUBSET U
      BY <2>1, <2>4
    <3>2. A \in Good /\ B \in Good
      BY <1>1, <2>1
    <3>3. SumFunctionOnSet(f, A) = f[x] + SumFunctionOnSet(f, C)
      BY <3>1, <3>2
    <3>4. SumFunctionOnSet(f, B) = f[c] + SumFunctionOnSet(f, C)
      BY <3>1, <3>2
    <3>5. f[x] \in Nat /\ f[c] \in Nat /\ SumFunctionOnSet(f, C) \in Nat
      BY <2>1, <3>1, SumIsNat
    <3>6. SumFunctionOnSet(f, T) = f[x] + SumFunctionOnSet(f, B)
      <4> HIDE DEF A, B, C, c
      <4>. QED
        BY <2>2, <3>3, <3>4, <3>5
    <3>. QED
      BY <3>6
  <2>. QED
    BY <2>3, <2>4
<1>2. SUBSET U \subseteq Good
  <2> HIDE DEF Good
  <2>. QED
    BY <1>1, SubsetInduction
<1>. QED
  BY <1>2

\* Sums of equal values are equal.
LEMMA SumsOfEquals ==
  ASSUME NEW U, IsFiniteSet(U), NEW f, NEW g, \A x \in U : f[x] = g[x]
  PROVE  SumFunctionOnSet(f, U) = SumFunctionOnSet(g, U)
<1> DEFINE Good == {T \in SUBSET U : SumFunctionOnSet(f, T) = SumFunctionOnSet(g, T)}
<1>1. ASSUME NEW T \in SUBSET U, \A V \in SUBSET T : V # T => V \in Good
      PROVE  T \in Good
  <2>1. IsFiniteSet(T)
    BY FS_Subset
  <2>2. CASE T = {}
    BY <2>2, SumOfNone
  <2>3. CASE T # {}
    <3>1. FirstOf(T) \in T
      BY <2>3, FirstIsElement
    <3>2. /\ f[FirstOf(T)] = g[FirstOf(T)]
          /\ SumFunctionOnSet(f, T \ {FirstOf(T)}) = SumFunctionOnSet(g, T \ {FirstOf(T)})
      BY <1>1, <3>1
    <3>. QED
      BY <2>1, <2>3, <3>2, SumFirst
  <2>. QED
    BY <2>2, <2>3
<1>2. SUBSET U \subseteq Good
  <2> HIDE DEF Good
  <2>. QED
    BY <1>1, SubsetInduction
<1>. QED
  BY <1>2

\* A sum over two sets with nothing in common.
LEMMA SumOfUnion ==
  ASSUME NEW S, NEW U, IsFiniteSet(S), IsFiniteSet(U), S \cap U = {}, NEW f,
         \A x \in S \cup U : f[x] \in Nat
  PROVE  SumFunctionOnSet(f, S \cup U) = SumFunctionOnSet(f, S) + SumFunctionOnSet(f, U)
<1> DEFINE Good == {T \in SUBSET U : SumFunctionOnSet(f, S \cup T) =
                                      SumFunctionOnSet(f, S) + SumFunctionOnSet(f, T)}
<1>1. IsFiniteSet(S \cup U)
  BY FS_Union
<1>2. \A T \in SUBSET (S \cup U) : SumFunctionOnSet(f, T) \in Nat
  BY <1>1, SumIsNat
<1>3. \A T \in SUBSET (S \cup U) : \A x \in T :
        SumFunctionOnSet(f, T) = f[x] + SumFunctionOnSet(f, T \ {x})
  <2> DEFINE W == S \cup U
  <2>1. IsFiniteSet(W) /\ \A x \in W : f[x] \in Nat
    BY <1>1
  <2> HIDE DEF W
  <2>2. \A T \in SUBSET W : \A x \in T :
          SumFunctionOnSet(f, T) = f[x] + SumFunctionOnSet(f, T \ {x})
    <3> SUFFICES ASSUME NEW T \in SUBSET W, NEW x \in T
                 PROVE  SumFunctionOnSet(f, T) = f[x] + SumFunctionOnSet(f, T \ {x})
      OBVIOUS
    <3>. QED
      BY <2>1, SumTakes
  <2>. QED
    BY <2>2 DEF W
<1>4. ASSUME NEW T \in SUBSET U, \A V \in SUBSET T : V # T => V \in Good
      PROVE  T \in Good
  <2>1. CASE T = {}
    <3>1. S \cup T = S
      BY <2>1
    <3>. QED
      BY <1>2, <2>1, <3>1, SumOfNone
  <2>2. CASE T # {}
    <3>1. PICK x \in T : TRUE
      BY <2>2
    <3> DEFINE R == T \ {x}
    <3>2. R \in Good
      BY <1>4
    <3>3. (S \cup T) \ {x} = S \cup R
      OBVIOUS
    <3>4. /\ SumFunctionOnSet(f, S \cup T) = f[x] + SumFunctionOnSet(f, S \cup R)
          /\ SumFunctionOnSet(f, T) = f[x] + SumFunctionOnSet(f, R)
      BY <1>3, <3>3
    <3>5. /\ SumFunctionOnSet(f, S \cup R) = SumFunctionOnSet(f, S) + SumFunctionOnSet(f, R)
          /\ f[x] \in Nat
          /\ SumFunctionOnSet(f, R) \in Nat /\ SumFunctionOnSet(f, S) \in Nat
      BY <1>2, <3>2
    <3> HIDE DEF R
    <3>. QED
      BY <3>4, <3>5
  <2>. QED
    BY <2>1, <2>2
<1>5. SUBSET U \subseteq Good
  <2> HIDE DEF Good
  <2>. QED
    BY <1>4, SubsetInduction
<1>. QED
  BY <1>5

\* The rows of P under each key of K add up to the rows of P.
LEMMA SumOfParts ==
  ASSUME NEW P, IsFiniteSet(P), NEW K, IsFiniteSet(K), NEW key,
         \A r \in P : key[r] \in K, NEW w, \A r \in P : w[r] \in Nat
  PROVE  SumFunctionOnSet([c \in K |-> SumFunctionOnSet(w, {r \in P : key[r] = c})], K)
           = SumFunctionOnSet(w, P)
<1> DEFINE Under(C) == {r \in P : key[r] \in C}
           F == [c \in K |-> SumFunctionOnSet(w, {r \in P : key[r] = c})]
           Good == {C \in SUBSET K : SumFunctionOnSet(F, C) = SumFunctionOnSet(w, Under(C))}
<1>1. \A C : IsFiniteSet(Under(C)) /\ SumFunctionOnSet(w, Under(C)) \in Nat
  BY FS_Subset, SumIsNat
<1>2. \A c \in K : F[c] = SumFunctionOnSet(w, Under({c}))
  <2> SUFFICES ASSUME NEW c \in K
               PROVE  F[c] = SumFunctionOnSet(w, Under({c}))
    OBVIOUS
  <2>1. Under({c}) = {r \in P : key[r] = c}
    OBVIOUS
  <2>. QED
    BY <2>1
<1>3. \A c \in K : F[c] \in Nat
  BY <1>1, <1>2
<1> HIDE DEF F
<1>4. ASSUME NEW C \in SUBSET K, \A V \in SUBSET C : V # C => V \in Good
      PROVE  C \in Good
  <2>1. CASE C = {}
    <3>1. Under(C) = {}
      BY <2>1
    <3>. QED
      BY <2>1, <3>1, SumOfNone
  <2>2. CASE C # {}
    <3>1. PICK c \in C : TRUE
      BY <2>2
    <3> DEFINE D == C \ {c}
    <3>2. D \in Good
      BY <1>4
    <3>3. SumFunctionOnSet(F, C) = F[c] + SumFunctionOnSet(F, D)
      BY <1>3, SumTakes
    <3>4. Under(C) = Under(D) \cup Under({c}) /\ Under(D) \cap Under({c}) = {}
      BY <3>1
    <3>5. SumFunctionOnSet(w, Under(C)) =
            SumFunctionOnSet(w, Under(D)) + SumFunctionOnSet(w, Under({c}))
      <4>1. \A r \in Under(D) \cup Under({c}) : w[r] \in Nat
        OBVIOUS
      <4> DEFINE A == Under(D)
                 B == Under({c})
      <4>2. IsFiniteSet(A) /\ IsFiniteSet(B) /\ A \cap B = {} /\ Under(C) = A \cup B
        BY <1>1, <3>4
      <4>3. \A r \in A \cup B : w[r] \in Nat
        BY <4>1
      <4> HIDE DEF A, B
      <4>4. SumFunctionOnSet(w, A \cup B) = SumFunctionOnSet(w, A) + SumFunctionOnSet(w, B)
        BY <4>2, <4>3, SumOfUnion
      <4>5. SumFunctionOnSet(w, Under(C)) = SumFunctionOnSet(w, A) + SumFunctionOnSet(w, B)
        <5> HIDE DEF Under
        <5>. QED
          BY <4>2, <4>4
      <4>. QED
        BY <4>5 DEF A, B
    <3>6. SumFunctionOnSet(F, D) = SumFunctionOnSet(w, Under(D))
      BY <3>2
    <3>7. F[c] = SumFunctionOnSet(w, Under({c}))
      BY <1>2
    <3>8. SumFunctionOnSet(F, C) = SumFunctionOnSet(w, Under(C))
      <4> HIDE DEF Under, D
      <4>. QED
        BY <1>1, <3>3, <3>5, <3>6, <3>7
    <3>. QED
      BY <3>8
  <2>. QED
    BY <2>1, <2>2
<1>5. SUBSET K \subseteq Good
  <2> HIDE DEF Good
  <2>. QED
    BY <1>4, SubsetInduction
<1>6. Under(K) = P
  OBVIOUS
<1>. QED
  BY <1>5, <1>6 DEF F

\* A cardinality is a sum of ones.
LEMMA CardinalityIsSum ==
  ASSUME NEW U, IsFiniteSet(U), NEW w, \A x \in U : w[x] = 1
  PROVE  \A T \in SUBSET U : SumFunctionOnSet(w, T) = Cardinality(T)
<1> DEFINE Good == {T \in SUBSET U : SumFunctionOnSet(w, T) = Cardinality(T)}
<1>1. ASSUME NEW T \in SUBSET U, \A V \in SUBSET T : V # T => V \in Good
      PROVE  T \in Good
  <2>1. IsFiniteSet(T)
    BY FS_Subset
  <2>2. CASE T = {}
    BY <2>2, SumOfNone, FS_EmptySet
  <2>3. CASE T # {}
    <3>1. FirstOf(T) \in T
      BY <2>3, FirstIsElement
    <3>2. SumFunctionOnSet(w, T \ {FirstOf(T)}) = Cardinality(T \ {FirstOf(T)})
      BY <1>1, <3>1
    <3>3. /\ Cardinality(T \ {FirstOf(T)}) = Cardinality(T) - 1
          /\ Cardinality(T) \in Nat
      BY <2>1, <3>1, FS_RemoveElement, FS_CardinalityType
    <3>. QED
      BY <2>1, <2>3, <3>1, <3>2, <3>3, SumFirst
  <2>. QED
    BY <2>2, <2>3
<1>2. SUBSET U \subseteq Good
  <2> HIDE DEF Good
  <2>. QED
    BY <1>1, SubsetInduction
<1>. QED
  BY <1>2

\* So the numbers of rows under each key add up to the number of rows.
LEMMA RowsOfParts ==
  ASSUME NEW P, IsFiniteSet(P), NEW K, IsFiniteSet(K), NEW key,
         \A r \in P : key[r] \in K
  PROVE  SumFunctionOnSet([c \in K |-> Cardinality({r \in P : key[r] = c})], K)
           = Cardinality(P)
<1> DEFINE w == [r \in P |-> 1]
           G == [c \in K |-> SumFunctionOnSet(w, {r \in P : key[r] = c})]
           F == [c \in K |-> Cardinality({r \in P : key[r] = c})]
<1>1. \A T \in SUBSET P : SumFunctionOnSet(w, T) = Cardinality(T)
  BY CardinalityIsSum
<1>2. SumFunctionOnSet(G, K) = SumFunctionOnSet(w, P)
  BY SumOfParts
<1>3. G = F
  BY <1>1
<1>. QED
  BY <1>1, <1>2, <1>3

LEMMA ImageIsFinite ==
  ASSUME NEW S, IsFiniteSet(S), NEW f
  PROVE  IsFiniteSet({f[x] : x \in S}) /\ Cardinality({f[x] : x \in S}) <= Cardinality(S)
<1> DEFINE T == {f[x] : x \in S}
           g == [x \in S |-> f[x]]
<1>1. g \in Surjection(S, T)
  BY DEF Surjection
<1> HIDE DEF g, T
<1>2. IsFiniteSet(T) /\ Cardinality(T) <= Cardinality(S)
  BY <1>1, FS_Surjection
<1>. QED
  BY <1>2 DEF T

-----------------------------------------------------------------------------
(* What the dashboard adds up, by key and by day.                          *)

LEMMA FigureIs ==
  ASSUME NEW P, IsFiniteSet(P), NEW T \in SUBSET P, NEW fig
  PROVE  Figure(T, fig) = SumFunctionOnSet([i \in P |-> i.figures[fig]], T)
<1> DEFINE f == [i \in T |-> i.figures[fig]]
           g == [i \in P |-> i.figures[fig]]
<1>1. IsFiniteSet(T) /\ \A i \in T : f[i] = g[i]
  BY FS_Subset
<1>2. Figure(T, fig) = SumFunctionOnSet(f, T)
  BY DEF Figure, SumFunction
<1> HIDE DEF f, g
<1>3. SumFunctionOnSet(f, T) = SumFunctionOnSet(g, T)
  BY <1>1, SumsOfEquals
<1>. QED
  BY <1>2, <1>3 DEF g

LEMMA FigureByKey ==
  ASSUME NEW P, IsFiniteSet(P), NEW G, IsFiniteSet(G), NEW fig,
         \A r \in P : KeyOf(r) \in G /\ r.figures[fig] \in Nat
  PROVE  SumFunction([g \in G |-> Figure(Of(P, g), fig)]) = Figure(P, fig)
<1> DEFINE under == [r \in P |-> KeyOf(r)]
           w == [r \in P |-> r.figures[fig]]
           A == [g \in G |-> SumFunctionOnSet(w, {r \in P : under[r] = g})]
           B == [g \in G |-> Figure(Of(P, g), fig)]
<1>1. SumFunctionOnSet(A, G) = SumFunctionOnSet(w, P)
  <2>1. \A r \in P : under[r] \in G /\ w[r] \in Nat
    OBVIOUS
  <2> HIDE DEF under, w
  <2>. QED
    BY <2>1, SumOfParts
<1>2. ASSUME NEW g \in G PROVE A[g] = B[g]
  <2>1. {r \in P : under[r] = g} = Of(P, g)
    BY DEF Of
  <2>2. Figure(Of(P, g), fig) = SumFunctionOnSet(w, Of(P, g))
    BY FigureIs DEF Of
  <2>. QED
    BY <2>1, <2>2
<1>3. A = B
  BY <1>2
<1>4. Figure(P, fig) = SumFunctionOnSet(w, P)
  BY FigureIs
<1>5. SumFunction(B) = SumFunctionOnSet(B, G)
  BY DEF SumFunction
<1>. QED
  BY <1>1, <1>3, <1>4, <1>5

LEMMA FigureByDay ==
  ASSUME NEW P, IsFiniteSet(P), NEW D, IsFiniteSet(D), NEW fig,
         \A r \in P : r.day \in D /\ r.figures[fig] \in Nat
  PROVE  SumFunction([d \in D |-> Figure(On(P, d), fig)]) = Figure(P, fig)
<1> DEFINE under == [r \in P |-> r.day]
           w == [r \in P |-> r.figures[fig]]
           A == [d \in D |-> SumFunctionOnSet(w, {r \in P : under[r] = d})]
           B == [d \in D |-> Figure(On(P, d), fig)]
<1>1. SumFunctionOnSet(A, D) = SumFunctionOnSet(w, P)
  <2>1. \A r \in P : under[r] \in D /\ w[r] \in Nat
    OBVIOUS
  <2> HIDE DEF under, w
  <2>. QED
    BY <2>1, SumOfParts
<1>2. ASSUME NEW d \in D PROVE A[d] = B[d]
  <2>1. {r \in P : under[r] = d} = On(P, d)
    BY DEF On
  <2>2. Figure(On(P, d), fig) = SumFunctionOnSet(w, On(P, d))
    BY FigureIs DEF On
  <2>. QED
    BY <2>1, <2>2
<1>3. A = B
  BY <1>2
<1>4. Figure(P, fig) = SumFunctionOnSet(w, P)
  BY FigureIs
<1>5. SumFunction(B) = SumFunctionOnSet(B, D)
  BY DEF SumFunction
<1>. QED
  BY <1>1, <1>3, <1>4, <1>5

LEMMA CountByKey ==
  ASSUME NEW P, IsFiniteSet(P), NEW G, IsFiniteSet(G), \A r \in P : KeyOf(r) \in G
  PROVE  SumFunction([g \in G |-> Cardinality(Of(P, g))]) = Cardinality(P)
<1> DEFINE under == [r \in P |-> KeyOf(r)]
           A == [g \in G |-> Cardinality({r \in P : under[r] = g})]
           B == [g \in G |-> Cardinality(Of(P, g))]
<1>1. SumFunctionOnSet(A, G) = Cardinality(P)
  BY RowsOfParts
<1>2. ASSUME NEW g \in G PROVE A[g] = B[g]
  <2>1. {r \in P : under[r] = g} = Of(P, g)
    BY DEF Of
  <2>. QED
    BY <2>1
<1>3. A = B
  BY <1>2
<1>4. SumFunction(B) = SumFunctionOnSet(B, G)
  BY DEF SumFunction
<1>. QED
  BY <1>1, <1>3, <1>4

LEMMA CountByDay ==
  ASSUME NEW P, IsFiniteSet(P), NEW D, IsFiniteSet(D), \A r \in P : r.day \in D
  PROVE  SumFunction([d \in D |-> Cardinality(On(P, d))]) = Cardinality(P)
<1> DEFINE key == [r \in P |-> r.day]
           A == [d \in D |-> Cardinality({r \in P : key[r] = d})]
           B == [d \in D |-> Cardinality(On(P, d))]
<1>1. SumFunctionOnSet(A, D) = Cardinality(P)
  BY RowsOfParts
<1>2. ASSUME NEW d \in D PROVE A[d] = B[d]
  <2>1. {r \in P : key[r] = d} = On(P, d)
    BY DEF On
  <2>. QED
    BY <2>1
<1>3. A = B
  BY <1>2
<1>4. SumFunction(B) = SumFunctionOnSet(B, D)
  BY DEF SumFunction
<1>. QED
  BY <1>1, <1>3, <1>4

LEMMA StatusByKey ==
  ASSUME NEW P, IsFiniteSet(P), NEW G, IsFiniteSet(G), \A r \in P : KeyOf(r) \in G,
         NEW st
  PROVE  SumFunction([g \in G |-> WithStatus(Of(P, g), st)]) = WithStatus(P, st)
<1> DEFINE Q == {l \in P : l.status \in st}
           A == [g \in G |-> WithStatus(Of(P, g), st)]
           B == [g \in G |-> Cardinality(Of(Q, g))]
<1>1. IsFiniteSet(Q)
  BY FS_Subset
<1>2. SumFunction(B) = Cardinality(Q)
  BY <1>1, CountByKey
<1>3. ASSUME NEW g \in G PROVE A[g] = B[g]
  <2>1. {l \in Of(P, g) : l.status \in st} = Of(Q, g)
    BY DEF Of
  <2>. QED
    BY <2>1 DEF WithStatus
<1>4. A = B
  BY <1>3
<1>. QED
  BY <1>2, <1>4 DEF WithStatus

LEMMA StatusByDay ==
  ASSUME NEW P, IsFiniteSet(P), NEW D, IsFiniteSet(D), \A r \in P : r.day \in D,
         NEW st
  PROVE  SumFunction([d \in D |-> WithStatus(On(P, d), st)]) = WithStatus(P, st)
<1> DEFINE Q == {l \in P : l.status \in st}
           A == [d \in D |-> WithStatus(On(P, d), st)]
           B == [d \in D |-> Cardinality(On(Q, d))]
<1>1. IsFiniteSet(Q)
  BY FS_Subset
<1>2. SumFunction(B) = Cardinality(Q)
  BY <1>1, CountByDay
<1>3. ASSUME NEW d \in D PROVE A[d] = B[d]
  <2>1. {l \in On(P, d) : l.status \in st} = On(Q, d)
    BY DEF On
  <2>. QED
    BY <2>1 DEF WithStatus
<1>4. A = B
  BY <1>3
<1>. QED
  BY <1>2, <1>4 DEF WithStatus

\* The sessions of all keys are at most those of each key together.
LEMMA LandingsByKey ==
  ASSUME NEW E, IsFiniteSet(E), NEW G, IsFiniteSet(G), \A r \in E : KeyOf(r) \in G
  PROVE  /\ Landings(E) <= SumFunction([g \in G |-> Landings(Of(E, g))])
         /\ SumFunction([g \in G |-> Landings(Of(E, g))]) \in Nat
<1> DEFINE V == {r \in E : r.name = "view_ad_landing"}
           SessionsFrom(C) == {e.session : e \in {r \in V : KeyOf(r) \in C}}
           F == [g \in G |-> Landings(Of(E, g))]
           Good == {C \in SUBSET G : Cardinality(SessionsFrom(C)) <= SumFunctionOnSet(F, C)}
<1>1. \A C : IsFiniteSet(SessionsFrom(C)) /\ Cardinality(SessionsFrom(C)) \in Nat
  <2> SUFFICES ASSUME NEW C
               PROVE  IsFiniteSet(SessionsFrom(C)) /\ Cardinality(SessionsFrom(C)) \in Nat
    OBVIOUS
  <2> DEFINE R == {r \in V : KeyOf(r) \in C}
             f == [e \in R |-> e.session]
  <2>1. IsFiniteSet(R)
    BY FS_Subset
  <2>2. SessionsFrom(C) = {f[e] : e \in R}
    OBVIOUS
  <2> HIDE DEF R, f, SessionsFrom
  <2>. QED
    BY <2>1, <2>2, ImageIsFinite, FS_CardinalityType
<1>2. \A g \in G : F[g] = Cardinality(SessionsFrom({g}))
  <2> SUFFICES ASSUME NEW g \in G
               PROVE  F[g] = Cardinality(SessionsFrom({g}))
    OBVIOUS
  <2>1. {r \in Of(E, g) : r.name = "view_ad_landing"} = {r \in V : KeyOf(r) \in {g}}
    BY DEF Of
  <2>. QED
    BY <2>1 DEF Landings
<1>3. \A g \in G : F[g] \in Nat
  BY <1>1, <1>2
<1>4. Landings(E) = Cardinality(SessionsFrom(G))
  <2>1. V = {r \in V : KeyOf(r) \in G}
    OBVIOUS
  <2>. QED
    BY <2>1 DEF Landings
<1>5. SumFunction(F) = SumFunctionOnSet(F, G)
  BY DEF SumFunction
<1>6. \A C, D : SessionsFrom(C \cup D) = SessionsFrom(C) \cup SessionsFrom(D)
  OBVIOUS
<1>7. SessionsFrom({}) = {}
  OBVIOUS
<1> HIDE DEF F, SessionsFrom
<1>8. ASSUME NEW C \in SUBSET G, \A D \in SUBSET C : D # C => D \in Good
      PROVE  C \in Good
  <2>1. CASE C = {}
    BY <1>7, <2>1, SumOfNone, FS_EmptySet
  <2>2. CASE C # {}
    <3>1. PICK g \in C : TRUE
      BY <2>2
    <3> DEFINE D == C \ {g}
    <3>2. D \in Good
      BY <1>8
    <3>3. SumFunctionOnSet(F, C) = F[g] + SumFunctionOnSet(F, D)
      BY <1>3, SumTakes
    <3>4. SessionsFrom(C) = SessionsFrom(D) \cup SessionsFrom({g})
      <4>1. C = D \cup {g}
        BY <3>1
      <4> HIDE DEF D
      <4>. QED
        BY <1>6, <4>1
    <3>5. Cardinality(SessionsFrom(C)) <=
            Cardinality(SessionsFrom(D)) + Cardinality(SessionsFrom({g}))
      <4> DEFINE A == SessionsFrom(D)
                 B == SessionsFrom({g})
      <4>1. IsFiniteSet(A) /\ IsFiniteSet(B) /\ IsFiniteSet(A \cap B)
        BY <1>1, FS_Subset
      <4>2. /\ Cardinality(A \cup B) = Cardinality(A) + Cardinality(B) - Cardinality(A \cap B)
            /\ Cardinality(A \cap B) \in Nat
            /\ Cardinality(A) \in Nat /\ Cardinality(B) \in Nat
        BY <4>1, FS_Union, FS_CardinalityType
      <4> HIDE DEF D
      <4>. QED
        BY <3>4, <4>2
    <3>6. /\ SumFunctionOnSet(F, D) \in Nat
          /\ Cardinality(SessionsFrom(D)) <= SumFunctionOnSet(F, D)
          /\ F[g] = Cardinality(SessionsFrom({g}))
      BY <1>2, <1>3, <3>2, SumIsNat
    <3>7. Cardinality(SessionsFrom(C)) <= SumFunctionOnSet(F, C)
      <4> HIDE DEF D
      <4>. QED
        BY <1>1, <3>3, <3>5, <3>6
    <3>. QED
      BY <3>7
  <2>. QED
    BY <2>1, <2>2
<1>9. SUBSET G \subseteq Good
  <2> HIDE DEF Good
  <2>. QED
    BY <1>8, SubsetInduction
<1>10. SumFunctionOnSet(F, G) \in Nat
  BY <1>3, SumIsNat
<1>. QED
  BY <1>4, <1>5, <1>9, <1>10 DEF F

-----------------------------------------------------------------------------
(* The dashboard, for any rows, days and queries.                          *)

RowsInv ==
  DashTypeOK /\ IsFiniteSet(insights) /\ IsFiniteSet(events) /\ IsFiniteSet(prospects)

LEMMA AddedRow ==
  ASSUME NEW S, IsFiniteSet(S), NEW x
  PROVE  IsFiniteSet(S \cup {x}) /\ Cardinality(S) \in Nat
BY FS_AddElement, FS_CardinalityType

LEMMA ReplacedRow ==
  ASSUME NEW S, IsFiniteSet(S), NEW T, NEW x
  PROVE  IsFiniteSet((S \ T) \cup {x})
<1>1. IsFiniteSet(S \ T)
  BY FS_Subset
<1>. QED
  BY <1>1, AddedRow

LEMMA DashStep ==
  ASSUME RowsInv, [DashNext]_dashVars
  PROVE  RowsInv'
<1>1. ASSUME NEW origin \in Origin, NEW day \in Days, NEW figures \in Figures,
             StoreInsight(origin, day, figures)
      PROVE  RowsInv'
  <2>1. IsFiniteSet(insights')
    BY <1>1, ReplacedRow DEF StoreInsight, RowsInv
  <2>2. DashTypeOK'
    BY <1>1 DEF StoreInsight, RowsInv, DashTypeOK
  <2>. QED
    BY <1>1, <2>1, <2>2 DEF StoreInsight, RowsInv
<1>2. ASSUME NEW origin \in Origin, NEW day \in Days, RecordLead(origin, day)
      PROVE  RowsInv'
  <2>1. IsFiniteSet(prospects') /\ Cardinality(prospects) \in Nat
    BY <1>2, AddedRow DEF RecordLead, RowsInv
  <2>2. DashTypeOK'
    BY <1>2, <2>1 DEF RecordLead, RowsInv, DashTypeOK, LeadStatuses
  <2>. QED
    BY <1>2, <2>1, <2>2 DEF RecordLead, RowsInv
<1>3. ASSUME NEW origin \in Origin, NEW day \in Days, NEW name \in EventNames,
             NEW session \in Sessions, RecordEvent(origin, name, session, day)
      PROVE  RowsInv'
  <2>1. IsFiniteSet(events') /\ Cardinality(events) \in Nat
    BY <1>3, AddedRow DEF RecordEvent, RowsInv
  <2>2. DashTypeOK'
    BY <1>3, <2>1 DEF RecordEvent, RowsInv, DashTypeOK
  <2>. QED
    BY <1>3, <2>1, <2>2 DEF RecordEvent, RowsInv
<1>4. ASSUME NEW l \in prospects, NEW status \in LeadStatuses, SetLeadStatus(l, status)
      PROVE  RowsInv'
  <2>1. IsFiniteSet(prospects')
    BY <1>4, ReplacedRow DEF SetLeadStatus, RowsInv
  <2>2. [l EXCEPT !.status = status] \in
          [id: Nat, origin: Origin, status: LeadStatuses, day: Days]
    BY DEF RowsInv, DashTypeOK
  <2>3. DashTypeOK'
    BY <1>4, <2>2 DEF SetLeadStatus, RowsInv, DashTypeOK
  <2>. QED
    BY <1>4, <2>1, <2>3 DEF SetLeadStatus, RowsInv
<1>5. CASE UNCHANGED dashVars
  BY <1>5 DEF dashVars, RowsInv, DashTypeOK
<1>. QED
  BY <1>1, <1>2, <1>3, <1>4, <1>5 DEF DashNext

\* The three tables are finite and their rows well formed.
THEOREM DashboardKeepsRows == DashSpec => []RowsInv
<1>1. DashInit => RowsInv
  BY FS_EmptySet DEF DashInit, RowsInv, DashTypeOK
<1>. QED
  BY <1>1, DashStep, PTL DEF DashSpec

LEMMA SelectedRows ==
  ASSUME RowsInv, NEW q \in Queries
  PROVE  /\ IsFiniteSet(DateRange(q))
         /\ IsFiniteSet(Selected(insights, q))
         /\ IsFiniteSet(Selected(events, q))
         /\ IsFiniteSet(Selected(prospects, q))
         /\ IsFiniteSet(Groups(q))
<1>1. q.from \in Int /\ q.to \in Int
  BY DashboardBounds DEF Queries, Days
<1>2. IsFiniteSet(DateRange(q))
  BY <1>1, FS_Interval DEF DateRange
<1>3. /\ IsFiniteSet(Selected(insights, q))
      /\ IsFiniteSet(Selected(events, q))
      /\ IsFiniteSet(Selected(prospects, q))
  BY FS_Subset DEF RowsInv, Selected
<1> DEFINE S == Selected(insights, q) \cup Selected(events, q) \cup Selected(prospects, q)
           V == {e \in Selected(events, q) : e.name = "view_ad_landing"}
           f == [r \in S |-> KeyOf(r)]
           t == [r \in V |-> Target(KeyOf(r))]
<1>4. IsFiniteSet(S) /\ IsFiniteSet(V)
  BY <1>3, FS_Union, FS_Subset
<1>5. Groups(q) = {f[r] : r \in S} \cup {t[r] : r \in V}
  <2>1. {f[r] : r \in S} = {KeyOf(r) : r \in S}
    OBVIOUS
  <2>2. {t[r] : r \in V} = {Target(k) : k \in {KeyOf(r) : r \in V}}
    OBVIOUS
  <2>. QED
    BY <2>1, <2>2 DEF Groups, LandingKeys
<1>6. IsFiniteSet({f[r] : r \in S}) /\ IsFiniteSet({t[r] : r \in V})
  <2> HIDE DEF f, t, S, V
  <2>. QED
    BY <1>4, ImageIsFinite
<1>7. IsFiniteSet(Groups(q))
  <2> HIDE DEF f, t, S, V
  <2>. QED
    BY <1>5, <1>6, FS_Union
<1>. QED
  BY <1>2, <1>3, <1>7

\* Where keys name their own groups, each group has the landings of its key.
LEMMA LandingsOfKey ==
  ASSUME NEW E, \A k \in LandingKeys(E) : Target(k) = k, NEW g
  PROVE  LandingsOf(E, g) = Landings(Of(E, g))
<1> DEFINE named == {k \in LandingKeys(E) : Target(k) = g}
<1>1. CASE g \in LandingKeys(E)
  <2>1. named = {g}
    BY <1>1
  <2>2. (CHOOSE k \in named : TRUE) = g
    BY <2>1
  <2>. QED
    BY <2>1, <2>2 DEF LandingsOf
<1>2. CASE g \notin LandingKeys(E)
  <2>1. named = {}
    BY <1>2
  <2>2. {r \in Of(E, g) : r.name = "view_ad_landing"} = {}
    BY <1>2 DEF Of, LandingKeys
  <2>3. {e.session : e \in {r \in Of(E, g) : r.name = "view_ad_landing"}} = {}
    BY <2>2
  <2>4. Landings(Of(E, g)) = 0
    BY <2>3, FS_EmptySet DEF Landings
  <2>. QED
    BY <2>1, <2>4 DEF LandingsOf
<1>. QED
  BY <1>1, <1>2

LEMMA TotalsAre ==
  ASSUME NEW q
  PROVE  /\ Totals(q).spendWon =
              SumFunction([g \in Groups(q) |-> Figure(Of(Selected(insights, q), g), "spendWon")])
         /\ Totals(q).leads =
              SumFunction([g \in Groups(q) |-> Cardinality(Of(Selected(prospects, q), g))])
         /\ Totals(q).validLeads =
              SumFunction([g \in Groups(q) |-> WithStatus(Of(Selected(prospects, q), g), Valid)])
         /\ Totals(q).bookings =
              SumFunction([g \in Groups(q) |-> WithStatus(Of(Selected(prospects, q), g), Booking)])
         /\ Totals(q).visits =
              SumFunction([g \in Groups(q) |-> WithStatus(Of(Selected(prospects, q), g), Visited)])
         /\ Totals(q).registrations =
              SumFunction([g \in Groups(q) |->
                             WithStatus(Of(Selected(prospects, q), g), {"REGISTERED"})])
         /\ Totals(q).landingVisits =
              SumFunction([g \in Groups(q) |-> LandingsOf(Selected(events, q), g)])
<1>1. \A f \in Fields : Totals(q)[f] = SumFunction([g \in Groups(q) |-> Creatives(q)[g][f]])
  BY DEF Totals
<1>2. ASSUME NEW g \in Groups(q)
      PROVE  /\ Creatives(q)[g].spendWon = Figure(Of(Selected(insights, q), g), "spendWon")
             /\ Creatives(q)[g].leads = Cardinality(Of(Selected(prospects, q), g))
             /\ Creatives(q)[g].validLeads = WithStatus(Of(Selected(prospects, q), g), Valid)
             /\ Creatives(q)[g].bookings = WithStatus(Of(Selected(prospects, q), g), Booking)
             /\ Creatives(q)[g].visits = WithStatus(Of(Selected(prospects, q), g), Visited)
             /\ Creatives(q)[g].registrations =
                  WithStatus(Of(Selected(prospects, q), g), {"REGISTERED"})
             /\ Creatives(q)[g].landingVisits = LandingsOf(Selected(events, q), g)
  BY DEF Creatives, Metrics
<1>3. /\ [g \in Groups(q) |-> Creatives(q)[g].spendWon] =
           [g \in Groups(q) |-> Figure(Of(Selected(insights, q), g), "spendWon")]
      /\ [g \in Groups(q) |-> Creatives(q)[g].leads] =
           [g \in Groups(q) |-> Cardinality(Of(Selected(prospects, q), g))]
      /\ [g \in Groups(q) |-> Creatives(q)[g].validLeads] =
           [g \in Groups(q) |-> WithStatus(Of(Selected(prospects, q), g), Valid)]
      /\ [g \in Groups(q) |-> Creatives(q)[g].bookings] =
           [g \in Groups(q) |-> WithStatus(Of(Selected(prospects, q), g), Booking)]
      /\ [g \in Groups(q) |-> Creatives(q)[g].visits] =
           [g \in Groups(q) |-> WithStatus(Of(Selected(prospects, q), g), Visited)]
      /\ [g \in Groups(q) |-> Creatives(q)[g].registrations] =
           [g \in Groups(q) |-> WithStatus(Of(Selected(prospects, q), g), {"REGISTERED"})]
      /\ [g \in Groups(q) |-> Creatives(q)[g].landingVisits] =
           [g \in Groups(q) |-> LandingsOf(Selected(events, q), g)]
  BY <1>2
<1>. QED
  BY <1>1, <1>3 DEF Fields

\* The sums over the groups are those of the selected rows; of the landings
\* where keys name their own groups.
LEMMA TotalsOfRows ==
  ASSUME RowsInv, NEW q \in Queries
  PROVE  /\ Totals(q).spendWon = Figure(Selected(insights, q), "spendWon")
         /\ Totals(q).leads = Cardinality(Selected(prospects, q))
         /\ Totals(q).validLeads = WithStatus(Selected(prospects, q), Valid)
         /\ Totals(q).bookings = WithStatus(Selected(prospects, q), Booking)
         /\ Totals(q).visits = WithStatus(Selected(prospects, q), Visited)
         /\ Totals(q).registrations = WithStatus(Selected(prospects, q), {"REGISTERED"})
         /\ PlainLandings(q) => /\ Landings(Selected(events, q)) <= Totals(q).landingVisits
                                /\ Totals(q).landingVisits \in Nat
<1> DEFINE G == Groups(q)
           I == Selected(insights, q)
           E == Selected(events, q)
           P == Selected(prospects, q)
<1>1. IsFiniteSet(G) /\ IsFiniteSet(I) /\ IsFiniteSet(E) /\ IsFiniteSet(P)
  BY SelectedRows
<1>2. /\ \A r \in I : KeyOf(r) \in G
      /\ \A r \in E : KeyOf(r) \in G
      /\ \A r \in P : KeyOf(r) \in G
  BY DEF Groups
<1>3. \A r \in I : r.figures["spendWon"] \in Nat
  BY FiguresAreCounts DEF RowsInv, DashTypeOK, Selected
<1>4. SumFunction([g \in G |-> Figure(Of(I, g), "spendWon")]) = Figure(I, "spendWon")
  <2> HIDE DEF G, I
  <2>. QED
    BY <1>1, <1>2, <1>3, FigureByKey
<1>5. /\ SumFunction([g \in G |-> Cardinality(Of(P, g))]) = Cardinality(P)
      /\ \A st : SumFunction([g \in G |-> WithStatus(Of(P, g), st)]) = WithStatus(P, st)
  <2> HIDE DEF G, P
  <2>. QED
    BY <1>1, <1>2, CountByKey, StatusByKey
<1>6. ASSUME PlainLandings(q)
      PROVE  /\ Landings(E) <= SumFunction([g \in G |-> LandingsOf(E, g)])
             /\ SumFunction([g \in G |-> LandingsOf(E, g)]) \in Nat
  <2>1. \A g \in G : LandingsOf(E, g) = Landings(Of(E, g))
    BY <1>6, LandingsOfKey DEF PlainLandings
  <2>2. [g \in G |-> LandingsOf(E, g)] = [g \in G |-> Landings(Of(E, g))]
    BY <2>1
  <2> HIDE DEF G, E
  <2>3. /\ Landings(E) <= SumFunction([g \in G |-> Landings(Of(E, g))])
        /\ SumFunction([g \in G |-> Landings(Of(E, g))]) \in Nat
    BY <1>1, <1>2, LandingsByKey
  <2>. QED
    BY <2>2, <2>3
<1>7. /\ Totals(q).validLeads = SumFunction([g \in G |-> WithStatus(Of(P, g), Valid)])
      /\ Totals(q).bookings = SumFunction([g \in G |-> WithStatus(Of(P, g), Booking)])
      /\ Totals(q).visits = SumFunction([g \in G |-> WithStatus(Of(P, g), Visited)])
      /\ Totals(q).registrations =
           SumFunction([g \in G |-> WithStatus(Of(P, g), {"REGISTERED"})])
  BY TotalsAre
<1>8. /\ Totals(q).validLeads = WithStatus(P, Valid)
      /\ Totals(q).bookings = WithStatus(P, Booking)
      /\ Totals(q).visits = WithStatus(P, Visited)
      /\ Totals(q).registrations = WithStatus(P, {"REGISTERED"})
  <2> HIDE DEF G, P
  <2>. QED
    BY <1>5, <1>7
<1>9. /\ Totals(q).spendWon = Figure(I, "spendWon")
      /\ Totals(q).leads = Cardinality(P)
  BY <1>4, <1>5, TotalsAre
<1>10. PlainLandings(q) => /\ Landings(E) <= Totals(q).landingVisits
                           /\ Totals(q).landingVisits \in Nat
  BY <1>6, TotalsAre
<1>. QED
  BY <1>8, <1>9, <1>10

LEMMA DaysAlwaysAddUp ==
  ASSUME RowsInv, NEW q \in Queries
  PROVE  DaysAddUp(q, Totals(q))
<1> DEFINE D == DateRange(q)
           I == Selected(insights, q)
           P == Selected(prospects, q)
<1>1. /\ \A r \in I : r.day \in D /\ r.figures["spendWon"] \in Nat
      /\ \A r \in P : r.day \in D
  BY FiguresAreCounts DEF RowsInv, DashTypeOK, Selected
<1>2. IsFiniteSet(D) /\ IsFiniteSet(I) /\ IsFiniteSet(P)
  BY SelectedRows
<1>3. /\ [d \in D |-> Daily(q)[d].spendWon] = [d \in D |-> Figure(On(I, d), "spendWon")]
      /\ [d \in D |-> Daily(q)[d].leads] = [d \in D |-> Cardinality(On(P, d))]
      /\ [d \in D |-> Daily(q)[d].registrations] =
           [d \in D |-> WithStatus(On(P, d), {"REGISTERED"})]
  BY DEF Daily
<1>4. /\ SumFunction([d \in D |-> Figure(On(I, d), "spendWon")]) = Figure(I, "spendWon")
      /\ SumFunction([d \in D |-> Cardinality(On(P, d))]) = Cardinality(P)
      /\ SumFunction([d \in D |-> WithStatus(On(P, d), {"REGISTERED"})]) =
           WithStatus(P, {"REGISTERED"})
  <2> HIDE DEF D, I, P
  <2>. QED
    BY <1>1, <1>2, FigureByDay, CountByDay, StatusByDay
<1>5. /\ Totals(q).spendWon = SumFunction([d \in D |-> Daily(q)[d].spendWon])
      /\ Totals(q).leads = SumFunction([d \in D |-> Daily(q)[d].leads])
      /\ Totals(q).registrations = SumFunction([d \in D |-> Daily(q)[d].registrations])
  BY <1>3, <1>4, TotalsOfRows
<1>. QED
  BY <1>5 DEF DaysAddUp

LEMMA LeadsAlwaysCountedOnce ==
  ASSUME RowsInv, NEW q \in Queries
  PROVE  LeadsCountedOnce(q, Totals(q))
<1>1. Totals(q).leads = Cardinality(Selected(prospects, q))
  BY TotalsOfRows
<1>2. q.from \in Int /\ q.to \in Int
  BY DashboardBounds DEF Queries, Days
<1>3. DateRange(q) = q.from..q.to \cup q.to..q.from
  BY <1>2 DEF DateRange
<1>4. Selected(prospects, q) =
        {l \in prospects : /\ q.campaign \in {Any, l.origin.campaign}
                           /\ l.day \in q.from..q.to \cup q.to..q.from}
  BY <1>3 DEF Selected
<1>. QED
  BY <1>1, <1>4 DEF LeadsCountedOnce

LEMMA QuotientBound ==
  ASSUME NEW m \in Nat, NEW k \in Nat \ {0}, NEW n \in Nat, m < (n + 1) * k
  PROVE  m \div k \in 0..n
<1>1. m \div k \in Nat /\ (m \div k) * k <= m
  OBVIOUS
<1>2. SUFFICES ASSUME m \div k >= n + 1 PROVE FALSE
  BY <1>1
<1>3. (m \div k) * k >= (n + 1) * k
  BY <1>1, <1>2
<1>. QED
  BY <1>1, <1>3

LEMMA RateOfPart ==
  ASSUME NEW a \in Nat, NEW b \in Nat, a <= b
  PROVE  AtMostWhole(Rate(a, b))
<1> DEFINE v == (2 * Whole * a + b) \div (2 * b)
<1>1. b = 0 => Rate(a, b) = NoRate
  BY DEF Rate
<1>2. b # 0 => Rate(a, b) = v
  BY DEF Rate
<1>3. ASSUME b # 0 PROVE v \in 0..Whole
  <2> DEFINE n == Whole
  <2>1. n \in Nat
    BY DEF Whole
  <2> HIDE DEF n
  <2>2. n * a <= n * b
    BY <2>1
  <2>3. 2 * n * a + b \in Nat /\ 2 * b \in Nat \ {0} /\ 2 * n * a + b < (n + 1) * (2 * b)
    BY <1>3, <2>1, <2>2
  <2>4. (2 * n * a + b) \div (2 * b) \in 0..n
    BY <2>1, <2>3, QuotientBound
  <2>. QED
    BY <2>4 DEF n
<1> HIDE DEF v
<1>4. CASE b = 0
  BY <1>1, <1>4, Zenon DEF AtMostWhole
<1>5. CASE b # 0
  BY <1>2, <1>3, <1>5, Zenon DEF AtMostWhole
<1>. QED
  BY <1>4, <1>5, Zenon

LEMMA WithFewerStatuses ==
  ASSUME NEW P, IsFiniteSet(P), NEW st, NEW su, st \subseteq su
  PROVE  /\ WithStatus(P, st) \in Nat /\ WithStatus(P, su) \in Nat
         /\ WithStatus(P, st) <= WithStatus(P, su)
         /\ WithStatus(P, su) <= Cardinality(P) /\ Cardinality(P) \in Nat
<1> DEFINE A == {l \in P : l.status \in st}
           B == {l \in P : l.status \in su}
<1>1. A \in SUBSET B /\ B \in SUBSET P
  OBVIOUS
<1> HIDE DEF A, B
<1>2. IsFiniteSet(B) /\ IsFiniteSet(A)
  BY <1>1, FS_Subset
<1>3. /\ Cardinality(A) <= Cardinality(B) /\ Cardinality(B) <= Cardinality(P)
      /\ Cardinality(A) \in Nat /\ Cardinality(B) \in Nat /\ Cardinality(P) \in Nat
  BY <1>1, <1>2, FS_Subset, FS_CardinalityType
<1>. QED
  BY <1>3 DEF A, B, WithStatus

\* The statuses of the funnel contain one another, so what counts them shrinks.
LEMMA FunnelShrinks ==
  ASSUME NEW P, IsFiniteSet(P), NEW m, NEW f \in FunnelRates,
         /\ m.leads = Cardinality(P) /\ m.validLeads = WithStatus(P, Valid)
         /\ m.bookings = WithStatus(P, Booking) /\ m.visits = WithStatus(P, Visited)
         /\ m.registrations = WithStatus(P, {"REGISTERED"})
  PROVE  AtMostWhole(Rates(m)[f])
<1>1. \/ Rates(m)[f] = Rate(WithStatus(P, Valid), Cardinality(P))
      \/ Rates(m)[f] = Rate(WithStatus(P, Booking), WithStatus(P, Valid))
      \/ Rates(m)[f] = Rate(WithStatus(P, Visited), WithStatus(P, Booking))
      \/ Rates(m)[f] = Rate(WithStatus(P, {"REGISTERED"}), WithStatus(P, Visited))
  BY DEF Rates, FunnelRates
<1>2. Booking \subseteq Valid /\ Visited \subseteq Booking /\ {"REGISTERED"} \subseteq Visited
  BY DEF Valid, Booking, Visited
<1>3. /\ WithStatus(P, Valid) \in Nat /\ WithStatus(P, Booking) \in Nat
      /\ WithStatus(P, Visited) \in Nat /\ WithStatus(P, {"REGISTERED"}) \in Nat
      /\ Cardinality(P) \in Nat
      /\ WithStatus(P, Valid) <= Cardinality(P)
      /\ WithStatus(P, Booking) <= WithStatus(P, Valid)
      /\ WithStatus(P, Visited) <= WithStatus(P, Booking)
      /\ WithStatus(P, {"REGISTERED"}) <= WithStatus(P, Visited)
  BY <1>2, WithFewerStatuses
<1>. QED
  BY <1>1, <1>3, RateOfPart

LEMMA NoRateIsAboveAll ==
  ASSUME RowsInv, NEW q \in Queries
  PROVE  NoRateAboveAll(q, Totals(q))
<1>1. ASSUME NEW g \in Groups(q), NEW f \in FunnelRates
      PROVE  AtMostWhole(Rates(Creatives(q)[g])[f])
  <2> DEFINE P == Of(Selected(prospects, q), g)
             m == Creatives(q)[g]
  <2>1. IsFiniteSet(P)
    BY SelectedRows, FS_Subset DEF Of
  <2>2. /\ m.leads = Cardinality(P) /\ m.validLeads = WithStatus(P, Valid)
        /\ m.bookings = WithStatus(P, Booking) /\ m.visits = WithStatus(P, Visited)
        /\ m.registrations = WithStatus(P, {"REGISTERED"})
    BY DEF Creatives, Metrics
  <2> HIDE DEF P, m
  <2>3. AtMostWhole(Rates(m)[f])
    BY <2>1, <2>2, FunnelShrinks
  <2>. QED
    BY <2>3 DEF m
<1>2. ASSUME NEW f \in FunnelRates
      PROVE  AtMostWhole(Rates(Totals(q))[f])
  <2> DEFINE P == Selected(prospects, q)
             m == Totals(q)
  <2>1. IsFiniteSet(P)
    BY SelectedRows
  <2>2. /\ m.leads = Cardinality(P) /\ m.validLeads = WithStatus(P, Valid)
        /\ m.bookings = WithStatus(P, Booking) /\ m.visits = WithStatus(P, Visited)
        /\ m.registrations = WithStatus(P, {"REGISTERED"})
    BY TotalsOfRows
  <2> HIDE DEF P, m
  <2>3. AtMostWhole(Rates(m)[f])
    BY <2>1, <2>2, FunnelShrinks
  <2>. QED
    BY <2>3 DEF m
<1>. QED
  BY <1>1, <1>2 DEF NoRateAboveAll

LEMMA DayIsWithinTotal ==
  ASSUME RowsInv, NEW q \in Queries, PlainLandings(q)
  PROVE  DayWithinTotal(q, Totals(q))
<1> SUFFICES ASSUME NEW d \in DateRange(q)
             PROVE  Daily(q)[d].landingVisits <= Totals(q).landingVisits
  BY DEF DayWithinTotal
<1> DEFINE E == Selected(events, q)
           V == {r \in E : r.name = "view_ad_landing"}
           W == {r \in On(E, d) : r.name = "view_ad_landing"}
           f == [r \in V |-> r.session]
<1>1. IsFiniteSet(V)
  BY SelectedRows, FS_Subset
<1>2. {e.session : e \in V} = {f[e] : e \in V}
  OBVIOUS
<1>3. IsFiniteSet({e.session : e \in V})
  <2> HIDE DEF V, f
  <2>. QED
    BY <1>1, <1>2, ImageIsFinite
<1>4. {e.session : e \in W} \subseteq {e.session : e \in V}
  BY DEF On
<1>5. /\ Landings(On(E, d)) \in Nat /\ Landings(E) \in Nat
      /\ Landings(On(E, d)) <= Landings(E)
  <2> DEFINE A == {e.session : e \in W}
             B == {e.session : e \in V}
  <2>1. IsFiniteSet(B) /\ A \in SUBSET B
    BY <1>3, <1>4
  <2>2. Landings(On(E, d)) = Cardinality(A) /\ Landings(E) = Cardinality(B)
    BY DEF Landings
  <2> HIDE DEF A, B
  <2>3. IsFiniteSet(A) /\ Cardinality(A) <= Cardinality(B)
    BY <2>1, FS_Subset
  <2>4. Cardinality(A) \in Nat /\ Cardinality(B) \in Nat
    BY <2>1, <2>3, FS_CardinalityType
  <2>. QED
    BY <2>2, <2>3, <2>4
<1>6. Daily(q)[d].landingVisits = Landings(On(E, d))
  BY DEF Daily
<1>7. Landings(E) <= Totals(q).landingVisits /\ Totals(q).landingVisits \in Nat
  BY TotalsOfRows
<1>. QED
  BY <1>5, <1>6, <1>7

\* For every query, whatever the visitors, the synchronisation and the
\* administrators have written: the dashboard's days add up to its totals, no
\* lead is counted twice or out of range, no rate of the funnel is above 100 %, of
\* any creative or in total, and where no name contains "::" no day has more
\* sessions than the total (MarketingService.dashboard).
THEOREM DashboardAlwaysAddsUp == DashSpec => []DashboardAddsUp
<1>1. RowsInv => DashboardAddsUp
  BY DaysAlwaysAddUp, LeadsAlwaysCountedOnce, NoRateIsAboveAll, DayIsWithinTotal
  DEF DashboardAddsUp
<1>. QED
  BY <1>1, DashboardKeepsRows, PTL

-----------------------------------------------------------------------------
(* AdminBell, for any number of rows and any length of the list.            *)

\* What is marked is not unread any more, and a count that was read before a row
\* was marked does not arrive where there is a count: the request was sent anew.
BellInv ==
  /\ BellTypeOK
  /\ marked \cap unread = {}
  /\ \A m \in Mutations : marking[m].at = "stored" => marking[m].rows \cap unread = {}
  /\ cache["count"].known /\ fetch["count"].at = "read" =>
       fetch["count"].rows \cap marked = {}

\* Rows that are there stay there.
LEMMA RowsStayThere ==
  ASSUME BellTypeOK, created' = created + 1
  PROVE  There \subseteq There' /\ created' \in There' /\ created' \notin There
BY BellBounds DEF BellTypeOK, There

LEMMA EndKeepsTypes ==
  ASSUME BellTypeOK, NEW q \in BellQueries, RequestEnds(q)
  PROVE  /\ fetch' \in [BellQueries -> [at: {"none", "asked", "read"}, rows: SUBSET There]]
         /\ open' \in BOOLEAN
         /\ marking' \in [Mutations -> [at: {"none", "sent", "stored", "settling"},
                                        rows: SUBSET There, awaits: SUBSET BellQueries]]
         /\ \A m \in Mutations : marking'[m].at = "stored" =>
              marking[m].at = "stored" /\ marking'[m].rows = marking[m].rows
         /\ fetch'["count"].at = "read" => fetch'["count"] = fetch["count"]
<1>1. NoMark \in [at: {"none", "sent", "stored", "settling"}, rows: SUBSET There,
                  awaits: SUBSET BellQueries]
  BY DEF NoMark
<1>2. NoFetch \in [at: {"none", "asked", "read"}, rows: SUBSET There]
  BY DEF NoFetch
<1>3. ASSUME NEW m \in Mutations
      PROVE  /\ marking'[m] \in [at: {"none", "sent", "stored", "settling"},
                                 rows: SUBSET There, awaits: SUBSET BellQueries]
             /\ marking'[m].at = "stored" =>
                  marking[m].at = "stored" /\ marking'[m].rows = marking[m].rows
  <2>1. marking[m] \in [at: {"none", "sent", "stored", "settling"}, rows: SUBSET There,
                        awaits: SUBSET BellQueries]
    BY DEF BellTypeOK
  <2>2. marking'[m] = NoMark \/
        marking'[m] = [marking[m] EXCEPT !.awaits = marking[m].awaits \ {q}]
    BY DEF RequestEnds
  <2>3. CASE marking'[m] = NoMark
    BY <1>1, <2>3 DEF NoMark
  <2>4. CASE marking'[m] = [marking[m] EXCEPT !.awaits = marking[m].awaits \ {q}]
    BY <2>1, <2>4
  <2>. QED
    BY <2>2, <2>3, <2>4
<1>4. marking' = [m \in Mutations |-> marking'[m]]
  BY DEF RequestEnds
<1>5. fetch' = [fetch EXCEPT ![q] = NoFetch] /\ open' \in BOOLEAN
  BY DEF RequestEnds, BellTypeOK
<1>6. fetch' \in [BellQueries -> [at: {"none", "asked", "read"}, rows: SUBSET There]]
  BY <1>2, <1>5 DEF BellTypeOK
<1>7. fetch'["count"].at = "read" => fetch'["count"] = fetch["count"]
  BY <1>5 DEF BellTypeOK, NoFetch, BellQueries
<1>. QED
  BY <1>3, <1>4, <1>5, <1>6, <1>7

LEMMA BellStep == ASSUME BellInv, [BellNext]_bellVars PROVE BellInv'
<1> USE DEF BellInv, BellTypeOK
<1>1. CASE UNCHANGED bellVars
  BY <1>1 DEF bellVars, There
<1>2. CASE NewRow
  <2>1. There \subseteq There' /\ created' \in There' /\ created' \notin There
    BY <1>2, RowsStayThere DEF NewRow
  <2>2. created' \in 0..MaxNotices
    BY <1>2, BellBounds DEF NewRow
  <2>3. /\ cache' \in [BellQueries -> [known: BOOLEAN, rows: SUBSET There']]
        /\ fetch' \in [BellQueries -> [at: {"none", "asked", "read"}, rows: SUBSET There']]
        /\ marking' \in [Mutations -> [at: {"none", "sent", "stored", "settling"},
                                       rows: SUBSET There', awaits: SUBSET BellQueries]]
    BY <1>2, <2>1 DEF NewRow
  <2>4. \A m \in Mutations : marking[m].rows \subseteq There
    OBVIOUS
  <2>5. \A m \in Mutations : marking'[m].at = "stored" => marking'[m].rows \cap unread' = {}
    BY <1>2, <2>1, <2>4 DEF NewRow
  <2>. QED
    BY <1>2, <2>1, <2>2, <2>3, <2>5 DEF NewRow
<1>3. CASE Toggle
  BY <1>3 DEF Toggle, There
<1>4. ASSUME NEW r \in Rows, MarkedElsewhere(r) PROVE BellInv'
  BY <1>4 DEF MarkedElsewhere, There
<1>5. ASSUME NEW r \in Rows, ClickRow(r) PROVE BellInv'
  <2> DEFINE o == [NoMark EXCEPT !.at = "sent", !.rows = {r}]
  <2>1. /\ o \in [at: {"none", "sent", "stored", "settling"}, rows: SUBSET There,
                  awaits: SUBSET BellQueries]
        /\ o.at = "sent"
    BY <1>5 DEF ClickRow, NoMark, BellQueries
  <2>2. marking' = [marking EXCEPT !["markRead"] = o]
    BY <1>5 DEF ClickRow
  <2> HIDE DEF o
  <2>3. marking' \in [Mutations -> [at: {"none", "sent", "stored", "settling"},
                                    rows: SUBSET There, awaits: SUBSET BellQueries]]
    BY <2>1, <2>2
  <2>4. \A m \in Mutations : marking'[m].at = "stored" => marking'[m] = marking[m]
    BY <2>1, <2>2
  <2>5. UNCHANGED <<created, unread, cache, fetch, open, marked, There>>
    BY <1>5 DEF ClickRow, There
  <2>. QED
    BY <2>3, <2>4, <2>5
<1>6. CASE ClickAll
  <2> DEFINE o == [marking["markAllRead"] EXCEPT !.at = "sent"]
  <2>1. /\ o \in [at: {"none", "sent", "stored", "settling"}, rows: SUBSET There,
                  awaits: SUBSET BellQueries]
        /\ o.at = "sent"
    BY DEF Mutations
  <2>2. marking' = [marking EXCEPT !["markAllRead"] = o]
    BY <1>6 DEF ClickAll
  <2> HIDE DEF o
  <2>3. marking' \in [Mutations -> [at: {"none", "sent", "stored", "settling"},
                                    rows: SUBSET There, awaits: SUBSET BellQueries]]
    BY <2>1, <2>2
  <2>4. \A m \in Mutations : marking'[m].at = "stored" => marking'[m] = marking[m]
    BY <2>1, <2>2
  <2>5. UNCHANGED <<created, unread, cache, fetch, open, marked, There>>
    BY <1>6 DEF ClickAll, There
  <2>. QED
    BY <2>3, <2>4, <2>5
<1>7. ASSUME NEW q \in BellQueries, Poll(q) PROVE BellInv'
  <2>1. Sent \in [at: {"none", "asked", "read"}, rows: SUBSET There] /\ Sent.at = "asked"
    BY DEF Sent
  <2> HIDE DEF Sent
  <2>. QED
    BY <1>7, <2>1 DEF Poll, There
<1>8. ASSUME NEW q \in BellQueries, Serve(q) PROVE BellInv'
  <2> DEFINE rows == IF q = "count" THEN unread ELSE Newest \cap unread
  <2>1. rows \subseteq There /\ (q = "count" => rows \cap marked = {})
    OBVIOUS
  <2>2. fetch' = [fetch EXCEPT ![q] = [at |-> "read", rows |-> rows]]
    BY <1>8 DEF Serve
  <2>3. fetch' \in [BellQueries -> [at: {"none", "asked", "read"}, rows: SUBSET There]]
    BY <2>1, <2>2
  <2> HIDE DEF rows
  <2>4. fetch'["count"] = fetch["count"] \/ fetch'["count"].rows \cap marked = {}
    BY <2>1, <2>2
  <2>5. UNCHANGED <<created, unread, cache, open, marking, marked, There>>
    BY <1>8 DEF Serve, There
  <2>. QED
    BY <2>3, <2>4, <2>5
<1>9. ASSUME NEW q \in BellQueries, Arrive(q) PROVE BellInv'
  <2>1. RequestEnds(q) /\ UNCHANGED <<created, unread, marked>>
    BY <1>9 DEF Arrive, RequestEnds
  <2>2. cache' \in [BellQueries -> [known: BOOLEAN, rows: SUBSET There]]
    BY <1>9 DEF Arrive
  <2>3. CASE q = "count"
    <3>1. fetch'["count"].at = "none"
      BY <2>1, <2>3 DEF RequestEnds, NoFetch
    <3>. QED
      BY <2>1, <2>2, <3>1, EndKeepsTypes DEF There
  <2>4. CASE q # "count"
    <3>1. cache'["count"] = cache["count"]
      BY <1>9, <2>4 DEF Arrive
    <3>. QED
      BY <2>1, <2>2, <3>1, EndKeepsTypes DEF There
  <2>. QED
    BY <2>3, <2>4
<1>10. ASSUME NEW q \in BellQueries, Lose(q) PROVE BellInv'
  <2>1. RequestEnds(q) /\ UNCHANGED <<created, unread, marked, cache>>
    BY <1>10 DEF Lose, RequestEnds
  <2>. QED
    BY <2>1, EndKeepsTypes DEF There
<1>11. ASSUME NEW m \in Mutations, StoreMark(m) PROVE BellInv'
  <2> DEFINE rows == IF m = "markAllRead" THEN unread ELSE marking[m].rows
  <2>1. rows \subseteq There
    OBVIOUS
  <2>2. /\ unread' = unread \ rows
        /\ marking' = [marking EXCEPT ![m].at = "stored", ![m].rows = rows]
    BY <1>11 DEF StoreMark
  <2> HIDE DEF rows
  <2> DEFINE o == [marking[m] EXCEPT !.at = "stored", !.rows = rows]
  <2>5. /\ o \in [at: {"none", "sent", "stored", "settling"}, rows: SUBSET There,
                  awaits: SUBSET BellQueries]
        /\ o.rows = rows
    BY <2>1
  <2>6. marking' = [marking EXCEPT ![m] = o]
    BY <2>2
  <2> HIDE DEF o
  <2>3. marking' \in [Mutations -> [at: {"none", "sent", "stored", "settling"},
                                    rows: SUBSET There, awaits: SUBSET BellQueries]]
    BY <2>5, <2>6
  <2>4. \A k \in Mutations : marking'[k].at = "stored" => marking'[k].rows \cap unread' = {}
    BY <2>1, <2>2
  <2>. QED
    BY <1>11, <2>1, <2>2, <2>3, <2>4 DEF StoreMark, There
<1>12. ASSUME NEW m \in Mutations, AnswerMark(m) PROVE BellInv'
  <2>1. Sent \in [at: {"none", "asked", "read"}, rows: SUBSET There] /\ Sent.at = "asked"
    BY DEF Sent
  <2>2. \A q \in BellQueries : Invalidated(q) \in {Sent, fetch[q]}
    BY DEF Invalidated
  <2>3. fetch' \in [BellQueries -> [at: {"none", "asked", "read"}, rows: SUBSET There]]
    BY <1>12, <2>1, <2>2 DEF AnswerMark
  <2>4. cache["count"].known => fetch'["count"] = Sent
    BY <1>12 DEF AnswerMark, Invalidated, InUse, BellQueries
  <2> DEFINE o == [at |-> "settling", rows |-> {}, awaits |-> {q \in BellQueries : InUse(q)}]
  <2>5. o \in [at: {"none", "sent", "stored", "settling"}, rows: SUBSET There,
               awaits: SUBSET BellQueries] /\ o.at = "settling"
    OBVIOUS
  <2>6. marking' = [marking EXCEPT ![m] = o]
    BY <1>12 DEF AnswerMark
  <2> HIDE DEF o, Sent
  <2>7. /\ marking' \in [Mutations -> [at: {"none", "sent", "stored", "settling"},
                                       rows: SUBSET There, awaits: SUBSET BellQueries]]
        /\ \A k \in Mutations : marking'[k].at = "stored" =>
             marking[k].at = "stored" /\ marking'[k].rows = marking[k].rows
    BY <2>5, <2>6
  <2>8. marked' \subseteq There /\ marked' \cap unread = {}
    BY <1>12 DEF AnswerMark
  <2>. QED
    BY <1>12, <2>1, <2>3, <2>4, <2>7, <2>8 DEF AnswerMark, There
<1>13. ASSUME NEW m \in Mutations, LoseMark(m) PROVE BellInv'
  <2>1. NoMark \in [at: {"none", "sent", "stored", "settling"}, rows: SUBSET There,
                    awaits: SUBSET BellQueries] /\ NoMark.at = "none"
    BY DEF NoMark
  <2>2. marking' = [marking EXCEPT ![m] = NoMark]
    BY <1>13 DEF LoseMark
  <2> HIDE DEF NoMark
  <2>. QED
    BY <1>13, <2>1, <2>2 DEF LoseMark, There
<1>. QED
  BY <1>1, <1>2, <1>3, <1>4, <1>5, <1>6, <1>7, <1>8, <1>9, <1>10, <1>11, <1>12, <1>13
  DEF BellNext

THEOREM BellInductive == BellInit /\ [][BellNext]_bellVars => []BellInv
<1>1. ASSUME BellInit PROVE BellInv
  <2>1. /\ NoMark \in [at: {"none", "sent", "stored", "settling"}, rows: SUBSET There,
                       awaits: SUBSET BellQueries] /\ NoMark.at = "none"
        /\ NoFetch \in [at: {"none", "asked", "read"}, rows: SUBSET There]
        /\ NoFetch.at = "none"
    BY DEF NoMark, NoFetch
  <2>2. 0 \in 0..MaxNotices
    BY BellBounds
  <2> HIDE DEF NoMark, NoFetch
  <2>3. BellTypeOK
    BY <1>1, <2>1, <2>2 DEF BellInit, BellTypeOK
  <2>4. fetch["count"].at = "none" /\ \A m \in Mutations : marking[m].at = "none"
    BY <1>1, <2>1 DEF BellInit, BellQueries
  <2>. QED
    BY <1>1, <2>3, <2>4 DEF BellInit, BellInv
<1>. QED
  BY <1>1, BellStep, PTL

\* useAdminNotificationMutations.ts: once there is a count, no answer that comes
\* late adds a row to it that this bell was told is marked, however polls and both
\* kinds of markings overlap.
THEOREM MarkedAlwaysStayRead == BellInit /\ [][BellNext]_bellVars => MarkedStayRead
<1>1. ASSUME BellInv, [BellNext]_bellVars, cache["count"].known
      PROVE  (cache'["count"].rows \ cache["count"].rows) \cap marked = {}
  <2>1. CASE UNCHANGED cache
    BY <2>1
  <2>2. ASSUME NEW q \in BellQueries, Arrive(q)
        PROVE  (cache'["count"].rows \ cache["count"].rows) \cap marked = {}
    <3>1. CASE q = "count"
      BY <1>1, <2>2, <3>1 DEF Arrive, BellInv, BellTypeOK
    <3>2. CASE q # "count"
      BY <1>1, <2>2, <3>2 DEF Arrive, BellInv, BellTypeOK
    <3>. QED
      BY <3>1, <3>2
  <2>3. UNCHANGED cache \/ \E q \in BellQueries : Arrive(q)
    BY <1>1 DEF BellNext, bellVars, NewRow, Toggle, ClickAll, MarkedElsewhere, ClickRow,
                Poll, Serve, Lose, StoreMark, AnswerMark, LoseMark
  <2>. QED
    BY <2>1, <2>2, <2>3
<1>2. BellInv /\ [BellNext]_bellVars =>
        [cache["count"].known =>
           (cache["count"].rows' \ cache["count"].rows) \cap marked = {}]_bellVars
  BY <1>1
<1>. QED
  BY <1>2, BellInductive, PTL DEF MarkedStayRead

-----------------------------------------------------------------------------
(* The composition: each component behaves as it does on its own, whether  *)
(* it is the one that runs or not.  No fairness is needed.                 *)

\* A step of the composition is a step of each component or leaves it alone.
LEMMA SiteStepIsEachs ==
  ASSUME [SiteNext]_<<part, siteVars>>
  PROVE  /\ [Next]_vars /\ [TxNext]_txVars /\ [IntakeNext]_intakeVars
         /\ [DashNext]_dashVars /\ [BellNext]_bellVars
         /\ part \in Parts => (part \in Parts)'
<1>1. CASE UNCHANGED <<part, siteVars>>
  BY <1>1 DEF siteVars
<1>2. CASE SiteNext
  BY <1>2 DEF SiteNext, Is
<1> QED  BY <1>1, <1>2

\* Every behaviour of the composition is one of each component.
THEOREM SiteRunsEachPart ==
  SiteSpec => /\ Init /\ [][Next]_vars
              /\ TxInit /\ [][TxNext]_txVars
              /\ IntakeSpec /\ DashSpec
              /\ BellInit /\ [][BellNext]_bellVars
              /\ [](part \in Parts)
<1>1. SiteInit => /\ Init /\ TxInit /\ IntakeInit /\ DashInit /\ BellInit
                  /\ part \in Parts
  BY DEF SiteInit
<1> QED
  BY <1>1, SiteStepIsEachs, PTL DEF SiteSpec, IntakeSpec, DashSpec

\* Locks, calls, leads, the dashboard's rows and the bell keep their types, for
\* any number of each; a lock that is held says since when.
THEOREM SiteTypesHold == SiteSpec => []SiteTypeOK
<1>1. LockInv => TypeOK  BY DEF LockInv
<1>2. TxInv => TxTypeOK  BY DEF TxInv
<1>3. IntakeInv => IntakeTypeOK  BY DEF IntakeInv
<1>4. RowsInv => DashTypeOK  BY DEF RowsInv
<1>6. BellInv => BellTypeOK  BY DEF BellInv
<1>5. /\ part \in Parts
      /\ TypeOK /\ TxTypeOK /\ IntakeTypeOK /\ DashTypeOK /\ BellTypeOK
      => SiteTypeOK
  BY DEF Parts, SiteTypeOK
<1> QED
  BY <1>1, <1>2, <1>3, <1>4, <1>5, <1>6, SiteRunsEachPart, LockInductive, TxInductive,
     IntakeInductive, DashboardKeepsRows, BellInductive, PTL

\* What the components promise one by one holds of the composition.
THEOREM SiteKeepsPromises ==
  SiteSpec =>
    /\ [](/\ OneRunAtATime /\ RateLimitsHold /\ DuplicatesOnlyByRace
          /\ DashboardAddsUp /\ MailsTellTheTruth)
    /\ InsightsNeverGoBack /\ RequestsAreAtomic /\ MarkedStayRead
<1>1. LockInv => OneRunAtATime  BY DEF LockInv
<1> QED
  BY <1>1, SiteRunsEachPart, LockInductive, InsightsStep, LimitsAlwaysHold,
     DuplicatesAreAlwaysRaces, DashboardAlwaysAddsUp, MailsAlwaysTellTheTruth,
     HandlersAreAtomic, MarkedAlwaysStayRead, PTL
  DEF InsightsNeverGoBack
=============================================================================
