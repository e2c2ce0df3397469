------------------------------ MODULE MetaSync ------------------------------
(***************************************************************************)
(* The synchronisation of Meta advertising data (MetaSyncService.sync).    *)
(* Runs are started by the scheduler of each backend process and by the    *)
(* administrator; the one row of MetaSyncState is their lock.  A run that  *)
(* finds the lock older than StaleAfter takes it over, so that a process   *)
(* that died with the lock does not stop the synchronisation for good.     *)
(*                                                                         *)
(* Time is kept as ages.  Of the insights one row is followed, that of one *)
(* advertisement on one day: what Meta reports of it is a version number   *)
(* that only grows, and a run stores the version it fetched.  A run that   *)
(* fails halfway has stored the row or has not.                            *)
(***************************************************************************)
EXTENDS Naturals, FiniteSets

CONSTANTS
  Runners,     \* who can start a run: one at a time each
  StaleAfter,  \* META_SYNC_LOCK_MINUTES
  MaxDelay,    \* bound: a run reads the clock at most this long before it
               \* tries the lock, two statements later
  MaxVersion,  \* bound on the versions Meta publishes
  MaxCrashes   \* bound on the processes that die during a run

ASSUME BoundsAreValid ==
  /\ StaleAfter \in Nat \ {0} /\ MaxDelay \in 0..StaleAfter
  /\ MaxVersion \in Nat /\ MaxCrashes \in Nat

VARIABLES
  lock,       \* the MetaSyncState row: isRunning, the age of lastStartedAt,
              \* whether lastError is set
  run,        \* each runner's run; age is that of its startedAt
  published,  \* the version Meta reports now
  stored,     \* the version in the MetaAdDailyInsight row
  crashes,
  late        \* history: some run has outlived the lock it took

vars == <<lock, run, published, stored, crashes, late>>

AgeCap == MaxDelay + StaleAfter + 1  \* ages beyond it are all alike
Never == AgeCap + 1                  \* lastStartedAt is null
Phases == {"idle", "starting", "fetching", "writing", "finishing"}
Idle == [phase |-> "idle", age |-> 0, fetched |-> 0]

\* A lock that is held says since when: otherwise nobody could take it over.
TypeOK ==
  /\ lock \in [running: BOOLEAN, age: 0..Never, failed: BOOLEAN]
  /\ lock.running => lock.age # Never
  /\ run \in [Runners -> [phase: Phases, age: 0..AgeCap, fetched: 0..MaxVersion]]
  /\ published \in 0..MaxVersion /\ stored \in 0..MaxVersion
  /\ crashes \in 0..MaxCrashes /\ late \in BOOLEAN

Active(r) == run[r].phase \in {"fetching", "writing", "finishing"}

Init ==
  /\ lock = [running |-> FALSE, age |-> Never, failed |-> FALSE]
  /\ run = [r \in Runners |-> Idle]
  /\ published = 0 /\ stored = 0 /\ crashes = 0 /\ late = FALSE

Begin(r) ==
  /\ run[r].phase = "idle"
  /\ run' = [run EXCEPT ![r] = [Idle EXCEPT !.phase = "starting"]]
  /\ UNCHANGED <<lock, published, stored, crashes, late>>

\* Mutants: the stale time is not subtracted; the takeover is missing.
TakeableEarly(r) == ~lock.running \/ (lock.age # Never /\ lock.age > run[r].age)
TakeableNever(r) == ~lock.running
\* lastStartedAt < startedAt - StaleAfter, which a null is not
Takeable(r) ==
  ~lock.running \/ (lock.age # Never /\ lock.age > run[r].age + StaleAfter)

\* Mutant: lastStartedAt is left as it is.
AcquireUndated(r) ==
  /\ run[r].phase = "starting"
  /\ IF Takeable(r)
       THEN /\ lock' = [lock EXCEPT !.running = TRUE, !.failed = FALSE]
            /\ run' = [run EXCEPT ![r].phase = "fetching"]
       ELSE /\ run' = [run EXCEPT ![r] = Idle]
            /\ UNCHANGED lock
  /\ UNCHANGED <<published, stored, crashes, late>>

\* One conditional update: the run either has the lock or is skipped.
Acquire(r) ==
  /\ run[r].phase = "starting"
  /\ IF Takeable(r)
       THEN /\ lock' = [running |-> TRUE, age |-> run[r].age, failed |-> FALSE]
            /\ run' = [run EXCEPT ![r].phase = "fetching"]
       ELSE /\ run' = [run EXCEPT ![r] = Idle]
            /\ UNCHANGED lock
  /\ UNCHANGED <<published, stored, crashes, late>>

Fetch(r) ==
  /\ run[r].phase = "fetching"
  /\ run' = [run EXCEPT ![r].phase = "writing", ![r].fetched = published]
  /\ UNCHANGED <<lock, published, stored, crashes, late>>

Upsert(r) ==
  /\ run[r].phase = "writing"
  /\ stored' = run[r].fetched
  /\ run' = [run EXCEPT ![r].phase = "finishing"]
  /\ UNCHANGED <<lock, published, crashes, late>>

\* The creatives are stored and the lock is released, whoever holds it by now.
Finish(r) ==
  /\ run[r].phase = "finishing"
  /\ lock' = [lock EXCEPT !.running = FALSE, !.failed = FALSE]
  /\ run' = [run EXCEPT ![r] = Idle]
  /\ UNCHANGED <<published, stored, crashes, late>>

\* A statement or request of the run fails, and the catch clause releases.
Fail(r) ==
  /\ Active(r)
  /\ lock' = [lock EXCEPT !.running = FALSE, !.failed = TRUE]
  /\ run' = [run EXCEPT ![r] = Idle]
  /\ UNCHANGED <<published, stored, crashes, late>>

\* The process is stopped, or the write that releases the lock fails too;
\* before the run has the lock, also: one of its statements fails.
Crash(r) ==
  /\ run[r].phase # "idle" /\ crashes < MaxCrashes
  /\ run' = [run EXCEPT ![r] = Idle]
  /\ crashes' = crashes + 1
  /\ UNCHANGED <<lock, published, stored, late>>

Publish ==
  /\ published < MaxVersion
  /\ published' = published + 1
  /\ UNCHANGED <<lock, run, stored, crashes, late>>

Older(age) == IF age < AgeCap THEN age + 1 ELSE age

Tick ==
  /\ \A r \in Runners : run[r].phase = "starting" => run[r].age < MaxDelay
  /\ lock' = [lock EXCEPT !.age = Older(@)]  \* a null stays one
  /\ run' = [r \in Runners |->
       IF run[r].phase = "idle" THEN run[r] ELSE [run[r] EXCEPT !.age = Older(@)]]
  /\ late' = (late \/ \E r \in Runners : Active(r) /\ run[r].age >= StaleAfter)
  /\ UNCHANGED <<published, stored, crashes>>

Step(r) == Acquire(r) \/ Fetch(r) \/ Upsert(r) \/ Finish(r)

Next ==
  \/ Publish \/ Tick
  \/ \E r \in Runners : Begin(r) \/ Step(r) \/ Fail(r) \/ Crash(r)

\* The scheduler goes on starting runs, runs go on, time passes.
Fairness ==
  /\ WF_vars(Tick)
  /\ \A r \in Runners : WF_vars(Begin(r)) /\ WF_vars(Step(r))

Spec == Init /\ [][Next]_vars /\ Fairness

-----------------------------------------------------------------------------

\* As long as every run is done within StaleAfter, there is at most one.
OneRunAtATime ==
  ~late => \A q, r \in Runners : Active(q) /\ Active(r) => q = r

\* And then what is stored never goes back to an older report.
InsightsNeverGoBack == [][~late => stored' >= stored]_vars

\* A lock left by a dead process is taken over and released in the end.
LockRecovers == lock.running ~> ~lock.running

\* meta-sync.service.spec.ts: a run that does not get the lock does not start,
\* so no run starts while another is within its time.
NoTwoFreshRuns ==
  \A q, r \in Runners :
    /\ Active(q) /\ run[q].age <= StaleAfter
    /\ Active(r) /\ run[r].age <= StaleAfter
    => q = r

=============================================================================
