-------------------------- MODULE BlueGreenDeploy --------------------------
(***************************************************************************)
(* The deploy job of .github/workflows/deploy-backend.yml: the color that  *)
(* runs is found, the other one is started with the new image and waited   *)
(* for, and then the first is stopped.  The job has no concurrency group,  *)
(* so that two pushes are deployed side by side, and it can be cut off     *)
(* between any two commands (a lost connection, a cancelled workflow, a    *)
(* failing command under set -e).  Docker and Caddy are external.          *)
(***************************************************************************)
EXTENDS FiniteSets

CONSTANT Jobs  \* deployments, each of which runs again and again

VARIABLES
  box,     \* per color: no container, or one that was healthy since it was
           \* created ("proven") or was not yet ("new")
  job,     \* each deployment: its next command, and the colors it has chosen
  served,  \* history: some deployment has succeeded
  upset    \* history: two deployments have overlapped, or one was cut off

deployVars == <<box, job, served, upset>>

Colors == {"blue", "green"}
Asleep == [at |-> "asleep", active |-> "", standby |-> ""]
Awake(j) == job[j].at # "asleep"
Runs(c) == box[c] # "absent"

DeployTypeOK ==
  /\ box \in [Colors -> {"absent", "new", "proven"}]
  /\ job \in [Jobs -> [at: {"asleep", "starting", "waiting", "stopping"},
                       active: Colors \cup {""}, standby: Colors \cup {""}]]
  /\ \A j \in Jobs : Awake(j) => job[j].active # job[j].standby
  /\ served \in BOOLEAN /\ upset \in BOOLEAN

DeployInit ==
  /\ box = [c \in Colors |-> "absent"]
  /\ job = [j \in Jobs |-> Asleep]
  /\ served = FALSE /\ upset = FALSE

Turns(j, stage) == job' = [job EXCEPT ![j].at = stage]
Finishes(j) == job' = [job EXCEPT ![j] = Asleep]

\* Of two colors that run, the loop finds the second.
ActiveColor == IF Runs("green") THEN "green" ELSE IF Runs("blue") THEN "blue" ELSE ""
StandbyColor == IF ActiveColor = "blue" THEN "green" ELSE "blue"

StartJob(j) ==
  /\ ~Awake(j)
  /\ job' = [job EXCEPT ![j] =
       [at |-> "starting", active |-> ActiveColor, standby |-> StandbyColor]]
  /\ upset' = (upset \/ \E k \in Jobs : Awake(k))
  /\ UNCHANGED <<box, served>>

\* up -d: a container that runs is created anew if the image has changed.
StartStandby(j) ==
  LET c == job[j].standby IN
  /\ job[j].at = "starting"
  /\ \/ box' = [box EXCEPT ![c] = "new"]
     \/ Runs(c) /\ UNCHANGED box
  /\ Turns(j, "waiting")
  /\ UNCHANGED <<served, upset>>

\* Mutant: the job goes on when the tries are used up.
StandbyTakenForHealthy(j) ==
  /\ job[j].at = "waiting"
  /\ Turns(j, "stopping")
  /\ served' = TRUE
  /\ UNCHANGED <<box, upset>>
\* The health check of the container passes; Caddy is reloaded.
StandbyHealthy(j) ==
  /\ job[j].at = "waiting" /\ box[job[j].standby] = "proven"
  /\ Turns(j, "stopping")
  /\ served' = TRUE
  /\ UNCHANGED <<box, upset>>

\* Not healthy in twenty tries: the new container is removed again.
RollBack(j) ==
  /\ job[j].at = "waiting"
  /\ box' = [box EXCEPT ![job[j].standby] = "absent"]
  /\ Finishes(j)
  /\ UNCHANGED <<served, upset>>

StopActive(j) ==
  /\ job[j].at = "stopping"
  /\ box' = [c \in Colors |-> IF c = job[j].active THEN "absent" ELSE box[c]]
  /\ Finishes(j)
  /\ UNCHANGED <<served, upset>>

CutOff(j) ==
  /\ Awake(j)
  /\ Finishes(j) /\ upset' = TRUE
  /\ UNCHANGED <<box, served>>

BecomesHealthy(c) ==
  /\ box[c] = "new"
  /\ box' = [box EXCEPT ![c] = "proven"]
  /\ UNCHANGED <<job, served, upset>>

\* Caddy is started by hand, and with it what it depends on.
StartCaddy ==
  /\ ~Runs("blue")
  /\ box' = [box EXCEPT !["blue"] = "new"]
  /\ UNCHANGED <<job, served, upset>>

DeployNext ==
  \/ StartCaddy
  \/ \E c \in Colors : BecomesHealthy(c)
  \/ \E j \in Jobs :
       \/ StartJob(j) \/ StartStandby(j) \/ StandbyHealthy(j) \/ RollBack(j)
       \/ StopActive(j) \/ CutOff(j)

DeploySpec == DeployInit /\ [][DeployNext]_deployVars

-----------------------------------------------------------------------------

SomeBackendIsProven == \E c \in Colors : box[c] = "proven"

\* Deployments that run one after the other, each to its end, successful or
\* not, never leave the site without a backend that has answered.
OneAtATimeNoGap == served /\ ~upset => SomeBackendIsProven

\* docs/agent-guides/deployment.md:44,48: deploying is without interruption, and
\* when the new color does not become healthy the one that served is kept.
NeverAGap == served => SomeBackendIsProven
=============================================================================
