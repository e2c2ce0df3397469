----------------------------- MODULE MCServices -----------------------------
(* Small instances of five components that share no state, one of which runs *)
(* in each behaviour: administrator accounts, parents' logins, the class     *)
(* schedules, the deployment and a parent's browser.  `part` says which; the *)
(* variables of the others stay as they are.                                 *)
EXTENDS AdminAccounts, ParentAuth, ClassSchedules, BlueGreenDeploy, ParentPages, TLC

CONSTANTS a1, a2, a3, u1, u2, e1, s1, d1, m1, k1, k2,
          x1, x2   \* two of whoever acts: requests, editors, jobs, families

VARIABLE part

Parts == {"accounts", "logins", "schedule", "deploy", "browser"}
servicesVars == <<vars, authVars, schedVars, deployVars, parentVars>>

Is(p) == part = p /\ UNCHANGED part

\* A component that does not run starts in one state only.
ServicesInit ==
  /\ part \in Parts
  /\ Init /\ (part # "accounts" => admin[First] = u1)
  /\ AuthInit /\ SchedInit /\ DeployInit
  /\ ParentInit /\ (part # "browser" => stored = [k \in ChildIds |-> NoOne])

ServicesNext ==
  \/ Is("accounts") /\ Next /\ UNCHANGED <<authVars, schedVars, deployVars, parentVars>>
  \/ Is("logins") /\ AuthNext /\ UNCHANGED <<vars, schedVars, deployVars, parentVars>>
  \/ Is("schedule") /\ SchedNext /\ UNCHANGED <<vars, authVars, deployVars, parentVars>>
  \/ Is("deploy") /\ DeployNext /\ UNCHANGED <<vars, authVars, schedVars, parentVars>>
  \/ Is("browser") /\ ParentNext /\ UNCHANGED <<vars, authVars, schedVars, deployVars>>

ServicesSpec == ServicesInit /\ [][ServicesNext]_<<part, servicesVars>>

ServicesSymmetry == Permutations({x1, x2}) \cup Permutations(ChildIds)

\* Accounts, logins, schedules, colors and a browser's caches keep their types;
\* the unique indices of the schema hold.
ServicesTypeOK ==
  CASE part = "accounts" -> TypeOK
    [] part = "logins" -> AuthTypeOK
    [] part = "schedule" -> SchedTypeOK
    [] part = "deploy" -> DeployTypeOK
    [] part = "browser" -> ParentTypeOK
=============================================================================
