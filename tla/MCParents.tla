----------------------------- MODULE MCParents -----------------------------
(* What becomes of parents' data and what parents fill in, which share no   *)
(* state: two account removals beside the desk (MCMemberRemoval), or the    *)
(* application form.  `part` says which of the two runs.                    *)
EXTENDS MCMemberRemoval, ApplyForm

VARIABLE part

Is(p) == part = p /\ UNCHANGED part

ParentsInit == part \in {"removal", "form"} /\ RemovalInit /\ ApplyInit

ParentsNext ==
  \/ Is("removal") /\ RemovalNext /\ UNCHANGED applyVars
  \/ Is("form") /\ ApplyNext /\ UNCHANGED removalVars

ParentsSpec == ParentsInit /\ [][ParentsNext]_<<part, removalVars, applyVars>>

\* Three rows of one day.  The first class is open to five-year-olds over the last
\* two rows or, rescheduled, over the first; the second over the first two rows,
\* also to six-year-olds.  One child has a birthday.
Pick(f, t) == [day |-> "mon", from |-> f, to |-> t]
MCAgesOf == [k1 |-> {5}, k2 |-> {5, 6}]
MCOffers == [g1 |-> {[slots |-> {Pick(1, 3)}, ages |-> {5}], [slots |-> {Pick(0, 1)}, ages |-> {5}]},
             g2 |-> {[slots |-> {Pick(0, 2)}, ages |-> {5, 6}]}]
MCClosed == {Pick(1, 3), Pick(0, 2)}
=============================================================================
