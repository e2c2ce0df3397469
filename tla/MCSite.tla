------------------------------- MODULE MCSite -------------------------------
(* Small instances of five components that share no state, one of which     *)
(* runs in each behaviour: the Meta synchronisation, the transactions of    *)
(* the reservation handlers, the intake of leads and events, the dashboard  *)
(* and the administrators' bell.  `part` says which; the variables of the   *)
(* others stay as they are, and only what runs is scheduled fairly.         *)
EXTENDS MetaSync, SerializableTx, LeadIntake, MarketingDashboard, AdminBell

CONSTANTS w1, w2, h1, h2, h3, s1, s2, p1, p2

VARIABLE part

Parts == {"sync", "handlers", "intake", "dashboard", "bell"}
siteVars == <<vars, txVars, intakeVars, dashVars, bellVars>>

Is(p) == part = p /\ UNCHANGED part

SiteInit ==
  /\ part \in Parts
  /\ Init /\ TxInit /\ IntakeInit /\ DashInit /\ BellInit

SiteNext ==
  \/ /\ Is("sync") /\ Next
     /\ UNCHANGED <<txVars, intakeVars, dashVars, bellVars>>
  \/ /\ Is("handlers") /\ TxNext
     /\ UNCHANGED <<vars, intakeVars, dashVars, bellVars>>
  \/ /\ Is("intake") /\ IntakeNext
     /\ UNCHANGED <<vars, txVars, dashVars, bellVars>>
  \/ /\ Is("dashboard") /\ DashNext
     /\ UNCHANGED <<vars, txVars, intakeVars, bellVars>>
  \/ /\ Is("bell") /\ BellNext
     /\ UNCHANGED <<vars, txVars, intakeVars, dashVars>>

\* Each component's own fairness (Fairness, TxFairness, BellFairness), of the
\* one that runs.
SiteFairness ==
  /\ WF_vars(Is("sync") /\ Tick)
  /\ \A r \in Runners : WF_vars(Is("sync") /\ Begin(r)) /\ WF_vars(Is("sync") /\ Step(r))
  /\ \A q \in Handlers : WF_txVars(Is("handlers") /\ Proceed(q))
  /\ WF_bellVars(Is("bell") /\ Poll("count"))
  /\ SF_bellVars(Is("bell") /\ Serve("count")) /\ SF_bellVars(Is("bell") /\ Arrive("count"))

SiteSpec == SiteInit /\ [][SiteNext]_<<part, siteVars>> /\ SiteFairness

\* The one free seat is what h1 and h2 take, and what h3 gives back.
MCHandlers == {h1, h2, h3}
MCSeats == 0..1
MCEffect ==
  [h \in MCHandlers |-> [free \in MCSeats |->
     CASE h # h3 /\ free > 0 -> free - 1
       [] h = h3 /\ free < 1 -> free + 1
       [] OTHER -> Refused]]

\* Keys of landings can collide: <<"1", "2">> is a key by itself and what the key of
\* <<"1", "2">> and <<"2">> is cut down to.
MCCampaigns == {<<"1">>, <<"1", "2">>}
MCAds == {<<"2">>}
MCFigures == {[spendWon |-> 1, impressions |-> 2, linkClicks |-> 1],
              [spendWon |-> 2, impressions |-> 0, linkClicks |-> 0]}

\* Locks, calls, rows and badges keep their types; a lock that is held says
\* since when.
SiteTypeOK ==
  CASE part = "sync" -> TypeOK
    [] part = "handlers" -> TxTypeOK
    [] part = "intake" -> IntakeTypeOK
    [] part = "dashboard" -> DashTypeOK
    [] part = "bell" -> BellTypeOK

\* The requests are those of the handlers: whatever the others do, every one
\* that is not cut off is answered.
HandlersAnswer == part = "handlers" => EveryRequestEnds
=============================================================================
