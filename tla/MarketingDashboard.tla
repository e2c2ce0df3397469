------------------------- MODULE MarketingDashboard -------------------------
(***************************************************************************)
(* What the marketing dashboard computes (MarketingService.dashboard) of   *)
(* the rows that the synchronisation, the visitors' pages and the          *)
(* administrators write: per creative, in total and per day.  Days are     *)
(* days in Seoul, numbered.  Of the figures that are added up alike one of *)
(* each kind is followed, and costs are left out.  A creative is known by  *)
(* the names of its campaign and its ad with "::" between them.  A name is *)
(* the sequence of the parts that "::" cuts it into, so that joining names *)
(* is joining sequences; that a ":" at the end of one name and one at the  *)
(* start of the next would make another "::" is left out.                  *)
(***************************************************************************)
EXTENDS Integers, FiniteSets, Functions, Sequences

CONSTANTS
  Campaigns, Ads,   \* names
  Sessions, LastDay,
  Figures,   \* what Meta may report of an ad and a day
  Unset,     \* null, of a campaign or an ad
  Any,       \* a query without a campaign
  NoRate,    \* null, of a rate
  MaxRows    \* bound on the rows of all three tables together

ASSUME DashboardBounds == LastDay \in Nat \ {0} /\ MaxRows \in Nat
ASSUME FiguresAreCounts == Figures \subseteq [spendWon: Nat, impressions: Nat, linkClicks: Nat]

VARIABLES
  insights,  \* MetaAdDailyInsight, one row per ad and day
  events,    \* MarketingEvent
  prospects  \* Lead

dashVars == <<insights, events, prospects>>

Days == 1..LastDay
Origin == [campaign: Campaigns \cup {Unset}, ad: Ads \cup {Unset}]
EventNames == {"view_ad_landing", "consultation_cta_click"}
LeadStatuses == {"NEW", "CONTACTED", "CONSULTATION_BOOKED", "VISITED", "REGISTERED",
                 "NO_RESPONSE", "DISQUALIFIED"}

DashTypeOK ==
  /\ \A i \in insights : i \in [origin: Origin, day: Days, figures: Figures]
  /\ \A e \in events : e \in [id: Nat, origin: Origin, name: EventNames,
                              session: Sessions, day: Days]
  /\ \A l \in prospects : l \in [id: Nat, origin: Origin, status: LeadStatuses, day: Days]

DashInit == insights = {} /\ events = {} /\ prospects = {}

RowCount == Cardinality(insights) + Cardinality(events) + Cardinality(prospects)

\* The synchronisation: the row of the ad and the day is created or overwritten.
\* Meta names campaigns and ads by numbers.
StoreInsight(origin, day, figures) ==
  LET old == {i \in insights : i.origin.ad = origin.ad /\ i.day = day} IN
  /\ origin.campaign # Unset /\ Len(origin.campaign) = 1
  /\ origin.ad # Unset /\ Len(origin.ad) = 1
  /\ old = {} => RowCount < MaxRows
  /\ insights' = (insights \ old) \cup {[origin |-> origin, day |-> day, figures |-> figures]}
  /\ UNCHANGED <<events, prospects>>

RecordEvent(origin, name, session, day) ==
  /\ RowCount < MaxRows
  /\ events' = events \cup {[id |-> Cardinality(events), origin |-> origin, name |-> name,
                             session |-> session, day |-> day]}
  /\ UNCHANGED <<insights, prospects>>

RecordLead(origin, day) ==
  /\ RowCount < MaxRows
  /\ prospects' = prospects \cup {[id |-> Cardinality(prospects), origin |-> origin,
                                   status |-> "NEW", day |-> day]}
  /\ UNCHANGED <<insights, events>>

SetLeadStatus(l, status) ==
  /\ prospects' = (prospects \ {l}) \cup {[l EXCEPT !.status = status]}
  /\ UNCHANGED <<insights, events>>

DashNext ==
  \/ \E origin \in Origin, day \in Days :
       \/ \E figures \in Figures : StoreInsight(origin, day, figures)
       \/ RecordLead(origin, day)
       \/ \E name \in EventNames, session \in Sessions : RecordEvent(origin, name, session, day)
  \/ \E l \in prospects, status \in LeadStatuses \ {"NEW"} : SetLeadStatus(l, status)

DashSpec == DashInit /\ [][DashNext]_dashVars

-----------------------------------------------------------------------------
(* dashboard                                                               *)

Valid == {"CONTACTED", "CONSULTATION_BOOKED", "VISITED", "REGISTERED"}
Booking == {"CONSULTATION_BOOKED", "VISITED", "REGISTERED"}
Visited == {"VISITED", "REGISTERED"}

\* Mutant: the ends of the range are taken as they come.
RangeAsGiven(q) == q.from..q.to
DateRange(q) == IF q.from > q.to THEN q.to..q.from ELSE q.from..q.to

Selected(rows, q) ==
  {r \in rows : r.day \in DateRange(q) /\ (q.campaign = Any \/ r.origin.campaign = q.campaign)}

Figure(rows, f) == SumFunction([i \in rows |-> i.figures[f]])
WithStatus(rows, statuses) == Cardinality({l \in rows : l.status \in statuses})
Landings(rows) == Cardinality({e.session : e \in {r \in rows : r.name = "view_ad_landing"}})

\* What is not set counts as "legacy".
PartsOf(name) == IF name = Unset THEN <<"legacy">> ELSE name
KeyOf(r) == PartsOf(r.origin.campaign) \o PartsOf(r.origin.ad)
Of(rows, k) == {r \in rows : KeyOf(r) = k}

\* Landings are collected per key; then the key is split again, and the first two
\* parts name the group whose landingVisits they become, and not are added to: of
\* keys that name the same group the last stays, in the order the rows came in,
\* which the query leaves open.
LandingKeys(rows) == {KeyOf(r) : r \in {e \in rows : e.name = "view_ad_landing"}}
Target(k) == <<k[1], k[2]>>
LandingsOf(rows, g) ==
  LET named == {k \in LandingKeys(rows) : Target(k) = g} IN
  IF named = {} THEN 0 ELSE Landings(Of(rows, CHOOSE k \in named : TRUE))

Metrics(ins, evs, lds, landings) ==
  [spendWon |-> Figure(ins, "spendWon"),
   impressions |-> Figure(ins, "impressions"),
   linkClicks |-> Figure(ins, "linkClicks"),
   landingVisits |-> landings,
   ctaClicks |-> Cardinality({e \in evs : e.name = "consultation_cta_click"}),
   leads |-> Cardinality(lds),
   validLeads |-> WithStatus(lds, Valid),
   bookings |-> WithStatus(lds, Booking),
   visits |-> WithStatus(lds, Visited),
   registrations |-> WithStatus(lds, {"REGISTERED"})]
Fields == {"spendWon", "impressions", "linkClicks", "landingVisits", "ctaClicks", "leads",
           "validLeads", "bookings", "visits", "registrations"}

\* One group per key of a selected row, and those the landings' keys name.
Groups(q) ==
  {KeyOf(r) : r \in Selected(insights, q) \cup Selected(events, q) \cup Selected(prospects, q)}
    \cup {Target(k) : k \in LandingKeys(Selected(events, q))}
Creatives(q) ==
  [g \in Groups(q) |-> Metrics(Of(Selected(insights, q), g), Of(Selected(events, q), g),
                               Of(Selected(prospects, q), g),
                               LandingsOf(Selected(events, q), g))]

Totals(q) ==
  LET creatives == Creatives(q) IN
  [f \in Fields |-> SumFunction([g \in Groups(q) |-> creatives[g][f]])]

On(rows, d) == {r \in rows : r.day = d}
Daily(q) ==
  [d \in DateRange(q) |->
     [spendWon |-> Figure(On(Selected(insights, q), d), "spendWon"),
      landingVisits |-> Landings(On(Selected(events, q), d)),
      leads |-> Cardinality(On(Selected(prospects, q), d)),
      registrations |-> WithStatus(On(Selected(prospects, q), d), {"REGISTERED"})]]

\* ratio: hundredths of a percent, rounded.
Whole == 10000
Rate(numerator, denominator) ==
  IF denominator = 0 THEN NoRate
  ELSE (2 * Whole * numerator + denominator) \div (2 * denominator)
\* enrich, of a creative or of the totals
Rates(m) ==
  [ctr |-> Rate(m.linkClicks, m.impressions),
   clickToLandingRate |-> Rate(m.landingVisits, m.linkClicks),
   landingToLeadRate |-> Rate(m.leads, m.landingVisits),
   leadToValidRate |-> Rate(m.validLeads, m.leads),
   validToBookingRate |-> Rate(m.bookings, m.validLeads),
   bookingToVisitRate |-> Rate(m.visits, m.bookings),
   visitToRegistrationRate |-> Rate(m.registrations, m.visits)]

-----------------------------------------------------------------------------

Queries == [from: Days, to: Days, campaign: Campaigns \cup {Any}]

\* The days add up to the totals.
DaysAddUp(q, totals) ==
  LET daily == Daily(q) IN
  \A f \in {"spendWon", "leads", "registrations"} :
    totals[f] = SumFunction([d \in DateRange(q) |-> daily[d][f]])

\* Nothing outside the range is counted, and nothing twice.
LeadsCountedOnce(q, totals) ==
  totals.leads = Cardinality({l \in prospects :
    /\ q.campaign \in {Any, l.origin.campaign}
    /\ l.day \in q.from..q.to \cup q.to..q.from})

\* From a lead on; leads and landings need not come of a click or a landing.
FunnelRates ==
  {"leadToValidRate", "validToBookingRate", "bookingToVisitRate", "visitToRegistrationRate"}
AtMostWhole(rate) == rate = NoRate \/ rate \in 0..Whole
NoRateAboveAll(q, totals) ==
  LET creatives == Creatives(q) IN
  \A m \in {creatives[g] : g \in Groups(q)} \cup {totals} :
    \A f \in FunnelRates : AtMostWhole(Rates(m)[f])

\* The names of all landings are whole parts.
PlainLandings(q) == \A k \in LandingKeys(Selected(events, q)) : Target(k) = k

DayWithinTotal(q, totals) ==
  LET daily == Daily(q) IN
  \A d \in DateRange(q) : daily[d].landingVisits <= totals.landingVisits

\* Once there are rows, for every query, whichever end of its range comes first,
\* and whatever the names: the days add up to the totals, nothing is counted
\* outside the range or twice, no rate of the funnel is above 100 %, and where no
\* name contains "::", on no day more sessions landed than in all.
DashboardAddsUp ==
  RowCount > 0 =>
    \A q \in Queries :
      LET totals == Totals(q) IN
      /\ DaysAddUp(q, totals) /\ LeadsCountedOnce(q, totals) /\ NoRateAboveAll(q, totals)
      /\ PlainLandings(q) => DayWithinTotal(q, totals)
=============================================================================
