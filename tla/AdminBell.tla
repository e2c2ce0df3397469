----------------------------- MODULE AdminBell -----------------------------
(***************************************************************************)
(* Notifications for administrators (AdminNotificationsService) and the    *)
(* bell that shows them: a count that is polled all the time, a list that  *)
(* is polled while the panel is open, and the two mutations that mark rows *)
(* as read, after which both queries are invalid.  Every request is sent,  *)
(* served and answered in steps of its own, or lost.  Of the list, only    *)
(* what it shows as unread is kept: a row shown as read sends nothing.     *)
(***************************************************************************)
EXTENDS Naturals, FiniteSets

CONSTANTS
  MaxNotices,  \* bound on the rows ever created; they are numbered in order
  ListLimit    \* take: 50

ASSUME BellBounds == MaxNotices \in Nat /\ ListLimit \in Nat \ {0}

VARIABLES
  created,  \* rows created; none is ever deleted
  unread,   \* rows whose readAt is null
  cache,    \* per query, whether it has data and the unread rows it counts or shows
  fetch,    \* per query, its request: none, asked or read, and what was read
  open,     \* whether the panel is open
  marking,  \* per mutation, its request: the rows it marks, the refetches it awaits
  marked    \* history: rows this bell was told are marked

bellVars == <<created, unread, cache, fetch, open, marking, marked>>

Rows == 1..MaxNotices
BellQueries == {"count", "list"}
Mutations == {"markRead", "markAllRead"}
NoFetch == [at |-> "none", rows |-> {}]
Sent == [at |-> "asked", rows |-> {}]
NoMark == [at |-> "none", rows |-> {}, awaits |-> {}]
Badge == Cardinality(cache["count"].rows)

There == 1..created
Newest == {r \in There : r > created - ListLimit}

BellTypeOK ==
  /\ created \in 0..MaxNotices
  /\ unread \subseteq There /\ marked \subseteq There
  /\ cache \in [BellQueries -> [known: BOOLEAN, rows: SUBSET There]]
  /\ fetch \in [BellQueries -> [at: {"none", "asked", "read"}, rows: SUBSET There]]
  /\ open \in BOOLEAN
  /\ marking \in [Mutations -> [at: {"none", "sent", "stored", "settling"},
                                rows: SUBSET There, awaits: SUBSET BellQueries]]

BellInit ==
  /\ created = 0 /\ unread = {} /\ open = FALSE /\ marked = {}
  /\ cache = [q \in BellQueries |-> [known |-> FALSE, rows |-> {}]]
  /\ fetch = [q \in BellQueries |-> NoFetch]
  /\ marking = [m \in Mutations |-> NoMark]

-----------------------------------------------------------------------------
(* The rows.                                                               *)

\* notifyReservationCreated; when the row cannot be written, nothing happens.
NewRow ==
  /\ created < MaxNotices
  /\ created' = created + 1 /\ unread' = unread \cup {created'}
  /\ UNCHANGED <<cache, fetch, open, marking, marked>>

\* Another administrator's bell.
MarkedElsewhere(r) ==
  /\ r \in unread
  /\ unread' = unread \ {r}
  /\ UNCHANGED <<created, cache, fetch, open, marking, marked>>

-----------------------------------------------------------------------------
(* The two queries.                                                        *)

InUse(q) == q = "count" \/ open

Toggle ==
  /\ open' = ~open
  /\ UNCHANGED <<created, unread, cache, fetch, marking, marked>>

\* Every 30 s, and the list also when the panel opens and it is stale.
Poll(q) ==
  /\ InUse(q) /\ fetch[q].at = "none"
  /\ fetch' = [fetch EXCEPT ![q] = Sent]
  /\ UNCHANGED <<created, unread, cache, open, marking, marked>>

\* findAll, unreadCount
Serve(q) ==
  /\ fetch[q].at = "asked"
  /\ fetch' = [fetch EXCEPT ![q] =
       [at |-> "read", rows |-> IF q = "count" THEN unread ELSE Newest \cap unread]]
  /\ UNCHANGED <<created, unread, cache, open, marking, marked>>

\* The end of a request.  A mutation is pending until the refetches its onSuccess
\* asked for have ended; then the click on a row also closes the panel.
RequestEnds(q) ==
  LET awaits(m) == marking[m].awaits \ {q}
      over(m) == marking[m].at = "settling" /\ awaits(m) = {} IN
  /\ fetch' = [fetch EXCEPT ![q] = NoFetch]
  /\ marking' = [m \in Mutations |-> IF over(m) THEN NoMark
                                     ELSE [marking[m] EXCEPT !.awaits = awaits(m)]]
  /\ open' = (open /\ ~over("markRead"))
  /\ UNCHANGED <<created, unread, marked>>

Arrive(q) ==
  /\ fetch[q].at = "read"
  /\ cache' = [cache EXCEPT ![q] = [known |-> TRUE, rows |-> fetch[q].rows]]
  /\ RequestEnds(q)

\* Refused, or lost twice: what was there before stays.
Lose(q) ==
  /\ fetch[q].at # "none"
  /\ RequestEnds(q) /\ UNCHANGED cache

-----------------------------------------------------------------------------
(* The two mutations; each has its buttons disabled while it is pending.   *)

ClickRow(r) ==
  /\ open /\ marking["markRead"] = NoMark /\ r \in cache["list"].rows
  /\ marking' = [marking EXCEPT !["markRead"] = [NoMark EXCEPT !.at = "sent", !.rows = {r}]]
  /\ UNCHANGED <<created, unread, cache, fetch, open, marked>>

ClickAll ==
  /\ open /\ marking["markAllRead"] = NoMark /\ Badge > 0
  /\ marking' = [marking EXCEPT !["markAllRead"].at = "sent"]
  /\ UNCHANGED <<created, unread, cache, fetch, open, marked>>

\* All means all there are by now, also those the panel does not show.
StoreMark(m) ==
  LET rows == IF m = "markAllRead" THEN unread ELSE marking[m].rows IN
  /\ marking[m].at = "sent"
  /\ unread' = unread \ rows
  /\ marking' = [marking EXCEPT ![m].at = "stored", ![m].rows = rows]
  /\ UNCHANGED <<created, cache, fetch, open, marked>>

\* Mutant: a request under way is joined instead of being sent anew.
InvalidatedJoining(q) ==
  IF fetch[q].at = "none" /\ InUse(q) THEN Sent ELSE fetch[q]
\* invalidateQueries: the queries in use are fetched anew, or the first fetch joined.
Invalidated(q) ==
  IF InUse(q) /\ (cache[q].known \/ fetch[q].at = "none") THEN Sent ELSE fetch[q]

\* onSuccess
AnswerMark(m) ==
  /\ marking[m].at = "stored"
  /\ fetch' = [q \in BellQueries |-> Invalidated(q)]
  /\ marking' = [marking EXCEPT ![m] =
       [at |-> "settling", rows |-> {}, awaits |-> {q \in BellQueries : InUse(q)}]]
  /\ marked' = marked \cup marking[m].rows
  /\ UNCHANGED <<created, unread, cache, open>>

\* The request or its answer is lost: an error is shown, nothing fetched again.
LoseMark(m) ==
  /\ marking[m].at \in {"sent", "stored"}
  /\ marking' = [marking EXCEPT ![m] = NoMark]
  /\ UNCHANGED <<created, unread, cache, fetch, open, marked>>

BellNext ==
  \/ NewRow \/ Toggle \/ ClickAll
  \/ \E r \in Rows : MarkedElsewhere(r) \/ ClickRow(r)
  \/ \E q \in BellQueries : Poll(q) \/ Serve(q) \/ Arrive(q) \/ Lose(q)
  \/ \E m \in Mutations : StoreMark(m) \/ AnswerMark(m) \/ LoseMark(m)

\* The timer of the count goes on for as long as the page is there; not every
\* count is cut off by a marking before it is served, and not every one is lost.
BellFairness ==
  /\ WF_bellVars(Poll("count"))
  /\ SF_bellVars(Serve("count")) /\ SF_bellVars(Arrive("count"))

BellSpec == BellInit /\ [][BellNext]_bellVars /\ BellFairness

-----------------------------------------------------------------------------
(* Properties.                                                             *)

\* A count that was read before a marking never comes over it: once there is a
\* count, an answer adds no row to it that this bell was told is marked
\* (useAdminNotificationMutations.ts:13).
MarkedStayRead ==
  [][cache["count"].known =>
       (cache["count"].rows' \ cache["count"].rows) \cap marked = {}]_bellVars

\* However requests are lost, the badge always comes to the number of unread rows.
BadgeCatchesUp == []<>(Badge = Cardinality(unread))

\* Whatever polls, markings, late answers and losses do to it.
BadgeKeepsUp == MarkedStayRead /\ BadgeCatchesUp
=============================================================================
