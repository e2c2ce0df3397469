--------------------------- MODULE ClassSchedules ---------------------------
(***************************************************************************)
(* The class schedule of one quarter (ClassSchedulesService) and the pages *)
(* on which administrators paint its days (ClassSchedulesAdminPage).  A    *)
(* page works on a copy of the days, sends all of them when it saves, and  *)
(* goes on being painted on while the request is under way.  Each handler  *)
(* of the service is a read and a write.                                   *)
(***************************************************************************)
EXTENDS Naturals, FiniteSets

CONSTANTS
  Editors,       \* administrators, with one page each
  Dates,
  Months,        \* the quarter's months, for which a date can be a class day
  Holiday, Blank,
  MaxSchedules   \* bound on the rows ever created for the quarter

ASSUME MarksAreDistinct ==
  Holiday # Blank /\ {Holiday, Blank} \cap Months = {} /\ MaxSchedules \in Nat

VARIABLES
  schedule,  \* the ClassSchedule row: its id (0: none), days, whether published
  rows,      \* rows created
  page,      \* each administrator's editor
  errand,    \* its save or publish: how far, for which row, what was sent,
             \* whether to publish next, whether the page is still there
  versions   \* history: the days the row has had

schedVars == <<schedule, rows, page, errand, versions>>

DaySets == [Dates -> Months \cup {Holiday, Blank}]
NoDays == [d \in Dates |-> Blank]
NoSchedule == [id |-> 0, days |-> NoDays, published |-> FALSE]
Closed == [id |-> 0, days |-> NoDays, dirty |-> FALSE]
NoErrand == [at |-> "none", id |-> 0, days |-> NoDays, publish |-> FALSE, mounted |-> FALSE]

SchedTypeOK ==
  /\ rows \in 0..MaxSchedules
  /\ schedule \in [id: 0..rows, days: DaySets, published: BOOLEAN]
  /\ page \in [Editors -> [id: 0..rows, days: DaySets, dirty: BOOLEAN]]
  /\ errand \in [Editors ->
       [at: {"none", "saving", "stored", "checking", "approved"}, id: 0..rows,
        days: DaySets, publish: BOOLEAN, mounted: BOOLEAN]]
  /\ versions \subseteq DaySets

SchedInit ==
  /\ schedule = NoSchedule /\ rows = 0 /\ versions = {}
  /\ page = [e \in Editors |-> Closed]
  /\ errand = [e \in Editors |-> NoErrand]

\* Mutant: the kind of the day is not looked at.
MayPublishMarked(days) == \A m \in Months : \E d \in Dates : days[d] # Blank
\* publish: every month of the quarter has a class day.
MayPublish(days) == \A m \in Months : \E d \in Dates : days[d] = m

Reached(e, stage) == errand[e].at = stage
Ends(e) == errand' = [errand EXCEPT ![e] = NoErrand]
Idle(e) == Reached(e, "none")

\* Year and quarter are unique; the page that created the row selects it.
CreateSchedule(e) ==
  /\ schedule.id = 0 /\ rows < MaxSchedules
  /\ rows' = rows + 1
  /\ schedule' = [NoSchedule EXCEPT !.id = rows']
  /\ versions' = {NoDays}
  /\ UNCHANGED <<page, errand>>

\* The copy is made from the fetched list, which may be out of date.
Open(e) ==
  /\ page[e].id = 0 /\ schedule.id # 0
  /\ \E days \in versions :
       page' = [page EXCEPT ![e] = [id |-> schedule.id, days |-> days, dirty |-> FALSE]]
  /\ UNCHANGED <<schedule, rows, errand, versions>>

\* Another schedule is selected, with unsaved changes only when confirmed; what
\* is under way goes on, but its answer no longer reaches a page.  (A bound: until
\* it has ended, this administrator starts nothing else.)
Leave(e) ==
  /\ page[e].id # 0
  /\ page' = [page EXCEPT ![e] = Closed]
  /\ errand' = [errand EXCEPT ![e].mounted = FALSE]
  /\ UNCHANGED <<schedule, rows, versions>>

\* One date gets the mark of the tool, by dragging or in the panel below.
Paint(e, d, mark) ==
  /\ page[e].id # 0 /\ page[e].days[d] # mark
  /\ page' = [page EXCEPT ![e].days[d] = mark, ![e].dirty = TRUE]
  /\ UNCHANGED <<schedule, rows, errand, versions>>

Sends(e, stage, publish) ==
  errand' = [errand EXCEPT ![e] = [at |-> stage, id |-> page[e].id, days |-> page[e].days,
                                   publish |-> publish, mounted |-> TRUE]]
Save(e) ==
  /\ page[e].id # 0 /\ page[e].dirty /\ Idle(e)
  /\ Sends(e, "saving", FALSE)
  /\ UNCHANGED <<schedule, rows, page, versions>>
\* Unsaved days are saved first, and published only if that succeeds.
Publish(e) ==
  /\ page[e].id # 0 /\ Idle(e)
  /\ Sends(e, IF page[e].dirty THEN "saving" ELSE "checking", TRUE)
  /\ UNCHANGED <<schedule, rows, page, versions>>

\* update: all days are replaced, also those of a published schedule.
StoreDays(e) ==
  /\ Reached(e, "saving")
  /\ IF schedule.id = errand[e].id
       THEN /\ schedule' = [schedule EXCEPT !.days = errand[e].days]
            /\ versions' = versions \cup {errand[e].days}
            /\ errand' = [errand EXCEPT ![e].at = "stored"]
       ELSE Ends(e) /\ UNCHANGED <<schedule, versions>>
  /\ UNCHANGED <<rows, page>>

\* Mutant: only the flag is reset.
SavedFlagOnly(e) ==
  /\ Reached(e, "stored")
  /\ page' = IF errand[e].mounted THEN [page EXCEPT ![e].dirty = FALSE] ELSE page
  /\ IF errand[e].publish THEN errand' = [errand EXCEPT ![e].at = "checking"] ELSE Ends(e)
  /\ UNCHANGED <<schedule, rows, versions>>
\* The answer: the page shows the days that were stored and calls itself clean.
Saved(e) ==
  /\ Reached(e, "stored")
  /\ page' = IF errand[e].mounted
               THEN [page EXCEPT ![e].days = errand[e].days, ![e].dirty = FALSE]
               ELSE page
  /\ IF errand[e].publish THEN errand' = [errand EXCEPT ![e].at = "checking"] ELSE Ends(e)
  /\ UNCHANGED <<schedule, rows, versions>>

\* publish reads the row and its days ...
CheckDays(e) ==
  /\ Reached(e, "checking")
  /\ IF schedule.id = errand[e].id /\ MayPublish(schedule.days)
       THEN errand' = [errand EXCEPT ![e].at = "approved"]
       ELSE Ends(e)
  /\ UNCHANGED <<schedule, rows, page, versions>>

\* ... and then writes the status, whatever the days are by now.
SetPublished(e) ==
  /\ Reached(e, "approved")
  /\ schedule' = IF schedule.id = errand[e].id
                   THEN [schedule EXCEPT !.published = TRUE] ELSE schedule
  /\ Ends(e)
  /\ UNCHANGED <<rows, page, versions>>

\* No answer, or a failed statement: the page stays as it is.
LoseErrand(e) ==
  /\ ~Idle(e)
  /\ Ends(e)
  /\ UNCHANGED <<schedule, rows, page, versions>>

\* The page that deletes goes on to another schedule; others find out later.
RemoveSchedule(e) ==
  /\ page[e].id # 0 /\ page[e].id = schedule.id
  /\ schedule' = NoSchedule /\ versions' = {}
  /\ page' = [page EXCEPT ![e] = Closed]
  /\ errand' = [errand EXCEPT ![e].mounted = FALSE]
  /\ UNCHANGED rows

SchedNext ==
  \E e \in Editors :
    \/ CreateSchedule(e) \/ Open(e) \/ Leave(e) \/ Save(e) \/ Publish(e)
    \/ StoreDays(e) \/ Saved(e) \/ CheckDays(e) \/ SetPublished(e)
    \/ LoseErrand(e) \/ RemoveSchedule(e)
    \/ \E d \in Dates, mark \in Months \cup {Holiday, Blank} : Paint(e, d, mark)

SchedSpec == SchedInit /\ [][SchedNext]_schedVars

-----------------------------------------------------------------------------

\* A page that does not call its days unsaved shows days that were stored,
\* whatever was painted, and by whom, while requests were under way.
CleanMeansStored ==
  \A e \in Editors :
    page[e].id # 0 /\ page[e].id = schedule.id /\ ~page[e].dirty => page[e].days \in versions

\* The service checks and publishes in two steps, and lets published days be
\* replaced; still, no schedule is published that was never complete.
PublishedWasComplete ==
  schedule.published =>
    \E days \in versions : \A m \in Months : \E d \in Dates : days[d] = m

\* ClassSchedulesAdminPage.tsx:108 asks before changes that are not saved are
\* given up: a page only becomes clean with the days it shows.
PaintIsNotLost ==
  [][\A e \in Editors :
       page[e].dirty /\ page'[e].id = page[e].id /\ ~page'[e].dirty
         => page'[e].days = page[e].days]_schedVars
=============================================================================
