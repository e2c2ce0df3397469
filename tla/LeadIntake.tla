----------------------------- MODULE LeadIntake -----------------------------
(***************************************************************************)
(* What visitors send without logging in: requests for a consultation      *)
(* (LeadsService) and marketing events (MarketingService.collect), and     *)
(* what administrators make of the leads.  Each kind has a rate limiter in *)
(* the memory of the process; of the senders' addresses one is followed.   *)
(* A lead is refused when one with its phone number is there already, but  *)
(* the search and the insert are two statements.  Whoever sends is always  *)
(* told that it was accepted.                                              *)
(***************************************************************************)
EXTENDS Naturals, FiniteSets

CONSTANTS
  Submissions,   \* requests being served at a time
  Numbers,       \* phone numbers
  LeadLimit, LeadWindow, EventLimit, EventWindow,
  DedupAge,      \* LEAD_DEDUP_DAYS
  Statuses, New,
  MaxTime, MaxLeads, MaxEvents  \* bounds

ASSUME IntakeBounds ==
  /\ {LeadLimit, LeadWindow, EventLimit, EventWindow, DedupAge} \subseteq Nat \ {0}
  /\ New \in Statuses
  /\ MaxTime \in Nat /\ MaxLeads \in Nat /\ MaxEvents \in Nat

VARIABLES
  now,
  bucket,     \* the limiter for leads: a count, and when it starts again
  hits,       \* the limiter for events: the latest events that it let pass
  submission, \* each request: how far, and the number it was sent with
  leads,      \* the Lead rows; missed is a history, see below
  leadsMade,    \* leads ever created
  passed      \* history: what of each kind the limiters let pass since the process
              \* started, and when; no tells apart what passed at one time

intakeVars == <<now, bucket, hits, submission, leads, leadsMade, passed>>

Formats == {"digits", "dashes"}
NoBucket == [count |-> 0, resetAt |-> 0]
Resting == [at |-> "resting", phone |-> <<>>, missed |-> {}]
Kinds == {"lead", "event"}
NothingPassed == [kind \in Kinds |-> {}]

\* The phone as it is stored and searched.  Mutant: as it was typed.
AsTyped(phone) == phone
Normalized(phone) == <<phone[1], "digits">>

IntakeTypeOK ==
  /\ now \in 0..MaxTime
  /\ bucket \in [count: 0..LeadLimit, resetAt: 0..(MaxTime + LeadWindow)]
  /\ hits \subseteq passed["event"] /\ Cardinality(hits) <= EventLimit
  /\ passed \in [Kinds -> SUBSET [at: 0..now, no: Nat]]
  /\ submission \in [Submissions -> {Resting} \cup
       [at: {"verifying", "searching", "creating"}, phone: Numbers \X Formats,
        missed: SUBSET (1..leadsMade)]]
  /\ \A l \in leads : l \in [id: 1..leadsMade, phone: Numbers \X {"digits"}, at: 0..now,
                             status: Statuses, missed: SUBSET (1..leadsMade)]
  /\ leadsMade \in 0..MaxLeads

IntakeInit ==
  /\ now = 0 /\ bucket = NoBucket /\ hits = {}
  /\ submission = [s \in Submissions |-> Resting]
  /\ leads = {} /\ leadsMade = 0 /\ passed = NothingPassed

Pass(kind) == [at |-> now, no |-> Cardinality(passed[kind])]
Passes(kind) == passed' = [passed EXCEPT ![kind] = @ \cup {Pass(kind)}]
Reaches(s, stage) == submission' = [submission EXCEPT ![s].at = stage]
Rests(s) == submission' = [submission EXCEPT ![s] = Resting]

Expired(b) == b.count = 0 \/ b.resetAt <= now

\* Mutant: the limit is checked one too late.
BelowLimitLate(b) == b.count <= LeadLimit
BelowLimit(b) == b.count < LeadLimit

\* LeadRateLimiter.consume, and the check for an in-app browser.
Submit(s, phone) ==
  /\ submission[s] = Resting
  /\ Expired(bucket) \/ BelowLimit(bucket)
  /\ bucket' = IF Expired(bucket) THEN [count |-> 1, resetAt |-> now + LeadWindow]
                                  ELSE [bucket EXCEPT !.count = @ + 1]
  /\ Passes("lead")
  /\ \E stage \in {"verifying", "searching"} :
       submission' = [submission EXCEPT ![s] = [at |-> stage, phone |-> phone, missed |-> {}]]
  /\ UNCHANGED <<now, hits, leads, leadsMade>>

\* Turnstile; no answer within five seconds is an answer.
Verify(s) ==
  /\ submission[s].at = "verifying"
  /\ Reaches(s, "searching") \/ Rests(s)
  /\ UNCHANGED <<now, bucket, hits, leads, leadsMade, passed>>

SamePhone(s) == {l \in leads : l.phone = Normalized(submission[s].phone)}

FindDuplicate(s) ==
  /\ submission[s].at = "searching"
  /\ IF \E l \in SamePhone(s) : l.at + DedupAge >= now
       THEN Rests(s) ELSE Reaches(s, "creating")
  /\ UNCHANGED <<now, bucket, hits, leads, leadsMade, passed>>

\* Each other request that has searched by now has missed this lead.
CreateLead(s) ==
  /\ submission[s].at = "creating" /\ leadsMade < MaxLeads
  /\ leadsMade' = leadsMade + 1
  /\ leads' = leads \cup
       {[id |-> leadsMade', phone |-> Normalized(submission[s].phone), at |-> now,
         status |-> New, missed |-> submission[s].missed]}
  /\ submission' = [q \in Submissions |->
       CASE q = s -> Resting
         [] q # s /\ submission[q].at = "creating" ->
              [submission[q] EXCEPT !.missed = @ \cup {leadsMade'}]
         [] OTHER -> submission[q]]
  /\ UNCHANGED <<now, bucket, hits, passed>>

\* A statement fails, which is logged.
FailSubmission(s) ==
  /\ submission[s] # Resting
  /\ Rests(s)
  /\ UNCHANGED <<now, bucket, hits, leads, leadsMade, passed>>

UpdateLead(l, status) ==
  /\ leads' = (leads \ {l}) \cup {[l EXCEPT !.status = status]}
  /\ UNCHANGED <<now, bucket, hits, submission, leadsMade, passed>>

RemoveLead(l) ==
  /\ leads' = leads \ {l}
  /\ UNCHANGED <<now, bucket, hits, submission, leadsMade, passed>>

Recent == {h \in hits : h.at + EventWindow > now}

\* MarketingEventRateLimiter.consume; what is refused does not count.
SendEvent ==
  /\ Cardinality(passed["event"]) < MaxEvents
  /\ Cardinality(Recent) < EventLimit
  /\ hits' = Recent \cup {Pass("event")}
  /\ Passes("event")
  /\ UNCHANGED <<now, bucket, submission, leads, leadsMade>>

ClockTicks ==
  /\ now < MaxTime
  /\ now' = now + 1
  /\ UNCHANGED <<bucket, hits, submission, leads, leadsMade, passed>>

\* A new process: what was in memory is gone.
RestartIntake ==
  /\ bucket' = NoBucket /\ hits' = {} /\ passed' = NothingPassed
  /\ submission' = [s \in Submissions |-> Resting]
  /\ UNCHANGED <<now, leads, leadsMade>>

IntakeNext ==
  \/ SendEvent \/ ClockTicks \/ RestartIntake
  \/ \E s \in Submissions :
       \/ Verify(s) \/ FindDuplicate(s) \/ CreateLead(s) \/ FailSubmission(s)
       \/ \E phone \in Numbers \X Formats : Submit(s, phone)
  \/ \E l \in leads :
       \/ RemoveLead(l)
       \/ \E status \in Statuses \ {l.status} : UpdateLead(l, status)

IntakeSpec == IntakeInit /\ [][IntakeNext]_intakeVars

-----------------------------------------------------------------------------

PassedWithin(kind, from, length) ==
  {h \in passed[kind] : from <= h.at /\ h.at < from + length}

\* From one address at most EventLimit events pass in any window of time, and of
\* leads, whose window is fixed, at most two windows' worth; for each process.
RateLimitsHold ==
  \A t \in 0..MaxTime :
    /\ Cardinality(PassedWithin("event", t, EventWindow)) <= EventLimit
    /\ Cardinality(PassedWithin("lead", t, LeadWindow)) <= 2 * LeadLimit

\* Two leads with one phone number, however it was typed, within DedupAge: only
\* when the second had been searched for before the first was created.
DuplicatesOnlyByRace ==
  \A a, b \in leads :
    a.id < b.id /\ a.phone[1] = b.phone[1] /\ b.at <= a.at + DedupAge => a.id \in b.missed
=============================================================================
