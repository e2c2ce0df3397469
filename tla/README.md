# Verification of the academy site

TLA+ models of the parts of this repository whose correctness depends on the
order of events: the backend's reservations and groups with the transactions
they run in, accounts and logins, class schedules, advertising data, the
deployment, and what parents' and administrators' browsers make of all that.
TLC checks the models on small instances; TLAPS proves the main properties for
every instance. `PROJECT.json` lists the runs, a mutant of the code for each
property, the source lines of every definition, the disagreements found, and the
hazards.

    tlc -workers 2 -config MCTimetable.cfg MCReservationGroups
    tlapm ReservationGroupsProofs.tla

## 1. Inventory

The backend is a NestJS process over PostgreSQL (Prisma); in a deployment two
processes overlap for a while (blue and green). Handlers are `async`: between
two awaited statements any other request may run. The frontend is Next.js with
React Query. Components talk through the database; there is no queue.

| Component | State | Operations | What is hard | What makes it correct |
|---|---|---|---|---|
| Reservation groups (`backend/src/reservation-groups`) | `ReservationGroup`, `ReservationGroupSlot`, and `status`, `groupId` of `Reservation` | create, update, remove; addMember, replaceMemberSlots, moveMember, removeMember | three tables that must agree; every operation checks only part of them; schedules, anchors, ages, capacity | slots belong to members; schedules disjoint; capacity; EMPTY iff vacated; age limits |
| Serializable transactions (`*-transaction.service.ts`) | the open attempt | run, retry | a conflict at any statement, a COMMIT without an answer, mails after it | one decision per request, carried out once or not at all |
| Reservations (`backend/src/reservations`) | `Reservation`, `ReservationPreferredSlot` | create, walk-in entry, PATCH, delete | PATCH and delete bypass the group services | no group state is broken by an edit |
| Children (`backend/src/children`) | `Child` | create, update, delete | `childId` becomes NULL in the reservations | only one's own |
| Members (`backend/src/members`) | `ParentUser` and all it owns | remove | several statements at READ COMMITTED next to Serializable transactions | all applications go; emptied groups become EMPTY at their time; nobody else is touched |
| Administrator accounts (`backend/src/auth/admin-accounts.service.ts`) | `Admin`; signed tokens | create, remove, login | a check and a write in two statements; tokens outlive accounts | one account per name; somebody remains |
| Parent authentication (`backend/src/auth`) | `ParentUser`, `ParentSocialAccount`, `ParentEmailVerification`, `ParentAuthSession` | sign-up, verify, login, provider callback, session exchange | one-time links and codes, read and then written without a transaction; expiry | whoever was let in can come back; what was used is spent |
| Meta sync (`backend/src/marketing/meta-sync*`) | `MetaSyncState`, `MetaAdDailyInsight` | scheduled and manual run | a lock in a row, taken over when stale; crashes; slow runs | one run at a time; newer data stays; the lock is released in the end |
| Leads (`backend/src/leads`) | `Lead`; limiter in memory | submit, edit, delete | fixed-window limit, duplicate search and insert | limit per window; duplicates only by a race |
| Marketing (`backend/src/marketing`) | `MarketingEvent`; limiter in memory | collect, dashboard | sliding window; one set of rows counted along three paths | limit per window; the sums agree |
| Class schedules (`backend/src/class-schedules`, `ClassSchedulesAdminPage`) | `ClassSchedule` with days; the page's copy | create, update, publish, delete; paint, save | publish checks days it read earlier; painting goes on during a save | nothing incomplete is published; "saved" means stored |
| Administrator notifications (`backend/src/admin-notifications`, `NotificationBell`) | `AdminNotification`; cached count and list | notify, poll, mark read | polls, late and lost answers and new rows between two requests | what is marked is not counted again; the badge catches up |
| Administrator timetable (`frontend/src/screens/admin`, `queries`) | query caches, ticked cells, dialogs' drafts | optimistic mutation, rollback, refetch; group form, join offers, drag and drop | overlapping mutations and rollbacks; drafts outliving what they were typed for; rules judged on both sides | caches settle on the server; a draft stays with its subject; what the form passes is accepted |
| Application form and picker (`ApplyPage`, `components/preferred-slots`) | the form, the draft of a selection | mouse, touch, keys; child, join request, submit | cells close under an unfinished gesture | no closed time is picked; a join request fits |
| Parents' pages (`Header`, `ChildrenPage`, `serverAuth`) | session cookie, cached list of children | login, logout, save, delete | a cache that outlives its session | the list settles on what is stored |
| Blue/green deployment (`.github/workflows/deploy-backend.yml`) | containers | start, health gate, stop | the script stops halfway; two overlap | a healthy backend always serves |
| E-mail, notices, public pages, seed data | nothing, or independent rows | send, write one row, render | - | - |

The hazards, each at its line and with the properties that would catch it, are
in `PROJECT.json`.

## 2. What is modelled

| Module | Models | Extends / implements | Run by |
|---|---|---|---|
| `ReservationGroups` | the three reservation tables and every handler that writes them | - | `MCReservationGroups` |
| `MemberRemoval` | `MembersService.remove`, statement by statement | extends `ReservationGroups` | `MCMemberRemoval`, `MCParents` |
| `SerializableTx` | attempts, conflicts, retries, mails of one handler | implements `AtomicRequest` | `MCSite` |
| `AtomicRequest` | the abstract promise of a handler | - | as a property |
| `AdminAccounts`, `ParentAuth`, `ClassSchedules`, `BlueGreenDeploy`, `ParentPages` | see below | - | `MCServices` |
| `MetaSync`, `LeadIntake`, `MarketingDashboard`, `AdminBell` | see below | - | `MCSite` |
| `ApplyForm` | the application form and its picker | - | `MCParents` |
| `AdminCache`, `GroupDialog` | the browser's caches and dialogs over the server | extend `ReservationGroups`; `AdminCache` is proved to be its client, and both to keep its tables in order | `MCDesk` |
| `TimetableDesk` | the grid, the group form and the join offers over the server | extends `ReservationGroups`; proved to implement its `Spec` | `MCGrid` |
| `ReservationGroupsProofs`, `MemberRemovalProofs`, `SerializableTxProofs`, `ParentAuthProofs`, `ParentPagesProofs` (with `ApplyForm`), `MarketingProofs` (`MetaSync`, `LeadIntake`, `MarketingDashboard`, `AdminBell`, and `MCSite`, which puts them together), `OperationsProofs` (`AdminAccounts`, `ClassSchedules`, `BlueGreenDeploy`, and `MCServices`), `DeskProofs` (`AdminCache`, `GroupDialog`, `TimetableDesk`) | - | extend what they prove about | `tlapm` |

`MCServices` and `MCSite` hold components that share no state: a variable `part`
says which of them runs in a behaviour, and the others stay where they are. A
property of a component is therefore checked in exactly the behaviours the
component has by itself. `MCDesk` does the same for the caches and the dialogs,
`MCParents` for account removals and the application form.

### `ReservationGroups.tla`: reservations, groups and slots

`rsv`, `grp` and `slot` are the three tables. A row that does not exist has the
status `"NONE"`. A slot whose `reservationId` is NULL is an *anchor*: it keeps
the time of a group that has no member. `wants` is `requestedGroupId`, `prefs`
the preferred times of an application.

| Action | Code |
|---|---|
| `CreateReservation`, `CreateWalkIn`, `UpdateReservation`, `RemoveReservation` | `ReservationsService.create`, `createWalkInReservation`, `update`, `remove` |
| `RemoveChild` | `ChildrenService.remove` |
| `CreateGroup`, `UpdateGroup` (with `Rescheduled`), `RemoveGroup` | `ReservationGroupLifecycleService` |
| `AddMember`, `ReplaceMemberSlots`, `MoveMember`, `RemoveMember` | `ReservationGroupMembershipService` |
| `WithinPreferred`, `NoGaps`, `HasRoom`, `Occupied`, `ScheduleIsFree`, ... | `ReservationGroupsValidator` |

One handler is one action. That is sound because every group operation and the
creation of a reservation run in one Serializable transaction that reads all it
decides on, while PATCH and delete write with one statement; `SerializableTx`
shows what the transactions need for it. A check that throws rolls back, so the
checks are guards. `SpecUnedited` is the system in which nobody uses the PATCH,
which checks nothing.

Abstractions. Lists of slots are sets: a DTO that names a slot twice is refused by
`assertNoGaps`. An absent DTO field is `Null`; an explicit JSON `null` in a
PATCH or a group update is not enumerated. Parents are identified by the child
they apply for. An id is used again after its row is gone: the real ids are
never reused, and since nothing names a deleted row, a reused id behaves as a
new one. Minutes are scaled, one unit per timetable step. Two identical anchor
rows count as one. Walk-in entries cannot name a requested group.

### `MemberRemoval.tla`: deleting a parent account beside all that

It extends `ReservationGroups` with the accounts and, per account, the open
transaction of `MembersService.remove`. That is the one transaction with several
statements at READ COMMITTED: its first query (`BeginRemoval`), the count per
group (`CountRemaining`), the slot and group updates (`VacateGroup`; one step,
because only the group's row decides who waits for whom), the `deleteMany`
(`PurgeReservations`) and the commit after the account row with its cascades
(`CommitRemoval`) are steps; it may be rolled back before its commit
(`AbortRemoval`). Its writes reach the tables at the commit; until then a step
that would write one of those rows waits (`Waits`, external: PostgreSQL's row
locks). A Serializable transaction does not see the conflict, because the removal
is not Serializable. Deleting the login sessions and social accounts is left
out, except that a session opened meanwhile makes the removal fail.

`RemovalSpec` puts removals beside everything; `SeatingSpec` leaves out the PATCH
and the plain delete, which empty groups by themselves; `AloneSpec` lets nothing
interleave with a removal.

### `SerializableTx.tla` and `AtomicRequest.tla`: what a handler promises

`AtomicRequest` says what the caller of a handler may rely on: its operation is
carried out once and as a whole, or refused for a reason that held while the
request was open, or the request fails, and then it was carried out once or not
at all. `SerializableTx` has `ReservationGroupTransactionService.run` and its
twin for reservations: an attempt takes a snapshot (`BeginAttempt`), writes and
commits (`Write`, `Commit`) unless somebody changed the rows since (`Conflict`,
P2034: again, three times at most), is refused by a check (`Refuse`), or breaks,
with the COMMIT done or not (`Break`). Then the mails go out, one by one
and each tried once (`Notify`), and the answer (`Answer`). `CrashCall` ends the process
anywhere. The database is external: a transaction commits only if the rows have
not changed since its snapshot. The refinement maps a call that has committed
and is sending mails to "applied" and any other phase to itself (`Outcome`).

### `AdminAccounts.tla`

`admin` gives each id its username or says that it is yet to be created or
deleted; `tokens` are the ids that hold an unexpired token (`JwtStrategy` does
not look the account up); `request` is what a request has found to be allowed.
`LookUp` and `Insert` are the two halves of `create`, with the unique index in
the second; `Count` and `Delete` those of `remove`. `raced` remembers that a
deletion has counted while another was under way: the only way to lose the last
administrator. When all ids are used, creations stop: that is the bound.

### `ParentAuth.tla`

The four tables and the requests being served (`visit`), each at the statement
it has reached with what it has read. `StoreSignUp`, `OpenLink`, `CheckParent`,
`SetPassword`, `ConsumeLink` are sign-up and verification; `FindAccount`,
`UpdateParent`, `FindByEmail`, `CreateParent`, `Link`, `OpenSession` the
provider's callback; `FindSession`, `ConsumeSession` the exchange of the code.
`Abort` is a failed statement or the end of the process: nothing is rolled back,
because none of these handlers is a transaction. `RemoveParent` may come at any
time. The OAuth state and what happens at the provider are taken as valid or
absent; names and token contents are data. `welcomed` and `used` are histories.

### `ClassSchedules.tla`

One quarter's row, and each administrator's page with its copy of the days and
the request it has under way (`errand`). `StoreDays`, `CheckDays` and
`SetPublished` are the service's statements, `Paint`, `Save`, `Publish` and
`Saved` the page's, and a page may be left, or its answer lost, at any point.
`Months` are the quarter's months; a class month next to the quarter, which the
DTO allows, counts like any mark that is not one of them.

### `MetaSync.tla`

`lock` is the `MetaSyncState` row, `run` what each runner is doing. `Acquire` is
the conditional `updateMany` (`Takeable` its WHERE clause), `Fetch`, `Upsert` and
`Finish` the body, `Fail` the catch clause, `Crash` the end of the process or a
failure of the catch clause itself. Time is ages: `Tick` makes everything older;
ages above `AgeCap` are alike to every comparison. Only one insight row is
followed, as a version number. `late` is a history variable: it says that some
run has outlived `META_SYNC_LOCK_MINUTES`, which nothing in the code prevents
(requests to Meta have no timeout of their own and are tried three times).

### `LeadIntake.tla`, `MarketingDashboard.tla`, `AdminBell.tla`

`LeadIntake`: both limiters as they are in memory, and `LeadsService.create` in
its steps (limit, bot check, search, insert), with phone numbers that may be
typed in two ways. `hits` are the time stamps the event limiter keeps, numbered so
that two of one instant are two; `passed` is a history, all that each limiter let
through since the process started. `missed` of a lead is a history: the leads that were not there
when its number was searched for. `MarketingDashboard`: the three kinds of rows,
and the dashboard's totals, creatives, days and seven rates as operators with the
code's grouping (`Creatives`). The code knows a creative by a string, its two names
with `::` between them, and splits that string again to book the landings. A name
is therefore the sequence of parts that `::` cuts it into: `KeyOf` appends the parts
of two names, as joining the strings does; `Target` takes the first two parts of a
key, as splitting it does, whatever the names were; `LandingsOf` is the assignment
`.landingVisits = values.size`, of which the last key with the same target counts.
A missing name is `legacy`, as is a name that reads so. Left out are costs, the
counts of form events, and a `:` at the end of one name that meets one at the start
of the next. `AdminBell`: the rows, what the count and the list have cached, and the
requests of the two queries and the two mutations, each sent, served and answered
(`Poll`, `Serve`, `Arrive`; `ClickRow` or `ClickAll`, `StoreMark`, `AnswerMark`) in
steps of their own, or lost. An answer may thus arrive after rows were marked, by this
bell or another one; a marking's answer invalidates both queries (`Invalidated`):
one in use is asked anew, and its answer under way dropped.

### `ApplyForm.tla`

One action per event handler of the picker: `PressMouse`, `DragOver`,
`EnterCell`, `ReleaseMouse`, `PointerCancel`, `TapCell`, `PressEnter`, `DropDraft`,
`RemoveSlot`; and of the page: `SelectChild`, `JoinGroup`, `CancelJoinRequest`,
`HandleSubmit` with its two endings, `ApplyAgain`; `Refetch` changes the offers
at any moment: a group is withdrawn, rescheduled, or offered to other ages, while the
form keeps the times it copied (`picked`) and the age it copied (`childAge`). `asked`
is a history: the offer as it was when the parent asked to join. `BuildSlot`, `CommitSlot` and `CancelSlotsInRange` are the
functions of `usePreferredSlotsSelection`. `ApplyPage` passes no applied slots to
the picker, and the administrators' preview never submits; neither case is here.

### `ParentPages.tla`

A browser window: the session cookie, the page rendered (`serverAuth`'s redirects),
the login dialog with the three ways of opening it, and the children's page with
its optimistic list. `ServeChild` is `ChildrenService` with the ownership check of
the session the request was sent with; `Succeed` and `Fail` are the mutation's
handlers. Leaving the page cancels nothing: its mutations and its refetch go on, and
a page that is opened again has buttons of its own (`Saving`, `Removing` speak of the
present visit), so that several saves can be under way. An invalidation starts a
refetch only on a page that shows the list (`Invalidated`); elsewhere the one under
way goes on and its answer counts as fresh, however old it is: `late`, a history,
remembers that. A mutation stays pending until the refetch of its `onSettled` has
ended (`Settling`), and only then is the form emptied.

### `AdminCache.tla`, `GroupDialog.tla`, `TimetableDesk.tla`

All three extend `ReservationGroups`: what the browser sends is one of its
actions, or refused. `AdminCache` has the two lists React Query holds (`rows`;
`board`, in which every group carries copies of its members), and for each
mutation under way its snapshot. `Mutate` is `onMutate` (cancel, snapshot,
optimistic write: `ShownRows`, `ShownBoard`), `Serve` the server, `Succeed` and
`Fail` the settling, `ReadRows` .. `ArriveBoard` the refetches. `GroupDialog` has
the drafts of the two dialogs; a draft carries in `of` where it was typed, for
the properties only. `TimetableDesk` has the grid's rules: which cell a student
or a group is rendered in (`SkipRender`, `RenderableRow`), what ticked cells
become (`MergedSlots`, `ScheduleBlock`, by way of `Runs`, the maximal runs of a set
of rows), what the form checks (`FormPasses`) and the join offers
(`JoinableSlotsForDay`). `GridFits` says how the grid and the DTOs' bounds meet:
every block of rows is a range the server takes, every number of ticked students
a capacity. `AcceptsGroup` is all that the server's `create` checks, so that
`ConfirmIsAccepted` compares the two sides' rules. It speaks of students whose
preferred times do not touch (`Apart`): where they do, the two sides disagree.
`Elsewhere` is what happens beside the grid: the page's two dialogs, families that
apply or withdraw, and other desks. The student dialog sends the PATCH, which checks
nothing, so that a student with a seat may read WAITING, is shown among the waiting
ones and can be ticked; the form lets it through and the server refuses it.
`ConfirmIsAccepted` says that the server accepts what the form passes exactly when
no ticked student has a seat.

### `BlueGreenDeploy.tla`

`box` is each color's container, `job` each deployment at its next command.
`CutOff` ends a job between any two commands. An image that becomes healthy does
so at any time or never.

## 3. What the runs check

| Run | Question | Bounds, and why they are enough |
|---|---|---|
| `timetable` | Do slots, schedules, anchors and members agree through every operation and edit, and does a vacated group keep its time? | 2 reservations, 2 groups, two adjacent cells and their union: every relation two ranges can have, and a member leaving, staying and moving. 69,000 states. |
| `seats` | Do capacity, EMPTY and the age limits hold while groups are edited? | 2 reservations aged on either side of the limit, capacities 1 and 2: every operation can meet a full group. 236,000 states. |
| `parents` | Does everybody else keep their seat through two interleaved removals beside every desk operation? Does the picker pick only what is free, and does a request to join carry the times that were offered, although groups are offered anew at other times and to other ages? | 2 accounts, 2 reservations, 1 group, 1 cell: the removals meet in one group or not. 3 rows (an obstacle may lie between two free ones), 2 classes, one of which is offered in two ways, 2 ages. 233,000 states. |
| `removal_alone` | Does a removal that nothing interleaves with do what it should, and are statuses, seats and preferred times consistent when the PATCH is not used? | 2 accounts, 2 reservations, 2 groups, requests to join, applications for two cells: moves narrow what a member asked for, so that later checks of it can fail. |
| `services` | Names stay unique, and only a race of deletions takes the last administrator; whoever was let in can come back, and what let them in is marked as used; "saved" means that the days were stored, and published that they were complete in some version; a deployment alone leaves no gap; the list of children settles. | 3 administrator ids, 2 names, 2 requests at once; 2 parents, 1 address (the contended one), 1 provider account, 2 links, 1 code; 2 editors, 1 date, 1 month; 2 jobs; 2 families, 2 children, 3 mutations and logins together (`MaxMoves`): two saves that overlap and a login, or three saves over two visits to the page. Two of whoever acts is what a race takes; the proofs cover more. 1.51 million states. |
| `site` | One synchronisation at a time and the lock recovers; requests are atomic and answered; limits and sums hold; the badge keeps up. | 2 runners, stale after 2 ticks, 2 crashes; 3 handlers over one seat, 3 attempts (so that each can lose all of them), 1 mail; windows of 2, 4 instants; 2 days, 2 rows of data, campaigns with and without `::` in their names; 2 notifications over a list of 1. 216,000 states, and a liveness graph over them. |
| `desk` | Do the caches settle on the server's tables, and does a student form stay with its student? | 2 mutations that overlap in every way, with failures, lost answers and refetches; 2 students, 2 groups, one time: a mutation is the first or the last of its group, or neither. 852,000 states. |
| `grid` | Is what the group form lets through accepted by the server? | One day of three rows (the least in which ticks can leave a gap), two ticks (a gap, a touch, or two students together), 2 students, 2 groups; students prefer the whole day or two times that touch; while cells are ticked one group id stays free, so that the form can always be sent (`IdLeft`, a constraint). 258,000 states. |

Deadlock is not checked: ids run out, and every one of these systems may rest.

Runs that show a disagreement, each a finding in `PROJECT.json`:

- `groups_overlap`: groups without a schedule are compared with no other group;
  a comment of the grid says the backend prevents the overlap.
- `removal_join`: a reservation joins between the removal's count and its
  write of EMPTY. The group is EMPTY with a member, whom the operations that
  need a CONFIRMED group then refuse.
- `draft_misdirected`: the group dialog is mounted for good, so what was typed
  for one group is shown for, and saved to, the next one.
- `other_children`: the cached list does not know its account. When another
  parent's session replaces the first one's without the site being loaded again, the
  page shows the first account's children for as long as the list counts as fresh.
  The plain case is a logout and a login with a password within that minute; TLC's
  trace is shorter and logs in while the first account's list is being fetched.

Known besides. These properties are in the modules and have no run of their own;
TLC finds each of them violated on an instance of two or three of each kind.

- `ConfirmedHasMembers` under the plain delete: deleting the last member's
  reservation leaves its group CONFIRMED without anybody. The run
  `removal_alone` leaves plain deletes out.
- Under `SeatingSpec`, an application seated after the removal's first query goes
  with the account and leaves its group CONFIRMED (`ConfirmedHasMembers`), and
  one made after the `deleteMany` survives the account without a parent
  (`ApplicationsLeaveWithAccount`).
- `ChildNeverDoubleBooked`: a move rewrites the preferred times without the check
  for a second application of the child.
- `Present # {}`: two administrators delete each other, each request having
  counted two. `LastAdminGoesOnlyByRace` says that nothing else leaves none.
- `NoTwoFreshRuns`: a synchronisation that was taken over ends and clears the
  lock of its successor; a third starts beside it.
- `NeverAGap`: overlapping or cut-off deployments can stop the only backend that
  has answered.
- `PaintIsNotLost`: what is painted while a save is under way is replaced by the
  answer (`ClassSchedulesAdminPage.tsx:86`).
- `SettledList => ...` without `late`: an invalidation off the pages that show the
  list leaves the refetch under way alone (`ChildrenPage.tsx:21`), so that an answer
  read before the save was stored is shown as fresh for up to 60 seconds.
- `DayWithinTotal` where names contain `::`: two creatives whose keys have the same first
  two parts overwrite each other's landings (`marketing.service.ts:282-287`), and a
  creative nobody named appears beside them.
- `ConfirmIsAccepted` without its exception: see `TimetableDesk` above.
- `GroupsShownTrue`: mutations of reservations do not invalidate the groups, whose
  copies of members stay old; `CachesSettleTrue` speaks of the rest.
- `JoinOffersAreAccepted`: a student prefers two times that touch, a group without
  a schedule spans both. `joinableSlotsForDay`, whose comment says that its slots
  can be sent to the API as they are (`groupJoinability.ts:26`), merges the two;
  `validateSlotsWithinPreferred` looks for one preferred time around the slot and
  refuses. The group form merges in the same way. The picker leaves touching picks
  apart, so such applications exist.

A group created with explicit age limits may hold a child outside them, which is
why `AgeLimitsKept` speaks of joins, moves and changes of limits only. Met while
modelling and not made into a property: drafts of the group dialog are dropped
even if the save is refused (`GroupDetailModal.tsx:176`); a late answer empties a
form that was begun for another child (`ChildrenPage.tsx:91`); a requested group
that fills up, or no longer takes the child's age, disappears from the form while the
request stays and is sent, with the old times if it was rescheduled
(`ApplyPage.tsx:61-64`); the first count of the bell, if it is under way when rows are
marked, is joined and counts them until the next poll, and the list of a panel that was
closed may show a marked row as unread until it is fetched again; the list of leads filters by UTC days
(`leads.service.ts:191`) and the dashboard by days in Seoul; the header offers no
logout to a parent while an administrator's session exists.

### Fairness

Assumed for three properties, and in `MCSite` for the component that runs only.

- `LockRecovers` (`MetaSync`): the scheduler starts a run at start-up and every
  six hours, so a runner that is idle starts again (`WF Begin`); a statement or
  a request ends, well or with an error (`WF Step`); the clock goes on
  (`WF Tick`).
- `HandlersAnswer` (`TxFairness`): statements, COMMITs and mails end, well or with an
  error, of each request by itself (`WF Proceed`); the mail client has a timeout
  (`notification.service.ts`). Conflicts may come at every attempt: the loop's
  bound is what ends it.
- `BadgeCatchesUp`, a part of `BadgeKeepsUp` (`BellFairness`): the count is polled every
  30 seconds (`WF Poll("count")`), and of infinitely many polls some are served and some
  answers arrive (`SF Serve("count")`, `SF Arrive("count")`): not every one is cut off
  by a marking or lost. That answers are in time, or in order, is not assumed.

Other failures, and crashes, are never assumed to happen or not to.

## 4. What is proved

From the assumptions named in the modules (what the constants are, and the
bounds the DTOs and the configuration set), for any value of the constants. Each
invariant below is inductive.

**`ReservationGroupsProofs`**, any finite set of reservations, any groups,
children, ranges, ages, capacities and edits.

1. `TypeCorrect`.
2. `TimetableInductive`: `TimetableInv`. Beside the properties it needs
   `AbsentSitsNowhere` (a reservation that does not exist sits in no group),
   without which deleting and recreating a row could leave an owner that is not
   a member. From it follow `SlotOwnersAreMembers`, `ScheduledSlotsAlwaysMatch`
   and `ScheduledGroupsNeverOverlap`. The last one rests on the second: a
   schedule is compared with the *slots* of the groups that have some, and these
   are the schedule.
3. `OccupancyInductive`, relative to (2): `NamedGroupsExist`, `EmptyIsVacant`,
   `AnchorsOnlyWhenVacant` and `CapacityRespected` together. A member's group
   exists, so a new group starts vacant; anchors appear only when the last
   member leaves and disappear whenever one joins. From it follow
   `CapacityAlwaysRespected`, `EmptyGroupsAreVacant`, `AnchoredGroupsAreVacant`
   and `NamedGroupsAlwaysExist`.
4. `MembersStayContiguous`: the times of one member of one group change only as
   a whole, to a set that was checked, or to the one block of a new schedule.
5. `PlacedInductive`, for `SpecUnedited` and relative to (2): who is GROUPED is seated with
   a time, and the times lie within what was asked for. From it
   `GroupedAlwaysSeated` and `SlotsStayWithinPreferences`. Both need the PATCH
   left out, which changes a status or the wishes of who is seated.
6. `VacancyAlwaysKeepsTimetable` and `AgeLimitsAlwaysKept`, the action properties,
   from (2): who leaves last turns exactly its own slots into anchors
   (`VacatedKeepsRanges`); limits that are changed are those found among the members or
   wider (`AgeStep`).

**`MemberRemovalProofs`**, any accounts, so any number of removals at once, next to
all of the above. A step of the desk is a step of `Next`, whose lemmas apply; new
are the removal's statements.

1. `RemovalInductive`: the timetable invariant, and what an open transaction knows.
   A row it has only read is its own account's or gone (`SeatsAreOwn`: ids are not
   used again while a removal is open, and no edit changes the account of a row); a
   row it has locked is as it was (`PurgedAreOwn`, `EmptiedAreLive`,
   `AnchoredAreSeats`). From it `RemovalsKeepTimetable`, and the action property
   `OthersAlwaysKeepTheirSeats`. `RemovalsKeepRoom` holds relative to it.
2. `VacancyIsLostOnlyByOvertaking`. That an EMPTY group is vacant does not hold (the
   run `removal_join`); the theorem says that the disagreement has no other cause. A
   removal is overtaken (`Overtaken`) while somebody who stays sits in a group it has
   written as EMPTY, or counted as vacant; the invariant is broken only by the
   commit of such a removal, and a removal is overtaken only by a step of the desk
   that takes a seat after the count and before the write. After the write the row
   lock keeps everybody out. It needs two facts about an open removal: the rows of
   its `deleteMany` are all that is left of those it read (`PurgedIsAll`), and it
   turns slots into anchors only in groups it has emptied (`AnchoredAreEmptied`).
3. `AloneInductive`, when nothing runs between a removal's statements: in every
   phase what it has counted is the truth (`Accurate`), beside the invariants of
   the groups. From it `ConfirmedGroupsHaveMembers`, `RemovalsAloneKeepPlaces`,
   and the action properties `ApplicationsAlwaysLeave` and
   `RemovalAlwaysKeepsTimetable`.

**`DeskProofs`**, any numbers of mutations, students, groups, rows and days.

1. `CacheInductive`, `CachesAlwaysSettleTrue`. The invariant (`RowsFollow`,
   `BoardFollows`): once no mutation of a list is left, the list if it is quiet, or
   the answer on its way to it, is the server's. It needs no order among the
   mutations, because every end of a mutation cancels the answer under way and
   asks anew.
2. `CachesAreClients`: from caches however old, a mutation is offered only with
   rows, groups, times and values that the server takes (`OfferedAreRequests`), so
   each change of the tables is a step of `ReservationGroups`; `DeskKeepsTypes`,
   and `DeskKeepsTimetable` and `DeskKeepsOrder` for a desk opened on tables that are
   in order (`InOrder`: timetable, occupancy and members without gaps).
3. `DialogInductive`, `FormAlwaysStaysWithStudent`: a form is there only while its
   student is and the dialog shows that student (`FormInv`), whatever other
   sessions do.
4. `DialogsKeepTypes`, `DialogsKeepOrder`: a draft may carry the group's own numbers, as
   old as they may be, so the dialogs' requests (`DialogRequest`) are not all inputs of
   `Next`. The lemmas about `UpdateGroup` and the PATCH are therefore stated for any
   capacity and any limits, and the tables stay in order whatever drafts are kept and
   whoever else writes.
5. `DeskIsClient`: the timetable page with its dialogs, the PATCH included, implements
   `Spec`, so (2) to (4) of the groups hold while it is used. `ConfirmAlwaysAccepted`
   needs only the types of the tables and (2), `GridInv`: the rows of a run lie in one
   preferred time (`TickedIsPreferred`, `OneCovers`); a block that overlaps a slot of
   another group overlaps a cell that group is shown in (`BlockedIsOverlap`). What the
   PATCH may have done to a student's status is the exception in the property.

**`MarketingProofs`**.

1. `MetaSync`, any runners, stale time and bounds, provided a run tries the
   lock within the stale time of reading its clock (two statements against five
   minutes): `RunsExcludeEachOther` and `NewerInsightsStay`. `RunHoldsLock` says that
   until a run is late, whoever is at work holds the lock and is exactly as old as
   it; so nobody may take it over, and releasing it leaves nobody at work.
   `WriterIsCurrent` adds that what a run is about to store was fetched after the
   previous run was done.
2. `LeadIntake`, any limits, windows and requests: `LimitsAlwaysHold` and
   `DuplicatesAreAlwaysRaces`. The fixed window's counter is at least what passed
   in it, and any window of the same length meets two fixed ones at most
   (`BucketCounts`); the sliding window still has each event that counts
   (`HitsAreRecent`). A request about to store its lead has missed every lead with its
   number that is recent enough to count (`SearchesRemember`).
3. `MarketingDashboard`, any rows and names: `DashboardAlwaysAddsUp`. Each row has one
   key, so the groups partition the rows; the groups that only a landing's key names
   have no rows and add nothing to the sums. The sums are folds over finite sets; the
   lemma `SubsetInduction`, by well-foundedness of the subsets, takes the place of
   induction over data.
4. `AdminBell`: `BellInductive` and `MarkedAlwaysStayRead`, the part of `BadgeKeepsUp` that
   is not liveness: once there is a count, the answer on its way to it was read after
   every marking this bell was told of.
5. `MCSite`: `SiteRunsEachPart`, `SiteTypesHold` and `SiteKeepsPromises`, likewise, for all
   that the run `site` checks except liveness.

**`OperationsProofs`**.

1. `ClassSchedules`, any editors, dates and months. `SchedInductive`: the row's days
   and the days an answer carries are among the versions stored (`DaysAreRecorded`,
   `StoredIsRecorded`), and a publication that passed its check did so on such a
   version (`ApprovedWasComplete`). From it `CleanPagesWereStored` and
   `PublishedWereComplete`.
2. `BlueGreenDeploy`, any number of jobs. `DeployInductive`: unless two jobs have
   overlapped or one was cut off, at most one is awake, and the colors are what
   its next command expects of them. From it `SequentialDeploysLeaveNoGap`.
3. `AdminAccounts`, any accounts, names and requests in flight:
   `UsernamesStayUnique`, and `LastAdminAlwaysStays`. The second rests on
   `DeletionLeavesOne`: unless deletions have raced, at most one is under way and it
   leaves another account than the one it takes.
4. `MCServices`. `ServicesRunEachPart`: the composition implements each component's
   specification, because a component that is not the part in play stutters. From it,
   and the theorems above and of the next two modules, `ServicesTypesHold` and
   `ServicesKeepPromises`: all that the run `services` checks, for any instance.

**`SerializableTxProofs`**, any requests, effects, number of attempts and mails.
`TxInductive`: an attempt's snapshot is a state its request has seen, the
present state is always among those, and `applied` counts one carrying-out
exactly in the phases that say so. From it `MailsAlwaysTellTheTruth` and
`HandlersAreAtomic`: every step is a step of `AtomicRequest` or leaves its
variables alone. `RequestsRunOut`: a request has `2 * Attempts + Mails + 2` steps
at most; every step of its own lowers what remains, no other request raises it,
and it is over exactly when nothing remains. That is the variant behind the
liveness property `HandlersAnswer`. None of these theorems assumes fairness.

**`ParentAuthProofs`**, any addresses, provider accounts, requests and bounds.
`AuthInductive`: what a visit remembers of rows is still so or the row is gone
(`VisitsRemember`), a link was given to one address (`LinksHaveOneAddress`),
whoever is about to be let in has a way to come back (`EntrantsCanComeBack`).
`AddressesStayUnique` adds `IndexInv`: no address belongs to two parents
(`AddressesUnique`), a password comes from a link that was sent (`PasswordsStored`),
and a visit remembers only links and codes that were given (`KeysGiven`). From
`AuthInductive` follow `WelcomedCanAlwaysComeBack` and `UsedIsAlwaysSpent`;
`AccountsAlwaysKeepTheirParent` is an action property of the same invariant. The
unique index on provider accounts is what makes the loser of two first logins fail
before it is let in.

**`ParentPagesProofs`**.

1. `ApplyForm`, any grid of rows from 0, children and classes.
   `JoinRequestsAlwaysFit` is inductive with the types. `NewPicksAreAlwaysFree`
   rests on a lemma about `buildSlot`: however the rows around the anchor are
   closed, the range it builds has its ends at the least and the greatest row it
   reaches, and nothing between them is closed. Offers change at any step; what
   the form copied from one does not.
2. `ParentPages`, any families, children and number of mutations under way. `BrowserInductive`: a
   list that counts as fresh while no mutation is under way, and an answer that will be
   installed, are some account's stored list (`FreshIsStored`, `ReadIsStored`), unless an
   invalidation has overtaken the answer (`overtaken`, then `late`). From it
   `ChildrenAlwaysSettleTrue`; which account's it is, is what `other_children` refutes.

Only model-checked: the liveness properties `LockRecovers`, `HandlersAnswer` and
`BadgeCatchesUp`, the latter a part of `BadgeKeepsUp`. Fairness is stated with ENABLED, which the prover does not handle.
The invariants and action properties of all passing runs are stated by theorems.

## 5. Not modelled, and what could follow

Left out for good, because there is no protocol and no state to get wrong:
notices and the texts of e-mails (single statements on independent rows, and
wording), the provider's side of OAuth, paging and parsing of Meta's answers,
filters, legends, layout, metadata, styling and the public pages, seed data
except for the first administrator.

What could follow: the caches opened beside other sessions; notices and members'
screens as further users of the optimistic-cache rules.
