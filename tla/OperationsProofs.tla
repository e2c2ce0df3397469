-------------------------- MODULE OperationsProofs --------------------------
(***************************************************************************)
(* Proofs about three components of the site's operation that share no     *)
(* state: the administrators' accounts, the class schedules they edit and  *)
(* the deployment; and about the composition of these with the parents'    *)
(* logins and browsers.                                                    *)
(***************************************************************************)
EXTENDS MCServices, ParentAuthProofs, ParentPagesProofs, FiniteSetTheorems

-----------------------------------------------------------------------------
(* Proofs about AdminAccounts for any number of accounts, names and        *)
(* requests in flight.                                                     *)

\* What TypeOK says besides the names.
AccountsShape ==
  /\ admin \in [Accounts -> Usernames \cup {Unused, Deleted}]
  /\ tokens \subseteq {a \in Accounts : admin[a] # Unused}
  /\ request \in [Requests ->
       [creates: Usernames \cup {None}, deletes: Accounts \cup {None}]]
  /\ raced \in BOOLEAN

\* Every step keeps the tables well typed and the tokens to created accounts.
LEMMA AccountsShapeStep == ASSUME TypeOK, [Next]_vars PROVE AccountsShape'
<1> USE AccountsAreDistinct DEF TypeOK, AccountsShape, NoRequest
<1>1. CASE UNCHANGED vars  BY <1>1 DEF vars
<1>2. ASSUME NEW a \in Accounts, Login(a) \/ Expire(a) PROVE AccountsShape'
  BY <1>2 DEF Login, Expire, Present
<1>3. ASSUME NEW q \in Requests, NEW name \in Usernames, LookUp(q, name)
      PROVE  AccountsShape'
  BY <1>3 DEF LookUp
<1>4. ASSUME NEW q \in Requests, NEW a \in Accounts, Count(q, a) PROVE AccountsShape'
  BY <1>4 DEF Count
<1>5. ASSUME NEW q \in Requests, Insert(q) PROVE AccountsShape'
  <2>1. request[q].creates \in Usernames  BY <1>5 DEF Insert
  <2>2. CASE UNCHANGED admin  BY <1>5, <2>2 DEF Insert
  <2>3. ASSUME NEW a \in Accounts, admin[a] = Unused,
               admin' = [admin EXCEPT ![a] = request[q].creates]
        PROVE  AccountsShape'
    BY <1>5, <2>1, <2>3 DEF Insert
  <2> QED  BY <1>5, <2>2, <2>3 DEF Insert
<1>6. ASSUME NEW q \in Requests, Delete(q) PROVE AccountsShape'
  <2> DEFINE a == request[q].deletes
  <2>1. CASE a \in Present  BY <1>6, <2>1 DEF Delete, Present
  <2>2. CASE a \notin Present  BY <1>6, <2>2 DEF Delete
  <2> QED  BY <2>1, <2>2
<1> QED  BY <1>1, <1>2, <1>3, <1>4, <1>5, <1>6 DEF Next

\* No interleaving of creations gives two administrators one name.
LEMMA UsernamesStep == ASSUME TypeOK, [Next]_vars PROVE OneAccountPerUsername'
<1> USE AccountsAreDistinct DEF TypeOK, OneAccountPerUsername, Present
<1>1. CASE UNCHANGED admin  BY <1>1
<1>2. ASSUME NEW q \in Requests, Insert(q), ~UNCHANGED admin
      PROVE  OneAccountPerUsername'
  <2>1. PICK a \in Accounts :
          /\ ~NameTaken(request[q].creates)
          /\ admin' = [admin EXCEPT ![a] = request[q].creates]
    BY <1>2 DEF Insert
  <2>2. \A b \in Present : admin[b] # request[q].creates  BY <2>1 DEF NameTaken
  <2>3. admin'[a] = request[q].creates /\ \A b \in Accounts : b # a => admin'[b] = admin[b]
    BY <2>1
  <2> QED  BY <2>2, <2>3
<1>3. ASSUME NEW q \in Requests, Delete(q), ~UNCHANGED admin
      PROVE  OneAccountPerUsername'
  <2>1. \A b \in Accounts : admin'[b] \in {admin[b], Deleted}
    BY <1>3 DEF Delete
  <2> QED  BY <2>1
<1> QED
  BY <1>1, <1>2, <1>3 DEF Next, vars, Login, Expire, LookUp, Count

LEMMA AccountsInit == Init => TypeOK
<1> SUFFICES ASSUME Init PROVE TypeOK  OBVIOUS
<1> USE AccountsAreDistinct
<1>1. PICK name \in Usernames :
        admin = [a \in Accounts |-> IF a = First THEN name ELSE Unused]
  BY DEF Init
<1>2. OneAccountPerUsername  BY <1>1 DEF OneAccountPerUsername, Present
<1>3. admin \in [Accounts -> Usernames \cup {Unused, Deleted}]  BY <1>1
<1> QED  BY <1>2, <1>3 DEF Init, TypeOK, NoRequest

LEMMA AccountsTypeStep == ASSUME TypeOK, [Next]_vars PROVE TypeOK'
BY AccountsShapeStep, UsernamesStep DEF AccountsShape, TypeOK

\* The tables of administrators, tokens and requests stay well typed, and no two
\* administrators have one name.
THEOREM UsernamesStayUnique == Spec => [](TypeOK /\ OneAccountPerUsername)
<1>1. TypeOK => OneAccountPerUsername  BY DEF TypeOK
<1> QED  BY <1>1, AccountsInit, AccountsTypeStep, PTL DEF Spec

-----------------------------------------------------------------------------
(* The last administrator.                                                 *)

\* Unless deletions have raced, at most one is under way, and it leaves another
\* account than the one it takes.
DeletionLeavesOne ==
  raced \/ /\ Present # {}
           /\ \A p, q \in Requests :
                request[p].deletes # None /\ request[q].deletes # None => p = q
           /\ \A q \in Requests : request[q].deletes # None =>
                \E a \in Present : a # request[q].deletes

\* If the count is above one, there is an account besides any given one.
LEMMA CountedMeansAnother ==
  ASSUME NEW a \in Accounts, Total > 1 PROVE \E b \in Present : b # a
<1> SUFFICES ASSUME Present \subseteq {a} PROVE FALSE  OBVIOUS
<1>1. CASE Present = {}  BY <1>1, FS_EmptySet DEF Total
<1>2. CASE Present = {a}
  <2>1. Cardinality({a}) = 1  BY FS_Singleton
  <2> QED  BY <1>2, <2>1 DEF Total
<1> QED  BY <1>1, <1>2

\* The administrators, the tokens and the requests under way.
LEMMA DeletionStep ==
  ASSUME TypeOK, TypeOK', DeletionLeavesOne, [Next]_vars PROVE DeletionLeavesOne'
<1>1. raced => raced'
  BY DEF Next, vars, Login, Expire, LookUp, Insert, Count, Delete
<1>2. CASE raced  BY <1>1, <1>2 DEF DeletionLeavesOne
<1>3. CASE UNCHANGED vars  BY <1>3 DEF vars, Present, DeletionLeavesOne
<1> SUFFICES ASSUME Next, ~raced PROVE DeletionLeavesOne'  BY <1>2, <1>3
<1> USE AccountsAreDistinct DEF DeletionLeavesOne
<1>4. ASSUME NEW a \in Accounts, Login(a) \/ Expire(a) PROVE DeletionLeavesOne'
  BY <1>4 DEF Login, Expire, Present
<1>5. ASSUME NEW q \in Requests, NEW name \in Usernames, LookUp(q, name)
      PROVE  DeletionLeavesOne'
  BY <1>5 DEF LookUp, Present, TypeOK, NoRequest
<1>6. ASSUME NEW q \in Requests, NEW a \in Accounts, Count(q, a)
      PROVE  DeletionLeavesOne'
  <2>1. \E b \in Present : b # a
    BY <1>6, CountedMeansAnother DEF Count, MayRemove
  <2>2. Present' = Present  BY <1>6 DEF Count, Present
  <2>3. /\ request' = [request EXCEPT ![q].deletes = a]
        /\ ~raced' => \A p \in Requests : request[p].deletes = None
    BY <1>6 DEF Count
  <2> QED  BY <2>1, <2>2, <2>3 DEF TypeOK
<1>7. ASSUME NEW q \in Requests, Insert(q) PROVE DeletionLeavesOne'
  <2>1. Present \subseteq Present'
    BY <1>7 DEF Insert, Present, TypeOK
  <2>2. request' = [request EXCEPT ![q] = NoRequest]  BY <1>7 DEF Insert
  <2> QED  BY <2>1, <2>2 DEF TypeOK, NoRequest
<1>8. ASSUME NEW q \in Requests, Delete(q) PROVE DeletionLeavesOne'
  <2> DEFINE a == request[q].deletes
  <2>1. a # None /\ request' = [request EXCEPT ![q] = NoRequest]
    BY <1>8 DEF Delete
  <2>2. PICK b \in Present : b # a  BY <2>1
  <2>3. b \in Present'  BY <1>8, <2>2 DEF Delete, Present, TypeOK
  <2>4. \A p \in Requests : request'[p].deletes = None
    BY <2>1 DEF TypeOK, NoRequest
  <2> QED  BY <2>3, <2>4
<1> QED  BY <1>4, <1>5, <1>6, <1>7, <1>8 DEF Next

\* However logins, creations and deletions interleave and whoever's token they
\* carry, the last administrator is deleted only if two deletions raced.
THEOREM LastAdminAlwaysStays == Spec => []LastAdminGoesOnlyByRace
<1>1. Init => DeletionLeavesOne
  BY AccountsAreDistinct DEF Init, DeletionLeavesOne, Present, NoRequest
<1>2. TypeOK /\ TypeOK' /\ DeletionLeavesOne /\ [Next]_vars => DeletionLeavesOne'
  BY DeletionStep
<1>3. DeletionLeavesOne => LastAdminGoesOnlyByRace
  BY DEF DeletionLeavesOne, LastAdminGoesOnlyByRace
<1> QED  BY <1>1, <1>2, <1>3, UsernamesStayUnique, PTL DEF Spec

-----------------------------------------------------------------------------
(* What a page calls saved was stored, and what was published was complete *)
(* once, for any number of administrators, dates and schedules.  Both rest *)
(* on the history of the row's days: ids are never used again, so a save   *)
(* or a check that still concerns the present row has seen days which are  *)
(* in that history.                                                        *)

Complete(days) == \A m \in Months : \E d \in Dates : days[d] = m

\* What is under way concerns a row, and the page it comes from if that is
\* still there.
ErrandsHavePages ==
  \A e \in Editors :
    /\ ~Idle(e) => errand[e].id # 0
    /\ errand[e].mounted => ~Idle(e) /\ page[e].id = errand[e].id

DaysAreRecorded == schedule.id # 0 => schedule.days \in versions

\* Of errands for the row that is there now.
StoredIsRecorded ==
  \A e \in Editors :
    Reached(e, "stored") /\ errand[e].id = schedule.id => errand[e].days \in versions

ApprovedWasComplete ==
  \A e \in Editors :
    Reached(e, "approved") /\ errand[e].id = schedule.id => \E days \in versions : Complete(days)

SchedInv ==
  /\ SchedTypeOK
  /\ ErrandsHavePages
  /\ DaysAreRecorded
  /\ StoredIsRecorded
  /\ CleanMeansStored
  /\ ApprovedWasComplete
  /\ PublishedWasComplete

-----------------------------------------------------------------------------

LEMMA SchedInitInv == SchedInit => SchedInv
  BY MarksAreDistinct
  DEF SchedInit, SchedInv, SchedTypeOK, ErrandsHavePages, DaysAreRecorded, StoredIsRecorded,
      CleanMeansStored, ApprovedWasComplete, PublishedWasComplete, NoSchedule, Closed,
      NoErrand, NoDays, DaySets, Idle, Reached

\* Types: of a row, of a page and of what is under way.
SchedRow == [id: 0..rows, days: DaySets, published: BOOLEAN]
PageRow == [id: 0..rows, days: DaySets, dirty: BOOLEAN]
ErrandRow ==
  [at: {"none", "saving", "stored", "checking", "approved"}, id: 0..rows,
   days: DaySets, publish: BOOLEAN, mounted: BOOLEAN]

LEMMA EmptyRows ==
  ASSUME rows \in Nat
  PROVE  NoDays \in DaySets /\ NoSchedule \in SchedRow /\ Closed \in PageRow /\ NoErrand \in ErrandRow
<1>1. NoDays \in DaySets
  BY DEF NoDays, DaySets
<1>2. 0 \in 0..rows
  OBVIOUS
<1> QED
  BY <1>1, <1>2 DEF NoSchedule, Closed, NoErrand, SchedRow, PageRow, ErrandRow

LEMMA SchedTypeStep ==
  ASSUME SchedTypeOK, [SchedNext]_schedVars
  PROVE  SchedTypeOK'
<1> USE MarksAreDistinct DEF SchedTypeOK
<1>0. NoDays \in DaySets
  BY EmptyRows
<1> DEFINE Typed == /\ rows \in 0..MaxSchedules /\ schedule \in SchedRow
                    /\ page \in [Editors -> PageRow] /\ errand \in [Editors -> ErrandRow]
                    /\ versions \in SUBSET DaySets
<1>t. Typed /\ NoSchedule \in SchedRow /\ Closed \in PageRow /\ NoErrand \in ErrandRow
  BY EmptyRows DEF SchedRow, PageRow, ErrandRow
<1>u. ASSUME rows' = rows, schedule' \in SchedRow, page' \in [Editors -> PageRow],
             errand' \in [Editors -> ErrandRow], versions' \subseteq DaySets
      PROVE  SchedTypeOK'
  BY <1>u DEF SchedRow, PageRow, ErrandRow
<1>1. ASSUME NEW e \in Editors, CreateSchedule(e) PROVE SchedTypeOK'
  <2>1. rows' \in 0..MaxSchedules /\ rows' = rows + 1
    BY <1>1 DEF CreateSchedule
  <2>2. schedule' \in [id: 0..rows', days: DaySets, published: BOOLEAN]
    <3>1. schedule' = [id |-> rows', days |-> NoDays, published |-> FALSE]
      BY <1>1 DEF CreateSchedule, NoSchedule
    <3>2. rows' \in 0..rows'
      BY <2>1
    <3> QED BY <1>0, <3>1, <3>2
  <2>3. 0..rows \subseteq 0..rows'
    BY <2>1
  <2>4. page' \in [Editors -> [id: 0..rows', days: DaySets, dirty: BOOLEAN]]
    BY <1>1, <2>3 DEF CreateSchedule
  <2>5. errand' \in [Editors ->
          [at: {"none", "saving", "stored", "checking", "approved"}, id: 0..rows',
           days: DaySets, publish: BOOLEAN, mounted: BOOLEAN]]
    BY <1>1, <2>3 DEF CreateSchedule
  <2>6. versions' \subseteq DaySets
    BY <1>0, <1>1 DEF CreateSchedule
  <2> QED BY <2>1, <2>2, <2>4, <2>5, <2>6
<1>2. ASSUME NEW e \in Editors, Open(e) PROVE SchedTypeOK'
  BY <1>2 DEF Open
<1>3. ASSUME NEW e \in Editors, Leave(e) PROVE SchedTypeOK'
  <2>1. [errand[e] EXCEPT !.mounted = FALSE] \in ErrandRow
    BY <1>t DEF ErrandRow
  <2> QED BY <1>3, <1>t, <1>u, <2>1 DEF Leave
<1>4. ASSUME NEW e \in Editors, NEW d \in Dates, NEW mark \in Months \cup {Holiday, Blank},
             Paint(e, d, mark)
      PROVE  SchedTypeOK'
  <2>1. [page[e].days EXCEPT ![d] = mark] \in DaySets
    BY <1>4 DEF Paint, DaySets
  <2>2. [[page[e] EXCEPT !.days = [page[e].days EXCEPT ![d] = mark]] EXCEPT !.dirty = TRUE] \in PageRow
    BY <1>t, <2>1 DEF PageRow
  <2>3. page' \in [Editors -> PageRow]
    BY <1>4, <1>t, <2>2 DEF Paint
  <2> QED BY <1>4, <1>t, <1>u, <2>3 DEF Paint
<1>5. ASSUME NEW e \in Editors, Save(e) PROVE SchedTypeOK'
  BY <1>5 DEF Save, Sends
<1>6. ASSUME NEW e \in Editors, Publish(e) PROVE SchedTypeOK'
  BY <1>6 DEF Publish, Sends
<1>7. ASSUME NEW e \in Editors, StoreDays(e) PROVE SchedTypeOK'
  <2>1. CASE Ends(e) /\ UNCHANGED <<schedule, versions>>
    BY <1>7, <1>t, <1>u, <2>1 DEF StoreDays, Ends
  <2>2. CASE schedule.id = errand[e].id
    <3>1. [schedule EXCEPT !.days = errand[e].days] \in SchedRow
      BY <1>t DEF SchedRow, ErrandRow
    <3>2. [errand[e] EXCEPT !.at = "stored"] \in ErrandRow
      BY <1>t DEF ErrandRow
    <3>3. /\ schedule' = [schedule EXCEPT !.days = errand[e].days]
          /\ versions' = versions \cup {errand[e].days}
          /\ errand' = [errand EXCEPT ![e] = [errand[e] EXCEPT !.at = "stored"]]
          /\ rows' = rows /\ page' = page
      BY <1>7, <1>t, <2>2 DEF StoreDays
    <3>4. errand[e].days \in DaySets
      BY <1>t DEF ErrandRow
    <3>5. errand' \in [Editors -> ErrandRow]
      BY <1>t, <3>2, <3>3
    <3> QED BY <1>t, <1>u, <3>1, <3>3, <3>4, <3>5
  <2> QED BY <1>7, <2>1, <2>2 DEF StoreDays
<1>8. ASSUME NEW e \in Editors, Saved(e) PROVE SchedTypeOK'
  <2>1. page' \in [Editors -> PageRow]
    BY <1>8, <1>t DEF Saved, PageRow, ErrandRow
  <2>2. [errand[e] EXCEPT !.at = "checking"] \in ErrandRow
    BY <1>t DEF ErrandRow
  <2>3. errand' \in [Editors -> ErrandRow]
    BY <1>8, <1>t, <2>2 DEF Saved, Ends
  <2> QED BY <1>8, <1>t, <1>u, <2>1, <2>3 DEF Saved
<1>9. ASSUME NEW e \in Editors, CheckDays(e) PROVE SchedTypeOK'
  <2>1. [errand[e] EXCEPT !.at = "approved"] \in ErrandRow
    BY <1>t DEF ErrandRow
  <2>2. errand' \in [Editors -> ErrandRow]
    BY <1>9, <1>t, <2>1 DEF CheckDays, Ends
  <2> QED BY <1>9, <1>t, <1>u, <2>2 DEF CheckDays
<1>10. ASSUME NEW e \in Editors, SetPublished(e) PROVE SchedTypeOK'
  <2>1. [schedule EXCEPT !.published = TRUE] \in SchedRow
    BY <1>t DEF SchedRow
  <2> QED BY <1>10, <1>t, <1>u, <2>1 DEF SetPublished, Ends
<1>11. ASSUME NEW e \in Editors, LoseErrand(e) PROVE SchedTypeOK'
  BY <1>0, <1>11 DEF LoseErrand, Ends, NoErrand
<1>12. ASSUME NEW e \in Editors, RemoveSchedule(e) PROVE SchedTypeOK'
  <2>1. [errand[e] EXCEPT !.mounted = FALSE] \in ErrandRow
    BY <1>t DEF ErrandRow
  <2> QED BY <1>12, <1>t, <1>u, <2>1 DEF RemoveSchedule
<1>13. CASE UNCHANGED schedVars
  BY <1>13 DEF schedVars
<1> QED
  BY <1>1, <1>2, <1>3, <1>4, <1>5, <1>6, <1>7, <1>8, <1>9, <1>10, <1>11, <1>12, <1>13
  DEF SchedNext

\* The errands and the history.
LEMMA SchedRecordStep ==
  ASSUME SchedInv, [SchedNext]_schedVars
  PROVE  /\ ErrandsHavePages' /\ DaysAreRecorded' /\ StoredIsRecorded' /\ CleanMeansStored'
         /\ ApprovedWasComplete' /\ PublishedWasComplete'
<1> DEFINE Goal ==
      /\ ErrandsHavePages' /\ DaysAreRecorded' /\ StoredIsRecorded' /\ CleanMeansStored'
      /\ ApprovedWasComplete' /\ PublishedWasComplete'
<1> USE MarksAreDistinct
    DEF SchedInv, SchedTypeOK, ErrandsHavePages, DaysAreRecorded, StoredIsRecorded,
        CleanMeansStored, ApprovedWasComplete, PublishedWasComplete, Complete, Idle, Reached
<1>1. ASSUME NEW e \in Editors, CreateSchedule(e) PROVE Goal
  <2>1. schedule'.id = rows + 1 /\ schedule'.days = NoDays /\ ~schedule'.published
    BY <1>1 DEF CreateSchedule, NoSchedule
  <2>2. \A f \in Editors : page[f].id # rows + 1 /\ errand[f].id # rows + 1
    OBVIOUS
  <2> QED BY <1>1, <2>1, <2>2 DEF CreateSchedule
<1>2. ASSUME NEW e \in Editors, Open(e) PROVE Goal
  <2>1. PICK days \in versions :
          page' = [page EXCEPT ![e] = [id |-> schedule.id, days |-> days, dirty |-> FALSE]]
    BY <1>2 DEF Open
  <2>2. /\ page'[e].id = schedule.id /\ page'[e].days = days
        /\ \A f \in Editors : f # e => page'[f] = page[f]
    BY <2>1
  <2>3. ~errand[e].mounted /\ UNCHANGED <<schedule, rows, errand, versions>>
    BY <1>2 DEF Open
  <2> QED BY <2>2, <2>3
<1>3. ASSUME NEW e \in Editors, Leave(e) PROVE Goal
  BY <1>3 DEF Leave, Closed
<1>4. ASSUME NEW e \in Editors, NEW d \in Dates, NEW mark \in Months \cup {Holiday, Blank},
             Paint(e, d, mark)
      PROVE  Goal
  BY <1>4 DEF Paint
<1>5. ASSUME NEW e \in Editors, Save(e) PROVE Goal
  BY <1>5 DEF Save, Sends
<1>6. ASSUME NEW e \in Editors, Publish(e) PROVE Goal
  BY <1>6 DEF Publish, Sends
<1>7. ASSUME NEW e \in Editors, StoreDays(e) PROVE Goal
  <2>1. CASE Ends(e) /\ UNCHANGED <<schedule, versions>>
    BY <1>7, <2>1 DEF StoreDays, Ends, NoErrand
  <2>2. CASE schedule.id = errand[e].id
    <3>1. /\ schedule'.id = schedule.id /\ schedule'.published = schedule.published
          /\ schedule'.days = errand[e].days
          /\ versions' = versions \cup {errand[e].days}
          /\ rows' = rows /\ page' = page
      BY <1>7, <2>2 DEF StoreDays
    <3>2. /\ errand'[e].at = "stored" /\ errand'[e].id = errand[e].id
          /\ errand'[e].days = errand[e].days /\ errand'[e].mounted = errand[e].mounted
          /\ \A f \in Editors : f # e => errand'[f] = errand[f]
      BY <1>7, <2>2 DEF StoreDays
    <3>3. errand[e].id # 0
      BY <1>7 DEF StoreDays
    <3>4. ErrandsHavePages' /\ DaysAreRecorded' /\ StoredIsRecorded'
      BY <3>1, <3>2, <3>3
    <3>5. CleanMeansStored' /\ PublishedWasComplete'
      BY <3>1
    <3>6. ApprovedWasComplete'
      BY <3>1, <3>2
    <3> QED BY <3>4, <3>5, <3>6
  <2> QED BY <1>7, <2>1, <2>2 DEF StoreDays
<1>8. ASSUME NEW e \in Editors, Saved(e) PROVE Goal
  <2>1. /\ errand[e].at = "stored" /\ errand[e].id # 0 /\ UNCHANGED <<schedule, rows, versions>>
        /\ \A f \in Editors : f # e => errand'[f] = errand[f] /\ page'[f] = page[f]
        /\ page'[e].id = page[e].id
    BY <1>8 DEF Saved, Ends
  <2>2. errand'[e].at \in {"none", "checking"}
        /\ (errand'[e].at # "none" => errand'[e].id = errand[e].id)
        /\ (errand'[e].mounted =>
               errand[e].mounted /\ errand'[e].at # "none" /\ errand'[e].id = errand[e].id)
    BY <1>8 DEF Saved, Ends, NoErrand
  <2>3. \/ page'[e] = page[e]
        \/ errand[e].mounted /\ page'[e].days = errand[e].days
    BY <1>8 DEF Saved
  <2>4. ErrandsHavePages' /\ DaysAreRecorded' /\ StoredIsRecorded'
    BY <2>1, <2>2, SMTT(30)
  <2>5. CleanMeansStored'
    BY <2>1, <2>3
  <2>6. ApprovedWasComplete' /\ PublishedWasComplete'
    BY <2>1, <2>2
  <2> QED BY <2>4, <2>5, <2>6
<1>9. ASSUME NEW e \in Editors, CheckDays(e) PROVE Goal
  <2>1. /\ UNCHANGED <<schedule, rows, page, versions>> /\ errand[e].id # 0
        /\ \A f \in Editors : f # e => errand'[f] = errand[f]
    BY <1>9 DEF CheckDays, Ends
  <2>2. CASE Ends(e)
    BY <2>1, <2>2 DEF Ends, NoErrand
  <2>3. CASE schedule.id = errand[e].id /\ MayPublish(schedule.days)
    <3>1. /\ errand'[e].at = "approved" /\ errand'[e].id = errand[e].id
          /\ errand'[e].mounted = errand[e].mounted
      BY <1>9, <2>3 DEF CheckDays
    <3>2. schedule.days \in versions /\ Complete(schedule.days)
      BY <2>1, <2>3 DEF MayPublish
    <3>3. ErrandsHavePages' /\ DaysAreRecorded' /\ StoredIsRecorded' /\ CleanMeansStored'
      BY <2>1, <3>1
    <3>4. ApprovedWasComplete' /\ PublishedWasComplete'
      BY <2>1, <3>2
    <3> QED BY <3>3, <3>4
  <2> QED BY <1>9, <2>2, <2>3 DEF CheckDays
<1>10. ASSUME NEW e \in Editors, SetPublished(e) PROVE Goal
  BY <1>10 DEF SetPublished, Ends, NoErrand
<1>11. ASSUME NEW e \in Editors, LoseErrand(e) PROVE Goal
  BY <1>11 DEF LoseErrand, Ends, NoErrand
<1>12. ASSUME NEW e \in Editors, RemoveSchedule(e) PROVE Goal
  BY <1>12 DEF RemoveSchedule, NoSchedule, Closed
<1>13. CASE UNCHANGED schedVars
  BY <1>13 DEF schedVars
<1> QED
  BY <1>1, <1>2, <1>3, <1>4, <1>5, <1>6, <1>7, <1>8, <1>9, <1>10, <1>11, <1>12, <1>13
  DEF SchedNext

THEOREM SchedInductive == SchedSpec => []SchedInv
<1>1. SchedInv /\ [SchedNext]_schedVars => SchedInv'
  BY SchedTypeStep, SchedRecordStep DEF SchedInv
<1> QED
  BY SchedInitInv, <1>1, PTL DEF SchedSpec

\* A page that does not call its days unsaved shows days that were stored,
\* whatever was painted, and by whom, while requests were under way
\* (ClassSchedulesAdminPage's answer handlers).
THEOREM CleanPagesWereStored == SchedSpec => []CleanMeansStored
  BY SchedInductive, PTL DEF SchedInv

\* The service checks and publishes in two steps; still, what it publishes had
\* a class day in every month at some time (ClassSchedulesService.publish).
THEOREM PublishedWereComplete == SchedSpec => []PublishedWasComplete
  BY SchedInductive, PTL DEF SchedInv

-----------------------------------------------------------------------------
(* Deployments one after the other leave no gap, however many there are.   *)
(* The strengthening says, for each command the one job awake can be at,   *)
(* which color has answered: the one that was active until the job has     *)
(* seen the other one answer, and that other one from then on.             *)

\* A job that is awake has chosen a color to start.
StandbyIsChosen == \A j \in Jobs : Awake(j) => job[j].standby \in Colors

OneJobAwake == \A j, k \in Jobs : Awake(j) /\ Awake(k) => j = k

\* Between deployments a green container has been healthy: green is only ever
\* started by a job, which waits for it or removes it.
RestingColors ==
  (\A j \in Jobs : ~Awake(j)) =>
    /\ box["green"] # "new"
    /\ served => SomeBackendIsProven

\* While the job works on the other color, what served goes on serving; green
\* is left alone if it is not that other color.
WorkingColors ==
  \A j \in Jobs : Awake(j) =>
    /\ job[j].standby = "blue" => box["green"] # "new"
    /\ job[j].at = "stopping" => box[job[j].standby] = "proven"
    /\ job[j].at # "stopping" /\ served =>
         job[j].active \in Colors /\ box[job[j].active] = "proven"

DeployInv ==
  /\ DeployTypeOK
  /\ StandbyIsChosen
  /\ ~upset => OneJobAwake /\ RestingColors /\ WorkingColors

-----------------------------------------------------------------------------

LEMMA DeployInitInv == DeployInit => DeployInv
<1> SUFFICES ASSUME DeployInit PROVE DeployInv
  OBVIOUS
<1>1. \A j \in Jobs : ~Awake(j)
  BY DEF DeployInit, Awake, Asleep
<1>2. DeployTypeOK
  BY <1>1 DEF DeployInit, DeployTypeOK, Asleep, Colors
<1>3. RestingColors
  BY DEF DeployInit, RestingColors, Colors
<1> QED
  BY <1>1, <1>2, <1>3 DEF DeployInv, StandbyIsChosen, OneJobAwake, WorkingColors

\* The types survive every step.
LEMMA DeployTypeStep ==
  DeployTypeOK /\ StandbyIsChosen /\ [DeployNext]_deployVars
    => DeployTypeOK' /\ StandbyIsChosen'
<1> SUFFICES ASSUME DeployTypeOK, StandbyIsChosen, [DeployNext]_deployVars
             PROVE  DeployTypeOK' /\ StandbyIsChosen'
  OBVIOUS
<1> USE DEF DeployTypeOK, StandbyIsChosen, Awake, Colors
<1>1. CASE StartCaddy
  BY <1>1 DEF StartCaddy
<1>2. ASSUME NEW c \in Colors, BecomesHealthy(c) PROVE DeployTypeOK' /\ StandbyIsChosen'
  BY <1>2 DEF BecomesHealthy
<1>3. ASSUME NEW j \in Jobs, StartJob(j) PROVE DeployTypeOK' /\ StandbyIsChosen'
  BY <1>3 DEF StartJob, ActiveColor, StandbyColor
<1>4. ASSUME NEW j \in Jobs, StartStandby(j) PROVE DeployTypeOK' /\ StandbyIsChosen'
  BY <1>4, ZenonT(30) DEF StartStandby, Turns
<1>5. ASSUME NEW j \in Jobs, StandbyHealthy(j) PROVE DeployTypeOK' /\ StandbyIsChosen'
  BY <1>5, ZenonT(30) DEF StandbyHealthy, Turns
<1>6. ASSUME NEW j \in Jobs, RollBack(j) PROVE DeployTypeOK' /\ StandbyIsChosen'
  BY <1>6 DEF RollBack, Finishes, Asleep
<1>7. ASSUME NEW j \in Jobs, StopActive(j) PROVE DeployTypeOK' /\ StandbyIsChosen'
  BY <1>7 DEF StopActive, Finishes, Asleep
<1>8. ASSUME NEW j \in Jobs, CutOff(j) PROVE DeployTypeOK' /\ StandbyIsChosen'
  BY <1>8 DEF CutOff, Finishes, Asleep
<1>9. CASE UNCHANGED deployVars
  BY <1>9 DEF deployVars
<1> QED
  BY <1>1, <1>2, <1>3, <1>4, <1>5, <1>6, <1>7, <1>8, <1>9 DEF DeployNext

\* As long as nothing is upset, each command finds the colors as the one
\* before has left them.
LEMMA DeployColorsStep ==
  DeployInv /\ [DeployNext]_deployVars /\ ~upset'
    => OneJobAwake' /\ RestingColors' /\ WorkingColors'
<1> SUFFICES ASSUME DeployInv, [DeployNext]_deployVars, ~upset'
             PROVE  OneJobAwake' /\ RestingColors' /\ WorkingColors'
  OBVIOUS
<1> DEFINE Goal == OneJobAwake' /\ RestingColors' /\ WorkingColors'
<1>0. ~upset /\ OneJobAwake /\ RestingColors /\ WorkingColors /\ DeployTypeOK /\ StandbyIsChosen
  <2>1. upset => upset'
    BY DEF DeployNext, deployVars, StartCaddy, BecomesHealthy, StartJob, StartStandby,
           StandbyHealthy, RollBack, StopActive, CutOff
  <2> QED BY <2>1 DEF DeployInv
<1> USE DEF DeployTypeOK, StandbyIsChosen, OneJobAwake, RestingColors, WorkingColors,
            SomeBackendIsProven, Awake, Colors
<1>1. CASE StartCaddy
  BY <1>0, <1>1 DEF StartCaddy, Runs
<1>2. ASSUME NEW c \in Colors, BecomesHealthy(c) PROVE Goal
  BY <1>0, <1>2 DEF BecomesHealthy
<1>3. ASSUME NEW j \in Jobs, StartJob(j) PROVE Goal
  <2>1. \A k \in Jobs : ~Awake(k)
    BY <1>3, <1>0 DEF StartJob
  <2> QED
    BY <1>0, <1>3, <2>1, ZenonT(30) DEF StartJob, ActiveColor, StandbyColor, Runs
<1>4. ASSUME NEW j \in Jobs, StartStandby(j) PROVE Goal
  <2> DEFINE c == job[j].standby
  <2>1. /\ c \in Colors /\ job[j].at = "starting" /\ c # job[j].active /\ UNCHANGED <<served, upset>>
        /\ job' = [job EXCEPT ![j].at = "waiting"]
    BY <1>0, <1>4 DEF StartStandby, Turns
  <2>2. box' \in [Colors -> {"absent", "new", "proven"}]
        /\ \A b \in Colors : b # c => box'[b] = box[b]
    <3>1. box' = [box EXCEPT ![c] = "new"] \/ UNCHANGED box
      BY <1>4 DEF StartStandby
    <3>2. box \in [Colors -> {"absent", "new", "proven"}]
      BY <1>0
    <3> HIDE DEF c
    <3> QED BY <2>1, <3>1, <3>2
  <2>3. \A k \in Jobs : Awake(k) => k = j
    BY <1>0, <2>1
  <2>4. \A k \in Jobs : Awake(k)' => k = j
    BY <1>0, <2>1, <2>3
  <2>5. Awake(j)' /\ job'[j].standby = c /\ job'[j].active = job[j].active /\ job'[j].at = "waiting"
    BY <1>0, <2>1
  <2>6. OneJobAwake' /\ RestingColors'
    BY <2>4, <2>5
  <2>7. WorkingColors'
    <3>1. /\ c = "blue" => box["green"] # "new"
          /\ served => job[j].active \in Colors /\ box[job[j].active] = "proven"
      BY <1>0, <2>1
    <3>2. /\ c = "blue" => box'["green"] # "new"
          /\ served => job[j].active \in Colors /\ box'[job[j].active] = "proven"
      BY <2>1, <2>2, <3>1
    <3> HIDE DEF c
    <3> QED BY <2>1, <2>4, <2>5, <3>2
  <2> QED BY <2>6, <2>7
<1>5. ASSUME NEW j \in Jobs, StandbyHealthy(j) PROVE Goal
  BY <1>0, <1>5, ZenonT(30) DEF StandbyHealthy, Turns
<1>6. ASSUME NEW j \in Jobs, RollBack(j) PROVE Goal
  <2> DEFINE c == job[j].standby
  <2>1. /\ c \in Colors /\ job[j].at = "waiting" /\ c # job[j].active
        /\ job' = [job EXCEPT ![j] = Asleep] /\ served' = served
    BY <1>0, <1>6 DEF RollBack, Finishes
  <2>2. box'[c] = "absent" /\ \A b \in Colors : b # c => box'[b] = box[b]
    BY <1>0, <1>6, <2>1 DEF RollBack
  <2>3. \A k \in Jobs : ~Awake(k)'
    BY <1>0, <2>1 DEF Asleep
  <2>4. /\ c = "blue" => box["green"] # "new"
        /\ served => job[j].active \in Colors /\ box[job[j].active] = "proven"
    BY <1>0, <2>1
  <2> HIDE DEF c
  <2>5. box'["green"] # "new" /\ (served => \E b \in Colors : box'[b] = "proven")
    BY <2>1, <2>2, <2>4
  <2> QED BY <2>1, <2>3, <2>5
<1>7. ASSUME NEW j \in Jobs, StopActive(j) PROVE Goal
  <2> DEFINE c == job[j].standby
  <2>1. /\ c \in Colors /\ job[j].at = "stopping" /\ c # job[j].active
        /\ job' = [job EXCEPT ![j] = Asleep]
    BY <1>0, <1>7 DEF StopActive, Finishes
  <2>2. \A b \in Colors : box'[b] = IF b = job[j].active THEN "absent" ELSE box[b]
    BY <1>7 DEF StopActive
  <2>3. \A k \in Jobs : ~Awake(k)'
    BY <1>0, <2>1 DEF Asleep
  <2>4. (c = "blue" => box["green"] # "new") /\ box[c] = "proven"
    BY <1>0, <2>1
  <2> HIDE DEF c
  <2>5. box'["green"] # "new" /\ box'[c] = "proven"
    BY <2>1, <2>2, <2>4
  <2> QED BY <2>1, <2>3, <2>5
<1>8. ASSUME NEW j \in Jobs, CutOff(j) PROVE Goal
  BY <1>8 DEF CutOff
<1>9. CASE UNCHANGED deployVars
  BY <1>0, <1>9 DEF deployVars
<1> QED
  BY <1>1, <1>2, <1>3, <1>4, <1>5, <1>6, <1>7, <1>8, <1>9 DEF DeployNext

THEOREM DeployInductive == DeploySpec => []DeployInv
<1>1. DeployInv /\ [DeployNext]_deployVars => DeployInv'
  BY DeployTypeStep, DeployColorsStep DEF DeployInv
<1> QED
  BY DeployInitInv, <1>1, PTL DEF DeploySpec

\* Deployments that run one after the other, each to its end, successful or
\* not, never leave the site without a backend that has answered: for any
\* number of jobs of deploy-backend.yml.
THEOREM SequentialDeploysLeaveNoGap == DeploySpec => []OneAtATimeNoGap
<1>1. DeployInv => OneAtATimeNoGap
  <2> SUFFICES ASSUME DeployInv, served, ~upset PROVE SomeBackendIsProven
    BY DEF OneAtATimeNoGap
  <2>1. CASE \A j \in Jobs : ~Awake(j)
    BY <2>1 DEF DeployInv, RestingColors
  <2>2. CASE \E j \in Jobs : Awake(j)
    BY <2>2 DEF DeployInv, WorkingColors, StandbyIsChosen, SomeBackendIsProven
  <2> QED
    BY <2>1, <2>2
<1> QED
  BY DeployInductive, <1>1, PTL

-----------------------------------------------------------------------------
(* The composition: each component behaves as it does on its own, whether  *)
(* it is the one that runs or not.                                         *)

\* A step of the composition is a step of each component or leaves it alone.
LEMMA ServicesStepIsEachs ==
  ASSUME [ServicesNext]_<<part, servicesVars>>
  PROVE  /\ [Next]_vars /\ [AuthNext]_authVars /\ [SchedNext]_schedVars
         /\ [DeployNext]_deployVars /\ [ParentNext]_parentVars
         /\ part \in Parts => (part \in Parts)'
<1>1. CASE UNCHANGED <<part, servicesVars>>
  BY <1>1 DEF servicesVars
<1>2. CASE ServicesNext
  BY <1>2 DEF ServicesNext, Is
<1> QED  BY <1>1, <1>2

\* Every behaviour of the composition is one of each component.
THEOREM ServicesRunEachPart ==
  ServicesSpec => /\ Spec /\ AuthSpec /\ SchedSpec /\ DeploySpec /\ ParentSpec
                  /\ [](part \in Parts)
<1>1. ServicesInit =>
        /\ Init /\ AuthInit /\ SchedInit /\ DeployInit /\ ParentInit
        /\ part \in Parts
  BY DEF ServicesInit
<1> QED
  BY <1>1, ServicesStepIsEachs, PTL
  DEF ServicesSpec, Spec, AuthSpec, SchedSpec, DeploySpec, ParentSpec

\* Accounts, logins, schedules, colors and browsers keep their types, and the
\* unique indices of the schema hold, for any number of each.
THEOREM ServicesTypesHold == ServicesSpec => []ServicesTypeOK
<1>1. SchedInv => SchedTypeOK  BY DEF SchedInv
<1>2. DeployInv => DeployTypeOK  BY DEF DeployInv
<1>3. /\ part \in Parts
      /\ TypeOK /\ AuthTypeOK /\ SchedTypeOK /\ DeployTypeOK /\ ParentTypeOK
      => ServicesTypeOK
  BY DEF Parts, ServicesTypeOK
<1> QED
  BY <1>1, <1>2, <1>3, ServicesRunEachPart, UsernamesStayUnique,
     AddressesStayUnique, SchedInductive, DeployInductive, BrowserKeepsTypes, PTL

\* What the components promise one by one holds of the composition.
THEOREM ServicesKeepPromises ==
  ServicesSpec =>
    /\ [](/\ LastAdminGoesOnlyByRace /\ WelcomedCanComeBack /\ UsedMeansSpent
          /\ CleanMeansStored /\ PublishedWasComplete /\ OneAtATimeNoGap
          /\ ChildrenSettleTrue)
    /\ AccountsKeepTheirParent
BY ServicesRunEachPart, LastAdminAlwaysStays, WelcomedCanAlwaysComeBack,
   UsedIsAlwaysSpent, CleanPagesWereStored, PublishedWereComplete,
   SequentialDeploysLeaveNoGap, ChildrenAlwaysSettleTrue,
   AccountsAlwaysKeepTheirParent, PTL
=============================================================================
