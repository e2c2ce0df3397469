---------------------------- MODULE AdminAccounts ----------------------------
(***************************************************************************)
(* Administrator accounts (AdminAccountsService) and the tokens their      *)
(* owners hold.  A token is not looked up when it is used: it outlives the *)
(* account it was issued for, until it expires.                            *)
(***************************************************************************)
EXTENDS FiniteSets, Naturals

CONSTANTS
  Accounts,    \* ids; each is given out once
  Usernames,
  Requests,    \* requests in flight
  First,       \* the account the seed creates
  Unused, Deleted, None

ASSUME AccountsAreDistinct ==
  /\ First \in Accounts
  /\ {Unused, Deleted} \cap Usernames = {} /\ Unused # Deleted
  /\ None \notin Accounts /\ None \notin Usernames

VARIABLES
  admin,   \* per id its username, or that it was not created yet or deleted
  tokens,  \* the ids that tokens which have not expired were issued for
  request, \* what each request has found to be allowed and is about to do
  raced    \* history: a deletion counted while another was under way

vars == <<admin, tokens, request, raced>>

NoRequest == [creates |-> None, deletes |-> None]

Present == {a \in Accounts : admin[a] \in Usernames}
NameTaken(name) == \E a \in Present : admin[a] = name
Total == Cardinality(Present)

\* Requests that found the same free name do not both create it (@unique).
OneAccountPerUsername ==
  \A a, b \in Present : admin[a] = admin[b] => a = b

\* Names are unique; the tokens name ids that were given out, and so no account
\* still to come.
TypeOK ==
  /\ admin \in [Accounts -> Usernames \cup {Unused, Deleted}]
  /\ tokens \subseteq {a \in Accounts : admin[a] # Unused}
  /\ request \in [Requests ->
       [creates: Usernames \cup {None}, deletes: Accounts \cup {None}]]
  /\ raced \in BOOLEAN
  /\ OneAccountPerUsername

Init ==
  /\ \E name \in Usernames :
       admin = [a \in Accounts |-> IF a = First THEN name ELSE Unused]
  /\ tokens = {}
  /\ request = [q \in Requests |-> NoRequest]
  /\ raced = FALSE

Login(a) ==
  /\ a \in Present
  /\ tokens' = tokens \cup {a}
  /\ UNCHANGED <<admin, request, raced>>

Expire(a) ==
  /\ a \in tokens
  /\ tokens' = tokens \ {a}
  /\ UNCHANGED <<admin, request, raced>>

\* create: the name is looked up, then the password is hashed ...
LookUp(q, name) ==
  /\ request[q] = NoRequest /\ tokens # {}
  /\ ~NameTaken(name)
  /\ request' = [request EXCEPT ![q].creates = name]
  /\ UNCHANGED <<admin, tokens, raced>>

\* Mutant: username is not unique in the schema.
InsertUnchecked(q) ==
  /\ request[q].creates # None
  /\ \E a \in Accounts : /\ admin[a] = Unused
                         /\ admin' = [admin EXCEPT ![a] = request[q].creates]
  /\ request' = [request EXCEPT ![q] = NoRequest]
  /\ UNCHANGED <<tokens, raced>>
\* ... and the row is inserted, or refused by the unique index on username.
Insert(q) ==
  /\ request[q].creates # None
  /\ \/ /\ ~NameTaken(request[q].creates)
        /\ \E a \in Accounts : /\ admin[a] = Unused
                               /\ admin' = [admin EXCEPT ![a] = request[q].creates]
     \/ NameTaken(request[q].creates) /\ UNCHANGED admin
  /\ request' = [request EXCEPT ![q] = NoRequest]
  /\ UNCHANGED <<tokens, raced>>

\* Mutant: the accounts are not counted.
MayRemoveOther(a, current) == a # current
\* total <= 1 is refused, and so is one's own account.
MayRemove(a, current) == a # current /\ Total > 1

\* remove: the accounts are counted ...
Count(q, a) ==
  /\ request[q] = NoRequest
  /\ \E current \in tokens : MayRemove(a, current)
  /\ request' = [request EXCEPT ![q].deletes = a]
  /\ raced' = (raced \/ \E p \in Requests : request[p].deletes # None)
  /\ UNCHANGED <<admin, tokens>>

\* ... and the row is deleted, if it is still there.
Delete(q) ==
  LET a == request[q].deletes IN
  /\ a # None
  /\ admin' = IF a \in Present THEN [admin EXCEPT ![a] = Deleted] ELSE admin
  /\ request' = [request EXCEPT ![q] = NoRequest]
  /\ UNCHANGED <<tokens, raced>>

Next ==
  \/ \E a \in Accounts : Login(a) \/ Expire(a)
  \/ \E q \in Requests :
       \/ Insert(q) \/ Delete(q)
       \/ \E name \in Usernames : LookUp(q, name)
       \/ \E a \in Accounts : admin[a] # Unused /\ Count(q, a)

Spec == Init /\ [][Next]_vars

-----------------------------------------------------------------------------

\* admin-accounts.service.spec.ts: the last remaining administrator is not
\* deleted - not even by the token of an account that is deleted already -
\* unless one deletion has counted the accounts while another was under way.
LastAdminGoesOnlyByRace == raced \/ Present # {}

=============================================================================
