----------------------------- MODULE ParentAuth -----------------------------
(***************************************************************************)
(* The accounts of parents: sign-up with an e-mail link, login with a      *)
(* password, and login through a provider, whose callback leaves a session *)
(* code for the page to exchange (AuthService, SocialAuthService,          *)
(* ParentSocialAccountService).  None of the handlers is a transaction:    *)
(* every statement is a step of its own, and a statement that fails, or    *)
(* the end of the process, leaves the earlier ones as they are.            *)
(*                                                                         *)
(* Ids, links and codes are numbers in the order they are given out.  The  *)
(* n-th sign-up's link and password are both called n.  Names are data.    *)
(***************************************************************************)
EXTENDS Naturals, Sequences, FiniteSets

CONSTANTS
  Emails, NoEmail,   \* normalized addresses; a provider may withhold it
  Socials,           \* accounts at the providers
  Visits,            \* requests being served at a time
  Gone, Nobody,
  MaxParents, MaxLinks, MaxCodes  \* bounds on the rows ever created

ASSUME AuthBounds ==
  /\ NoEmail \notin Emails /\ Nobody \notin Nat
  /\ Gone \notin [email: Emails \cup {NoEmail}, password: Nat]
  /\ MaxParents \in Nat /\ MaxLinks \in Nat /\ MaxCodes \in Nat

VARIABLES
  parents,   \* the ParentUser rows by id, Gone when removed; password 0: none
  linked,    \* per account of a provider the parent of its row, or Nobody
  pending,   \* per address its ParentEmailVerification row; link 0: none yet
  codes,     \* the ParentAuthSession rows
  links,     \* sign-ups stored
  visit,     \* each request: the statement it is at and what it has read
  welcomed,  \* history: the parents that were given a token
  used       \* history: the links and codes that somebody got a token for

authVars == <<parents, linked, pending, codes, links, visit, welcomed, used>>

Away == [at |-> "away", email |-> NoEmail, social |-> Nobody, parent |-> 0, key |-> 0]
Stages == {"away", "signing up", "found", "checked", "written", "known", "unknown",
           "creating", "linking", "authenticated", "exchanging"}

Ids == DOMAIN parents
Exists(p) == p \in Ids /\ parents[p] # Gone
Owners(e) == {p \in Ids : Exists(p) /\ parents[p].email = e}
\* findUnique by an address; a missing one (0) matches nothing
Owner(e) == IF e \in Emails /\ Owners(e) # {} THEN CHOOSE p \in Owners(e) : TRUE ELSE 0

\* Including the unique index on the address.
AuthTypeOK ==
  /\ Len(parents) <= MaxParents /\ Len(codes) <= MaxCodes
  /\ \A p \in Ids : Exists(p) =>
       parents[p] \in [email: Emails \cup {NoEmail}, password: 0..links]
  /\ \A e \in Emails : Cardinality(Owners(e)) <= 1
  /\ linked \in [Socials -> Ids \cup {Nobody}]
  /\ pending \in [Emails -> [link: 0..links, consumed: BOOLEAN, expired: BOOLEAN]]
  /\ \A c \in DOMAIN codes :
       codes[c] \in [parent: Ids, consumed: BOOLEAN, expired: BOOLEAN]
  /\ links \in 0..MaxLinks
  /\ visit \in [Visits -> [at: Stages, email: Emails \cup {NoEmail},
       social: Socials \cup {Nobody}, parent: Ids \cup {0}, key: 0..links \cup DOMAIN codes]]
  /\ welcomed \subseteq Ids
  /\ used \subseteq {"link"} \X (1..links) \cup {"code"} \X DOMAIN codes

AuthInit ==
  /\ parents = <<>> /\ codes = <<>> /\ links = 0
  /\ linked = [s \in Socials |-> Nobody]
  /\ pending = [e \in Emails |-> [link |-> 0, consumed |-> FALSE, expired |-> FALSE]]
  /\ visit = [v \in Visits |-> Away]
  /\ welcomed = {} /\ used = {}

At(v, stage) == visit[v].at = stage
Moves(v, stage) == visit' = [visit EXCEPT ![v].at = stage]
Finds(v, stage, p) == visit' = [visit EXCEPT ![v].at = stage, ![v].parent = p]
Leaves(v) == visit' = [visit EXCEPT ![v] = Away]
Welcomes(p, way) == welcomed' = welcomed \cup {p} /\ used' = used \cup way

Create(v, email, password, stage) ==
  IF Owner(email) = 0
    THEN /\ Len(parents) < MaxParents
         /\ parents' = Append(parents, [email |-> email, password |-> password])
         /\ Finds(v, stage, Len(parents) + 1)
    ELSE Leaves(v) /\ UNCHANGED parents

-----------------------------------------------------------------------------
(* Sign-up and the link in the mail                                        *)

SignUp(v, e) ==
  /\ At(v, "away")
  /\ Owner(e) # 0 => parents[Owner(e)].password = 0
  /\ visit' = [visit EXCEPT ![v] = [Away EXCEPT !.at = "signing up", !.email = e]]
  /\ UNCHANGED <<parents, linked, pending, codes, links, welcomed, used>>

\* Mutant: the row that is there keeps its token.
StoreSignUpReusing(v) ==
  /\ At(v, "signing up")
  /\ links < MaxLinks /\ links' = links + 1
  /\ pending' = [pending EXCEPT ![visit[v].email] =
       [link |-> IF @.link = 0 THEN links' ELSE @.link, consumed |-> FALSE, expired |-> FALSE]]
  /\ Leaves(v)
  /\ UNCHANGED <<parents, linked, codes, welcomed, used>>
\* After the password is hashed: the upsert, and the mail, which may be lost.
StoreSignUp(v) ==
  /\ At(v, "signing up")
  /\ links < MaxLinks /\ links' = links + 1
  /\ pending' = [pending EXCEPT ![visit[v].email] =
       [link |-> links', consumed |-> FALSE, expired |-> FALSE]]
  /\ Leaves(v)
  /\ UNCHANGED <<parents, linked, codes, welcomed, used>>

OpenLink(v, e) ==
  /\ At(v, "away")
  /\ pending[e].link # 0 /\ ~pending[e].consumed /\ ~pending[e].expired
  /\ visit' = [visit EXCEPT ![v] =
       [Away EXCEPT !.at = "found", !.email = e, !.key = pending[e].link]]
  /\ UNCHANGED <<parents, linked, pending, codes, links, welcomed, used>>

CheckParent(v) ==
  LET p == Owner(visit[v].email) IN
  /\ At(v, "found")
  /\ IF p # 0 /\ parents[p].password # 0 THEN Leaves(v) ELSE Finds(v, "checked", p)
  /\ UNCHANGED <<parents, linked, pending, codes, links, welcomed, used>>

\* A new parent, or the password for one that has only logged in through a
\* provider so far; one that was removed meanwhile, or created, is an error.
SetPassword(v) ==
  LET p == visit[v].parent IN
  /\ At(v, "checked")
  /\ CASE p = 0 -> Create(v, visit[v].email, visit[v].key, "written")
       [] p # 0 /\ Exists(p) ->
            /\ parents' = [parents EXCEPT ![p].password = visit[v].key]
            /\ Moves(v, "written")
       [] OTHER -> Leaves(v) /\ UNCHANGED parents
  /\ UNCHANGED <<linked, pending, codes, links, welcomed, used>>

\* By the row's id: also when another sign-up has put a new token into it.
ConsumeLink(v) ==
  /\ At(v, "written")
  /\ pending' = [pending EXCEPT ![visit[v].email].consumed = TRUE]
  /\ Welcomes(visit[v].parent, {<<"link", visit[v].key>>})
  /\ Leaves(v)
  /\ UNCHANGED <<parents, linked, codes, links>>

LogIn(e) ==
  /\ Owner(e) # 0 /\ parents[Owner(e)].password # 0
  /\ Welcomes(Owner(e), {})
  /\ UNCHANGED <<parents, linked, pending, codes, links, visit>>

-----------------------------------------------------------------------------
(* Login through a provider                                                *)

\* The callback, with a valid state, has fetched a profile and looks its
\* account up; of the address, that of the profile counts first.
FindAccount(v, s, e) ==
  LET p == linked[s] IN
  /\ At(v, "away")
  /\ visit' = [visit EXCEPT ![v] =
       IF p # Nobody
         THEN [Away EXCEPT !.at = "known", !.social = s, !.parent = p,
                           !.email = IF e = NoEmail THEN parents[p].email ELSE e]
         ELSE [Away EXCEPT !.at = "unknown", !.social = s, !.email = e]]
  /\ UNCHANGED <<parents, linked, pending, codes, links, welcomed, used>>

\* The parent takes over the address, unless another parent has it.
UpdateParent(v) ==
  LET p == visit[v].parent  e == visit[v].email IN
  /\ At(v, "known")
  /\ IF Exists(p) /\ Owner(e) \in {0, p}
       THEN parents' = [parents EXCEPT ![p].email = e] /\ Moves(v, "authenticated")
       ELSE Leaves(v) /\ UNCHANGED parents
  /\ UNCHANGED <<linked, pending, codes, links, welcomed, used>>

FindByEmail(v) ==
  LET p == Owner(visit[v].email) IN
  /\ At(v, "unknown")
  /\ Finds(v, IF p = 0 THEN "creating" ELSE "linking", p)
  /\ UNCHANGED <<parents, linked, pending, codes, links, welcomed, used>>

CreateParent(v) ==
  /\ At(v, "creating")
  /\ Create(v, visit[v].email, 0, "linking")
  /\ UNCHANGED <<linked, pending, codes, links, welcomed, used>>

\* Mutants: a row that another login has created is taken over, or accepted.
LinkAnyway(v) ==
  /\ At(v, "linking")
  /\ IF Exists(visit[v].parent)
       THEN linked' = [linked EXCEPT ![visit[v].social] = visit[v].parent]
            /\ Moves(v, "authenticated")
       ELSE Leaves(v) /\ UNCHANGED linked
  /\ UNCHANGED <<parents, pending, codes, links, welcomed, used>>
LinkLeniently(v) ==
  /\ At(v, "linking")
  /\ IF Exists(visit[v].parent)
       THEN linked' = [linked EXCEPT ![visit[v].social] =
                         IF @ = Nobody THEN visit[v].parent ELSE @]
            /\ Moves(v, "authenticated")
       ELSE Leaves(v) /\ UNCHANGED linked
  /\ UNCHANGED <<parents, pending, codes, links, welcomed, used>>
\* The account's row is unique; the loser of a race is left with an error, and
\* maybe with a parent nobody can log in as.
Link(v) ==
  /\ At(v, "linking")
  /\ IF linked[visit[v].social] = Nobody /\ Exists(visit[v].parent)
       THEN linked' = [linked EXCEPT ![visit[v].social] = visit[v].parent]
            /\ Moves(v, "authenticated")
       ELSE Leaves(v) /\ UNCHANGED linked
  /\ UNCHANGED <<parents, pending, codes, links, welcomed, used>>

OpenSession(v) ==
  LET p == visit[v].parent IN
  /\ At(v, "authenticated")
  /\ IF Exists(p)
       THEN /\ Len(codes) < MaxCodes
            /\ codes' = Append(codes, [parent |-> p, consumed |-> FALSE, expired |-> FALSE])
       ELSE UNCHANGED codes
  /\ Leaves(v)
  /\ UNCHANGED <<parents, linked, pending, links, welcomed, used>>

\* A session is removed with its parent.
FindSession(v, c) ==
  /\ At(v, "away")
  /\ Exists(codes[c].parent) /\ ~codes[c].consumed /\ ~codes[c].expired
  /\ visit' = [visit EXCEPT ![v] =
       [Away EXCEPT !.at = "exchanging", !.parent = codes[c].parent, !.key = c]]
  /\ UNCHANGED <<parents, linked, pending, codes, links, welcomed, used>>

ConsumeSession(v) ==
  LET c == visit[v].key IN
  /\ At(v, "exchanging")
  /\ IF Exists(codes[c].parent)
       THEN /\ codes' = [codes EXCEPT ![c].consumed = TRUE]
            /\ Welcomes(visit[v].parent, {<<"code", c>>})
       ELSE UNCHANGED <<codes, welcomed, used>>
  /\ Leaves(v)
  /\ UNCHANGED <<parents, linked, pending, links>>

-----------------------------------------------------------------------------

\* A statement or the provider fails, or the process ends.
Abort(v) ==
  /\ ~At(v, "away")
  /\ Leaves(v)
  /\ UNCHANGED <<parents, linked, pending, codes, links, welcomed, used>>

LinkExpires(e) ==
  /\ pending[e].link # 0 /\ ~pending[e].expired
  /\ pending' = [pending EXCEPT ![e].expired = TRUE]
  /\ UNCHANGED <<parents, linked, codes, links, visit, welcomed, used>>

CodeExpires(c) ==
  /\ ~codes[c].expired
  /\ codes' = [codes EXCEPT ![c].expired = TRUE]
  /\ UNCHANGED <<parents, linked, pending, links, visit, welcomed, used>>

\* MembersService.remove: the parent, its accounts and its sessions.
RemoveParent(p) ==
  /\ Exists(p)
  /\ parents' = [parents EXCEPT ![p] = Gone]
  /\ linked' = [s \in Socials |-> IF linked[s] = p THEN Nobody ELSE linked[s]]
  /\ UNCHANGED <<pending, codes, links, visit, welcomed, used>>

Serve(v) ==
  \/ StoreSignUp(v) \/ CheckParent(v) \/ SetPassword(v) \/ ConsumeLink(v)
  \/ UpdateParent(v) \/ FindByEmail(v) \/ CreateParent(v) \/ Link(v)
  \/ OpenSession(v) \/ ConsumeSession(v) \/ Abort(v)
  \/ \E e \in Emails : SignUp(v, e) \/ OpenLink(v, e)
  \/ \E s \in Socials, e \in Emails \cup {NoEmail} : FindAccount(v, s, e)
  \/ \E c \in DOMAIN codes : FindSession(v, c)

AuthNext ==
  \/ \E v \in Visits : Serve(v)
  \/ \E e \in Emails : LogIn(e) \/ LinkExpires(e)
  \/ \E c \in DOMAIN codes : CodeExpires(c)
  \/ \E p \in Ids : RemoveParent(p)

AuthSpec == AuthInit /\ [][AuthNext]_authVars

-----------------------------------------------------------------------------

\* Whoever has been let in once can come back: the parent has a password or an
\* account at a provider, whatever races or crashes were on the way.
WelcomedCanComeBack ==
  \A p \in welcomed : Exists(p) =>
    parents[p].password # 0 \/ \E s \in Socials : linked[s] = p

\* A link or code that somebody got in with does not pass the checks again,
\* however sign-ups and verifications of one address overlap.
UsedMeansSpent ==
  /\ \A e \in Emails : <<"link", pending[e].link>> \in used => pending[e].consumed
  /\ \A c \in DOMAIN codes : <<"code", c>> \in used => codes[c].consumed

\* An account at a provider leads to the same parent as long as that exists,
\* also when its first logins run at the same time.
AccountsKeepTheirParent ==
  [][\A s \in Socials :
       linked[s] # Nobody /\ linked'[s] # linked[s] => parents'[linked[s]] = Gone]_authVars
=============================================================================
