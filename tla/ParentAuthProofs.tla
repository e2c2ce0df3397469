-------------------------- MODULE ParentAuthProofs --------------------------
(***************************************************************************)
(* For any number of addresses, provider accounts and requests at a time:  *)
(* an account at a provider keeps its parent, what somebody got in with is *)
(* spent, and whoever was let in can come back.                            *)
(***************************************************************************)
EXTENDS ParentAuth, SequenceTheorems, FiniteSetTheorems, TLAPS

ParentRows == [email: Emails \cup {NoEmail}, password: Nat]
CodeRows == [parent: Nat, consumed: BOOLEAN, expired: BOOLEAN]

\* The row of an account at a provider belongs to a parent that exists.
LinkedSorts ==
  /\ linked \in [Socials -> Ids \cup {Nobody}]
  /\ \A s \in Socials : linked[s] # Nobody => Exists(linked[s])

\* The part of AuthTypeOK the arguments need: no bounds, no uniqueness.
AuthSorts ==
  /\ parents \in Seq(ParentRows \cup {Gone})
  /\ codes \in Seq(CodeRows)
  /\ \A c \in DOMAIN codes : codes[c].parent \in Ids
  /\ links \in Nat
  /\ LinkedSorts
  /\ pending \in [Emails -> [link: 0..links, consumed: BOOLEAN, expired: BOOLEAN]]
  /\ visit \in [Visits -> [at: Stages, email: Emails \cup {NoEmail},
       social: Socials \cup {Nobody}, parent: Ids \cup {0}, key: Nat]]
  /\ welcomed \subseteq Ids
  /\ used \subseteq {"link"} \X (1..links) \cup {"code"} \X DOMAIN codes

\* What a request remembers at each stage.
Remembers(v) ==
  /\ visit[v].at \in {"signing up", "found", "checked", "written"} => visit[v].email \in Emails
  /\ visit[v].at \in {"found", "checked", "written"} => visit[v].key \in 1..links
  /\ visit[v].at = "written" => visit[v].parent # 0
  /\ visit[v].at \in {"unknown", "creating", "linking"} => visit[v].social \in Socials
  /\ visit[v].at = "exchanging" =>
       visit[v].key \in DOMAIN codes /\ visit[v].parent = codes[visit[v].key].parent
VisitsRemember == \A v \in Visits : Remembers(v)

\* A link was sent to one address only: the row it is in, and every request
\* that has found it, are of that address.
LinkIsOf(v) ==
  visit[v].at \in {"found", "checked", "written"} =>
    \A f \in Emails : pending[f].link = visit[v].key => f = visit[v].email
LinksHaveOneAddress ==
  /\ \A e, f \in Emails : pending[e].link = pending[f].link /\ pending[e].link # 0 => e = f
  /\ \A v \in Visits : LinkIsOf(v)

WayBack(p) ==
  Exists(p) => parents[p].password # 0 \/ \E s \in Socials : linked[s] = p

\* Whoever is about to be let in can come back as well.
EntersBack(v) ==
  visit[v].at \in {"known", "authenticated", "exchanging", "written"} => WayBack(visit[v].parent)
EntrantsCanComeBack ==
  /\ \A c \in DOMAIN codes : WayBack(codes[c].parent)
  /\ \A v \in Visits : EntersBack(v)

AuthInv ==
  /\ AuthSorts /\ VisitsRemember
  /\ LinksHaveOneAddress /\ UsedMeansSpent
  /\ EntrantsCanComeBack /\ WelcomedCanComeBack

-----------------------------------------------------------------------------
(* The rows of parents.                                                     *)

LEMMA OwnerExists ==
  ASSUME AuthSorts, NEW e, Owner(e) # 0
  PROVE  Owner(e) \in Ids /\ Exists(Owner(e))
  BY DEF Owner, Owners

\* A changed row.
LEMMA RowChanges ==
  ASSUME AuthSorts, NEW p \in Ids, NEW row \in ParentRows \cup {Gone},
         parents' = [parents EXCEPT ![p] = row]
  PROVE  /\ parents' \in Seq(ParentRows \cup {Gone}) /\ Ids' = Ids
         /\ parents'[p] = row
         /\ \A q \in Ids : q # p => parents'[q] = parents[q]
  BY ExceptSeq DEF AuthSorts, Ids

\* A new row.
LEMMA RowAdded ==
  ASSUME AuthSorts, NEW row \in ParentRows, parents' = Append(parents, row)
  PROVE  /\ parents' \in Seq(ParentRows \cup {Gone})
         /\ Ids' = Ids \cup {Len(parents) + 1} /\ Len(parents) + 1 \notin Ids
         /\ parents'[Len(parents) + 1] = row
         /\ \A q \in Ids : parents'[q] = parents[q]
  BY AppendProperties DEF AuthSorts, Ids

LEMMA CreateKeepsRows ==
  ASSUME AuthSorts, NEW v \in Visits, NEW email \in Emails \cup {NoEmail}, NEW password \in Nat,
         NEW stage, Create(v, email, password, stage)
  PROVE  /\ parents' \in Seq(ParentRows \cup {Gone}) /\ Ids \subseteq Ids'
         /\ \A q \in Ids : parents'[q] = parents[q]
         /\ \/ visit' = [visit EXCEPT ![v] = Away]
            \/ \E p \in Ids' \ Ids :
                 /\ visit' = [visit EXCEPT ![v].at = stage, ![v].parent = p]
                 /\ parents'[p] \in ParentRows /\ parents'[p].password = password
<1>1. CASE Owner(email) = 0
  <2> DEFINE row == [email |-> email, password |-> password]
  <2>1. row \in ParentRows
    BY DEF ParentRows
  <2>2. parents' = Append(parents, row)
    BY <1>1 DEF Create
  <2>3. visit' = [visit EXCEPT ![v].at = stage, ![v].parent = Len(parents) + 1]
    BY <1>1 DEF Create, Finds
  <2>4. row.password = password
    OBVIOUS
  <2> HIDE DEF row
  <2> QED BY <2>1, <2>2, <2>3, <2>4, RowAdded
<1>2. CASE Owner(email) # 0
  BY <1>2 DEF Create, Leaves, AuthSorts, Ids
<1> QED BY <1>1, <1>2

\* Rows are never reused, passwords never lost, and an account at a provider
\* stays with a parent that stays.
RowsKept ==
  /\ parents' \in Seq(ParentRows \cup {Gone}) /\ Ids \subseteq Ids'
  /\ \A p \in Ids :
       /\ Exists(p)' => Exists(p)
       /\ Exists(p)' /\ parents[p].password # 0 => parents'[p].password # 0
       /\ Exists(p)' => \A s \in Socials : linked[s] = p => linked'[s] = p

LEMMA SetPasswordRows ==
  ASSUME AuthSorts, VisitsRemember, NEW v \in Visits, SetPassword(v)
  PROVE  /\ RowsKept
         /\ \A q \in Ids : Exists(q) => Exists(q)'
         /\ \/ visit' = [visit EXCEPT ![v] = Away]
            \/ \E p \in Ids' :
                 /\ visit' = [visit EXCEPT ![v].at = "written", ![v].parent = p]
                 /\ parents'[p] # Gone /\ parents'[p].password # 0
<1> DEFINE p == visit[v].parent
           k == visit[v].key
<1>0. k \in Nat /\ k # 0 /\ visit[v].email \in Emails /\ UNCHANGED linked
  <2>1. visit[v].at = "checked" /\ UNCHANGED linked
    BY DEF SetPassword, At
  <2>2. visit[v].key \in 1..links /\ visit[v].email \in Emails /\ links \in Nat
    BY <2>1 DEF VisitsRemember, Remembers, AuthSorts
  <2> QED BY <2>1, <2>2
<1>1. CASE p = 0
  <2>1. Create(v, visit[v].email, k, "written")
    BY <1>1 DEF SetPassword
  <2>2. /\ parents' \in Seq(ParentRows \cup {Gone}) /\ Ids \subseteq Ids'
        /\ \A q \in Ids : parents'[q] = parents[q]
        /\ \/ visit' = [visit EXCEPT ![v] = Away]
           \/ \E q \in Ids' \ Ids :
                /\ visit' = [visit EXCEPT ![v].at = "written", ![v].parent = q]
                /\ parents'[q] \in ParentRows /\ parents'[q].password = k
    BY <1>0, <2>1, CreateKeepsRows
  <2> QED BY <1>0, <2>2, AuthBounds DEF RowsKept, Exists, ParentRows
<1>2. CASE p # 0 /\ Exists(p)
  <2> DEFINE row == [parents[p] EXCEPT !.password = k]
  <2>1. parents' = [parents EXCEPT ![p] = row] /\ visit' = [visit EXCEPT ![v].at = "written"]
    BY <1>2 DEF SetPassword, Moves
  <2>2. p \in Ids /\ parents[p] \in ParentRows
    BY <1>2 DEF Exists, AuthSorts, Ids
  <2>3. row \in ParentRows /\ row.password = k /\ row # Gone
    BY <1>0, <2>2, AuthBounds DEF ParentRows
  <2>4. visit' = [visit EXCEPT ![v].at = "written", ![v].parent = p]
    BY <2>1 DEF AuthSorts
  <2>5. /\ parents' \in Seq(ParentRows \cup {Gone}) /\ Ids' = Ids /\ parents'[p] = row
        /\ \A q \in Ids : q # p => parents'[q] = parents[q]
    BY <2>1, <2>2, <2>3, RowChanges
  <2> HIDE DEF row, p, k
  <2> QED BY <1>0, <1>2, <2>2, <2>3, <2>4, <2>5 DEF RowsKept, Exists
<1>3. CASE p # 0 /\ ~Exists(p)
  <2>1. UNCHANGED parents /\ visit' = [visit EXCEPT ![v] = Away]
    BY <1>3 DEF SetPassword, Leaves
  <2> QED BY <1>0, <2>1 DEF RowsKept, Exists, AuthSorts, Ids
<1> QED BY <1>1, <1>2, <1>3

LEMMA UpdateParentRows ==
  ASSUME AuthSorts, NEW v \in Visits, UpdateParent(v)
  PROVE  RowsKept /\ Ids' = Ids /\ \A q \in Ids : Exists(q) => Exists(q)'
<1> DEFINE p == visit[v].parent
           row == [parents[p] EXCEPT !.email = visit[v].email]
<1>1. CASE parents' = [parents EXCEPT ![p] = row] /\ Exists(p)
  <2>1. p \in Ids /\ parents[p] \in ParentRows
    BY <1>1 DEF Exists, AuthSorts, Ids
  <2>2. row \in ParentRows /\ row.password = parents[p].password /\ row # Gone
    BY <2>1, AuthBounds DEF ParentRows, AuthSorts
  <2>3. /\ parents' \in Seq(ParentRows \cup {Gone}) /\ Ids' = Ids /\ parents'[p] = row
        /\ \A q \in Ids : q # p => parents'[q] = parents[q]
    BY <1>1, <2>1, <2>2, RowChanges
  <2>4. UNCHANGED linked
    BY DEF UpdateParent
  <2> HIDE DEF row, p
  <2> QED BY <1>1, <2>1, <2>2, <2>3, <2>4 DEF RowsKept, Exists
<1>2. CASE UNCHANGED parents
  BY <1>2 DEF UpdateParent, RowsKept, Exists, AuthSorts, Ids
<1> QED
  BY <1>1, <1>2 DEF UpdateParent

LEMMA RemoveParentRows ==
  ASSUME AuthSorts, NEW p \in Ids, RemoveParent(p)
  PROVE  RowsKept /\ Ids' = Ids /\ \A q \in Ids : q # p /\ Exists(q) => Exists(q)'
<1>1. parents' = [parents EXCEPT ![p] = Gone] /\ Exists(p)
  BY DEF RemoveParent
<1>2. /\ parents' \in Seq(ParentRows \cup {Gone}) /\ Ids' = Ids /\ parents'[p] = Gone
      /\ \A q \in Ids : q # p => parents'[q] = parents[q]
  BY <1>1, RowChanges
<1>3. \A s \in Socials : linked[s] # p => linked'[s] = linked[s]
  BY DEF RemoveParent
<1> QED BY <1>2, <1>3 DEF RowsKept, Exists

LEMMA RowsStep ==
  ASSUME AuthSorts, VisitsRemember, [AuthNext]_authVars
  PROVE  RowsKept
<1>0. ASSUME UNCHANGED parents, \A s \in Socials : linked[s] # Nobody => linked'[s] = linked[s]
      PROVE  RowsKept
  BY <1>0, AuthBounds DEF RowsKept, Exists, AuthSorts, Ids
<1>1. ASSUME NEW v \in Visits, NEW e \in Emails, SignUp(v, e) PROVE RowsKept
  BY <1>1, <1>0 DEF SignUp
<1>2. ASSUME NEW v \in Visits, StoreSignUp(v) PROVE RowsKept
  BY <1>2, <1>0 DEF StoreSignUp
<1>3. ASSUME NEW v \in Visits, NEW e \in Emails, OpenLink(v, e) PROVE RowsKept
  BY <1>3, <1>0 DEF OpenLink
<1>4. ASSUME NEW v \in Visits, CheckParent(v) PROVE RowsKept
  BY <1>4, <1>0 DEF CheckParent
<1>5. ASSUME NEW v \in Visits, SetPassword(v) PROVE RowsKept
  BY <1>5, SetPasswordRows
<1>6. ASSUME NEW v \in Visits, ConsumeLink(v) PROVE RowsKept
  BY <1>6, <1>0 DEF ConsumeLink
<1>7. ASSUME NEW e \in Emails, LogIn(e) PROVE RowsKept
  BY <1>7, <1>0 DEF LogIn
<1>8. ASSUME NEW v \in Visits, NEW s \in Socials, NEW e \in Emails \cup {NoEmail}, FindAccount(v, s, e) PROVE RowsKept
  BY <1>8, <1>0 DEF FindAccount
<1>9. ASSUME NEW v \in Visits, UpdateParent(v) PROVE RowsKept
  BY <1>9, UpdateParentRows
<1>10. ASSUME NEW v \in Visits, FindByEmail(v) PROVE RowsKept
  BY <1>10, <1>0 DEF FindByEmail
<1>11. ASSUME NEW v \in Visits, CreateParent(v) PROVE RowsKept
  <2>1. Create(v, visit[v].email, 0, "linking") /\ visit[v].email \in Emails \cup {NoEmail}
    BY <1>11 DEF CreateParent, AuthSorts
  <2>2. UNCHANGED linked
    BY <1>11 DEF CreateParent
  <2> QED BY <2>1, <2>2, CreateKeepsRows DEF RowsKept, Exists
<1>12. ASSUME NEW v \in Visits, Link(v) PROVE RowsKept
  <2>1. UNCHANGED parents /\ visit[v].social \in Socials \cup {Nobody}
    BY <1>12 DEF Link, AuthSorts
  <2>2. UNCHANGED linked \/ /\ linked[visit[v].social] = Nobody
                            /\ linked' = [linked EXCEPT ![visit[v].social] = visit[v].parent]
    BY <1>12 DEF Link
  <2> QED BY <1>0, <2>1, <2>2 DEF AuthSorts, LinkedSorts
<1>13. ASSUME NEW v \in Visits, OpenSession(v) PROVE RowsKept
  BY <1>13, <1>0 DEF OpenSession
<1>14. ASSUME NEW v \in Visits, NEW c \in DOMAIN codes, FindSession(v, c) PROVE RowsKept
  BY <1>14, <1>0 DEF FindSession
<1>15. ASSUME NEW v \in Visits, ConsumeSession(v) PROVE RowsKept
  BY <1>15, <1>0 DEF ConsumeSession
<1>16. ASSUME NEW v \in Visits, Abort(v) PROVE RowsKept
  BY <1>16, <1>0 DEF Abort
<1>17. ASSUME NEW e \in Emails, LinkExpires(e) PROVE RowsKept
  BY <1>17, <1>0 DEF LinkExpires
<1>18. ASSUME NEW c \in DOMAIN codes, CodeExpires(c) PROVE RowsKept
  BY <1>18, <1>0 DEF CodeExpires
<1>19. ASSUME NEW p \in Ids, RemoveParent(p) PROVE RowsKept
  BY <1>19, RemoveParentRows
<1>20. CASE UNCHANGED authVars
  BY <1>20, <1>0 DEF authVars
<1> QED
  BY <1>1, <1>2, <1>3, <1>4, <1>5, <1>6, <1>7, <1>8, <1>9, <1>10, <1>11, <1>12, <1>13,
     <1>14, <1>15, <1>16, <1>17, <1>18, <1>19, <1>20 DEF AuthNext, Serve

\* The rows of session codes are never removed, and a consumed one stays consumed.
CodesKept ==
  /\ codes' \in Seq(CodeRows) /\ DOMAIN codes \subseteq DOMAIN codes'
  /\ \A c \in DOMAIN codes :
       codes'[c].parent = codes[c].parent /\ (codes[c].consumed => codes'[c].consumed)
  /\ \A c \in DOMAIN codes' \ DOMAIN codes :
       /\ c = Len(codes) + 1 /\ Exists(codes'[c].parent)
       /\ \E v \in Visits : At(v, "authenticated") /\ codes'[c].parent = visit[v].parent

\* One code is changed.
LEMMA CodeChanges ==
  ASSUME AuthSorts, NEW c \in DOMAIN codes, NEW row \in CodeRows, row.parent = codes[c].parent,
         codes[c].consumed => row.consumed, codes' = [codes EXCEPT ![c] = row]
  PROVE  CodesKept
<1>1. codes \in Seq(CodeRows) /\ c \in 1..Len(codes)
  BY DEF AuthSorts
<1>2. codes' \in Seq(CodeRows) /\ Len(codes') = Len(codes)
      /\ codes'[c] = row /\ \A d \in DOMAIN codes : d # c => codes'[d] = codes[d]
  BY <1>1, ExceptSeq
<1> QED
  BY <1>1, <1>2 DEF CodesKept

LEMMA CodesStep ==
  ASSUME AuthSorts, VisitsRemember, [AuthNext]_authVars
  PROVE  CodesKept
<1>0. ASSUME UNCHANGED codes PROVE CodesKept
  BY <1>0 DEF CodesKept, AuthSorts
<1>1. ASSUME NEW v \in Visits, NEW e \in Emails, SignUp(v, e) PROVE CodesKept
  BY <1>1, <1>0 DEF SignUp
<1>2. ASSUME NEW v \in Visits, StoreSignUp(v) PROVE CodesKept
  BY <1>2, <1>0 DEF StoreSignUp
<1>3. ASSUME NEW v \in Visits, NEW e \in Emails, OpenLink(v, e) PROVE CodesKept
  BY <1>3, <1>0 DEF OpenLink
<1>4. ASSUME NEW v \in Visits, CheckParent(v) PROVE CodesKept
  BY <1>4, <1>0 DEF CheckParent
<1>5. ASSUME NEW v \in Visits, SetPassword(v) PROVE CodesKept
  BY <1>5, <1>0 DEF SetPassword
<1>6. ASSUME NEW v \in Visits, ConsumeLink(v) PROVE CodesKept
  BY <1>6, <1>0 DEF ConsumeLink
<1>7. ASSUME NEW e \in Emails, LogIn(e) PROVE CodesKept
  BY <1>7, <1>0 DEF LogIn
<1>8. ASSUME NEW v \in Visits, NEW s \in Socials, NEW e \in Emails \cup {NoEmail}, FindAccount(v, s, e) PROVE CodesKept
  BY <1>8, <1>0 DEF FindAccount
<1>9. ASSUME NEW v \in Visits, UpdateParent(v) PROVE CodesKept
  BY <1>9, <1>0 DEF UpdateParent
<1>10. ASSUME NEW v \in Visits, FindByEmail(v) PROVE CodesKept
  BY <1>10, <1>0 DEF FindByEmail
<1>11. ASSUME NEW v \in Visits, CreateParent(v) PROVE CodesKept
  BY <1>11, <1>0 DEF CreateParent
<1>12. ASSUME NEW v \in Visits, Link(v) PROVE CodesKept
  BY <1>12, <1>0 DEF Link
<1>13. ASSUME NEW v \in Visits, OpenSession(v) PROVE CodesKept
  <2> DEFINE row == [parent |-> visit[v].parent, consumed |-> FALSE, expired |-> FALSE]
  <2>1. CASE Exists(visit[v].parent)
    <3>1. row \in CodeRows /\ codes \in Seq(CodeRows) /\ codes' = Append(codes, row)
      BY <1>13, <2>1 DEF OpenSession, AuthSorts, CodeRows, Exists, Ids
    <3>2. row.parent = visit[v].parent /\ At(v, "authenticated")
      BY <1>13 DEF OpenSession
    <3> HIDE DEF row
    <3>3. /\ codes' \in Seq(CodeRows) /\ DOMAIN codes' = 1..Len(codes) + 1
          /\ codes'[Len(codes) + 1] = row /\ \A c \in DOMAIN codes : codes'[c] = codes[c]
      BY <3>1, AppendProperties
    <3>4. DOMAIN codes = 1..Len(codes) /\ Len(codes) \in Nat
      BY <3>1
    <3> QED BY <2>1, <3>2, <3>3, <3>4 DEF CodesKept
  <2>2. CASE UNCHANGED codes
    BY <1>0, <2>2
  <2> QED BY <1>13, <2>1, <2>2 DEF OpenSession
<1>14. ASSUME NEW v \in Visits, NEW c \in DOMAIN codes, FindSession(v, c) PROVE CodesKept
  BY <1>14, <1>0 DEF FindSession
<1>15. ASSUME NEW v \in Visits, ConsumeSession(v) PROVE CodesKept
  <2> DEFINE c == visit[v].key
             row == [codes[c] EXCEPT !.consumed = TRUE]
  <2>1. c \in DOMAIN codes /\ codes[c] \in CodeRows
    <3>1. c \in DOMAIN codes
      BY <1>15 DEF ConsumeSession, At, VisitsRemember, Remembers
    <3> QED BY <3>1 DEF AuthSorts
  <2>2. row \in CodeRows /\ row.parent = codes[c].parent /\ row.consumed
    BY <2>1 DEF CodeRows
  <2>3. UNCHANGED codes \/ codes' = [codes EXCEPT ![c] = row]
    BY <1>15 DEF ConsumeSession
  <2> HIDE DEF row, c
  <2> QED BY <1>0, <2>1, <2>2, <2>3, CodeChanges
<1>16. ASSUME NEW v \in Visits, Abort(v) PROVE CodesKept
  BY <1>16, <1>0 DEF Abort
<1>17. ASSUME NEW e \in Emails, LinkExpires(e) PROVE CodesKept
  BY <1>17, <1>0 DEF LinkExpires
<1>18. ASSUME NEW c \in DOMAIN codes, CodeExpires(c) PROVE CodesKept
  <2> DEFINE row == [codes[c] EXCEPT !.expired = TRUE]
  <2>1. codes[c] \in CodeRows
    BY DEF AuthSorts
  <2>2. row \in CodeRows /\ row.parent = codes[c].parent /\ row.consumed = codes[c].consumed
    BY <2>1 DEF CodeRows
  <2>3. codes' = [codes EXCEPT ![c] = row]
    BY <1>18 DEF CodeExpires
  <2> HIDE DEF row
  <2> QED BY <2>1, <2>2, <2>3, CodeChanges
<1>19. ASSUME NEW p \in Ids, RemoveParent(p) PROVE CodesKept
  BY <1>19, <1>0 DEF RemoveParent
<1>20. CASE UNCHANGED authVars
  BY <1>20, <1>0 DEF authVars
<1> QED
  BY <1>1, <1>2, <1>3, <1>4, <1>5, <1>6, <1>7, <1>8, <1>9, <1>10, <1>11, <1>12, <1>13,
     <1>14, <1>15, <1>16, <1>17, <1>18, <1>19, <1>20 DEF AuthNext, Serve

-----------------------------------------------------------------------------
(* Requests, links and codes.                                               *)

VisitRows == [at: Stages, email: Emails \cup {NoEmail}, social: Socials \cup {Nobody},
              parent: Ids \cup {0}, key: Nat]

\* Where a request goes, and with which parent.
LEMMA VisitMoves ==
  ASSUME AuthSorts, Ids \subseteq Ids', NEW v \in Visits, NEW stage \in Stages,
         NEW p \in Ids' \cup {0}
  PROVE  /\ [visit[v] EXCEPT !.at = stage] \in VisitRows'
         /\ [visit[v] EXCEPT !.at = stage, !.parent = p] \in VisitRows'
  BY ZenonT(30) DEF AuthSorts, VisitRows

LEMMA VisitSorts ==
  ASSUME AuthSorts, Ids \subseteq Ids'
  PROVE  /\ visit \in [Visits -> VisitRows']
         /\ Away \in VisitRows'
         /\ \A e \in Emails \cup {NoEmail}, s \in Socials \cup {Nobody},
               p \in Ids' \cup {0}, k \in Nat, stage \in Stages :
              [at |-> stage, email |-> e, social |-> s, parent |-> p, key |-> k] \in VisitRows'
  BY ZenonT(30) DEF AuthSorts, VisitRows, Away, Stages

\* Every request keeps the sort of what it remembers.
LEMMA VisitsStep ==
  ASSUME AuthSorts, VisitsRemember, [AuthNext]_authVars
  PROVE  visit' \in [Visits -> VisitRows']
<1> DEFINE Goal == visit' \in [Visits -> VisitRows']
<1>0. RowsKept /\ Ids \subseteq Ids'
  BY RowsStep DEF RowsKept
<1>a. visit \in [Visits -> VisitRows'] /\ Away \in VisitRows'
  BY <1>0, VisitSorts
<1>b. ASSUME UNCHANGED visit PROVE Goal
  BY <1>a, <1>b
<1>c. ASSUME NEW v \in Visits, NEW row \in VisitRows', visit' = [visit EXCEPT ![v] = row]
      PROVE  Goal
  BY <1>a, <1>c
<1>d. ASSUME NEW v \in Visits, NEW stage \in Stages, NEW p \in Ids' \cup {0},
             \/ visit' = [visit EXCEPT ![v].at = stage]
             \/ visit' = [visit EXCEPT ![v].at = stage, ![v].parent = p]
      PROVE  Goal
  <2>1. /\ [visit[v] EXCEPT !.at = stage] \in VisitRows'
        /\ [visit[v] EXCEPT !.at = stage, !.parent = p] \in VisitRows'
    BY <1>0, VisitMoves
  <2>2. \/ visit' = [visit EXCEPT ![v] = [visit[v] EXCEPT !.at = stage]]
        \/ visit' = [visit EXCEPT ![v] = [visit[v] EXCEPT !.at = stage, !.parent = p]]
    BY <1>d
  <2> QED BY <1>c, <2>1, <2>2
<1>e. \A e : Owner(e) \in Ids \cup {0}
  BY OwnerExists
<1>1. ASSUME NEW v \in Visits, NEW e \in Emails, SignUp(v, e) PROVE Goal
  <2> DEFINE row == [Away EXCEPT !.at = "signing up", !.email = e]
  <2>1. row \in VisitRows'
    BY <1>0 DEF VisitRows, Away, Stages, AuthSorts
  <2>2. visit' = [visit EXCEPT ![v] = row]
    BY <1>1 DEF SignUp
  <2> HIDE DEF row
  <2> QED BY <1>c, <2>1, <2>2
<1>2. ASSUME NEW v \in Visits, StoreSignUp(v) PROVE Goal
  BY <1>2, <1>a, <1>c DEF StoreSignUp, Leaves
<1>3. ASSUME NEW v \in Visits, NEW e \in Emails, OpenLink(v, e) PROVE Goal
  <2> DEFINE row == [Away EXCEPT !.at = "found", !.email = e, !.key = pending[e].link]
  <2>0. pending[e].link \in Nat
    BY DEF AuthSorts
  <2>1. row \in VisitRows'
    BY <1>0, <2>0 DEF VisitRows, Away, Stages
  <2>2. visit' = [visit EXCEPT ![v] = row]
    BY <1>3 DEF OpenLink
  <2> HIDE DEF row
  <2> QED BY <1>c, <2>1, <2>2
<1>4. ASSUME NEW v \in Visits, CheckParent(v) PROVE Goal
  <2>1. CASE Leaves(v)
    BY <1>a, <1>c, <2>1 DEF Leaves
  <2>2. CASE Finds(v, "checked", Owner(visit[v].email))
    BY <1>0, <1>d, <1>e, <2>2 DEF Finds, Stages
  <2> QED BY <1>4, <2>1, <2>2 DEF CheckParent
<1>5. ASSUME NEW v \in Visits, SetPassword(v) PROVE Goal
  <2>1. \/ visit' = [visit EXCEPT ![v] = Away]
        \/ \E p \in Ids' : visit' = [visit EXCEPT ![v].at = "written", ![v].parent = p]
    BY <1>5, SetPasswordRows
  <2> QED BY <1>a, <1>c, <1>d, <2>1 DEF Stages
<1>6. ASSUME NEW v \in Visits, ConsumeLink(v) PROVE Goal
  BY <1>6, <1>a, <1>c DEF ConsumeLink, Leaves
<1>7. ASSUME NEW e \in Emails, LogIn(e) PROVE Goal
  BY <1>7, <1>b DEF LogIn
<1>8. ASSUME NEW v \in Visits, NEW s \in Socials, NEW e \in Emails \cup {NoEmail}, FindAccount(v, s, e) PROVE Goal
  <2> DEFINE p == linked[s]
  <2>1. CASE p # Nobody
    <3>1. p \in Ids /\ parents[p] \in ParentRows
      BY <2>1 DEF AuthSorts, LinkedSorts, Exists, Ids
    <3> DEFINE row == [Away EXCEPT !.at = "known", !.social = s, !.parent = p,
                                   !.email = IF e = NoEmail THEN parents[p].email ELSE e]
    <3>2. row \in VisitRows'
      BY <1>0, <3>1 DEF VisitRows, Away, Stages, ParentRows
    <3>3. visit' = [visit EXCEPT ![v] = row]
      BY <1>8, <2>1 DEF FindAccount
    <3> HIDE DEF row
    <3> QED BY <1>c, <3>2, <3>3
  <2>2. CASE p = Nobody
    <3> DEFINE row == [Away EXCEPT !.at = "unknown", !.social = s, !.email = e]
    <3>2. row \in VisitRows'
      BY <1>0 DEF VisitRows, Away, Stages
    <3>3. visit' = [visit EXCEPT ![v] = row]
      BY <1>8, <2>2 DEF FindAccount
    <3> HIDE DEF row
    <3> QED BY <1>c, <3>2, <3>3
  <2> QED BY <2>1, <2>2
<1>9. ASSUME NEW v \in Visits, UpdateParent(v) PROVE Goal
  <2>1. Moves(v, "authenticated") \/ Leaves(v)
    BY <1>9 DEF UpdateParent
  <2> QED BY <1>a, <1>c, <1>d, <2>1 DEF Moves, Leaves, Stages
<1>10. ASSUME NEW v \in Visits, FindByEmail(v) PROVE Goal
  <2>1. \E stage \in Stages : Finds(v, stage, Owner(visit[v].email))
    BY <1>10 DEF FindByEmail, Stages
  <2> QED BY <1>0, <1>d, <1>e, <2>1 DEF Finds
<1>11. ASSUME NEW v \in Visits, CreateParent(v) PROVE Goal
  <2>1. Create(v, visit[v].email, 0, "linking") /\ visit[v].email \in Emails \cup {NoEmail}
    BY <1>11 DEF CreateParent, AuthSorts
  <2>2. \/ visit' = [visit EXCEPT ![v] = Away]
        \/ \E p \in Ids' : visit' = [visit EXCEPT ![v].at = "linking", ![v].parent = p]
    <3>1. \/ visit' = [visit EXCEPT ![v] = Away]
          \/ \E p \in Ids' \ Ids :
               /\ visit' = [visit EXCEPT ![v].at = "linking", ![v].parent = p]
               /\ parents'[p] \in ParentRows /\ parents'[p].password = 0
      <4>1. PICK k \in Nat : k = 0
        OBVIOUS
      <4>2. Create(v, visit[v].email, k, "linking")
        BY <2>1, <4>1
      <4>3. \/ visit' = [visit EXCEPT ![v] = Away]
            \/ \E p \in Ids' \ Ids :
                 /\ visit' = [visit EXCEPT ![v].at = "linking", ![v].parent = p]
                 /\ parents'[p] \in ParentRows /\ parents'[p].password = k
        BY <2>1, <4>2, CreateKeepsRows
      <4> QED BY <4>1, <4>3
    <3> QED BY <3>1
  <2> QED BY <1>a, <1>c, <1>d, <2>2 DEF Stages
<1>12. ASSUME NEW v \in Visits, Link(v) PROVE Goal
  <2>1. Moves(v, "authenticated") \/ Leaves(v)
    BY <1>12 DEF Link
  <2> QED BY <1>a, <1>c, <1>d, <2>1 DEF Moves, Leaves, Stages
<1>13. ASSUME NEW v \in Visits, OpenSession(v) PROVE Goal
  BY <1>13, <1>a, <1>c DEF OpenSession, Leaves
<1>14. ASSUME NEW v \in Visits, NEW c \in DOMAIN codes, FindSession(v, c) PROVE Goal
  <2> DEFINE row == [Away EXCEPT !.at = "exchanging", !.parent = codes[c].parent, !.key = c]
  <2>0. c \in Nat /\ codes[c].parent \in Ids
    BY DEF AuthSorts
  <2>1. row \in VisitRows'
    BY <1>0, <2>0 DEF VisitRows, Away, Stages
  <2>2. visit' = [visit EXCEPT ![v] = row]
    BY <1>14 DEF FindSession
  <2> HIDE DEF row
  <2> QED BY <1>c, <2>1, <2>2
<1>15. ASSUME NEW v \in Visits, ConsumeSession(v) PROVE Goal
  BY <1>15, <1>a, <1>c DEF ConsumeSession, Leaves
<1>16. ASSUME NEW v \in Visits, Abort(v) PROVE Goal
  BY <1>16, <1>a, <1>c DEF Abort, Leaves
<1>17. ASSUME NEW e \in Emails, LinkExpires(e) PROVE Goal
  BY <1>17, <1>b DEF LinkExpires
<1>18. ASSUME NEW c \in DOMAIN codes, CodeExpires(c) PROVE Goal
  BY <1>18, <1>b DEF CodeExpires
<1>19. ASSUME NEW p \in Ids, RemoveParent(p) PROVE Goal
  BY <1>19, <1>b DEF RemoveParent
<1>20. CASE UNCHANGED authVars
  BY <1>20, <1>b DEF authVars
<1> QED
  BY <1>1, <1>2, <1>3, <1>4, <1>5, <1>6, <1>7, <1>8, <1>9, <1>10, <1>11, <1>12, <1>13,
     <1>14, <1>15, <1>16, <1>17, <1>18, <1>19, <1>20 DEF AuthNext, Serve

\* The rows of accounts at providers belong to parents that exist.
LEMMA LinkedStep ==
  ASSUME AuthSorts, VisitsRemember, [AuthNext]_authVars
  PROVE  LinkedSorts'
<1> USE AuthBounds
<1>s. LinkedSorts
  BY DEF AuthSorts
<1>0. ASSUME UNCHANGED linked, Ids \subseteq Ids', \A q \in Ids : Exists(q) => Exists(q)'
      PROVE  LinkedSorts'
  <2>1. linked \in [Socials -> Ids' \cup {Nobody}]
    BY <1>0, <1>s DEF LinkedSorts
  <2>2. \A s \in Socials : linked[s] # Nobody => linked[s] \in Ids /\ Exists(linked[s])
    BY <1>s DEF LinkedSorts, Exists
  <2>3. \A s \in Socials : linked'[s] # Nobody => linked[s] \in Ids /\ Exists(linked[s])'
    BY <1>0, <2>2 DEF Exists
  <2> QED BY <1>0, <2>1, <2>3 DEF LinkedSorts
<1>z. ASSUME UNCHANGED linked, UNCHANGED parents PROVE LinkedSorts'
  BY <1>0, <1>z DEF Exists, Ids
<1>1. ASSUME NEW v \in Visits, NEW e \in Emails, SignUp(v, e) PROVE LinkedSorts'
  BY <1>1, <1>z DEF SignUp
<1>2. ASSUME NEW v \in Visits, StoreSignUp(v) PROVE LinkedSorts'
  BY <1>2, <1>z DEF StoreSignUp
<1>3. ASSUME NEW v \in Visits, NEW e \in Emails, OpenLink(v, e) PROVE LinkedSorts'
  BY <1>3, <1>z DEF OpenLink
<1>4. ASSUME NEW v \in Visits, CheckParent(v) PROVE LinkedSorts'
  BY <1>4, <1>z DEF CheckParent
<1>5. ASSUME NEW v \in Visits, SetPassword(v) PROVE LinkedSorts'
  <2>1. UNCHANGED linked
    BY <1>5 DEF SetPassword
  <2> QED BY <1>0, <1>5, <2>1, SetPasswordRows DEF RowsKept
<1>6. ASSUME NEW v \in Visits, ConsumeLink(v) PROVE LinkedSorts'
  BY <1>6, <1>z DEF ConsumeLink
<1>7. ASSUME NEW e \in Emails, LogIn(e) PROVE LinkedSorts'
  BY <1>7, <1>z DEF LogIn
<1>8. ASSUME NEW v \in Visits, NEW s \in Socials, NEW e \in Emails \cup {NoEmail}, FindAccount(v, s, e) PROVE LinkedSorts'
  BY <1>8, <1>z DEF FindAccount
<1>9. ASSUME NEW v \in Visits, UpdateParent(v) PROVE LinkedSorts'
  <2>1. UNCHANGED linked
    BY <1>9 DEF UpdateParent
  <2> QED BY <1>0, <1>9, <2>1, UpdateParentRows DEF RowsKept
<1>10. ASSUME NEW v \in Visits, FindByEmail(v) PROVE LinkedSorts'
  BY <1>10, <1>z DEF FindByEmail
<1>11. ASSUME NEW v \in Visits, CreateParent(v) PROVE LinkedSorts'
  <2>1. Create(v, visit[v].email, 0, "linking") /\ visit[v].email \in Emails \cup {NoEmail}
    BY <1>11 DEF CreateParent, AuthSorts
  <2>2. UNCHANGED linked
    BY <1>11 DEF CreateParent
  <2> QED BY <1>0, <2>1, <2>2, CreateKeepsRows DEF Exists
<1>12. ASSUME NEW v \in Visits, Link(v) PROVE LinkedSorts'
  <2>1. UNCHANGED parents
    BY <1>12 DEF Link
  <2>2. \/ UNCHANGED linked
        \/ Exists(visit[v].parent) /\ linked' = [linked EXCEPT ![visit[v].social] = visit[v].parent]
    BY <1>12 DEF Link
  <2> QED BY <1>s, <1>z, <2>1, <2>2, ZenonT(30) DEF LinkedSorts, AuthSorts, Exists, Ids
<1>13. ASSUME NEW v \in Visits, OpenSession(v) PROVE LinkedSorts'
  BY <1>13, <1>z DEF OpenSession
<1>14. ASSUME NEW v \in Visits, NEW c \in DOMAIN codes, FindSession(v, c) PROVE LinkedSorts'
  BY <1>14, <1>z DEF FindSession
<1>15. ASSUME NEW v \in Visits, ConsumeSession(v) PROVE LinkedSorts'
  BY <1>15, <1>z DEF ConsumeSession
<1>16. ASSUME NEW v \in Visits, Abort(v) PROVE LinkedSorts'
  BY <1>16, <1>z DEF Abort
<1>17. ASSUME NEW e \in Emails, LinkExpires(e) PROVE LinkedSorts'
  BY <1>17, <1>z DEF LinkExpires
<1>18. ASSUME NEW c \in DOMAIN codes, CodeExpires(c) PROVE LinkedSorts'
  BY <1>18, <1>z DEF CodeExpires
<1>19. ASSUME NEW p \in Ids, RemoveParent(p) PROVE LinkedSorts'
  <2>1. Ids' = Ids /\ \A q \in Ids : q # p /\ Exists(q) => Exists(q)'
    BY <1>19, RemoveParentRows
  <2>2. linked' = [s \in Socials |-> IF linked[s] = p THEN Nobody ELSE linked[s]]
    BY <1>19 DEF RemoveParent
  <2>3. \A s \in Socials : linked'[s] # Nobody =>
          linked'[s] = linked[s] /\ linked[s] # p /\ linked[s] \in Ids /\ Exists(linked[s])
    BY <1>s, <2>2 DEF LinkedSorts, Exists
  <2> QED BY <1>s, <2>1, <2>2, <2>3 DEF LinkedSorts, Exists
<1>20. CASE UNCHANGED authVars
  BY <1>20, <1>z DEF authVars
<1> QED
  BY <1>1, <1>2, <1>3, <1>4, <1>5, <1>6, <1>7, <1>8, <1>9, <1>10, <1>11, <1>12, <1>13,
     <1>14, <1>15, <1>16, <1>17, <1>18, <1>19, <1>20 DEF AuthNext, Serve

\* The rows of sign-ups, the links given out and the histories.
LEMMA HistoryStep ==
  ASSUME AuthSorts, VisitsRemember, [AuthNext]_authVars
  PROVE  /\ links' \in Nat /\ links <= links'
         /\ pending' \in [Emails -> [link: 0..links', consumed: BOOLEAN, expired: BOOLEAN]]
         /\ welcomed' \subseteq Ids'
         /\ used' \subseteq {"link"} \X (1..links') \cup {"code"} \X DOMAIN codes'
<1> DEFINE Goal ==
      /\ links' \in Nat /\ links <= links'
      /\ pending' \in [Emails -> [link: 0..links', consumed: BOOLEAN, expired: BOOLEAN]]
      /\ welcomed' \subseteq Ids'
      /\ used' \subseteq {"link"} \X (1..links') \cup {"code"} \X DOMAIN codes'
<1>0. Ids \subseteq Ids' /\ DOMAIN codes \subseteq DOMAIN codes'
  BY RowsStep, CodesStep DEF RowsKept, CodesKept
<1>a. /\ links \in Nat /\ welcomed \subseteq Ids
      /\ pending \in [Emails -> [link: 0..links, consumed: BOOLEAN, expired: BOOLEAN]]
      /\ used \subseteq {"link"} \X (1..links) \cup {"code"} \X DOMAIN codes
  BY DEF AuthSorts
<1>b. ASSUME UNCHANGED links, \/ UNCHANGED pending
                              \/ \E e \in Emails : pending' = [pending EXCEPT ![e].consumed = TRUE]
                              \/ \E e \in Emails : pending' = [pending EXCEPT ![e].expired = TRUE],
             \/ UNCHANGED welcomed
             \/ \E p \in Ids' : welcomed' = welcomed \cup {p},
             \/ UNCHANGED used
             \/ \E k \in 1..links : used' = used \cup {<<"link", k>>}
             \/ \E c \in DOMAIN codes' : used' = used \cup {<<"code", c>>}
      PROVE  Goal
  <2>1. links' \in Nat /\ links <= links'
    BY <1>a, <1>b
  <2>2. pending' \in [Emails -> [link: 0..links', consumed: BOOLEAN, expired: BOOLEAN]]
    BY <1>a, <1>b, ZenonT(30)
  <2>3. welcomed' \subseteq Ids'
    BY <1>0, <1>a, <1>b
  <2>4. used' \subseteq {"link"} \X (1..links') \cup {"code"} \X DOMAIN codes'
    BY <1>0, <1>a, <1>b
  <2> QED BY <2>1, <2>2, <2>3, <2>4
<1>1. ASSUME NEW v \in Visits, NEW e \in Emails, SignUp(v, e) PROVE Goal
  BY <1>1, <1>b DEF SignUp
<1>2. ASSUME NEW v \in Visits, StoreSignUp(v) PROVE Goal
  <2>1. /\ links' = links + 1 /\ UNCHANGED <<welcomed, used, codes, parents>>
        /\ pending' = [pending EXCEPT ![visit[v].email] =
                          [link |-> links', consumed |-> FALSE, expired |-> FALSE]]
    BY <1>2 DEF StoreSignUp
  <2>2. links' \in Nat /\ links <= links' /\ 0..links \subseteq 0..links' /\ links' \in 0..links'
        /\ 1..links \subseteq 1..links'
    BY <1>a, <2>1
  <2>3. pending' \in [Emails -> [link: 0..links', consumed: BOOLEAN, expired: BOOLEAN]]
    BY <1>a, <2>1, <2>2
  <2>4. used' \subseteq {"link"} \X (1..links') \cup {"code"} \X DOMAIN codes'
    BY <1>0, <1>a, <2>1, <2>2
  <2> QED BY <1>0, <1>a, <2>1, <2>2, <2>3, <2>4
<1>3. ASSUME NEW v \in Visits, NEW e \in Emails, OpenLink(v, e) PROVE Goal
  BY <1>3, <1>b DEF OpenLink
<1>4. ASSUME NEW v \in Visits, CheckParent(v) PROVE Goal
  BY <1>4, <1>b DEF CheckParent
<1>5. ASSUME NEW v \in Visits, SetPassword(v) PROVE Goal
  BY <1>5, <1>b DEF SetPassword
<1>6. ASSUME NEW v \in Visits, ConsumeLink(v) PROVE Goal
  <2>1. visit[v].email \in Emails /\ visit[v].key \in 1..links /\ visit[v].parent \in Ids \cup {0}
    BY <1>6 DEF ConsumeLink, At, VisitsRemember, Remembers, AuthSorts
  <2>2. visit[v].parent # 0
    BY <1>6 DEF ConsumeLink, At, VisitsRemember, Remembers
  <2>3. /\ UNCHANGED links /\ pending' = [pending EXCEPT ![visit[v].email].consumed = TRUE]
        /\ welcomed' = welcomed \cup {visit[v].parent}
        /\ used' = used \cup {<<"link", visit[v].key>>}
    BY <1>6 DEF ConsumeLink, Welcomes
  <2> QED BY <1>0, <1>b, <2>1, <2>2, <2>3
<1>7. ASSUME NEW e \in Emails, LogIn(e) PROVE Goal
  <2>1. Owner(e) \in Ids /\ welcomed' = welcomed \cup {Owner(e)} /\ used' = used
        /\ UNCHANGED <<pending, links>>
    BY <1>7, OwnerExists DEF LogIn, Welcomes
  <2> QED BY <1>0, <1>b, <2>1
<1>8. ASSUME NEW v \in Visits, NEW s \in Socials, NEW e \in Emails \cup {NoEmail}, FindAccount(v, s, e) PROVE Goal
  BY <1>8, <1>b DEF FindAccount
<1>9. ASSUME NEW v \in Visits, UpdateParent(v) PROVE Goal
  BY <1>9, <1>b DEF UpdateParent
<1>10. ASSUME NEW v \in Visits, FindByEmail(v) PROVE Goal
  BY <1>10, <1>b DEF FindByEmail
<1>11. ASSUME NEW v \in Visits, CreateParent(v) PROVE Goal
  BY <1>11, <1>b DEF CreateParent
<1>12. ASSUME NEW v \in Visits, Link(v) PROVE Goal
  BY <1>12, <1>b DEF Link
<1>13. ASSUME NEW v \in Visits, OpenSession(v) PROVE Goal
  BY <1>13, <1>b DEF OpenSession
<1>14. ASSUME NEW v \in Visits, NEW c \in DOMAIN codes, FindSession(v, c) PROVE Goal
  BY <1>14, <1>b DEF FindSession
<1>15. ASSUME NEW v \in Visits, ConsumeSession(v) PROVE Goal
  <2>1. visit[v].key \in DOMAIN codes /\ visit[v].parent \in Ids
    <3>1. visit[v].key \in DOMAIN codes /\ visit[v].parent = codes[visit[v].key].parent
      BY <1>15 DEF ConsumeSession, At, VisitsRemember, Remembers
    <3> QED BY <3>1 DEF AuthSorts
  <2>2. /\ UNCHANGED <<pending, links>>
        /\ \/ UNCHANGED <<welcomed, used>>
           \/ /\ welcomed' = welcomed \cup {visit[v].parent}
              /\ used' = used \cup {<<"code", visit[v].key>>}
    BY <1>15 DEF ConsumeSession, Welcomes
  <2> QED BY <1>0, <1>b, <2>1, <2>2
<1>16. ASSUME NEW v \in Visits, Abort(v) PROVE Goal
  BY <1>16, <1>b DEF Abort
<1>17. ASSUME NEW e \in Emails, LinkExpires(e) PROVE Goal
  <2>1. /\ UNCHANGED <<links, welcomed, used>>
        /\ pending' = [pending EXCEPT ![e].expired = TRUE]
    BY <1>17 DEF LinkExpires
  <2> QED BY <1>b, <2>1
<1>18. ASSUME NEW c \in DOMAIN codes, CodeExpires(c) PROVE Goal
  BY <1>18, <1>b DEF CodeExpires
<1>19. ASSUME NEW p \in Ids, RemoveParent(p) PROVE Goal
  BY <1>19, <1>b DEF RemoveParent
<1>20. CASE UNCHANGED authVars
  BY <1>20, <1>b DEF authVars
<1> QED
  BY <1>1, <1>2, <1>3, <1>4, <1>5, <1>6, <1>7, <1>8, <1>9, <1>10, <1>11, <1>12, <1>13,
     <1>14, <1>15, <1>16, <1>17, <1>18, <1>19, <1>20 DEF AuthNext, Serve

LEMMA SortsStep ==
  ASSUME AuthSorts, VisitsRemember, [AuthNext]_authVars
  PROVE  AuthSorts'
<1>1. \A c \in DOMAIN codes' : codes'[c].parent \in Ids'
  BY RowsStep, CodesStep DEF AuthSorts, RowsKept, CodesKept, Exists
<1>2. visit' \in [Visits -> [at: Stages, email: Emails \cup {NoEmail},
        social: Socials \cup {Nobody}, parent: Ids' \cup {0}, key: Nat]]
  BY VisitsStep DEF VisitRows
<1> QED
  BY <1>1, <1>2, RowsStep, CodesStep, LinkedStep, HistoryStep DEF AuthSorts, RowsKept, CodesKept

LEMMA RememberStep ==
  ASSUME AuthSorts, VisitsRemember, [AuthNext]_authVars
  PROVE  VisitsRemember'
<1>0. CodesKept /\ links \in Nat /\ links' \in Nat /\ links <= links'
  BY CodesStep, HistoryStep DEF AuthSorts
<1>a. ASSUME NEW w \in Visits, visit'[w] = visit[w] PROVE Remembers(w)'
  <2>1. Remembers(w) /\ 1..links \subseteq 1..links'
    BY <1>0 DEF VisitsRemember
  <2> QED BY <1>0, <1>a, <2>1 DEF Remembers, CodesKept
<1>b. ASSUME NEW v \in Visits, \A w \in Visits : w # v => visit'[w] = visit[w], Remembers(v)'
      PROVE  VisitsRemember'
  BY <1>a, <1>b DEF VisitsRemember
<1>c. ASSUME UNCHANGED visit PROVE VisitsRemember'
  BY <1>a, <1>c DEF VisitsRemember
<1>v. visit \in [Visits -> VisitRows]
  BY DEF AuthSorts, VisitRows
<1>d. ASSUME NEW v \in Visits, Leaves(v) PROVE VisitsRemember'
  <2>1. Remembers(v)'
    BY <1>d, <1>v DEF Leaves, Remembers, Away
  <2> QED BY <1>b, <1>d, <1>v, <2>1 DEF Leaves
<1>e. ASSUME NEW v \in Visits, NEW stage \in {"authenticated", "creating", "linking"},
             NEW p, Moves(v, stage) \/ Finds(v, stage, p),
             stage # "authenticated" => visit[v].at \in {"unknown", "creating"}
      PROVE  VisitsRemember'
  <2>0. Remembers(v)
    BY DEF VisitsRemember
  <2>1. Remembers(v)'
    BY <1>e, <1>v, <2>0, ZenonT(30) DEF Moves, Finds, Remembers, VisitRows
  <2> QED BY <1>b, <1>e, <1>v, <2>1 DEF Moves, Finds
<1>1. ASSUME NEW v \in Visits, NEW e \in Emails, SignUp(v, e) PROVE VisitsRemember'
  <2>1. Remembers(v)'
    BY <1>1, <1>v DEF SignUp, Remembers, Away, AuthSorts
  <2> QED BY <1>b, <1>1, <1>v, <2>1 DEF SignUp
<1>2. ASSUME NEW v \in Visits, StoreSignUp(v) PROVE VisitsRemember'
  BY <1>2, <1>d DEF StoreSignUp
<1>3. ASSUME NEW v \in Visits, NEW e \in Emails, OpenLink(v, e) PROVE VisitsRemember'
  <2>0. pending[e].link \in 1..links /\ UNCHANGED links
    BY <1>0, <1>3 DEF OpenLink, AuthSorts
  <2>1. Remembers(v)'
    BY <1>3, <1>v, <2>0 DEF OpenLink, Remembers, Away, AuthSorts
  <2> QED BY <1>b, <1>3, <1>v, <2>1 DEF OpenLink
<1>4. ASSUME NEW v \in Visits, CheckParent(v) PROVE VisitsRemember'
  <2>1. CASE Leaves(v)
    BY <1>d, <2>1
  <2>2. CASE Finds(v, "checked", Owner(visit[v].email))
    <3>1. Remembers(v) /\ visit[v].at = "found" /\ UNCHANGED links
      BY <1>4 DEF CheckParent, At, VisitsRemember
    <3>2. Remembers(v)'
      BY <1>v, <2>2, <3>1 DEF Finds, Remembers, VisitRows
    <3> QED BY <1>b, <1>v, <2>2, <3>2 DEF Finds
  <2> QED BY <1>4, <2>1, <2>2 DEF CheckParent
<1>5. ASSUME NEW v \in Visits, SetPassword(v) PROVE VisitsRemember'
  <2>1. CASE visit' = [visit EXCEPT ![v] = Away]
    BY <1>d, <2>1 DEF Leaves
  <2>2. CASE \E p \in Ids' : visit' = [visit EXCEPT ![v].at = "written", ![v].parent = p]
    <3>1. Remembers(v) /\ visit[v].at = "checked" /\ UNCHANGED links
      BY <1>5 DEF SetPassword, At, VisitsRemember
    <3>2. PICK p \in Ids' : visit' = [visit EXCEPT ![v].at = "written", ![v].parent = p]
      BY <2>2
    <3>3. p # 0
      BY RowsStep DEF RowsKept, Ids
    <3>4. Remembers(v)'
      BY <1>v, <3>1, <3>2, <3>3 DEF Remembers, VisitRows
    <3> QED BY <1>b, <1>v, <3>2, <3>4
  <2> QED BY <1>5, <2>1, <2>2, SetPasswordRows
<1>6. ASSUME NEW v \in Visits, ConsumeLink(v) PROVE VisitsRemember'
  BY <1>6, <1>d DEF ConsumeLink
<1>7. ASSUME NEW e \in Emails, LogIn(e) PROVE VisitsRemember'
  BY <1>7, <1>c DEF LogIn
<1>8. ASSUME NEW v \in Visits, NEW s \in Socials, NEW e \in Emails \cup {NoEmail}, FindAccount(v, s, e) PROVE VisitsRemember'
  <2>1. /\ visit'[v].at \in {"known", "unknown"} /\ visit'[v].social = s
        /\ \A w \in Visits : w # v => visit'[w] = visit[w]
    BY <1>8, <1>v DEF FindAccount, Away
  <2>2. Remembers(v)'
    BY <2>1 DEF Remembers
  <2> QED BY <1>b, <2>1, <2>2
<1>9. ASSUME NEW v \in Visits, UpdateParent(v) PROVE VisitsRemember'
  BY <1>9, <1>d, <1>e DEF UpdateParent
<1>10. ASSUME NEW v \in Visits, FindByEmail(v) PROVE VisitsRemember'
  BY <1>10, <1>e DEF FindByEmail, At
<1>11. ASSUME NEW v \in Visits, CreateParent(v) PROVE VisitsRemember'
  <2>1. Leaves(v) \/ Finds(v, "linking", Len(parents) + 1)
    BY <1>11 DEF CreateParent, Create
  <2>2. visit[v].at = "creating"
    BY <1>11 DEF CreateParent, At
  <2> QED BY <1>d, <1>e, <2>1, <2>2
<1>12. ASSUME NEW v \in Visits, Link(v) PROVE VisitsRemember'
  BY <1>12, <1>d, <1>e DEF Link
<1>13. ASSUME NEW v \in Visits, OpenSession(v) PROVE VisitsRemember'
  BY <1>13, <1>d DEF OpenSession
<1>14. ASSUME NEW v \in Visits, NEW c \in DOMAIN codes, FindSession(v, c) PROVE VisitsRemember'
  <2>0. codes' = codes
    BY <1>14 DEF FindSession
  <2>1. Remembers(v)'
    BY <1>14, <1>v, <2>0 DEF FindSession, Remembers, Away
  <2> QED BY <1>b, <1>14, <1>v, <2>1 DEF FindSession
<1>15. ASSUME NEW v \in Visits, ConsumeSession(v) PROVE VisitsRemember'
  BY <1>15, <1>d DEF ConsumeSession
<1>16. ASSUME NEW v \in Visits, Abort(v) PROVE VisitsRemember'
  BY <1>16, <1>d DEF Abort
<1>17. ASSUME NEW e \in Emails, LinkExpires(e) PROVE VisitsRemember'
  BY <1>17, <1>c DEF LinkExpires
<1>18. ASSUME NEW c \in DOMAIN codes, CodeExpires(c) PROVE VisitsRemember'
  BY <1>18, <1>c DEF CodeExpires
<1>19. ASSUME NEW p \in Ids, RemoveParent(p) PROVE VisitsRemember'
  BY <1>19, <1>c DEF RemoveParent
<1>20. CASE UNCHANGED authVars
  BY <1>20, <1>c DEF authVars
<1> QED
  BY <1>1, <1>2, <1>3, <1>4, <1>5, <1>6, <1>7, <1>8, <1>9, <1>10, <1>11, <1>12, <1>13,
     <1>14, <1>15, <1>16, <1>17, <1>18, <1>19, <1>20 DEF AuthNext, Serve

\* The link of every address stays its own, and what was used stays spent.
LEMMA LinksStep ==
  ASSUME AuthSorts, VisitsRemember, LinksHaveOneAddress, UsedMeansSpent, [AuthNext]_authVars
  PROVE  LinksHaveOneAddress' /\ UsedMeansSpent'
<1> DEFINE Goal == LinksHaveOneAddress' /\ UsedMeansSpent'
           SameLinks == \A e \in Emails : pending'[e].link = pending[e].link
           StaySpent == \A e \in Emails : pending[e].consumed => pending'[e].consumed
<1>0. /\ CodesKept /\ links \in Nat
      /\ visit \in [Visits -> VisitRows]
      /\ pending \in [Emails -> [link: 0..links, consumed: BOOLEAN, expired: BOOLEAN]]
  BY CodesStep DEF AuthSorts, VisitRows
<1>u. /\ \A x : <<"code", x>> \in used => x \in DOMAIN codes
      /\ \A x : <<"link", x>> \in used => x \in 1..links
  BY DEF AuthSorts
<1>s. \A c \in DOMAIN codes' : <<"code", c>> \in used => codes'[c].consumed
  BY <1>0, <1>u DEF UsedMeansSpent, CodesKept
<1>a. ASSUME SameLinks, NEW w \in Visits, visit'[w] = visit[w] PROVE LinkIsOf(w)'
  <2>1. LinkIsOf(w)
    BY DEF LinksHaveOneAddress
  <2> QED BY <1>a, <2>1 DEF LinkIsOf
<1>b. ASSUME SameLinks, NEW v \in Visits, \A w \in Visits : w # v => visit'[w] = visit[w],
             LinkIsOf(v)'
      PROVE  LinksHaveOneAddress'
  BY <1>a, <1>b DEF LinksHaveOneAddress
<1>c. ASSUME SameLinks, UNCHANGED visit PROVE LinksHaveOneAddress'
  BY <1>a, <1>c DEF LinksHaveOneAddress
<1>d. ASSUME SameLinks, StaySpent, used' = used PROVE UsedMeansSpent'
  <2>1. \A e \in Emails : <<"link", pending'[e].link>> \in used' => pending'[e].consumed
    BY <1>d, Zenon DEF UsedMeansSpent
  <2>2. \A c \in DOMAIN codes' : <<"code", c>> \in used' => codes'[c].consumed
    BY <1>d, <1>s, Zenon
  <2> QED BY <2>1, <2>2, Zenon DEF UsedMeansSpent
<1>e. ASSUME SameLinks, StaySpent, used' = used, NEW v \in Visits, NEW row,
             visit' = [visit EXCEPT ![v] = row],
             row.at \notin {"found", "checked", "written"}
      PROVE  Goal
  <2>1. LinkIsOf(v)'
    BY <1>0, <1>e DEF LinkIsOf
  <2> QED BY <1>0, <1>b, <1>d, <1>e, <2>1
<1>f. ASSUME UNCHANGED pending PROVE SameLinks /\ StaySpent
  BY <1>f
<1>w. Away.at = "away"
  BY DEF Away
<1>1. ASSUME NEW v \in Visits, NEW e \in Emails, SignUp(v, e) PROVE Goal
  <2> DEFINE row == [Away EXCEPT !.at = "signing up", !.email = e]
  <2>1. row.at = "signing up"
    BY DEF Away
  <2>2. visit' = [visit EXCEPT ![v] = row]
    BY <1>1 DEF SignUp
  <2> HIDE DEF row
  <2> QED BY <1>1, <1>e, <1>f, <2>1, <2>2 DEF SignUp
<1>2. ASSUME NEW v \in Visits, StoreSignUp(v) PROVE Goal
  <2> DEFINE own == visit[v].email
  <2>1. /\ links' = links + 1 /\ UNCHANGED used
        /\ pending' = [pending EXCEPT ![own] = [link |-> links', consumed |-> FALSE, expired |-> FALSE]]
        /\ visit' = [visit EXCEPT ![v] = Away]
    BY <1>2 DEF StoreSignUp, Leaves
  <2>2. \A e \in Emails : /\ pending[e].link # links'
                          /\ e # own => pending'[e] = pending[e]
                          /\ e = own => pending'[e].link = links'
    BY <1>0, <2>1
  <2>3. links' \notin 1..links /\ links' # 0
    BY <1>0, <2>1
  <2>4. \A e, f \in Emails : pending'[e].link = pending'[f].link /\ pending'[e].link # 0 => e = f
    BY <2>2 DEF LinksHaveOneAddress
  <2>5. ASSUME NEW w \in Visits PROVE LinkIsOf(w)'
    <3>1. CASE w = v
      BY <1>0, <1>w, <2>1, <3>1 DEF LinkIsOf
    <3>2. CASE w # v
      <4>1. visit'[w] = visit[w] /\ LinkIsOf(w)
        BY <1>0, <2>1, <3>2 DEF LinksHaveOneAddress
      <4>2. visit[w].at \in {"found", "checked", "written"} => visit[w].key \in 1..links
        BY DEF VisitsRemember, Remembers
      <4> QED BY <2>2, <2>3, <4>1, <4>2 DEF LinkIsOf
    <3> QED BY <3>1, <3>2
  <2>6. \A e \in Emails : <<"link", pending'[e].link>> \in used' => pending'[e].consumed
    BY <1>u, <2>1, <2>2, <2>3 DEF UsedMeansSpent
  <2> QED BY <1>s, <2>1, <2>4, <2>5, <2>6 DEF LinksHaveOneAddress, UsedMeansSpent
<1>3. ASSUME NEW v \in Visits, NEW e \in Emails, OpenLink(v, e) PROVE Goal
  <2>1. /\ \A w \in Visits : w # v => visit'[w] = visit[w]
        /\ visit'[v].email = e /\ visit'[v].key = pending[e].link
        /\ pending[e].link # 0 /\ UNCHANGED <<pending, used>>
    BY <1>0, <1>3 DEF OpenLink, Away
  <2>2. LinkIsOf(v)'
    BY <2>1 DEF LinkIsOf, LinksHaveOneAddress
  <2> QED BY <1>b, <1>d, <1>f, <2>1, <2>2
<1>4. ASSUME NEW v \in Visits, CheckParent(v) PROVE Goal
  <2>1. CASE Leaves(v)
    BY <1>4, <1>e, <1>f, <1>w, <2>1 DEF CheckParent, Leaves
  <2>2. CASE Finds(v, "checked", Owner(visit[v].email))
    <3>1. LinkIsOf(v) /\ visit[v].at = "found" /\ UNCHANGED <<pending, used>>
      BY <1>4 DEF CheckParent, At, LinksHaveOneAddress
    <3>2. LinkIsOf(v)'
      BY <1>0, <2>2, <3>1 DEF Finds, LinkIsOf, VisitRows
    <3> QED BY <1>0, <1>b, <1>d, <1>f, <2>2, <3>1, <3>2 DEF Finds
  <2> QED BY <1>4, <2>1, <2>2 DEF CheckParent
<1>5. ASSUME NEW v \in Visits, SetPassword(v) PROVE Goal
  <2>0. LinkIsOf(v) /\ visit[v].at = "checked" /\ UNCHANGED <<pending, used>>
    BY <1>5 DEF SetPassword, At, LinksHaveOneAddress
  <2>1. CASE visit' = [visit EXCEPT ![v] = Away]
    BY <1>e, <1>f, <1>w, <2>0, <2>1
  <2>2. CASE \E p \in Ids' : visit' = [visit EXCEPT ![v].at = "written", ![v].parent = p]
    <3>1. PICK p \in Ids' : visit' = [visit EXCEPT ![v].at = "written", ![v].parent = p]
      BY <2>2
    <3>2. LinkIsOf(v)'
      BY <1>0, <2>0, <3>1 DEF LinkIsOf, VisitRows
    <3> QED BY <1>0, <1>b, <1>d, <1>f, <2>0, <3>1, <3>2
  <2> QED BY <1>5, <2>1, <2>2, SetPasswordRows
<1>6. ASSUME NEW v \in Visits, ConsumeLink(v) PROVE Goal
  <2> DEFINE own == visit[v].email
             k == visit[v].key
  <2>1. /\ pending' = [pending EXCEPT ![own].consumed = TRUE]
        /\ used' = used \cup {<<"link", k>>}
        /\ visit' = [visit EXCEPT ![v] = Away]
        /\ visit[v].at = "written"
    BY <1>6 DEF ConsumeLink, Welcomes, Leaves, At
  <2>2. own \in Emails /\ LinkIsOf(v)
    BY <2>1 DEF VisitsRemember, Remembers, LinksHaveOneAddress
  <2>3. SameLinks /\ StaySpent
    BY <1>0, <2>1
  <2>4. LinkIsOf(v)'
    BY <1>0, <1>w, <2>1 DEF LinkIsOf
  <2>5. LinksHaveOneAddress'
    BY <1>0, <1>b, <2>1, <2>3, <2>4
  <2>6. ASSUME NEW e \in Emails, <<"link", pending'[e].link>> \in used' PROVE pending'[e].consumed
    <3>1. CASE e = own
      BY <1>0, <2>1, <2>2, <3>1
    <3>2. CASE e # own
      <4>1. pending'[e].link = pending[e].link /\ pending[e].link # k
        BY <2>1, <2>2, <2>3, <3>2 DEF LinkIsOf
      <4>2. <<"link", pending[e].link>> \in used
        BY <2>1, <2>6, <4>1
      <4> QED BY <2>3, <4>2, Zenon DEF UsedMeansSpent
    <3> QED BY <3>1, <3>2
  <2>7. \A c \in DOMAIN codes' : <<"code", c>> \in used' => codes'[c].consumed
    BY <1>s, <2>1
  <2> QED BY <2>5, <2>6, <2>7 DEF UsedMeansSpent
<1>7. ASSUME NEW e \in Emails, LogIn(e) PROVE Goal
  <2>1. UNCHANGED <<pending, visit>> /\ used' = used
    BY <1>7 DEF LogIn, Welcomes
  <2> QED BY <1>c, <1>d, <1>f, <2>1
<1>8. ASSUME NEW v \in Visits, NEW s \in Socials, NEW e \in Emails \cup {NoEmail}, FindAccount(v, s, e) PROVE Goal
  <2> DEFINE row == IF linked[s] # Nobody
                    THEN [Away EXCEPT !.at = "known", !.social = s, !.parent = linked[s],
                            !.email = IF e = NoEmail THEN parents[linked[s]].email ELSE e]
                    ELSE [Away EXCEPT !.at = "unknown", !.social = s, !.email = e]
  <2>1. row.at \in {"known", "unknown"}
    BY DEF Away
  <2>2. visit' = [visit EXCEPT ![v] = row]
    BY <1>8 DEF FindAccount
  <2> HIDE DEF row
  <2> QED BY <1>8, <1>e, <1>f, <2>1, <2>2 DEF FindAccount
<1>9. ASSUME NEW v \in Visits, UpdateParent(v) PROVE Goal
  <2>1. Leaves(v) \/ Moves(v, "authenticated")
    BY <1>9 DEF UpdateParent
  <2>2. Leaves(v) \/ visit' = [visit EXCEPT ![v] = [visit[v] EXCEPT !.at = "authenticated"]]
    BY <2>1 DEF Moves
  <2>3. [visit[v] EXCEPT !.at = "authenticated"].at = "authenticated"
    BY <1>0 DEF VisitRows
  <2> QED BY <1>9, <1>e, <1>f, <1>w, <2>2, <2>3 DEF UpdateParent, Leaves
<1>10. ASSUME NEW v \in Visits, FindByEmail(v) PROVE Goal
  <2> DEFINE p == Owner(visit[v].email)
             row == [visit[v] EXCEPT !.at = IF p = 0 THEN "creating" ELSE "linking", !.parent = p]
  <2>1. row.at \in {"creating", "linking"}
    BY <1>0 DEF VisitRows
  <2>2. visit' = [visit EXCEPT ![v] = row]
    BY <1>10 DEF FindByEmail, Finds
  <2> HIDE DEF row
  <2> QED BY <1>10, <1>e, <1>f, <2>1, <2>2 DEF FindByEmail
<1>11. ASSUME NEW v \in Visits, CreateParent(v) PROVE Goal
  <2> DEFINE row == [visit[v] EXCEPT !.at = "linking", !.parent = Len(parents) + 1]
  <2>1. row.at = "linking"
    BY <1>0 DEF VisitRows
  <2>2. Leaves(v) \/ visit' = [visit EXCEPT ![v] = row]
    BY <1>11 DEF CreateParent, Create, Finds
  <2> HIDE DEF row
  <2> QED BY <1>11, <1>e, <1>f, <1>w, <2>1, <2>2 DEF CreateParent, Leaves
<1>12. ASSUME NEW v \in Visits, Link(v) PROVE Goal
  <2>1. Leaves(v) \/ Moves(v, "authenticated")
    BY <1>12 DEF Link
  <2>2. Leaves(v) \/ visit' = [visit EXCEPT ![v] = [visit[v] EXCEPT !.at = "authenticated"]]
    BY <2>1 DEF Moves
  <2>3. [visit[v] EXCEPT !.at = "authenticated"].at = "authenticated"
    BY <1>0 DEF VisitRows
  <2> QED BY <1>12, <1>e, <1>f, <1>w, <2>2, <2>3 DEF Link, Leaves
<1>13. ASSUME NEW v \in Visits, OpenSession(v) PROVE Goal
  BY <1>13, <1>e, <1>f, <1>w DEF OpenSession, Leaves
<1>14. ASSUME NEW v \in Visits, NEW c \in DOMAIN codes, FindSession(v, c) PROVE Goal
  <2> DEFINE row == [Away EXCEPT !.at = "exchanging", !.parent = codes[c].parent, !.key = c]
  <2>1. row.at = "exchanging"
    BY DEF Away
  <2>2. visit' = [visit EXCEPT ![v] = row]
    BY <1>14 DEF FindSession
  <2> HIDE DEF row
  <2> QED BY <1>14, <1>e, <1>f, <2>1, <2>2 DEF FindSession
<1>15. ASSUME NEW v \in Visits, ConsumeSession(v) PROVE Goal
  <2> DEFINE c == visit[v].key
  <2>0. c \in DOMAIN codes /\ codes \in Seq(CodeRows)
    BY <1>15 DEF ConsumeSession, At, VisitsRemember, Remembers, AuthSorts
  <2>1. UNCHANGED pending /\ visit' = [visit EXCEPT ![v] = Away]
    BY <1>15 DEF ConsumeSession, Leaves
  <2>2. \/ used' = used
        \/ used' = used \cup {<<"code", c>>} /\ codes' = [codes EXCEPT ![c].consumed = TRUE]
    BY <1>15 DEF ConsumeSession, Welcomes
  <2>3. CASE used' = used
    BY <1>e, <1>f, <1>w, <2>1, <2>3
  <2>4. CASE used' = used \cup {<<"code", c>>} /\ codes' = [codes EXCEPT ![c].consumed = TRUE]
    <3>1. codes'[c].consumed
      <4>1. codes[c] \in CodeRows
        BY <2>0
      <4>2. codes'[c] = [codes[c] EXCEPT !.consumed = TRUE]
        BY <2>0, <2>4
      <4> QED BY <4>1, <4>2 DEF CodeRows
    <3>2. UsedMeansSpent'
      BY <1>s, <2>1, <2>4, <3>1 DEF UsedMeansSpent
    <3>3. LinkIsOf(v)'
      BY <1>0, <1>w, <2>1 DEF LinkIsOf
    <3> QED BY <1>0, <1>b, <1>f, <2>1, <3>2, <3>3
  <2> QED BY <2>2, <2>3, <2>4
<1>16. ASSUME NEW v \in Visits, Abort(v) PROVE Goal
  BY <1>16, <1>e, <1>f, <1>w DEF Abort, Leaves
<1>17. ASSUME NEW e \in Emails, LinkExpires(e) PROVE Goal
  <2>1. pending' = [pending EXCEPT ![e].expired = TRUE] /\ UNCHANGED <<visit, used>>
    BY <1>17 DEF LinkExpires
  <2>2. SameLinks /\ StaySpent
    BY <1>0, <2>1
  <2> QED BY <1>c, <1>d, <2>1, <2>2
<1>18. ASSUME NEW c \in DOMAIN codes, CodeExpires(c) PROVE Goal
  BY <1>18, <1>c, <1>d, <1>f DEF CodeExpires
<1>19. ASSUME NEW p \in Ids, RemoveParent(p) PROVE Goal
  BY <1>19, <1>c, <1>d, <1>f DEF RemoveParent
<1>20. CASE UNCHANGED authVars
  BY <1>20, <1>c, <1>d, <1>f DEF authVars
<1> QED
  BY <1>1, <1>2, <1>3, <1>4, <1>5, <1>6, <1>7, <1>8, <1>9, <1>10, <1>11, <1>12, <1>13,
     <1>14, <1>15, <1>16, <1>17, <1>18, <1>19, <1>20 DEF AuthNext, Serve

\* Nobody is let in who could not come back, and a way back stays as long as
\* its parent does.
LEMMA BackStep ==
  ASSUME AuthSorts, VisitsRemember, EntrantsCanComeBack, WelcomedCanComeBack, [AuthNext]_authVars
  PROVE  EntrantsCanComeBack' /\ WelcomedCanComeBack'
<1> DEFINE Goal == EntrantsCanComeBack' /\ WelcomedCanComeBack'
<1>0. /\ RowsKept /\ CodesKept
      /\ visit \in [Visits -> VisitRows]
      /\ welcomed \subseteq Ids /\ \A c \in DOMAIN codes : codes[c].parent \in Ids
  BY RowsStep, CodesStep DEF AuthSorts, VisitRows
<1>w. Away.at = "away"
  BY DEF Away
<1>a. ASSUME NEW p \in Ids, WayBack(p) PROVE WayBack(p)'
  BY <1>0, <1>a DEF WayBack, RowsKept
<1>z. WayBack(0) /\ WayBack(0)'
  <2>1. 0 \notin Ids /\ 0 \notin Ids'
    BY <1>0 DEF AuthSorts, RowsKept, Ids
  <2> QED BY <2>1 DEF WayBack, Exists
<1>c. ASSUME NEW c \in DOMAIN codes' PROVE \E p \in Ids : p = codes'[c].parent /\ WayBack(p)'
  <2>1. CASE c \in DOMAIN codes
    BY <1>0, <1>a, <2>1 DEF CodesKept, EntrantsCanComeBack
  <2>2. CASE c \notin DOMAIN codes
    <3>1. PICK v \in Visits : At(v, "authenticated") /\ codes'[c].parent = visit[v].parent
                              /\ visit[v].parent \in Ids
      BY <1>0, <2>2 DEF CodesKept, Exists
    <3>2. WayBack(visit[v].parent)
      BY <3>1 DEF EntrantsCanComeBack, EntersBack, At
    <3> QED BY <1>a, <3>1, <3>2
  <2> QED BY <2>1, <2>2
<1>d. ASSUME NEW w \in Visits, visit'[w] = visit[w] PROVE EntersBack(w)'
  <2>1. visit[w].parent \in Ids \cup {0} /\ EntersBack(w)
    BY <1>0 DEF VisitRows, EntrantsCanComeBack
  <2>2. ASSUME NEW p \in Ids \cup {0}, WayBack(p) PROVE WayBack(p)'
    BY <1>a, <1>z, <2>2
  <2> QED BY <1>d, <2>1, <2>2 DEF EntersBack, WayBack
<1>e. ASSUME \A w \in Visits : EntersBack(w)' PROVE EntrantsCanComeBack'
  BY <1>c, <1>e DEF EntrantsCanComeBack, WayBack
<1>f. ASSUME NEW v \in Visits, \A w \in Visits : w # v => visit'[w] = visit[w], EntersBack(v)'
      PROVE  EntrantsCanComeBack'
  BY <1>d, <1>e, <1>f
<1>g. ASSUME UNCHANGED visit PROVE EntrantsCanComeBack'
  BY <1>d, <1>e, <1>g
<1>h. ASSUME \A p \in welcomed' \ welcomed : p \in Ids /\ WayBack(p) PROVE WelcomedCanComeBack'
  <2>1. \A p \in welcomed : WayBack(p)
    BY DEF WelcomedCanComeBack, WayBack
  <2>2. \A p \in welcomed' : WayBack(p)'
    BY <1>0, <1>a, <1>h, <2>1
  <2> QED BY <2>2 DEF WelcomedCanComeBack, WayBack
<1>i. ASSUME NEW v \in Visits, NEW row, visit' = [visit EXCEPT ![v] = row],
             row.at \notin {"known", "authenticated", "exchanging", "written"}
      PROVE  EntrantsCanComeBack'
  <2>1. EntersBack(v)'
    BY <1>0, <1>i DEF EntersBack
  <2> QED BY <1>0, <1>f, <1>i, <2>1
<1>l. ASSUME NEW v \in Visits, Leaves(v) PROVE EntrantsCanComeBack'
  BY <1>i, <1>l, <1>w DEF Leaves
<1>1. ASSUME NEW v \in Visits, NEW e \in Emails, SignUp(v, e) PROVE Goal
  <2> DEFINE row == [Away EXCEPT !.at = "signing up", !.email = e]
  <2>1. row.at = "signing up"
    BY DEF Away
  <2>2. visit' = [visit EXCEPT ![v] = row] /\ UNCHANGED welcomed
    BY <1>1 DEF SignUp
  <2> HIDE DEF row
  <2> QED BY <1>h, <1>i, <2>1, <2>2
<1>2. ASSUME NEW v \in Visits, StoreSignUp(v) PROVE Goal
  BY <1>2, <1>l, <1>h DEF StoreSignUp
<1>3. ASSUME NEW v \in Visits, NEW e \in Emails, OpenLink(v, e) PROVE Goal
  <2> DEFINE row == [Away EXCEPT !.at = "found", !.email = e, !.key = pending[e].link]
  <2>1. row.at = "found"
    BY DEF Away
  <2>2. visit' = [visit EXCEPT ![v] = row] /\ UNCHANGED welcomed
    BY <1>3 DEF OpenLink
  <2> HIDE DEF row
  <2> QED BY <1>h, <1>i, <2>1, <2>2
<1>4. ASSUME NEW v \in Visits, CheckParent(v) PROVE Goal
  <2> DEFINE row == [visit[v] EXCEPT !.at = "checked", !.parent = Owner(visit[v].email)]
  <2>1. row.at = "checked"
    BY <1>0 DEF VisitRows
  <2>2. (Leaves(v) \/ visit' = [visit EXCEPT ![v] = row]) /\ UNCHANGED welcomed
    BY <1>4 DEF CheckParent, Finds
  <2> HIDE DEF row
  <2> QED BY <1>h, <1>i, <1>l, <2>1, <2>2
<1>5. ASSUME NEW v \in Visits, SetPassword(v) PROVE Goal
  <2>0. UNCHANGED welcomed
    BY <1>5 DEF SetPassword
  <2>1. CASE visit' = [visit EXCEPT ![v] = Away]
    BY <1>h, <1>i, <1>w, <2>0, <2>1
  <2>2. CASE \E p \in Ids' :
               /\ visit' = [visit EXCEPT ![v].at = "written", ![v].parent = p]
               /\ parents'[p] # Gone /\ parents'[p].password # 0
    <3>1. PICK p \in Ids' : /\ visit' = [visit EXCEPT ![v].at = "written", ![v].parent = p]
                            /\ parents'[p].password # 0
      BY <2>2
    <3>2. EntersBack(v)'
      BY <1>0, <3>1 DEF EntersBack, WayBack, VisitRows
    <3> QED BY <1>0, <1>f, <1>h, <2>0, <3>1, <3>2
  <2> QED BY <1>5, <2>1, <2>2, SetPasswordRows
<1>6. ASSUME NEW v \in Visits, ConsumeLink(v) PROVE Goal
  <2>1. EntersBack(v) /\ Remembers(v) /\ visit[v].at = "written" /\ visit[v].parent \in Ids \cup {0}
    BY <1>0, <1>6 DEF ConsumeLink, At, EntrantsCanComeBack, VisitsRemember, VisitRows
  <2>2. WayBack(visit[v].parent) /\ visit[v].parent \in Ids
    BY <2>1 DEF EntersBack, Remembers
  <2>3. welcomed' = welcomed \cup {visit[v].parent} /\ Leaves(v)
    BY <1>6 DEF ConsumeLink, Welcomes
  <2> QED BY <1>h, <1>l, <2>2, <2>3
<1>7. ASSUME NEW e \in Emails, LogIn(e) PROVE Goal
  <2>1. /\ Owner(e) \in Ids /\ parents[Owner(e)].password # 0
        /\ welcomed' = welcomed \cup {Owner(e)} /\ UNCHANGED visit
    BY <1>7, OwnerExists DEF LogIn, Welcomes
  <2> QED BY <1>g, <1>h, <2>1 DEF WayBack
<1>8. ASSUME NEW v \in Visits, NEW s \in Socials, NEW e \in Emails \cup {NoEmail}, FindAccount(v, s, e) PROVE Goal
  <2> DEFINE p == linked[s]
  <2>0. UNCHANGED <<welcomed, linked, parents>>
    BY <1>8 DEF FindAccount
  <2>1. CASE p # Nobody
    <3>1. /\ visit'[v].parent = p
          /\ \A w \in Visits : w # v => visit'[w] = visit[w]
      BY <1>0, <1>8, <2>1 DEF FindAccount, Away
    <3>2. EntersBack(v)'
      BY <2>0, <3>1 DEF EntersBack, WayBack
    <3> QED BY <1>f, <1>h, <2>0, <3>1, <3>2
  <2>2. CASE p = Nobody
    <3> DEFINE row == [Away EXCEPT !.at = "unknown", !.social = s, !.email = e]
    <3>1. row.at = "unknown"
      BY DEF Away
    <3>2. visit' = [visit EXCEPT ![v] = row]
      BY <1>8, <2>2 DEF FindAccount
    <3> HIDE DEF row
    <3> QED BY <1>h, <1>i, <2>0, <3>1, <3>2
  <2> QED BY <2>1, <2>2
<1>9. ASSUME NEW v \in Visits, UpdateParent(v) PROVE Goal
  <2>0. UNCHANGED welcomed
    BY <1>9 DEF UpdateParent
  <2>1. CASE Leaves(v)
    BY <1>h, <1>l, <2>0, <2>1
  <2>2. CASE Moves(v, "authenticated") /\ ~Leaves(v)
    <3>1. /\ \A w \in Visits : w # v => visit'[w] = visit[w]
          /\ visit'[v].parent = visit[v].parent
      BY <1>0, <2>2 DEF Moves, VisitRows
    <3> DEFINE p == visit[v].parent
    <3>2. visit[v].at = "known" /\ Exists(p)
      BY <1>9, <2>2 DEF UpdateParent, At
    <3>3. WayBack(p)'
      <4>1. p \in Ids /\ WayBack(p)
        BY <3>2 DEF EntrantsCanComeBack, EntersBack, Exists
      <4>2. \A q : q = p => WayBack(q)'
        BY <1>a, <4>1
      <4> QED BY <3>1, <4>2
    <3>4. EntersBack(v)'
      BY <3>1, <3>3 DEF EntersBack, WayBack
    <3> QED BY <1>f, <1>h, <2>0, <3>1, <3>4
  <2> QED BY <1>9, <2>1, <2>2 DEF UpdateParent
<1>10. ASSUME NEW v \in Visits, FindByEmail(v) PROVE Goal
  <2> DEFINE p == Owner(visit[v].email)
             row == [visit[v] EXCEPT !.at = IF p = 0 THEN "creating" ELSE "linking", !.parent = p]
  <2>1. row.at \in {"creating", "linking"}
    BY <1>0 DEF VisitRows
  <2>2. visit' = [visit EXCEPT ![v] = row] /\ UNCHANGED welcomed
    BY <1>10 DEF FindByEmail, Finds
  <2> HIDE DEF row
  <2> QED BY <1>h, <1>i, <2>1, <2>2
<1>11. ASSUME NEW v \in Visits, CreateParent(v) PROVE Goal
  <2> DEFINE row == [visit[v] EXCEPT !.at = "linking", !.parent = Len(parents) + 1]
  <2>1. row.at = "linking"
    BY <1>0 DEF VisitRows
  <2>2. (Leaves(v) \/ visit' = [visit EXCEPT ![v] = row]) /\ UNCHANGED welcomed
    BY <1>11 DEF CreateParent, Create, Finds
  <2> HIDE DEF row
  <2> QED BY <1>h, <1>i, <1>l, <2>1, <2>2
<1>12. ASSUME NEW v \in Visits, Link(v) PROVE Goal
  <2>0. UNCHANGED welcomed
    BY <1>12 DEF Link
  <2>1. CASE Leaves(v)
    BY <1>h, <1>l, <2>0, <2>1
  <2>2. CASE Moves(v, "authenticated") /\ ~Leaves(v)
    <3>1. /\ \A w \in Visits : w # v => visit'[w] = visit[w]
          /\ visit'[v].parent = visit[v].parent
      BY <1>0, <2>2 DEF Moves, VisitRows
    <3> DEFINE p == visit[v].parent
    <3>2. visit[v].social \in Socials /\ linked \in [Socials -> Ids \cup {Nobody}]
      BY <1>12 DEF Link, At, VisitsRemember, Remembers, AuthSorts, LinkedSorts
    <3>3. WayBack(p)'
      <4>1. linked' = [linked EXCEPT ![visit[v].social] = p] /\ UNCHANGED parents
        BY <1>12, <2>2 DEF Link
      <4>2. linked'[visit[v].social] = p
        BY <3>2, <4>1
      <4>3. \A q : q = p => WayBack(q)'
        BY <3>2, <4>2 DEF WayBack
      <4> QED BY <3>1, <4>3
    <3>4. EntersBack(v)'
      BY <3>1, <3>3 DEF EntersBack, WayBack
    <3> QED BY <1>f, <1>h, <2>0, <3>1, <3>4
  <2> QED BY <1>12, <2>1, <2>2 DEF Link
<1>13. ASSUME NEW v \in Visits, OpenSession(v) PROVE Goal
  BY <1>13, <1>l, <1>h DEF OpenSession
<1>14. ASSUME NEW v \in Visits, NEW c \in DOMAIN codes, FindSession(v, c) PROVE Goal
  <2>1. /\ visit'[v].parent = codes[c].parent /\ codes[c].parent \in Ids
        /\ \A w \in Visits : w # v => visit'[w] = visit[w]
        /\ UNCHANGED welcomed
    BY <1>0, <1>14 DEF FindSession, Away
  <2>2. \A p : p = codes[c].parent => WayBack(p)'
    BY <1>a, <2>1 DEF EntrantsCanComeBack
  <2>3. EntersBack(v)'
    BY <2>1, <2>2 DEF EntersBack, WayBack
  <2> QED BY <1>f, <1>h, <2>1, <2>3
<1>15. ASSUME NEW v \in Visits, ConsumeSession(v) PROVE Goal
  <2>1. visit[v].at = "exchanging" /\ visit[v].parent \in Ids
    <3>1. visit[v].at = "exchanging" /\ visit[v].key \in DOMAIN codes
          /\ visit[v].parent = codes[visit[v].key].parent
      BY <1>15 DEF ConsumeSession, At, VisitsRemember, Remembers
    <3> QED BY <1>0, <3>1
  <2>2. WayBack(visit[v].parent)
    BY <2>1 DEF EntrantsCanComeBack, EntersBack
  <2>3. Leaves(v) /\ (UNCHANGED welcomed \/ welcomed' = welcomed \cup {visit[v].parent})
    BY <1>15 DEF ConsumeSession, Welcomes
  <2> QED BY <1>h, <1>l, <2>1, <2>2, <2>3
<1>16. ASSUME NEW v \in Visits, Abort(v) PROVE Goal
  BY <1>16, <1>l, <1>h DEF Abort
<1>17. ASSUME NEW e \in Emails, LinkExpires(e) PROVE Goal
  BY <1>17, <1>g, <1>h DEF LinkExpires
<1>18. ASSUME NEW c \in DOMAIN codes, CodeExpires(c) PROVE Goal
  BY <1>18, <1>g, <1>h DEF CodeExpires
<1>19. ASSUME NEW p \in Ids, RemoveParent(p) PROVE Goal
  BY <1>19, <1>g, <1>h DEF RemoveParent
<1>20. CASE UNCHANGED authVars
  BY <1>20, <1>g, <1>h DEF authVars
<1> QED
  BY <1>1, <1>2, <1>3, <1>4, <1>5, <1>6, <1>7, <1>8, <1>9, <1>10, <1>11, <1>12, <1>13,
     <1>14, <1>15, <1>16, <1>17, <1>18, <1>19, <1>20 DEF AuthNext, Serve

-----------------------------------------------------------------------------

LEMMA AuthInitInv == AuthInit => AuthInv
<1> SUFFICES ASSUME AuthInit PROVE AuthInv
  OBVIOUS
<1>1. /\ parents = <<>> /\ codes = <<>> /\ links = 0 /\ welcomed = {} /\ used = {}
      /\ Ids = {} /\ DOMAIN codes = {}
  BY DEF AuthInit, Ids
<1>2. \A v \in Visits : visit[v] = Away
  BY DEF AuthInit
<1>3. AuthSorts
  BY <1>1, AuthBounds DEF AuthInit, AuthSorts, LinkedSorts, Away, Stages
<1>4. VisitsRemember /\ EntrantsCanComeBack
  <2>1. \A v \in Visits : visit[v].at = "away"
    BY <1>2 DEF Away
  <2>2. VisitsRemember
    BY <2>1 DEF VisitsRemember, Remembers
  <2> QED BY <1>1, <2>1, <2>2 DEF EntrantsCanComeBack, EntersBack
<1>5. LinksHaveOneAddress
  BY <1>2 DEF AuthInit, LinksHaveOneAddress, LinkIsOf, Away
<1>6. UsedMeansSpent /\ WelcomedCanComeBack
  BY <1>1 DEF UsedMeansSpent, WelcomedCanComeBack
<1> QED
  BY <1>3, <1>4, <1>5, <1>6 DEF AuthInv

THEOREM AuthInductive == AuthSpec => []AuthInv
<1>1. AuthInv /\ [AuthNext]_authVars => AuthInv'
  BY SortsStep, RememberStep, LinksStep, BackStep DEF AuthInv
<1> QED
  BY AuthInitInv, <1>1, PTL DEF AuthSpec

-----------------------------------------------------------------------------
(* The unique index on the address, and the bounds.                         *)

AddressesUnique ==
  \A p, q \in Ids :
    Exists(p) /\ Exists(q) /\ parents[p].email \in Emails /\ parents[q].email = parents[p].email
    => p = q
PasswordsStored == \A p \in Ids : Exists(p) => parents[p].password <= links
RowsSound == Len(parents) <= MaxParents /\ AddressesUnique /\ PasswordsStored

\* The keys that a visit may remember: links sent and codes given out.
KeysGiven == \A v \in Visits : visit[v].key \in 0..links \cup DOMAIN codes
CountsHold == Len(codes) <= MaxCodes /\ links <= MaxLinks

IndexInv == RowsSound /\ KeysGiven /\ CountsHold

LEMMA NobodyOwns ==
  ASSUME NEW e \in Emails, AuthSorts, Owner(e) = 0
  PROVE  \A q \in Ids : Exists(q) => parents[q].email # e
<1>1. \A q \in Owners(e) : q \in Nat \ {0}  BY DEF Owners, Ids, AuthSorts
<1>2. Owners(e) = {}  BY <1>1 DEF Owner
<1> QED  BY <1>2 DEF Owners

\* One row is written, with an address that no other row has.
LEMMA RowWritten ==
  ASSUME AuthSorts, RowsSound, links' >= links, links' \in Nat,
         NEW p \in Ids, NEW row \in ParentRows \cup {Gone},
         parents' = [parents EXCEPT ![p] = row],
         row # Gone => /\ row.password <= links
                       /\ row.email \in Emails =>
                            \A q \in Ids : Exists(q) /\ parents[q].email = row.email => q = p
  PROVE  RowsSound'
<1>1. /\ parents' \in Seq(ParentRows \cup {Gone}) /\ Ids' = Ids /\ parents'[p] = row
      /\ \A q \in Ids : q # p => parents'[q] = parents[q]
  BY RowChanges
<1>2. Len(parents') = Len(parents)  BY <1>1 DEF Ids, AuthSorts
<1>3. AddressesUnique'  BY <1>1 DEF RowsSound, AddressesUnique, Exists
<1>4. PasswordsStored'
  <2> SUFFICES ASSUME NEW q \in Ids, parents'[q] # Gone
               PROVE  parents'[q].password <= links'
    BY <1>1 DEF PasswordsStored, Exists
  <2>1. parents'[q] \in ParentRows  BY <1>1 DEF Ids
  <2>2. parents'[q].password \in Nat /\ links \in Nat  BY <2>1 DEF ParentRows, AuthSorts
  <2>3. parents'[q].password <= links
    BY <1>1 DEF RowsSound, PasswordsStored, Exists
  <2> QED  BY <2>2, <2>3
<1> QED  BY <1>2, <1>3, <1>4 DEF RowsSound

\* A parent is created only for an address that nobody owns.
LEMMA CreateIsSound ==
  ASSUME AuthSorts, RowsSound, links' = links,
         NEW v \in Visits, NEW email \in Emails \cup {NoEmail}, NEW password \in 0..links,
         NEW stage, Create(v, email, password, stage)
  PROVE  RowsSound'
<1>1. CASE UNCHANGED parents
  BY <1>1 DEF RowsSound, AddressesUnique, PasswordsStored, Exists, Ids
<1>2. CASE Owner(email) = 0
  <2> DEFINE row == [email |-> email, password |-> password]
  <2>1. row \in ParentRows /\ links \in Nat  BY DEF ParentRows, AuthSorts
  <2>2. Len(parents) < MaxParents /\ parents' = Append(parents, row)
    BY <1>2 DEF Create
  <2>3. row.email = email /\ row.password = password  OBVIOUS
  <2>4. email \in Emails => \A q \in Ids : Exists(q) => parents[q].email # email
    BY <1>2, NobodyOwns
  <2> HIDE DEF row
  <2>5. /\ parents' \in Seq(ParentRows \cup {Gone})
        /\ Ids' = Ids \cup {Len(parents) + 1}
        /\ parents'[Len(parents) + 1] = row
        /\ \A q \in Ids : parents'[q] = parents[q]
    BY <2>1, <2>2, RowAdded
  <2>6. Len(parents') <= MaxParents
    BY <2>2, AuthBounds DEF AuthSorts
  <2>7. AddressesUnique'
    BY <2>3, <2>4, <2>5 DEF RowsSound, AddressesUnique, Exists
  <2>8. PasswordsStored'
    BY <2>3, <2>5 DEF RowsSound, PasswordsStored, Exists
  <2> QED  BY <2>6, <2>7, <2>8 DEF RowsSound
<1> QED  BY <1>1, <1>2 DEF Create

\* Which actions write which of these tables.
LEMMA Writers ==
  ASSUME [AuthNext]_authVars
  PROVE  \/ UNCHANGED <<parents, codes, links>>
         \/ /\ UNCHANGED <<codes, links>>
            /\ \/ \E v \in Visits : SetPassword(v) \/ UpdateParent(v) \/ CreateParent(v)
               \/ \E p \in Ids : RemoveParent(p)
         \/ UNCHANGED <<parents, codes>> /\ \E v \in Visits : StoreSignUp(v)
         \/ /\ UNCHANGED <<parents, links>>
            /\ \/ \E v \in Visits : OpenSession(v) \/ ConsumeSession(v)
               \/ \E c \in DOMAIN codes : CodeExpires(c)
<1> DEFINE None3 == UNCHANGED <<parents, codes, links>>
<1>1. ASSUME NEW v \in Visits, NEW e \in Emails, SignUp(v, e) \/ OpenLink(v, e) PROVE None3
  BY <1>1 DEF SignUp, OpenLink
<1>2. ASSUME NEW v \in Visits,
             CheckParent(v) \/ ConsumeLink(v) \/ FindByEmail(v) \/ Link(v) \/ Abort(v)
      PROVE  None3
  BY <1>2 DEF CheckParent, ConsumeLink, FindByEmail, Link, Abort
<1>3. ASSUME NEW v \in Visits, NEW s \in Socials, NEW e \in Emails \cup {NoEmail},
             FindAccount(v, s, e)
      PROVE  None3
  BY <1>3 DEF FindAccount
<1>4. ASSUME NEW v \in Visits, NEW c \in DOMAIN codes, FindSession(v, c) PROVE None3
  BY <1>4 DEF FindSession
<1>5. ASSUME NEW e \in Emails, LogIn(e) \/ LinkExpires(e) PROVE None3
  BY <1>5 DEF LogIn, LinkExpires
<1>6. ASSUME NEW v \in Visits, SetPassword(v) \/ UpdateParent(v) \/ CreateParent(v)
      PROVE  UNCHANGED <<codes, links>>
  BY <1>6 DEF SetPassword, UpdateParent, CreateParent
<1>7. ASSUME NEW p \in Ids, RemoveParent(p) PROVE UNCHANGED <<codes, links>>
  BY <1>7 DEF RemoveParent
<1>8. ASSUME NEW v \in Visits, StoreSignUp(v) PROVE UNCHANGED <<parents, codes>>
  BY <1>8 DEF StoreSignUp
<1>9. ASSUME NEW v \in Visits, OpenSession(v) \/ ConsumeSession(v)
      PROVE  UNCHANGED <<parents, links>>
  BY <1>9 DEF OpenSession, ConsumeSession
<1>10. ASSUME NEW c \in DOMAIN codes, CodeExpires(c) PROVE UNCHANGED <<parents, links>>
  BY <1>10 DEF CodeExpires
<1>11. CASE UNCHANGED authVars  BY <1>11 DEF authVars
<1>12. ASSUME NEW v \in Visits, Serve(v)
       PROVE  \/ None3
              \/ SetPassword(v) \/ UpdateParent(v) \/ CreateParent(v)
              \/ StoreSignUp(v) \/ OpenSession(v) \/ ConsumeSession(v)
  BY <1>12, <1>1, <1>2, <1>3, <1>4 DEF Serve
<1> HIDE DEF None3
<1>13. AuthNext => \/ None3
                   \/ \E v \in Visits :
                        \/ SetPassword(v) \/ UpdateParent(v) \/ CreateParent(v)
                        \/ StoreSignUp(v) \/ OpenSession(v) \/ ConsumeSession(v)
                   \/ \E c \in DOMAIN codes : CodeExpires(c)
                   \/ \E p \in Ids : RemoveParent(p)
  BY <1>5, <1>12 DEF AuthNext
<1> QED
  BY <1>6, <1>7, <1>8, <1>9, <1>10, <1>11, <1>13 DEF None3

\* The unique index on the address holds whatever sign-ups and logins overlap.
LEMMA RowsSoundStep ==
  ASSUME AuthSorts, VisitsRemember, RowsSound, [AuthNext]_authVars
  PROVE  RowsSound'
<1>0. links \in Nat /\ links' \in Nat /\ links <= links'
  BY HistoryStep DEF AuthSorts
<1>1. CASE parents' = parents
  <2>1. Ids' = Ids /\ \A q \in Ids : Exists(q) => parents[q].password \in Nat
    BY <1>1 DEF Ids, Exists, AuthSorts, ParentRows
  <2> QED  BY <1>0, <1>1, <2>1 DEF RowsSound, AddressesUnique, PasswordsStored, Exists
<1> SUFFICES ASSUME parents' # parents PROVE RowsSound'  BY <1>1
<1>2. links' = links  BY Writers
<1>3. ASSUME NEW v \in Visits, SetPassword(v) PROVE RowsSound'
  <2> DEFINE p == visit[v].parent
             k == visit[v].key
  <2>0. visit[v].at = "checked"  BY <1>3 DEF SetPassword, At
  <2>1. visit[v].email \in Emails /\ k \in 1..links
    BY <2>0 DEF VisitsRemember, Remembers
  <2>2. CASE p = 0
    <3>1. Create(v, visit[v].email, k, "written")  BY <1>3, <2>2 DEF SetPassword
    <3> QED  BY <1>0, <1>2, <2>1, <3>1, CreateIsSound
  <2>3. CASE p # 0
    <3> DEFINE row == [parents[p] EXCEPT !.password = k]
    <3>1. Exists(p) /\ parents' = [parents EXCEPT ![p] = row]
      BY <1>3, <2>3 DEF SetPassword
    <3>2. p \in Ids /\ parents[p] \in ParentRows  BY <3>1 DEF Exists, AuthSorts, Ids
    <3>3. row \in ParentRows /\ row.password = k /\ row.email = parents[p].email
      BY <1>0, <2>1, <3>2 DEF ParentRows
    <3>4. row.email \in Emails => \A q \in Ids : Exists(q) /\ parents[q].email = row.email => q = p
      BY <3>1, <3>2, <3>3 DEF RowsSound, AddressesUnique
    <3>5. row.password <= links /\ links' >= links  BY <1>0, <2>1, <3>3
    <3> HIDE DEF row, p, k
    <3> QED  BY <1>0, <3>1, <3>2, <3>3, <3>4, <3>5, RowWritten
  <2> QED  BY <2>2, <2>3
<1>4. ASSUME NEW v \in Visits, UpdateParent(v) PROVE RowsSound'
  <2> DEFINE p == visit[v].parent
             e == visit[v].email
             row == [parents[p] EXCEPT !.email = e]
  <2>1. Exists(p) /\ Owner(e) \in {0, p} /\ parents' = [parents EXCEPT ![p] = row]
    BY <1>4 DEF UpdateParent
  <2>2. p \in Ids /\ parents[p] \in ParentRows /\ e \in Emails \cup {NoEmail}
    BY <2>1 DEF Exists, AuthSorts, Ids
  <2>3. row \in ParentRows /\ row.password = parents[p].password /\ row.email = e
    BY <2>2 DEF ParentRows
  <2>4. row.password <= links
    BY <2>1, <2>2, <2>3 DEF RowsSound, PasswordsStored
  <2>5. ASSUME e \in Emails, NEW q \in Ids, Exists(q), parents[q].email = e PROVE q = p
    <3>1. Owner(e) = p  BY <2>1, <2>5, NobodyOwns
    <3>2. Exists(p) /\ parents[p].email = e
      <4>1. p \in Nat \ {0}  BY <2>2 DEF Ids, AuthSorts
      <4>2. Owner(e) # 0  BY <3>1, <4>1
      <4> QED  BY <3>1, <4>2 DEF Owner, Owners
    <3> QED  BY <2>2, <2>5, <3>2 DEF RowsSound, AddressesUnique
  <2> HIDE DEF row, p, e
  <2> QED  BY <1>0, <2>1, <2>2, <2>3, <2>4, <2>5, RowWritten
<1>5. ASSUME NEW v \in Visits, CreateParent(v) PROVE RowsSound'
  <2>1. Create(v, visit[v].email, 0, "linking") /\ visit[v].email \in Emails \cup {NoEmail}
    BY <1>5 DEF CreateParent, AuthSorts
  <2> QED  BY <1>0, <1>2, <2>1, CreateIsSound
<1>6. ASSUME NEW p \in Ids, RemoveParent(p) PROVE RowsSound'
  <2>1. parents' = [parents EXCEPT ![p] = Gone]  BY <1>6 DEF RemoveParent
  <2> QED  BY <1>0, <2>1, RowWritten
<1> QED  BY <1>3, <1>4, <1>5, <1>6, Writers

LEMMA CountsStep ==
  ASSUME AuthSorts, CountsHold, [AuthNext]_authVars
  PROVE  CountsHold'
<1>0. /\ codes \in Seq(CodeRows) /\ links \in Nat /\ MaxLinks \in Nat /\ MaxCodes \in Nat
      /\ Len(codes) <= MaxCodes /\ links <= MaxLinks
  BY AuthBounds DEF CountsHold, AuthSorts
<1>1. CASE UNCHANGED <<codes, links>>  BY <1>1 DEF CountsHold
<1>2. ASSUME NEW v \in Visits, StoreSignUp(v), UNCHANGED codes PROVE CountsHold'
  <2>1. links < MaxLinks /\ links' = links + 1  BY <1>2 DEF StoreSignUp
  <2> QED  BY <1>0, <1>2, <2>1 DEF CountsHold
<1>3. ASSUME NEW c, NEW row, codes' = [codes EXCEPT ![c] = row], UNCHANGED links
      PROVE  CountsHold'
  <2>1. Len(codes') = Len(codes)  BY <1>0, <1>3
  <2> QED  BY <1>0, <1>3, <2>1 DEF CountsHold
<1>4. ASSUME NEW v \in Visits, OpenSession(v), UNCHANGED links PROVE CountsHold'
  <2>1. CASE UNCHANGED codes  BY <1>1, <1>4, <2>1
  <2>2. ASSUME NEW row, codes' = Append(codes, row), Len(codes) < MaxCodes PROVE CountsHold'
    <3>1. Len(codes') = Len(codes) + 1  BY <1>0, <2>2
    <3> QED  BY <1>0, <1>4, <2>2, <3>1 DEF CountsHold
  <2> QED  BY <1>4, <2>1, <2>2 DEF OpenSession
<1>5. ASSUME NEW v \in Visits, ConsumeSession(v), UNCHANGED links PROVE CountsHold'
  <2> DEFINE c == visit[v].key
  <2>1. \/ UNCHANGED codes
        \/ codes' = [codes EXCEPT ![c] = [codes[c] EXCEPT !.consumed = TRUE]]
    BY <1>5 DEF ConsumeSession
  <2> HIDE DEF c
  <2> QED  BY <1>1, <1>3, <1>5, <2>1
<1>6. ASSUME NEW c \in DOMAIN codes, CodeExpires(c), UNCHANGED links PROVE CountsHold'
  <2>1. codes' = [codes EXCEPT ![c] = [codes[c] EXCEPT !.expired = TRUE]]
    BY <1>6 DEF CodeExpires
  <2> QED  BY <1>3, <1>6, <2>1
<1> QED  BY <1>1, <1>2, <1>4, <1>5, <1>6, Writers

\* A visit takes its key from a row of pending or of codes, and keeps or drops it.
LEMMA KeyKeptOrTaken ==
  ASSUME AuthSorts, NEW v \in Visits, Serve(v), NEW w \in Visits
  PROVE  visit'[w].key \in {visit[w].key, 0} \cup 0..links \cup DOMAIN codes
<1> USE DEF AuthSorts
<1>1. CASE visit' = [visit EXCEPT ![v] = Away]  BY <1>1 DEF Away
<1>2. ASSUME NEW stage, visit' = [visit EXCEPT ![v].at = stage]
      PROVE  visit'[w].key = visit[w].key
  BY <1>2
<1>3. ASSUME NEW stage, NEW p, visit' = [visit EXCEPT ![v].at = stage, ![v].parent = p]
      PROVE  visit'[w].key = visit[w].key
  BY <1>3
<1>4. ASSUME NEW e \in Emails, SignUp(v, e)
      PROVE  visit'[w].key \in {visit[w].key, 0}
  BY <1>4 DEF SignUp, Away
<1>5. ASSUME NEW e \in Emails, OpenLink(v, e)
      PROVE  visit'[w].key \in {visit[w].key, pending[e].link} /\ pending[e].link \in 0..links
  BY <1>5 DEF OpenLink, Away
<1>6. ASSUME NEW s \in Socials, NEW e \in Emails \cup {NoEmail}, FindAccount(v, s, e)
      PROVE  visit'[w].key \in {visit[w].key, 0}
  BY <1>6 DEF FindAccount, Away
<1>7. ASSUME NEW c \in DOMAIN codes, FindSession(v, c)
      PROVE  visit'[w].key \in {visit[w].key, c}
  BY <1>7 DEF FindSession, Away
<1> DEFINE Goal == visit'[w].key \in {visit[w].key, 0} \cup 0..links \cup DOMAIN codes
<1>8. CASE StoreSignUp(v) \/ ConsumeLink(v) \/ OpenSession(v) \/ ConsumeSession(v) \/ Abort(v)
  <2>1. visit' = [visit EXCEPT ![v] = Away]
    BY <1>8 DEF StoreSignUp, ConsumeLink, OpenSession, ConsumeSession, Abort, Leaves
  <2> QED  BY <1>1, <2>1
<1>9. ASSUME NEW email, NEW password, NEW stage, Create(v, email, password, stage) PROVE Goal
  <2>1. \/ visit' = [visit EXCEPT ![v] = Away]
        \/ visit' = [visit EXCEPT ![v].at = stage, ![v].parent = Len(parents) + 1]
    BY <1>9 DEF Create, Leaves, Finds
  <2> QED  BY <1>1, <1>3, <2>1
<1>10. CASE CheckParent(v)
  BY <1>10, <1>1, <1>3 DEF CheckParent, Leaves, Finds
<1>11. CASE FindByEmail(v)
  BY <1>11, <1>3 DEF FindByEmail, Finds
<1>12. CASE UpdateParent(v)
  BY <1>12, <1>1, <1>2 DEF UpdateParent, Leaves, Moves
<1>13. CASE Link(v)
  BY <1>13, <1>1, <1>2 DEF Link, Leaves, Moves
<1>14. CASE CreateParent(v)
  BY <1>14, <1>9 DEF CreateParent
<1>15. CASE SetPassword(v)
  BY <1>15, <1>1, <1>2, <1>9 DEF SetPassword, Leaves, Moves
<1> QED
  BY <1>4, <1>5, <1>6, <1>7, <1>8, <1>10, <1>11, <1>12, <1>13, <1>14, <1>15 DEF Serve

LEMMA KeysStep ==
  ASSUME AuthSorts, VisitsRemember, KeysGiven, [AuthNext]_authVars
  PROVE  KeysGiven'
<1>1. /\ links \in Nat /\ links' \in Nat /\ links <= links'
      /\ DOMAIN codes \subseteq DOMAIN codes'
  BY HistoryStep, CodesStep DEF AuthSorts, CodesKept
<1>2. CASE visit' = visit  BY <1>1, <1>2 DEF KeysGiven
<1>3. ASSUME NEW v \in Visits, Serve(v) PROVE KeysGiven'
  BY <1>1, <1>3, KeyKeptOrTaken DEF KeysGiven
<1> QED
  BY <1>2, <1>3 DEF AuthNext, authVars, LogIn, LinkExpires, CodeExpires, RemoveParent

\* The rows of the four tables are well typed, and no two parents have one
\* address: whatever sign-ups, first logins and profile updates overlap, the
\* unique index refuses the second (ParentUser.email).
THEOREM AddressesStayUnique == AuthSpec => []AuthTypeOK
<1>1. AuthInit => IndexInv
  <2> SUFFICES ASSUME AuthInit PROVE IndexInv  OBVIOUS
  <2>1. /\ parents = <<>> /\ codes = <<>> /\ links = 0 /\ Ids = {}
        /\ \A v \in Visits : visit[v].key = 0
    BY DEF AuthInit, Ids, Away
  <2> QED
    BY <2>1, AuthBounds
    DEF IndexInv, RowsSound, AddressesUnique, PasswordsStored, KeysGiven, CountsHold
<1>2. AuthInv /\ IndexInv /\ [AuthNext]_authVars => IndexInv'
  BY RowsSoundStep, CountsStep, KeysStep DEF AuthInv, IndexInv
<1>3. AuthInv /\ IndexInv => AuthTypeOK
  <2> SUFFICES ASSUME AuthInv, IndexInv PROVE AuthTypeOK  OBVIOUS
  <2> USE DEF AuthInv, IndexInv
  <2>1. ASSUME NEW e \in Emails PROVE Cardinality(Owners(e)) <= 1
    <3>1. CASE Owners(e) = {}  BY <3>1, FS_EmptySet
    <3>2. ASSUME NEW p \in Owners(e) PROVE Cardinality(Owners(e)) <= 1
      <4>0. AddressesUnique  BY DEF RowsSound
      <4>1. \A q \in Owners(e) : q = p
        BY <2>1, <3>2, <4>0 DEF Owners, AddressesUnique
      <4>2. Owners(e) = {p}  BY <3>2, <4>1
      <4> QED  BY <4>2, FS_Singleton
    <3> QED  BY <3>1, <3>2
  <2>2. ASSUME NEW p \in Ids, Exists(p)
        PROVE  parents[p] \in [email: Emails \cup {NoEmail}, password: 0..links]
    <3>1. parents[p] \in ParentRows /\ links \in Nat  BY <2>2 DEF Exists, Ids, AuthSorts
    <3>2. parents[p].password <= links  BY <2>2 DEF RowsSound, PasswordsStored
    <3> QED  BY <3>1, <3>2 DEF ParentRows
  <2>3. ASSUME NEW c \in DOMAIN codes
        PROVE  codes[c] \in [parent: Ids, consumed: BOOLEAN, expired: BOOLEAN]
    <3>1. codes[c] \in CodeRows /\ codes[c].parent \in Ids  BY <2>3 DEF AuthSorts
    <3> QED  BY <3>1 DEF CodeRows
  <2>4. visit \in [Visits -> [at: Stages, email: Emails \cup {NoEmail},
          social: Socials \cup {Nobody}, parent: Ids \cup {0}, key: 0..links \cup DOMAIN codes]]
    BY DEF AuthSorts, KeysGiven
  <2> QED
    BY <2>1, <2>2, <2>3, <2>4, AuthBounds
    DEF AuthTypeOK, AuthSorts, LinkedSorts, RowsSound, CountsHold
<1> QED  BY <1>1, <1>2, <1>3, AuthInductive, PTL DEF AuthSpec

\* Whoever has been let in once can come back: the parent has a password or an
\* account at a provider, whatever races or crashes were on the way (the handlers
\* of AuthService, SocialAuthService and ParentSocialAccountService).
THEOREM WelcomedCanAlwaysComeBack == AuthSpec => []WelcomedCanComeBack
  BY AuthInductive, PTL DEF AuthInv

\* A link or code that somebody got in with does not pass the checks again,
\* however sign-ups and verifications of one address overlap.
THEOREM UsedIsAlwaysSpent == AuthSpec => []UsedMeansSpent
  BY AuthInductive, PTL DEF AuthInv

\* An account at a provider leads to the same parent as long as that exists,
\* also when its first logins run at the same time (connectSocialAccount).
THEOREM AccountsAlwaysKeepTheirParent == AuthSpec => AccountsKeepTheirParent
<1>1. ASSUME AuthInv, [AuthNext]_authVars, NEW s \in Socials,
             linked[s] # Nobody, linked'[s] # linked[s]
      PROVE  parents'[linked[s]] = Gone
  <2>1. linked[s] \in Ids /\ Exists(linked[s])
    BY <1>1 DEF AuthInv, AuthSorts, LinkedSorts
  <2>3. \A q : q = linked[s] => q \in Ids /\ (Exists(q)' => linked'[s] = q)
    BY <1>1, <2>1, RowsStep DEF AuthInv, RowsKept
  <2>4. \A q : q = linked[s] => ~Exists(q)' /\ q \in Ids'
    BY <1>1, <2>3, RowsStep DEF AuthInv, RowsKept
  <2> QED BY <2>4 DEF Exists
<1>2. AuthInv /\ [AuthNext]_authVars =>
        [\A s \in Socials :
           linked[s] # Nobody /\ linked'[s] # linked[s] => parents'[linked[s]] = Gone]_authVars
  BY <1>1
<1> QED
  BY <1>2, AuthInductive, PTL DEF AuthSpec, AccountsKeepTheirParent
=============================================================================
