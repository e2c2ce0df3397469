---------------------------- MODULE ParentPages ----------------------------
(***************************************************************************)
(* A parent's browser: the header with its login dialog, the pages the     *)
(* server renders from the session cookies, and "my children"              *)
(* (ChildrenPage.tsx) with its optimistic list over children.service.ts.   *)
(*                                                                         *)
(* The list is cached for the whole visit to the site: it outlives leaving *)
(* the page, logging out and logging in with a password, which all happen  *)
(* without loading the site again; a social login or the link of a         *)
(* verification mail loads it again, and what the old page had sent is     *)
(* then answered before the new one asks.  A refetch goes on when its page *)
(* is left, and an invalidation starts one only on a page that shows the   *)
(* list (TanStack Query 5).  A new child carries the id the server gives   *)
(* it.  One browser window is modelled.                                    *)
(***************************************************************************)
EXTENDS Integers, FiniteSets

CONSTANTS Families, ChildIds, NoOne,
          MaxMoves     \* mutations and logins of one behaviour

ASSUME MovesBound == MaxMoves \in Nat

Details == 0..1        \* name and age of a child
Writes == 1..MaxMoves  \* a mutation is known by its place among the moves

VARIABLES
  stored,    \* Child rows: [owner, is], NoOne where there is no row
  cookie,    \* the parent session
  adminIn,     \* is there an administrator session?
  screen,    \* the page rendered
  modal,     \* the login dialog: "shut", open by the "store", by ?login=1 ("param")
             \* or by ?adminLogin=1 ("adminParam")
  login,     \* a password login under way: [as, to], NoOne
  list,      \* the cached list: [of each id: Details or NoOne], NoOne if none
  fresh,     \* is it within its staleTime, and not invalidated?
  fetch,     \* refetch: [stage, as, data, overtaken]
  late,      \* is the list an answer read before an invalidation? (history)
  calls,     \* the mutations under way
  editing,   \* the child in the form, NoOne for a new one
  moves

pages == <<cookie, adminIn, screen, modal, login>>
parentVars == <<stored, pages, list, fresh, fetch, late, calls, editing, moves>>

NoList == [known |-> FALSE, kids |-> [c \in ChildIds |-> NoOne]]
NoFetch == [stage |-> "idle", as |-> NoOne, data |-> NoList, overtaken |-> FALSE]
Asked(p) == [NoFetch EXCEPT !.stage = "asked", !.as = p]

\* `here`: the page it was sent from is still there, and `resets` its form on success.
NoCall == [stage |-> "free", kind |-> "create", c |-> NoOne, is |-> 0,
           as |-> NoOne, old |-> NoList, here |-> FALSE, resets |-> FALSE]

\* ChildrenService.findAll
KidsOf(p) ==
  [known |-> TRUE,
   kids |-> [c \in ChildIds |-> IF stored[c] # NoOne /\ stored[c].owner = p
                                THEN stored[c].is ELSE NoOne]]

-----------------------------------------------------------------------------
(* Sessions and pages.                                                      *)

\* Pages that show the list of children.
Lists(s) == s \in {"children", "apply"}

\* getServerAuth and the redirects of the pages: what a visit ends on.
Rendered(s) ==
  CASE s = "children" /\ cookie = NoOne -> <<"home", "param">>
    [] s = "apply" /\ cookie = NoOne /\ ~adminIn -> <<"home", "param">>
    [] s = "admin" /\ ~adminIn -> <<"home", "adminParam">>
    [] OTHER -> <<s, IF modal = "store" THEN "store" ELSE "shut">>

\* Mounting the list starts a fetch unless it is fresh.
Mounted(s, p) ==
  fetch' = IF Lists(s) /\ ~(list.known /\ fresh) /\ fetch.stage = "idle"
           THEN Asked(p) ELSE fetch

\* Leaving the page forgets its form and its buttons: the answers still come.
Left ==
  calls' = [w \in Writes |-> IF calls[w].stage = "settling" THEN NoCall
                             ELSE [calls[w] EXCEPT !.here = FALSE, !.resets = FALSE]]

Visit(s) ==
  /\ screen # s
  /\ screen' = Rendered(s)[1] /\ modal' = Rendered(s)[2]
  /\ Mounted(screen', cookie)
  /\ editing' = NoOne /\ Left
  /\ UNCHANGED <<stored, cookie, adminIn, login, list, fresh, late, moves>>

\* With an administrator session the header has no parent buttons.
OpenLogin ==
  /\ cookie = NoOne /\ ~adminIn /\ modal = "shut"
  /\ modal' = "store"
  /\ UNCHANGED <<stored, cookie, adminIn, screen, login, list, fresh, fetch,
                 late, calls, editing, moves>>

CloseLogin ==
  /\ modal # "shut"
  /\ modal' = "shut"
  /\ UNCHANGED <<stored, cookie, adminIn, screen, login, list, fresh, fetch,
                 late, calls, editing, moves>>

\* The place to go is the one of the moment the form was sent.
SubmitLogin(p) ==
  /\ modal # "shut" /\ login = NoOne /\ moves < MaxMoves
  /\ login' = [as |-> p, to |-> IF modal = "param" THEN "apply" ELSE "stay"]
  /\ moves' = moves + 1
  /\ UNCHANGED <<stored, cookie, adminIn, screen, modal, list, fresh, fetch, late,
                 calls, editing>>

\* Refused, or answered with the cookie; the dialog may be shut by then.
LoginAnswered ==
  /\ login # NoOne
  /\ \/ UNCHANGED <<cookie, screen, modal, fetch, editing>>
     \/ /\ cookie' = login.as
        /\ IF login.to = "apply"
           THEN screen' = "apply" /\ modal' = "shut" /\ editing' = NoOne
           ELSE /\ modal' = IF modal = "store" THEN "shut" ELSE modal
                /\ UNCHANGED <<screen, editing>>
        /\ IF screen' # screen THEN Mounted(screen', cookie') ELSE UNCHANGED fetch
  /\ IF screen' # screen THEN Left ELSE UNCHANGED calls
  /\ login' = NoOne
  /\ UNCHANGED <<stored, adminIn, list, fresh, late, moves>>

\* Social login, or the mail's link: the site is loaded anew.
LoadLoggedIn(p) ==
  /\ cookie = NoOne /\ moves < MaxMoves
  /\ moves' = moves + 1
  /\ cookie' = p /\ screen' = "apply" /\ modal' = "shut" /\ login' = NoOne
  /\ list' = NoList /\ fresh' = FALSE /\ late' = FALSE
  /\ fetch' = Asked(p)
  /\ calls' = [w \in Writes |-> NoCall] /\ editing' = NoOne
  /\ UNCHANGED <<stored, adminIn>>

Logout ==
  /\ cookie # NoOne /\ ~adminIn
  /\ cookie' = NoOne /\ screen' = "home" /\ modal' = "shut" /\ editing' = NoOne
  /\ Left
  /\ UNCHANGED <<stored, adminIn, login, list, fresh, fetch, late, moves>>

SessionExpires ==
  /\ cookie # NoOne
  /\ cookie' = NoOne
  /\ UNCHANGED <<stored, adminIn, screen, modal, login, list, fresh, fetch,
                 late, calls, editing, moves>>

\* An administrator logs in from the same dialog, or out.
AdminSession ==
  /\ \/ ~adminIn /\ modal # "shut" /\ adminIn' = TRUE /\ screen' = "admin"
     \/ adminIn /\ adminIn' = FALSE /\ screen' = "home"
  /\ modal' = "shut" /\ editing' = NoOne /\ Left
  /\ UNCHANGED <<stored, cookie, login, list, fresh, fetch, late, moves>>

-----------------------------------------------------------------------------
(* The list of children: optimistic mutations and refetches.                *)

\* invalidateQueries: on a page that shows the list a refetch begins anew, or the
\* first one is joined; anywhere else the one under way goes on.
Invalidated ==
  /\ fresh' = FALSE
  /\ fetch' = IF Lists(screen) /\ (list'.known \/ fetch.stage = "idle") THEN Asked(cookie)
              ELSE [fetch EXCEPT !.overtaken = @ \/ fetch.stage = "read"]

\* updateCachedLists touches a list only if there is one.
With(c, is) == IF list.known THEN [list EXCEPT !.kids[c] = is] ELSE list

\* A mutation is pending until the refetch its onSettled asked for has ended.
Settling == {w \in Writes : calls[w].stage = "settling"}
Released == [w \in Writes |-> IF w \in Settling THEN NoCall ELSE calls[w]]
FormReleased == IF \E w \in Settling : calls[w].resets THEN NoOne ELSE editing

\* The buttons of the form, and those of the rows.
Saving == \E w \in Writes : calls[w].here /\ calls[w].kind # "delete"
Removing == \E w \in Writes : calls[w].here /\ calls[w].kind = "delete"

Mutate(kind, c, is) ==
  /\ screen = "children" /\ moves < MaxMoves
  /\ moves' = moves + 1
  /\ fetch' = NoFetch
  /\ calls' = [Released EXCEPT
       ![moves + 1] = [stage |-> "sent", kind |-> kind, c |-> c, is |-> is,
                        as |-> cookie, old |-> list, here |-> TRUE,
                        resets |-> kind # "delete" \/ editing = c]]
  /\ editing' = FormReleased
  /\ list' = With(c, is)
  /\ fresh' = (fresh \/ list.known)
  /\ UNCHANGED <<stored, pages, late>>

StartEdit(c) ==
  /\ screen = "children" /\ list.kids[c] # NoOne
  /\ editing' = c
  /\ UNCHANGED <<stored, pages, list, fresh, fetch, late, calls, moves>>

CancelEdit ==
  /\ editing # NoOne
  /\ editing' = NoOne
  /\ UNCHANGED <<stored, pages, list, fresh, fetch, late, calls, moves>>

Submit(is) ==
  /\ ~Saving
  /\ \/ editing # NoOne /\ Mutate("update", editing, is)
     \/ /\ editing = NoOne
        /\ \E c \in ChildIds : /\ stored[c] = NoOne /\ list.kids[c] = NoOne
                               /\ \A w \in Writes : calls[w].c # c
                               /\ Mutate("create", c, is)

HandleDelete(c) == ~Removing /\ list.kids[c] # NoOne /\ Mutate("delete", c, NoOne)

\* ChildrenService: a row of another account is not found.
ServeChild(w) ==
  LET o == calls[w] IN
  /\ o.stage = "sent" /\ o.as # NoOne
  /\ IF o.kind = "create" THEN stored[o.c] = NoOne
     ELSE stored[o.c] # NoOne /\ stored[o.c].owner = o.as
  /\ stored' = [stored EXCEPT ![o.c] = IF o.kind = "delete" THEN NoOne
                                       ELSE [owner |-> o.as, is |-> o.is]]
  /\ calls' = [calls EXCEPT ![w].stage = "served"]
  /\ UNCHANGED <<pages, list, fresh, fetch, late, editing, moves>>

\* The end of a mutation, which the page waits for if it is still there.
Settles(w, resets) ==
  /\ Invalidated
  /\ calls' = [calls EXCEPT
       ![w] = IF ~calls[w].here THEN NoCall
              ELSE [NoCall EXCEPT !.stage = "settling", !.kind = calls[w].kind,
                                  !.here = TRUE, !.resets = resets]]

\* The row of the answer replaces the one in the list, if it is there; the form
\* is emptied later, whatever has been opened in it since: after a save, and after
\* a deletion if the form held that child when the button was pressed.
Succeed(w) ==
  LET o == calls[w] IN
  /\ o.stage = "served"
  /\ list' = IF o.kind # "delete" /\ list.kids[o.c] # NoOne THEN With(o.c, o.is) ELSE list
  /\ Settles(w, o.resets)
  /\ UNCHANGED <<stored, pages, late, editing, moves>>

RolledBack(w) ==
  /\ calls[w].stage \in {"sent", "served"}
  /\ list' = IF calls[w].old.known THEN calls[w].old ELSE list
  /\ UNCHANGED <<stored, pages, late, editing, moves>>

\* Nothing invalidated after a failure.
FailQuietly(w) ==
  RolledBack(w) /\ calls' = [calls EXCEPT ![w] = NoCall] /\ UNCHANGED <<fresh, fetch>>

Fail(w) == RolledBack(w) /\ Settles(w, FALSE)

Read ==
  /\ fetch.stage = "asked" /\ fetch.as # NoOne
  /\ fetch' = [fetch EXCEPT !.stage = "read", !.data = KidsOf(fetch.as)]
  /\ UNCHANGED <<stored, pages, list, fresh, late, calls, editing, moves>>

\* Answered, or refused: without a session, or twice lost.
Arrive ==
  /\ fetch.stage # "idle"
  /\ \/ fetch.stage = "read" /\ list' = fetch.data /\ fresh' = TRUE /\ late' = fetch.overtaken
     \/ fetch.stage = "asked" /\ UNCHANGED <<list, fresh, late>>
  /\ fetch' = NoFetch
  /\ calls' = Released /\ editing' = FormReleased
  /\ UNCHANGED <<stored, pages, moves>>

\* A stale list is asked for again when the window gets the focus back.
Refocus ==
  /\ fetch.stage = "idle"
  /\ Mounted(screen, cookie)
  /\ UNCHANGED <<stored, pages, list, fresh, late, calls, editing, moves>>

MinutePasses ==
  /\ fresh
  /\ fresh' = FALSE
  /\ UNCHANGED <<stored, pages, list, fetch, late, calls, editing, moves>>

\* Five minutes (gcTime) without a page that shows it.
Forget ==
  /\ ~Lists(screen) /\ fetch.stage = "idle" /\ list.known
  /\ list' = NoList /\ fresh' = FALSE /\ late' = FALSE
  /\ UNCHANGED <<stored, pages, fetch, calls, editing, moves>>

ParentInit ==
  /\ \E p \in Families, cs \in {{}} \cup {{c} : c \in ChildIds} :
       stored = [k \in ChildIds |-> IF k \in cs THEN [owner |-> p, is |-> 0] ELSE NoOne]
  /\ cookie = NoOne /\ adminIn = FALSE /\ screen = "home" /\ modal = "shut"
  /\ login = NoOne /\ moves = 0 /\ editing = NoOne
  /\ list = NoList /\ fresh = FALSE /\ fetch = NoFetch /\ late = FALSE
  /\ calls = [w \in Writes |-> NoCall]

ParentNext ==
  \/ \E s \in {"home", "children", "apply", "admin"} : Visit(s)
  \/ \E p \in Families : SubmitLogin(p) \/ LoadLoggedIn(p)
  \/ OpenLogin \/ CloseLogin \/ LoginAnswered
  \/ Logout \/ SessionExpires \/ AdminSession
  \/ \E c \in ChildIds : StartEdit(c) \/ HandleDelete(c)
  \/ \E is \in Details : Submit(is)
  \/ \E w \in Writes : ServeChild(w) \/ Succeed(w) \/ Fail(w)
  \/ CancelEdit \/ Read \/ Arrive \/ Refocus \/ MinutePasses \/ Forget

ParentSpec == ParentInit /\ [][ParentNext]_parentVars

-----------------------------------------------------------------------------
(* Properties.                                                              *)

\* Rows, sessions and cached lists keep their types.
ParentTypeOK ==
  /\ stored \in [ChildIds -> [owner : Families, is : Details] \cup {NoOne}]
  /\ cookie \in Families \cup {NoOne} /\ adminIn \in BOOLEAN /\ fresh \in BOOLEAN
  /\ screen \in {"home", "children", "apply", "admin"}
  /\ modal \in {"shut", "store", "param", "adminParam"}
  /\ list.kids \in [ChildIds -> Details \cup {NoOne}]
  /\ fetch.stage \in {"idle", "asked", "read"} /\ late \in BOOLEAN
  /\ \A w \in Writes : calls[w].stage \in {"free", "sent", "served", "settling"}
  /\ editing \in ChildIds \cup {NoOne}

SettledList == fetch = NoFetch /\ calls = [w \in Writes |-> NoCall] /\ fresh

\* However saves, deletions, failures, rollbacks, refetches, leaving the page,
\* opening it again and changing the account overlap, a list that has settled is
\* the stored list of one account: never a mixture of two, and never one that a
\* rollback has left wrong.  The one list that may be wrong is an answer read
\* before an invalidation that did not start its refetch anew (ChildrenPage.tsx:21,
\* off the pages of the list or before there is one).
ChildrenSettleTrue ==
  SettledList /\ ~late => \E p \in Families : list = KidsOf(p)

\* "My children" are those of the account that is logged in.
OwnChildrenShown ==
  Lists(screen) /\ SettledList /\ cookie # NoOne => list = KidsOf(cookie)
=============================================================================
