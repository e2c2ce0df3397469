---------------------------- MODULE ApplyForm ----------------------------
(***************************************************************************)
(* The parent's application form and the time picker inside it             *)
(* (screens/ApplyPage.tsx, components/PreferredSlotsPicker.tsx and         *)
(* components/preferred-slots/).                                           *)
(*                                                                         *)
(* The picker keeps a draft (anchor, hovered, dragging, mode, didDrag)     *)
(* that mouse, touch and keyboard events advance one at a time and in any  *)
(* order, while refetches and the choice of a child change which cells are *)
(* closed under an unfinished draft.  A refetch may bring a class that is  *)
(* no longer open, or open at other times or to other ages.  A cell is one *)
(* 10-minute row of one day, a pick a range of rows [from, to) of one day. *)
(* The administrator's preview of the form, which is never sent, is left   *)
(* out.                                                                    *)
(***************************************************************************)
EXTENDS Integers, FiniteSetsExt

CONSTANTS Weekdays, TimeRows,        \* the grid
          Kids, AgesOf,      \* the parent's children, and the ages each may be given
          Classes, ClassOffers,  \* groups, and how each may be offered: [slots, ages]
          ClosedTimes,       \* times of confirmed groups
          DefaultAge, Nothing

VARIABLES child,      \* the child chosen in the form, or Nothing
          childAge,   \* its age, copied when it was chosen
          requested,  \* requestedGroupId
          picked,     \* preferredSlots
          asked,      \* how the requested group was offered when asked for (history)
          joinable,   \* cache of the joinable-groups query: each group's offer, or Nothing
          confirmed,  \* cache of the confirmed-slots query
          anchor, hovered, dragging, mode, didDrag,
          phase       \* the page: "form", "sending" or "done"

draft == <<anchor, hovered, dragging, mode, didDrag>>
form == <<child, childAge, requested, picked, asked>>
offers == <<joinable, confirmed>>
applyVars == <<child, childAge, requested, picked, asked, joinable, confirmed, anchor, hovered,
               dragging, mode, didDrag, phase>>

Cells == [day : Weekdays, row : TimeRows]
Picks == {p \in [day : Weekdays, from : TimeRows, to : {r + 1 : r \in TimeRows}] : p.from < p.to}

\* Rows are numbered from 0; a class takes times of the grid.
ASSUME GridShape == \E n \in TimeRows : n \in Nat /\ TimeRows = 0 .. n
ASSUME FormInputs ==
  /\ ClosedTimes \subseteq Picks
  /\ \A g \in Classes : \A o \in ClassOffers[g] : o.slots \subseteq Picks /\ o # Nothing
  /\ Nothing \notin Kids \cup Classes \cup Cells

Contains(p, c) == p.day = c.day /\ p.from <= c.row /\ c.row < p.to
Collide(p, q) == p.day = q.day /\ p.from < q.to /\ q.from < p.to

\* What findJoinable may answer.
OfferLists ==
  {offered \in [Classes -> {Nothing} \cup UNION {ClassOffers[g] : g \in Classes}] :
     \A g \in Classes : offered[g] \in ClassOffers[g] \cup {Nothing}}

MatchingGroups == {g \in Classes : joinable[g] # Nothing /\ childAge \in joinable[g].ages}

\* A confirmed time no group with a free seat for this age covers.
Blocked(c) ==
  /\ \E s \in confirmed : Contains(s, c)
  /\ ~\E g \in MatchingGroups : \E s \in joinable[g].slots : Contains(s, c)

Taken(c) == Blocked(c) \/ \E p \in picked : Contains(p, c)

Between(a, t) == Min({a.row, t.row}) .. Max({a.row, t.row})

\* The rows from the anchor towards the target, up to the first obstacle.
Reach(a, t) ==
  {r \in Between(a, t) : \A k \in Between(a, [t EXCEPT !.row = r]) :
                            ~Taken([day |-> a.day, row |-> k])}

\* The range itself without the stop at obstacles on the way.
BuildSlotOver(a, t) ==
  IF a.day # t.day \/ Taken(a) THEN {}
  ELSE {[day |-> a.day, from |-> Min(Between(a, t)), to |-> Max(Between(a, t)) + 1]}

\* At most one range: none across days or from a taken anchor.
BuildSlot(a, t) ==
  IF a.day # t.day \/ Taken(a) THEN {}
  ELSE {[day |-> a.day, from |-> Min(Reach(a, t)), to |-> Max(Reach(a, t)) + 1]}

ComputeRange(a, h) ==
  IF Nothing \in {a, h} \/ a.day # h.day THEN {}
  ELSE {[day |-> a.day, from |-> Min(Between(a, h)), to |-> Max(Between(a, h)) + 1]}

-----------------------------------------------------------------------------
(* The picker.  Every onChange of the form also withdraws the join request. *)

ClearDraft ==
  /\ anchor' = Nothing
  /\ hovered' = Nothing
  /\ dragging' = FALSE
  /\ mode' = "select"
  /\ didDrag' = FALSE

Withdrawn == requested' = Nothing /\ asked' = Nothing

OnChange(slots) == picked' = slots /\ Withdrawn /\ UNCHANGED <<child, childAge>>

CommitSlot(slots) ==
  /\ dragging' = FALSE
  /\ IF slots = {}
     THEN UNCHANGED <<form, anchor, hovered, mode, didDrag>>
     ELSE /\ OnChange(picked \cup slots)
          /\ anchor' = Nothing
          /\ hovered' = Nothing
          /\ UNCHANGED <<mode, didDrag>>

\* What is left of p when the range r is cut out of it.
Remains(p, r) ==
  {q \in {[p EXCEPT !.to = Max({p.from, r.from})], [p EXCEPT !.from = Min({p.to, r.to})]} :
     q.from < q.to}

CancelSlotsInRange(range) ==
  /\ ClearDraft
  /\ IF range = {}
     THEN UNCHANGED form
     ELSE \E r \in range :
            OnChange(UNION {IF Collide(p, r) THEN Remains(p, r) ELSE {p} : p \in picked})

BeginDrag(c, m, held) ==
  /\ anchor' = c
  /\ hovered' = c
  /\ dragging' = held
  /\ mode' = m
  /\ didDrag' = FALSE
  /\ UNCHANGED form

Shown == phase # "done" /\ UNCHANGED <<offers, phase>>

PressMouse(c) ==
  /\ Shown
  /\ ~Blocked(c)
  /\ IF anchor # Nothing /\ ~dragging
     THEN CommitSlot(BuildSlot(anchor, c))
     ELSE BeginDrag(c, IF \E p \in picked : Contains(p, c) THEN "cancel" ELSE "select", TRUE)

DragOver(c) ==
  /\ Shown
  /\ dragging
  /\ hovered' = c
  /\ didDrag' = (didDrag \/ c # anchor)
  /\ UNCHANGED <<form, anchor, dragging, mode>>

EnterCell(c) ==
  /\ Shown
  /\ dragging \/ anchor # Nothing
  /\ hovered' = c
  /\ UNCHANGED <<form, anchor, dragging, mode, didDrag>>

ReleaseMouse ==
  /\ Shown
  /\ dragging
  /\ CASE mode = "cancel" -> CancelSlotsInRange(ComputeRange(anchor, hovered))
       [] mode = "select" /\ didDrag -> CommitSlot(BuildSlot(anchor, hovered))
       [] OTHER -> dragging' = FALSE /\ UNCHANGED <<form, anchor, hovered, mode, didDrag>>

PointerCancel ==
  /\ Shown
  /\ dragging' = FALSE
  /\ hovered' = Nothing
  /\ UNCHANGED <<form, anchor, mode, didDrag>>

TapCell(c) ==
  /\ Shown
  /\ ~Blocked(c)
  /\ CASE anchor # Nothing /\ mode = "cancel" -> CancelSlotsInRange(ComputeRange(anchor, c))
       [] anchor # Nothing /\ mode # "cancel" -> CommitSlot(BuildSlot(anchor, c))
       [] anchor = Nothing /\ (\E p \in picked : Contains(p, c)) ->
            CancelSlotsInRange(ComputeRange(c, c))
       [] OTHER -> /\ mode' = "select"
                   /\ anchor' = c
                   /\ hovered' = c
                   /\ UNCHANGED <<form, dragging, didDrag>>

RemoveSlot(p) == Shown /\ OnChange(picked \ {p}) /\ ClearDraft

\* Enter on an enabled cell.
PressEnter(c) ==
  /\ ~Blocked(c)
  /\ \/ \E p \in picked : Contains(p, c) /\ RemoveSlot(p)
     \/ /\ Shown
        /\ ~\E p \in picked : Contains(p, c)
        /\ IF anchor # Nothing
           THEN CommitSlot(BuildSlot(anchor, c))
           ELSE BeginDrag(c, "select", FALSE)

\* The cancel button and, on a narrow screen, another day's tab.
DropDraft == Shown /\ ClearDraft /\ UNCHANGED form

Gesture ==
  \/ \E c \in Cells : PressMouse(c) \/ DragOver(c) \/ EnterCell(c) \/ TapCell(c) \/ PressEnter(c)
  \/ \E p \in picked : RemoveSlot(p)
  \/ ReleaseMouse \/ PointerCancel \/ DropDraft

-----------------------------------------------------------------------------
(* The page around it.                                                      *)

FormForParent == child' = Nothing /\ childAge' = DefaultAge /\ Withdrawn /\ picked' = {}

\* The bug a request kept across children would be.
SelectChildKeeping(k, age) ==
  /\ phase # "done"
  /\ child' = k /\ childAge' = age
  /\ UNCHANGED <<requested, picked, asked, offers, draft, phase>>

\* The age is the one the list of children shows now.
SelectChild(k, age) ==
  /\ phase # "done"
  /\ child' = k /\ childAge' = age
  /\ Withdrawn
  /\ picked' = IF requested # Nothing THEN {} ELSE picked
  /\ UNCHANGED <<offers, draft, phase>>

\* The group's times are copied into the form, and stay when it is offered anew.
JoinGroup(g) ==
  /\ Shown
  /\ g \in MatchingGroups
  /\ requested # g
  /\ requested' = g
  /\ picked' = joinable[g].slots
  /\ asked' = joinable[g]
  /\ UNCHANGED <<child, childAge, draft>>

CancelJoinRequest ==
  /\ Shown
  /\ requested \in MatchingGroups
  /\ Withdrawn
  /\ picked' = {}
  /\ UNCHANGED <<child, childAge, draft>>

\* Only the chosen child and at least one pick matter of the schema's rules.
HandleSubmit ==
  /\ phase = "form"
  /\ child # Nothing
  /\ picked # {}
  /\ phase' = "sending"
  /\ UNCHANGED <<form, offers, draft>>

\* The success page replaces the form, so the picker forgets its draft.
Applied ==
  /\ phase = "sending"
  /\ phase' = "done"
  /\ FormForParent
  /\ ClearDraft
  /\ UNCHANGED offers

Failed ==
  /\ phase = "sending"
  /\ phase' = "form"
  /\ UNCHANGED <<form, offers, draft>>

ApplyAgain ==
  /\ phase = "done"
  /\ phase' = "form"
  /\ FormForParent
  /\ UNCHANGED <<offers, draft>>

Refetch ==
  /\ \/ joinable' \in OfferLists /\ UNCHANGED confirmed
     \/ confirmed' \in SUBSET ClosedTimes /\ UNCHANGED joinable
  /\ UNCHANGED <<form, draft, phase>>

Page ==
  \/ \E k \in Kids : \E age \in AgesOf[k] : SelectChild(k, age)
  \/ \E g \in Classes : JoinGroup(g)
  \/ CancelJoinRequest \/ HandleSubmit \/ Applied \/ Failed \/ ApplyAgain \/ Refetch

ApplyInit ==
  /\ child = Nothing /\ childAge = DefaultAge
  /\ requested = Nothing /\ asked = Nothing
  /\ picked = {}
  /\ joinable = [g \in Classes |-> Nothing]
  /\ confirmed = {}
  /\ anchor = Nothing
  /\ hovered = Nothing
  /\ dragging = FALSE
  /\ mode = "select"
  /\ didDrag = FALSE
  /\ phase = "form"

ApplyNext == Gesture \/ Page

ApplySpec == ApplyInit /\ [][ApplyNext]_applyVars

-----------------------------------------------------------------------------
(* Properties.                                                              *)

\* The form and the draft hold values of their types, and a drag under way
\* has both its ends.
ApplyTypeOK ==
  /\ child \in Kids \cup {Nothing}
  /\ requested \in Classes \cup {Nothing}
  /\ picked \subseteq Picks
  /\ childAge = DefaultAge \/ \E k \in Kids : childAge \in AgesOf[k]
  /\ joinable \in OfferLists
  /\ confirmed \subseteq ClosedTimes
  /\ anchor \in Cells \cup {Nothing} /\ hovered \in Cells \cup {Nothing}
  /\ dragging \in BOOLEAN /\ didDrag \in BOOLEAN
  /\ mode \in {"select", "cancel"}
  /\ dragging => anchor # Nothing /\ hovered # Nothing
  /\ phase \in {"form", "sending", "done"}

\* Whatever sequence of drags, taps, keys and refetches led to it, a pick that
\* was not there before, nor part of one that was, and that no join request
\* filled in covers no time that is closed and collides with no other pick
\* (buildSlot, whose anchor may have been set before the cells changed).
NewPicksAreFree ==
  [][\A p \in picked' :
       \/ requested' # Nothing
       \/ \E q \in picked : q.day = p.day /\ q.from <= p.from /\ p.to <= q.to
       \/ /\ \A q \in picked' \ {p} : ~Collide(p, q)
          /\ \A c \in Cells : Contains(p, c) => ~Blocked(c)]_applyVars

\* As long as the form asks to join a group, its times are those the group was
\* offered with when the parent asked, and the child's age is one it was offered
\* to, however the children, the picks and the offers have changed since: what is
\* sent is never a request for one group with the times of another, nor for a
\* child the offer was not made to (selectChild, joinGroup, the picker's onChange).
JoinRequestFits ==
  requested # Nothing => picked = asked.slots /\ childAge \in asked.ages
=============================================================================
