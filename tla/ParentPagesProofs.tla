-------------------------- MODULE ParentPagesProofs --------------------------
(***************************************************************************)
(* Proofs about the parents' pages.  ApplyForm, for any grid, any children *)
(* and any classes: the types, the join request and the times the picker   *)
(* picks.  ParentPages, for any families, any children and any number of   *)
(* mutations and logins: the types and the optimistic list of children.    *)
(* The two share no state.                                                 *)
(***************************************************************************)
EXTENDS ApplyForm, ParentPages, WellFoundedInduction, TLAPS

-----------------------------------------------------------------------------
(* Least and greatest rows.                                                *)

LEMMA LeastRow ==
  ASSUME NEW S \in SUBSET Nat, S # {}
  PROVE  Min(S) \in S /\ \A y \in S : Min(S) <= y
<1>1. PICK x \in S : \A y \in S : <<y, x>> \notin OpToRel(<, Nat)
  BY NatLessThanWellFounded, WFMin
<1>2. \A y \in S : ~(y < x)
  BY <1>1 DEF OpToRel
<1>3. \A y \in S : x <= y
  BY <1>2
<1>. QED
  BY <1>3 DEF Min

LEMMA GreatestRow ==
  ASSUME NEW S \in SUBSET Nat, S # {}, NEW b \in Nat, \A y \in S : y <= b
  PROVE  Max(S) \in S /\ \A y \in S : y <= Max(S)
<1> DEFINE D == {b - y : y \in S}
<1>1. D \in SUBSET Nat /\ D # {}
  OBVIOUS
<1>2. Min(D) \in D /\ \A d \in D : Min(D) <= d
  BY <1>1, LeastRow
<1>3. PICK x \in S : Min(D) = b - x
  BY <1>2
<1>4. \A y \in S : x >= y
  BY <1>2, <1>3
<1>. QED
  BY <1>4 DEF Max

LEMMA PairOfRows ==
  ASSUME NEW m \in Nat, NEW n \in Nat
  PROVE  /\ Min({m, n}) = IF m <= n THEN m ELSE n
         /\ Max({m, n}) = IF m <= n THEN n ELSE m
<1>1. /\ Min({m, n}) \in {m, n} /\ \A y \in {m, n} : Min({m, n}) <= y
  BY LeastRow
<1>2. /\ Max({m, n}) \in {m, n} /\ \A y \in {m, n} : y <= Max({m, n})
  BY GreatestRow, m + n \in Nat, \A y \in {m, n} : y <= m + n
<1>. QED
  BY <1>1, <1>2

\* The rows from one cell to another: all of the grid, and both ends.
LEMMA BetweenRows ==
  ASSUME NEW a \in Cells, NEW t \in Cells
  PROVE  /\ Between(a, t) =
              IF a.row <= t.row THEN a.row .. t.row ELSE t.row .. a.row
         /\ Between(a, t) \subseteq TimeRows
         /\ a.row \in Between(a, t)
         /\ a.row \in Nat /\ t.row \in Nat
<1>1. /\ a.row \in Nat /\ t.row \in Nat
      /\ a.row \in TimeRows /\ t.row \in TimeRows
  BY GridShape DEF Cells
<1>2. /\ Min({a.row, t.row}) = IF a.row <= t.row THEN a.row ELSE t.row
      /\ Max({a.row, t.row}) = IF a.row <= t.row THEN t.row ELSE a.row
  BY <1>1, PairOfRows
<1>3. Between(a, t) = IF a.row <= t.row THEN a.row .. t.row ELSE t.row .. a.row
  BY <1>1, <1>2 DEF Between
<1>4. PICK n \in Nat : TimeRows = 0 .. n
  BY GridShape
<1>. QED
  BY <1>1, <1>3, <1>4

\* A set of rows from an anchor towards a target that holds the anchor and is
\* not empty has ends, and they are of the grid.
LEMMA RowSetEnds ==
  ASSUME NEW S \in SUBSET TimeRows, S # {}
  PROVE  /\ Min(S) \in S /\ Max(S) \in S
         /\ \A y \in S : Min(S) <= y /\ y <= Max(S)
         /\ S \in SUBSET Nat
<1>1. PICK n \in Nat : TimeRows = 0 .. n
  BY GridShape
<1>2. S \in SUBSET Nat /\ \A y \in S : y <= n
  BY <1>1
<1>. QED
  BY <1>2, LeastRow, GreatestRow

\* A range between two rows of the grid, in order, is a pick.
LEMMA RangeIsPick ==
  ASSUME NEW d \in Weekdays, NEW m \in TimeRows, NEW n \in TimeRows, m <= n
  PROVE  [day |-> d, from |-> m, to |-> n + 1] \in Picks
<1>1. m \in Nat /\ n \in Nat
  BY GridShape
<1>. QED
  BY <1>1 DEF Picks

LEMMA PicksAreRanges ==
  ASSUME NEW p \in Picks
  PROVE  /\ p.day \in Weekdays /\ p.from \in Nat /\ p.to \in Nat /\ p.from < p.to
         /\ p.from \in TimeRows /\ p.to \in {r + 1 : r \in TimeRows}
         /\ p = [day |-> p.day, from |-> p.from, to |-> p.to]
BY GridShape DEF Picks

-----------------------------------------------------------------------------
(* What the picker builds and what it leaves of a pick.                    *)

\* buildSlot: a pick of the anchor's day none of whose rows is taken.
LEMMA BuiltSlotIsFree ==
  ASSUME NEW a \in Cells, NEW t \in Cells, NEW p \in BuildSlot(a, t)
  PROVE  /\ p \in Picks
         /\ BuildSlot(a, t) = {p}
         /\ \A k \in TimeRows : p.from <= k /\ k < p.to => ~Taken([day |-> p.day, row |-> k])
<1> DEFINE S == Reach(a, t)
<1>1. a.day = t.day /\ ~Taken(a) /\ BuildSlot(a, t) = {p}
      /\ p = [day |-> a.day, from |-> Min(S), to |-> Max(S) + 1]
  BY DEF BuildSlot
<1>2. a.day \in Weekdays /\ a = [day |-> a.day, row |-> a.row] /\ a.row \in TimeRows
  BY DEF Cells
<1>3. \A r \in TimeRows :
        /\ [t EXCEPT !.row = r] \in Cells /\ [t EXCEPT !.row = r].row = r
  BY DEF Cells
<1>4. \A r \in TimeRows : Between(a, [t EXCEPT !.row = r]) =
        IF a.row <= r THEN a.row .. r ELSE r .. a.row
  <2> SUFFICES ASSUME NEW r \in TimeRows
               PROVE  Between(a, [t EXCEPT !.row = r]) =
                        IF a.row <= r THEN a.row .. r ELSE r .. a.row
    OBVIOUS
  <2> DEFINE c == [t EXCEPT !.row = r]
  <2>1. c \in Cells /\ c.row = r
    BY <1>3
  <2> HIDE DEF c
  <2>2. Between(a, c) = IF a.row <= c.row THEN a.row .. c.row ELSE c.row .. a.row
    BY <2>1, BetweenRows
  <2>. QED
    BY <2>1, <2>2 DEF c
<1>5. S \subseteq TimeRows /\ a.row \in Nat
  BY BetweenRows DEF Reach
<1>6. a.row \in S
  <2>1. Between(a, [t EXCEPT !.row = a.row]) = {a.row}
    BY <1>2, <1>4, <1>5
  <2>. QED
    BY <1>1, <1>2, <2>1, BetweenRows DEF Reach
<1>7. /\ Min(S) \in S /\ Max(S) \in S /\ S \in SUBSET Nat
      /\ Min(S) <= a.row /\ a.row <= Max(S)
  BY <1>5, <1>6, RowSetEnds
<1>8. ASSUME NEW k \in TimeRows, Min(S) <= k, k < Max(S) + 1
      PROVE  ~Taken([day |-> a.day, row |-> k])
  <2>1. k \in Nat
    BY GridShape
  <2>2. CASE k <= a.row
    <3>1. k \in Between(a, [t EXCEPT !.row = Min(S)])
      BY <1>4, <1>5, <1>7, <1>8, <2>1, <2>2
    <3>. QED
      BY <1>7, <3>1 DEF Reach
  <2>3. CASE a.row < k
    <3>1. k \in Between(a, [t EXCEPT !.row = Max(S)])
      BY <1>4, <1>5, <1>7, <1>8, <2>1, <2>3
    <3>. QED
      BY <1>7, <3>1 DEF Reach
  <2>. QED
    BY <1>5, <2>1, <2>2, <2>3
<1>9. p \in Picks
  <2>1. Min(S) <= Max(S) /\ Min(S) \in TimeRows /\ Max(S) \in TimeRows
    BY <1>5, <1>7
  <2>. QED
    BY <1>1, <1>2, <2>1, RangeIsPick
<1>. QED
  BY <1>1, <1>8, <1>9

\* The range a cancelling gesture covers is one of the grid.
LEMMA CancelledRangeIsPick ==
  ASSUME NEW a \in Cells, NEW h \in Cells
  PROVE  ComputeRange(a, h) \subseteq Picks
<1>1. Between(a, h) \subseteq TimeRows /\ Between(a, h) # {} /\ a.day \in Weekdays
  BY BetweenRows DEF Cells
<1>2. /\ Min(Between(a, h)) \in TimeRows /\ Max(Between(a, h)) \in TimeRows
      /\ Min(Between(a, h)) <= Max(Between(a, h))
  BY <1>1, RowSetEnds
<1>3. [day |-> a.day, from |-> Min(Between(a, h)), to |-> Max(Between(a, h)) + 1] \in Picks
  BY <1>1, <1>2, RangeIsPick
<1>. QED
  BY <1>3 DEF ComputeRange

\* Cutting a range out of a pick it meets leaves picks that lie within it.
LEMMA RemainsLieWithin ==
  ASSUME NEW p \in Picks, NEW r \in Picks, Collide(p, r), NEW q \in Remains(p, r)
  PROVE  q \in Picks /\ q.day = p.day /\ p.from <= q.from /\ q.to <= p.to
<1> DEFINE left == [p EXCEPT !.to = Max({p.from, r.from})]
           right == [p EXCEPT !.from = Min({p.to, r.to})]
<1>1. PICK n \in Nat : TimeRows = 0 .. n
  BY GridShape
<1>2. /\ p.day \in Weekdays /\ p.from \in Nat /\ p.to \in Nat
      /\ p.from < p.to /\ p.to <= n + 1 /\ p \in [day : Weekdays, from : Nat, to : Nat]
      /\ r.from \in Nat /\ r.to \in Nat /\ r.from < p.to /\ p.from < r.to
  BY <1>1 DEF Picks, Collide
<1>3. \A d \in Weekdays, m \in Nat, k \in Nat :
        m < k /\ k <= n + 1 => [day |-> d, from |-> m, to |-> k] \in Picks
  <2> SUFFICES ASSUME NEW d \in Weekdays, NEW m \in Nat, NEW k \in Nat, m < k, k <= n + 1
               PROVE  [day |-> d, from |-> m, to |-> k] \in Picks
    OBVIOUS
  <2>1. m \in TimeRows /\ k - 1 \in TimeRows /\ m <= k - 1 /\ (k - 1) + 1 = k
    BY <1>1
  <2>. QED
    BY <2>1, RangeIsPick
<1>4. q = left \/ q = right
  BY DEF Remains
<1>5. q.from < q.to
  BY DEF Remains
<1>6. CASE q = left
  <2>1. /\ q.day = p.day /\ q.from = p.from /\ q.to = Max({p.from, r.from})
        /\ q = [day |-> q.day, from |-> q.from, to |-> q.to]
    BY <1>2, <1>6
  <2>2. q.to = r.from
    BY <1>2, <1>5, <2>1, PairOfRows, SMTT(30)
  <2>3. q.to <= p.to /\ q.to <= n + 1 /\ q.to \in Nat
    BY <1>1, <1>2, <2>2
  <2>. QED
    BY <1>2, <1>3, <1>5, <2>1, <2>3
<1>7. CASE q = right
  <2>1. /\ q.day = p.day /\ q.to = p.to /\ q.from = Min({p.to, r.to})
        /\ q = [day |-> q.day, from |-> q.from, to |-> q.to]
    BY <1>2, <1>7
  <2>2. q.from = r.to
    BY <1>2, <1>5, <2>1, PairOfRows
  <2>. QED
    BY <1>2, <1>3, <1>5, <2>1, <2>2
<1>. QED
  BY <1>4, <1>6, <1>7

-----------------------------------------------------------------------------
(* The three ways in which the picker changes the form.                     *)

\* A pick that is new is free: the action property of one step.
FreshPicksFree ==
  \A p \in picked' :
    \/ requested' # Nothing
    \/ \E q \in picked : q.day = p.day /\ q.from <= p.from /\ p.to <= q.to
    \/ /\ \A q \in picked' \ {p} : ~Collide(p, q)
       /\ \A c \in Cells : Contains(p, c) => ~Blocked(c)

\* A step that adds no pick keeps both.
LEMMA NothingPicked ==
  ASSUME ApplyTypeOK, picked' \subseteq picked
  PROVE  picked' \subseteq Picks /\ FreshPicksFree
<1>1. \A p \in picked : p.from \in Nat /\ p.to \in Nat
  BY PicksAreRanges DEF ApplyTypeOK
<1>. QED
  BY <1>1 DEF ApplyTypeOK, FreshPicksFree

LEMMA CommitPicks ==
  ASSUME ApplyTypeOK, NEW a \in Cells, NEW t \in Cells, CommitSlot(BuildSlot(a, t))
  PROVE  picked' \subseteq Picks /\ FreshPicksFree
<1>1. CASE picked' = picked
  BY <1>1, NothingPicked
<1>2. CASE picked' = picked \cup BuildSlot(a, t) /\ BuildSlot(a, t) # {}
  <2>1. PICK p \in BuildSlot(a, t) : TRUE
    BY <1>2
  <2>2. /\ p \in Picks /\ BuildSlot(a, t) = {p}
        /\ \A k \in TimeRows : p.from <= k /\ k < p.to => ~Taken([day |-> p.day, row |-> k])
    BY BuiltSlotIsFree
  <2>3. picked \subseteq Picks
    BY DEF ApplyTypeOK
  <2>4. picked' \subseteq Picks
    BY <1>2, <2>2, <2>3
  <2>5. ASSUME NEW q \in picked
        PROVE  ~Collide(p, q)
    <3> SUFFICES ASSUME Collide(p, q)
                 PROVE  FALSE
      OBVIOUS
    <3> DEFINE k == IF p.from <= q.from THEN q.from ELSE p.from
    <3>1. /\ p.from \in Nat /\ p.to \in Nat /\ p.from < p.to /\ p.from \in TimeRows
          /\ q.from \in Nat /\ q.to \in Nat /\ q.from < q.to /\ q.from \in TimeRows
      BY <2>2, <2>3, <2>5, PicksAreRanges
    <3>2. k \in TimeRows /\ p.from <= k /\ k < p.to /\ q.from <= k /\ k < q.to
          /\ q.day = p.day
      BY <3>1 DEF Collide
    <3> HIDE DEF k
    <3>3. Contains(q, [day |-> p.day, row |-> k])
      BY <3>2 DEF Contains
    <3>. QED
      BY <2>2, <2>5, <3>2, <3>3 DEF Taken
  <2>6. ASSUME NEW c \in Cells, Contains(p, c)
        PROVE  ~Blocked(c)
    <3>1. c = [day |-> p.day, row |-> c.row] /\ c.row \in TimeRows
          /\ p.from <= c.row /\ c.row < p.to
      BY <2>6 DEF Cells, Contains
    <3>. QED
      BY <2>2, <3>1 DEF Taken
  <2>7. \A q \in picked : q.from \in Nat /\ q.to \in Nat
    BY <2>3, PicksAreRanges
  <2>. QED
    BY <1>2, <2>2, <2>4, <2>5, <2>6, <2>7 DEF FreshPicksFree
<1>. QED
  BY <1>1, <1>2 DEF CommitSlot, OnChange, Withdrawn, form

LEMMA CancelPicks ==
  ASSUME ApplyTypeOK, NEW a \in Cells, NEW h \in Cells,
         CancelSlotsInRange(ComputeRange(a, h))
  PROVE  picked' \subseteq Picks /\ FreshPicksFree
<1>1. CASE picked' = picked
  BY <1>1, NothingPicked
<1>2. ASSUME NEW r \in ComputeRange(a, h),
             picked' = UNION {IF Collide(p, r) THEN Remains(p, r) ELSE {p} : p \in picked}
      PROVE  picked' \subseteq Picks /\ FreshPicksFree
  <2>1. r \in Picks /\ picked \subseteq Picks
    BY CancelledRangeIsPick DEF ApplyTypeOK
  <2>2. ASSUME NEW q \in picked'
        PROVE  /\ q \in Picks
               /\ \E p \in picked : p.day = q.day /\ p.from <= q.from /\ q.to <= p.to
    <3>1. PICK p \in picked : q \in IF Collide(p, r) THEN Remains(p, r) ELSE {p}
      BY <1>2, <2>2
    <3>2. CASE Collide(p, r)
      BY <2>1, <3>1, <3>2, RemainsLieWithin
    <3>3. CASE ~Collide(p, r)
      BY <2>1, <3>1, <3>3, PicksAreRanges
    <3>. QED
      BY <3>2, <3>3
  <2>. QED
    BY <2>2 DEF FreshPicksFree
<1>. QED
  BY <1>1, <1>2 DEF CancelSlotsInRange, OnChange, Withdrawn, form

-----------------------------------------------------------------------------
(* What a gesture does to the rest of the state.                            *)

\* The draft keeps its types, and a drag its two ends.
DraftOK ==
  /\ anchor \in Cells \cup {Nothing} /\ hovered \in Cells \cup {Nothing}
  /\ dragging \in BOOLEAN /\ didDrag \in BOOLEAN
  /\ mode \in {"select", "cancel"}
  /\ dragging => anchor # Nothing /\ hovered # Nothing

\* The form either keeps its child and request, or loses the request.
Unclaimed ==
  /\ child' = child /\ childAge' = childAge
  /\ requested' = Nothing \/ UNCHANGED <<requested, picked, asked>>

LEMMA GestureEffect ==
  ASSUME ApplyTypeOK, Gesture
  PROVE  picked' \subseteq Picks /\ FreshPicksFree /\ DraftOK' /\ Unclaimed
         /\ UNCHANGED offers /\ phase' = phase
<1>1. DraftOK /\ Nothing \notin Cells
  BY FormInputs DEF ApplyTypeOK, DraftOK
<1>2. ASSUME NEW c \in Cells, PressMouse(c)
      PROVE  picked' \subseteq Picks /\ FreshPicksFree /\ DraftOK' /\ Unclaimed
             /\ UNCHANGED offers /\ phase' = phase
  <2>1. CASE anchor # Nothing /\ ~dragging /\ CommitSlot(BuildSlot(anchor, c))
    <3>1. anchor \in Cells
      BY <1>1, <2>1 DEF DraftOK
    <3>2. picked' \subseteq Picks /\ FreshPicksFree
      BY <2>1, <3>1, CommitPicks
    <3>. QED
      BY <1>1, <1>2, <2>1, <3>2
      DEF PressMouse, Shown, DraftOK, Unclaimed, CommitSlot, OnChange, Withdrawn, form
  <2>2. CASE BeginDrag(c, IF \E p \in picked : Contains(p, c) THEN "cancel" ELSE "select", TRUE)
    <3>1. picked' \subseteq Picks /\ FreshPicksFree
      BY <2>2, NothingPicked DEF BeginDrag, form
    <3>. QED
      BY <1>1, <1>2, <2>2, <3>1 DEF PressMouse, Shown, DraftOK, Unclaimed, BeginDrag, form
  <2>. QED
    BY <1>2, <2>1, <2>2 DEF PressMouse
<1>3. ASSUME NEW c \in Cells, DragOver(c) \/ EnterCell(c)
      PROVE  picked' \subseteq Picks /\ FreshPicksFree /\ DraftOK' /\ Unclaimed
             /\ UNCHANGED offers /\ phase' = phase
  <2>1. picked' = picked
    BY <1>3 DEF DragOver, EnterCell, form
  <2>2. picked' \subseteq Picks /\ FreshPicksFree
    BY <2>1, NothingPicked
  <2>3. DraftOK'
    BY <1>1, <1>3 DEF DragOver, EnterCell, DraftOK
  <2>. QED
    BY <1>3, <2>2, <2>3 DEF DragOver, EnterCell, Shown, Unclaimed, form
<1>4. ASSUME NEW c \in Cells, TapCell(c)
      PROVE  picked' \subseteq Picks /\ FreshPicksFree /\ DraftOK' /\ Unclaimed
             /\ UNCHANGED offers /\ phase' = phase
  <2>1. CASE anchor # Nothing /\ mode = "cancel" /\ CancelSlotsInRange(ComputeRange(anchor, c))
    <3>1. anchor \in Cells
      BY <1>1, <2>1 DEF DraftOK
    <3>2. picked' \subseteq Picks /\ FreshPicksFree
      BY <2>1, <3>1, CancelPicks
    <3>. QED
      BY <1>1, <1>4, <2>1, <3>2
      DEF TapCell, Shown, DraftOK, Unclaimed, CancelSlotsInRange, ClearDraft, OnChange, Withdrawn, form
  <2>2. CASE anchor # Nothing /\ mode # "cancel" /\ CommitSlot(BuildSlot(anchor, c))
    <3>1. anchor \in Cells
      BY <1>1, <2>2 DEF DraftOK
    <3>2. picked' \subseteq Picks /\ FreshPicksFree
      BY <2>2, <3>1, CommitPicks
    <3>. QED
      BY <1>1, <1>4, <2>2, <3>2
      DEF TapCell, Shown, DraftOK, Unclaimed, CommitSlot, OnChange, Withdrawn, form
  <2>3. CASE anchor = Nothing /\ CancelSlotsInRange(ComputeRange(c, c))
    <3>1. picked' \subseteq Picks /\ FreshPicksFree
      BY <2>3, CancelPicks
    <3>. QED
      BY <1>1, <1>4, <2>3, <3>1
      DEF TapCell, Shown, DraftOK, Unclaimed, CancelSlotsInRange, ClearDraft, OnChange, Withdrawn, form
  <2>4. CASE anchor = Nothing /\ mode' = "select" /\ anchor' = c /\ hovered' = c
             /\ UNCHANGED <<form, dragging, didDrag>>
    <3>1. picked' \subseteq Picks /\ FreshPicksFree
      BY <2>4, NothingPicked DEF form
    <3>. QED
      BY <1>1, <1>4, <2>4, <3>1 DEF TapCell, Shown, DraftOK, Unclaimed, form
  <2>. QED
    BY <1>4, <2>1, <2>2, <2>3, <2>4 DEF TapCell
<1>5. ASSUME NEW p \in picked, RemoveSlot(p)
      PROVE  picked' \subseteq Picks /\ FreshPicksFree /\ DraftOK' /\ Unclaimed
             /\ UNCHANGED offers /\ phase' = phase
  <2>1. picked' \subseteq Picks /\ FreshPicksFree
    BY <1>5, NothingPicked DEF RemoveSlot, OnChange
  <2>. QED
    BY <1>5, <2>1 DEF RemoveSlot, OnChange, Withdrawn, Shown, ClearDraft, DraftOK, Unclaimed
<1>6. ASSUME NEW c \in Cells, PressEnter(c)
      PROVE  picked' \subseteq Picks /\ FreshPicksFree /\ DraftOK' /\ Unclaimed
             /\ UNCHANGED offers /\ phase' = phase
  <2>1. CASE \E p \in picked : RemoveSlot(p)
    BY <1>5, <2>1
  <2>2. CASE Shown /\ anchor # Nothing /\ CommitSlot(BuildSlot(anchor, c))
    <3>1. anchor \in Cells
      BY <1>1, <2>2 DEF DraftOK
    <3>2. picked' \subseteq Picks /\ FreshPicksFree
      BY <2>2, <3>1, CommitPicks
    <3>. QED
      BY <1>1, <2>2, <3>2 DEF Shown, DraftOK, Unclaimed, CommitSlot, OnChange, Withdrawn, form
  <2>3. CASE Shown /\ BeginDrag(c, "select", FALSE)
    <3>1. picked' \subseteq Picks /\ FreshPicksFree
      BY <2>3, NothingPicked DEF BeginDrag, form
    <3>. QED
      BY <1>1, <2>3, <3>1 DEF Shown, DraftOK, Unclaimed, BeginDrag, form
  <2>. QED
    BY <1>6, <2>1, <2>2, <2>3 DEF PressEnter
<1>7. ASSUME ReleaseMouse
      PROVE  picked' \subseteq Picks /\ FreshPicksFree /\ DraftOK' /\ Unclaimed
             /\ UNCHANGED offers /\ phase' = phase
  <2>1. anchor \in Cells /\ hovered \in Cells
    BY <1>1, <1>7 DEF ReleaseMouse, DraftOK
  <2>2. CASE CancelSlotsInRange(ComputeRange(anchor, hovered))
    <3>1. picked' \subseteq Picks /\ FreshPicksFree
      BY <2>1, <2>2, CancelPicks
    <3>. QED
      BY <1>1, <1>7, <2>2, <3>1
      DEF ReleaseMouse, Shown, DraftOK, Unclaimed, CancelSlotsInRange, ClearDraft, OnChange, Withdrawn, form
  <2>3. CASE CommitSlot(BuildSlot(anchor, hovered))
    <3>1. picked' \subseteq Picks /\ FreshPicksFree
      BY <2>1, <2>3, CommitPicks
    <3>. QED
      BY <1>1, <1>7, <2>3, <3>1
      DEF ReleaseMouse, Shown, DraftOK, Unclaimed, CommitSlot, OnChange, Withdrawn, form
  <2>4. CASE dragging' = FALSE /\ UNCHANGED <<form, anchor, hovered, mode, didDrag>>
    <3>1. picked' \subseteq Picks /\ FreshPicksFree
      BY <2>4, NothingPicked DEF form
    <3>. QED
      BY <1>1, <1>7, <2>4, <3>1 DEF ReleaseMouse, Shown, DraftOK, Unclaimed, form
  <2>5. \/ mode = "cancel"
        \/ mode = "select" /\ didDrag
        \/ ~(mode = "cancel") /\ ~(mode = "select" /\ didDrag)
    OBVIOUS
  <2>. QED
    BY <1>7, <2>2, <2>3, <2>4, <2>5 DEF ReleaseMouse
<1>8. ASSUME PointerCancel \/ DropDraft
      PROVE  picked' \subseteq Picks /\ FreshPicksFree /\ DraftOK' /\ Unclaimed
             /\ UNCHANGED offers /\ phase' = phase
  <2>1. picked' \subseteq Picks /\ FreshPicksFree
    BY <1>8, NothingPicked DEF PointerCancel, DropDraft, form
  <2>2. DraftOK'
    BY <1>1, <1>8 DEF PointerCancel, DropDraft, ClearDraft, DraftOK
  <2>. QED
    BY <1>8, <2>1, <2>2 DEF PointerCancel, DropDraft, Shown, Unclaimed, form
<1>. QED
  BY <1>2, <1>3, <1>4, <1>5, <1>6, <1>7, <1>8 DEF Gesture

\* What the page does: the draft stays or is dropped, the picks are those there
\* were, none, or the times of a class that is asked for.
LEMMA PageEffect ==
  ASSUME ApplyTypeOK, Page
  PROVE  ApplyTypeOK' /\ FreshPicksFree
<1>1. ASSUME NEW k \in Kids, NEW age \in AgesOf[k], SelectChild(k, age)
      PROVE  ApplyTypeOK' /\ FreshPicksFree
  <2>1. picked' \subseteq Picks /\ FreshPicksFree
    <3>1. picked' \subseteq picked
      BY <1>1 DEF SelectChild
    <3>. QED
      BY <3>1, NothingPicked
  <2>. QED
    BY <1>1, <2>1 DEF SelectChild, Withdrawn, ApplyTypeOK, offers, draft
<1>2. ASSUME NEW g \in Classes, JoinGroup(g)
      PROVE  ApplyTypeOK' /\ FreshPicksFree
  <2>1. joinable[g].slots \subseteq Picks /\ g # Nothing
    BY <1>2, FormInputs DEF JoinGroup, MatchingGroups, ApplyTypeOK, OfferLists
  <2>. QED
    BY <1>2, <2>1 DEF JoinGroup, Shown, ApplyTypeOK, FreshPicksFree, offers, draft
<1>3. ASSUME CancelJoinRequest
      PROVE  ApplyTypeOK' /\ FreshPicksFree
  BY <1>3 DEF CancelJoinRequest, Withdrawn, Shown, ApplyTypeOK, FreshPicksFree, offers, draft
<1>4. ASSUME HandleSubmit \/ Failed \/ Refetch
      PROVE  ApplyTypeOK' /\ FreshPicksFree
  <2>1. FreshPicksFree
    BY <1>4, NothingPicked DEF HandleSubmit, Failed, Refetch, form
  <2>. QED
    BY <1>4, <2>1 DEF HandleSubmit, Failed, Refetch, ApplyTypeOK, form, offers, draft
<1>5. ASSUME Applied \/ ApplyAgain
      PROVE  ApplyTypeOK' /\ FreshPicksFree
  <2>1. picked' \subseteq Picks /\ FreshPicksFree
    BY <1>5 DEF Applied, ApplyAgain, FormForParent, Withdrawn, FreshPicksFree
  <2>2. child' = Nothing /\ childAge' = DefaultAge /\ requested' = Nothing
        /\ UNCHANGED offers /\ phase' \in {"form", "done"}
    BY <1>5 DEF Applied, ApplyAgain, FormForParent, Withdrawn
  <2>3. DraftOK'
    <3>1. DraftOK
      BY DEF ApplyTypeOK, DraftOK
    <3>2. CASE ClearDraft
      BY <3>2 DEF ClearDraft, DraftOK
    <3>3. CASE UNCHANGED draft
      BY <3>1, <3>3 DEF DraftOK, draft
    <3>. QED
      BY <1>5, <3>2, <3>3 DEF Applied, ApplyAgain
  <2>4. joinable' \in OfferLists /\ confirmed' \subseteq ClosedTimes
    BY <2>2 DEF offers, ApplyTypeOK
  <2>. QED
    BY <2>1, <2>2, <2>3, <2>4 DEF ApplyTypeOK, DraftOK
<1>. QED
  BY <1>1, <1>2, <1>3, <1>4, <1>5 DEF Page

-----------------------------------------------------------------------------
(* The theorems.                                                            *)

LEMMA FormStep ==
  ASSUME ApplyTypeOK, [ApplyNext]_applyVars
  PROVE  ApplyTypeOK' /\ (ApplyNext => FreshPicksFree)
<1>1. CASE Gesture
  <2>1. picked' \subseteq Picks /\ FreshPicksFree /\ DraftOK' /\ Unclaimed
        /\ UNCHANGED offers /\ phase' = phase
    BY <1>1, GestureEffect
  <2>. QED
    BY <2>1 DEF ApplyTypeOK, DraftOK, Unclaimed, offers
<1>2. CASE Page
  BY <1>2, PageEffect
<1>3. CASE UNCHANGED applyVars
  <2>1. picked' = picked
    BY <1>3 DEF applyVars
  <2>2. FreshPicksFree
    BY <2>1, NothingPicked
  <2>. QED
    BY <1>3, <2>2 DEF ApplyTypeOK, applyVars
<1>. QED
  BY <1>1, <1>2, <1>3 DEF ApplyNext

\* The form and the picker's draft keep their types in every reachable state,
\* and a drag under way has both its ends.
THEOREM FormTypeCorrect == ApplySpec => []ApplyTypeOK
<1>1. ApplyInit => ApplyTypeOK
  <2> SUFFICES ASSUME ApplyInit
               PROVE  ApplyTypeOK
    OBVIOUS
  <2>1. joinable \in OfferLists
    <3>1. [g \in Classes |-> Nothing] \in
            [Classes -> {Nothing} \cup UNION {ClassOffers[g] : g \in Classes}]
      OBVIOUS
    <3>. QED
      BY <3>1 DEF ApplyInit, OfferLists
  <2>. QED
    BY <2>1 DEF ApplyInit, ApplyTypeOK
<1>2. ApplyTypeOK /\ [ApplyNext]_applyVars => ApplyTypeOK'
  BY FormStep
<1>. QED
  BY <1>1, <1>2, PTL DEF ApplySpec

\* For any grid, any children and any classes: no sequence of drags, taps, keys
\* and refetches makes buildSlot return a time that is closed, or one that
\* collides with another pick.
THEOREM NewPicksAreAlwaysFree == ApplySpec => NewPicksAreFree
<1>1. ApplyTypeOK /\ [ApplyNext]_applyVars => [FreshPicksFree]_applyVars
  BY FormStep
<1>. QED
  BY <1>1, FormTypeCorrect, PTL DEF ApplySpec, NewPicksAreFree, FreshPicksFree

\* The request and the times that go with it leave the form together, whatever
\* later refetches bring: what is sent is never a request for one group with the
\* times of another, nor for a child of an age the group was not offered to.
THEOREM JoinRequestsAlwaysFit == ApplySpec => []JoinRequestFits
<1>1. ApplyInit => JoinRequestFits
  BY DEF ApplyInit, JoinRequestFits
<1>2. ApplyTypeOK /\ JoinRequestFits /\ [ApplyNext]_applyVars => JoinRequestFits'
  <2> SUFFICES ASSUME ApplyTypeOK, JoinRequestFits, [ApplyNext]_applyVars
               PROVE  JoinRequestFits'
    OBVIOUS
  <2>1. CASE Unclaimed
    BY <2>1 DEF Unclaimed, JoinRequestFits
  <2>2. CASE Gesture
    BY <2>1, <2>2, GestureEffect
  <2>3. ASSUME NEW k \in Kids, NEW age \in AgesOf[k], SelectChild(k, age)
        PROVE  JoinRequestFits'
    BY <2>3 DEF SelectChild, Withdrawn, JoinRequestFits
  <2>4. ASSUME NEW g \in Classes, JoinGroup(g)
        PROVE  JoinRequestFits'
    BY <2>4 DEF JoinGroup, MatchingGroups, JoinRequestFits
  <2>5. CASE HandleSubmit \/ Failed \/ Refetch \/ UNCHANGED applyVars
    BY <2>1, <2>5 DEF HandleSubmit, Failed, Refetch, Unclaimed, form, applyVars
  <2>6. CASE CancelJoinRequest \/ Applied \/ ApplyAgain
    BY <2>6 DEF CancelJoinRequest, Applied, ApplyAgain, FormForParent, Withdrawn,
                JoinRequestFits
  <2>. QED
    BY <2>2, <2>3, <2>4, <2>5, <2>6 DEF ApplyNext, Page
<1>. QED
  BY <1>1, <1>2, FormTypeCorrect, PTL DEF ApplySpec

-----------------------------------------------------------------------------
(* "My children": the browser's types, and what its cached list can be.    *)

ListRecords == [known : BOOLEAN, kids : [ChildIds -> Details \cup {NoOne}]]

CallRecords ==
  [stage : {"free", "sent", "served", "settling"}, kind : {"create", "update", "delete"},
   c : ChildIds \cup {NoOne}, is : Details \cup {NoOne},
   as : Families \cup {NoOne}, old : ListRecords, here : BOOLEAN, resets : BOOLEAN]

FetchRecords ==
  [stage : {"idle", "asked", "read"}, as : Families \cup {NoOne}, data : ListRecords,
   overtaken : BOOLEAN]

LoginRecords == [as : Families, to : {"apply", "stay"}]

Pending(o) == o.stage \in {"sent", "served"}

\* A mutation under way is about a child, and a save about its details.
CallMeant(o) ==
  Pending(o) => o.c \in ChildIds /\ (o.kind # "delete" => o.is \in Details)

PagesTyped ==
  /\ stored \in [ChildIds -> [owner : Families, is : Details] \cup {NoOne}]
  /\ cookie \in Families \cup {NoOne} /\ adminIn \in BOOLEAN /\ fresh \in BOOLEAN
  /\ screen \in {"home", "children", "apply", "admin"}
  /\ modal \in {"shut", "store", "param", "adminParam"}
  /\ login \in LoginRecords \cup {NoOne}
  /\ editing \in ChildIds \cup {NoOne} /\ late \in BOOLEAN /\ moves \in Nat

CallsTyped ==
  /\ calls \in [Writes -> CallRecords]
  /\ \A w \in Writes : CallMeant(calls[w])

ListsTyped == list \in ListRecords /\ fetch \in FetchRecords /\ CallsTyped

\* No save or deletion is under way.
Quiet == \A w \in Writes : ~Pending(calls[w])

\* While no mutation is under way, a fresh list that is no late answer is the stored
\* list of one account...
FreshIsStored == Quiet /\ fresh /\ ~late => \E p \in Families : list = KidsOf(p)

\* ...and what a refetch has read that no invalidation has overtaken is still
\* stored: the rows change only while a mutation is under way, and each end of one
\* asks again or overtakes the refetch.
ReadIsStored ==
  Quiet /\ fetch.stage = "read" /\ ~fetch.overtaken =>
    fetch.as \in Families /\ fetch.data = KidsOf(fetch.as)

BrowserInv == PagesTyped /\ ListsTyped /\ FreshIsStored /\ ReadIsStored

-----------------------------------------------------------------------------
(* Lists and calls.                                                        *)

LEMMA KidsOfTyped ==
  ASSUME PagesTyped, NEW p
  PROVE  KidsOf(p) \in ListRecords
<1>1. \A c \in ChildIds :
        (IF stored[c] # NoOne /\ stored[c].owner = p THEN stored[c].is ELSE NoOne)
          \in Details \cup {NoOne}
  BY DEF PagesTyped
<1>. QED
  BY <1>1 DEF KidsOf, ListRecords

LEMMA WithTyped ==
  ASSUME list \in ListRecords, NEW c \in ChildIds, NEW is \in Details \cup {NoOne}
  PROVE  With(c, is) \in ListRecords
BY DEF With, ListRecords

LEMMA EmptyTyped ==
  NoList \in ListRecords /\ NoFetch \in FetchRecords /\ NoCall \in CallRecords
BY DEF NoList, NoFetch, NoCall, ListRecords, FetchRecords, CallRecords, Details

LEMMA AskedTyped ==
  ASSUME NEW p \in Families \cup {NoOne}
  PROVE  Asked(p) \in FetchRecords /\ Asked(p).stage # "read"
<1>1. NoList \in ListRecords
  BY EmptyTyped
<1>. QED
  BY <1>1 DEF Asked, NoFetch, FetchRecords

LEMMA NoFetchUnread == NoFetch \in FetchRecords /\ NoFetch.stage # "read"
BY EmptyTyped DEF NoFetch

LEMMA NoCallMeant == CallMeant(NoCall) /\ ~Pending(NoCall)
BY DEF CallMeant, Pending, NoCall

\* A call that is over, or keeps its mutation and only forgets its page.
Eases(o, q) ==
  /\ q \in CallRecords
  /\ \/ q = NoCall /\ ~Pending(o)
     \/ q \in {o, [o EXCEPT !.here = FALSE, !.resets = FALSE]}

LEMMA EasedCalls ==
  ASSUME CallsTyped, calls' \in [Writes -> CallRecords],
         \A w \in Writes : Eases(calls[w], calls'[w])
  PROVE  CallsTyped' /\ (Quiet' <=> Quiet)
<1>1. ASSUME NEW w \in Writes
      PROVE  CallMeant(calls'[w]) /\ (Pending(calls'[w]) <=> Pending(calls[w]))
  <2>1. calls[w] \in CallRecords /\ CallMeant(calls[w]) /\ Eases(calls[w], calls'[w])
    BY DEF CallsTyped
  <2>2. CASE calls'[w] = NoCall /\ ~Pending(calls[w])
    BY <2>2, NoCallMeant
  <2>3. CASE calls'[w] = calls[w]
    BY <2>1, <2>3
  <2>4. CASE calls'[w] = [calls[w] EXCEPT !.here = FALSE, !.resets = FALSE]
    BY <2>1, <2>4 DEF CallRecords, CallMeant, Pending
  <2>. QED
    BY <2>1, <2>2, <2>3, <2>4 DEF Eases
<1>. QED
  BY <1>1 DEF CallsTyped, Quiet

\* Leaving a page neither starts nor ends a mutation.
LEMMA LeftKeepsCalls ==
  ASSUME CallsTyped, Left
  PROVE  CallsTyped' /\ (Quiet' <=> Quiet)
<1>1. ASSUME NEW w \in Writes
      PROVE  Eases(calls[w], calls'[w])
  <2>1. calls[w] \in CallRecords
    BY DEF CallsTyped
  <2>2. calls'[w] = IF calls[w].stage = "settling" THEN NoCall
                    ELSE [calls[w] EXCEPT !.here = FALSE, !.resets = FALSE]
    BY DEF Left
  <2>. QED
    BY <2>1, <2>2, EmptyTyped DEF Eases, Pending, CallRecords
<1>2. calls' \in [Writes -> CallRecords]
  BY <1>1 DEF Left, Eases
<1>. QED
  BY <1>1, <1>2, EasedCalls

\* Neither does the end of the refetch that some of them wait for.
LEMMA ReleasedKeepsCalls ==
  ASSUME CallsTyped
  PROVE  /\ Released \in [Writes -> CallRecords]
         /\ \A w \in Writes : Eases(calls[w], Released[w])
<1>1. ASSUME NEW w \in Writes
      PROVE  Eases(calls[w], Released[w])
  <2>1. calls[w] \in CallRecords
    BY DEF CallsTyped
  <2>2. Released[w] = IF calls[w].stage = "settling" THEN NoCall ELSE calls[w]
    BY DEF Released, Settling
  <2>. QED
    BY <2>1, <2>2, EmptyTyped DEF Eases, Pending
<1>2. Released \in [Writes -> CallRecords]
  BY <1>1 DEF Released, Eases
<1>. QED
  BY <1>1, <1>2

LEMMA FormReleasedTyped ==
  ASSUME PagesTyped
  PROVE  FormReleased \in ChildIds \cup {NoOne}
BY DEF FormReleased, PagesTyped

\* One call gets another record.
LEMMA OneCallChanges ==
  ASSUME CallsTyped, NEW w \in Writes, NEW r \in CallRecords, CallMeant(r),
         calls' = [calls EXCEPT ![w] = r]
  PROVE  CallsTyped' /\ calls'[w] = r
<1>1. calls' \in [Writes -> CallRecords] /\ calls'[w] = r
  BY DEF CallsTyped
<1>2. \A d \in Writes : CallMeant(calls'[d])
  BY DEF CallsTyped
<1>. QED
  BY <1>1, <1>2 DEF CallsTyped

LEMMA SameKids ==
  ASSUME stored' = stored
  PROVE  \A p : KidsOf(p)' = KidsOf(p)
BY DEF KidsOf

\* A step of the pages: the rows and the list stay, the list may get stale, a
\* refetch may be asked for or dropped.
LEMMA PagesStep ==
  ASSUME BrowserInv, UNCHANGED <<stored, list, late>>,
         fresh' = fresh \/ fresh' = FALSE,
         Left \/ calls' = calls,
         fetch' = fetch \/ (fetch' \in FetchRecords /\ fetch'.stage # "read")
  PROVE  ListsTyped' /\ FreshIsStored' /\ ReadIsStored'
<1>1. CallsTyped' /\ (Quiet' <=> Quiet)
  <2>1. CASE Left
    BY <2>1, LeftKeepsCalls DEF BrowserInv, ListsTyped
  <2>2. CASE calls' = calls
    BY <2>2 DEF BrowserInv, ListsTyped, CallsTyped, Quiet
  <2>. QED
    BY <2>1, <2>2
<1>2. ListsTyped'
  BY <1>1 DEF BrowserInv, ListsTyped
<1>3. FreshIsStored'
  BY <1>1, SameKids DEF BrowserInv, FreshIsStored
<1>4. ReadIsStored'
  BY <1>1, SameKids DEF BrowserInv, ReadIsStored
<1>. QED
  BY <1>2, <1>3, <1>4

-----------------------------------------------------------------------------
(* The pages keep the invariant.                                           *)

LEMMA MountedAsks ==
  ASSUME NEW s, NEW p \in Families \cup {NoOne}, Mounted(s, p)
  PROVE  fetch' = fetch \/ (fetch' \in FetchRecords /\ fetch'.stage # "read")
BY AskedTyped DEF Mounted

LEMMA VisitKeeps ==
  ASSUME BrowserInv, NEW s \in {"home", "children", "apply", "admin"}, Visit(s)
  PROVE  BrowserInv'
<1>1. /\ Rendered(s)[1] \in {"home", "children", "apply", "admin"}
      /\ Rendered(s)[2] \in {"shut", "store", "param", "adminParam"}
  BY DEF Rendered
<1>2. PagesTyped'
  BY <1>1 DEF Visit, BrowserInv, PagesTyped
<1>3. fetch' = fetch \/ (fetch' \in FetchRecords /\ fetch'.stage # "read")
  BY MountedAsks DEF Visit, BrowserInv, PagesTyped
<1>4. ListsTyped' /\ FreshIsStored' /\ ReadIsStored'
  BY <1>3, PagesStep DEF Visit
<1>. QED
  BY <1>2, <1>4 DEF BrowserInv

LEMMA SubmitLoginKeeps ==
  ASSUME BrowserInv, NEW p \in Families, SubmitLogin(p)
  PROVE  BrowserInv'
<1>1. login' \in LoginRecords
  BY DEF SubmitLogin, LoginRecords
<1>2. PagesTyped'
  BY <1>1 DEF SubmitLogin, BrowserInv, PagesTyped
<1>3. ListsTyped' /\ FreshIsStored' /\ ReadIsStored'
  BY PagesStep DEF SubmitLogin
<1>. QED
  BY <1>2, <1>3 DEF BrowserInv

LEMMA LoginAnsweredKeeps ==
  ASSUME BrowserInv, LoginAnswered
  PROVE  BrowserInv'
<1>1. login.as \in Families
  BY DEF LoginAnswered, BrowserInv, PagesTyped, LoginRecords
<1>2. cookie' \in Families \cup {NoOne}
  BY <1>1 DEF LoginAnswered, BrowserInv, PagesTyped
<1>3. PagesTyped'
  BY <1>2 DEF LoginAnswered, BrowserInv, PagesTyped
<1>4. fetch' = fetch \/ (fetch' \in FetchRecords /\ fetch'.stage # "read")
  BY <1>2, MountedAsks DEF LoginAnswered
<1>5. Left \/ calls' = calls
  BY DEF LoginAnswered
<1>6. UNCHANGED <<stored, list, fresh, late>>
  BY DEF LoginAnswered
<1>7. ListsTyped' /\ FreshIsStored' /\ ReadIsStored'
  BY <1>4, <1>5, <1>6, PagesStep
<1>. QED
  BY <1>3, <1>7 DEF BrowserInv

\* The site is loaded anew: nothing of the old page is left.
LEMMA LoadLoggedInKeeps ==
  ASSUME BrowserInv, NEW p \in Families, LoadLoggedIn(p)
  PROVE  BrowserInv'
<1>1. PagesTyped'
  <2>1. moves' \in Nat
    BY DEF LoadLoggedIn, BrowserInv, PagesTyped
  <2>2. /\ UNCHANGED <<stored, adminIn>>
        /\ cookie' = p /\ screen' = "apply" /\ modal' = "shut" /\ login' = NoOne
        /\ editing' = NoOne /\ fresh' = FALSE /\ late' = FALSE
    BY DEF LoadLoggedIn
  <2>. QED
    BY <2>1, <2>2 DEF BrowserInv, PagesTyped
<1>2. fetch' \in FetchRecords /\ fetch'.stage # "read"
  BY AskedTyped DEF LoadLoggedIn
<1>3. CallsTyped'
  BY EmptyTyped, NoCallMeant DEF LoadLoggedIn, CallsTyped
<1>4. ListsTyped'
  BY <1>2, <1>3, EmptyTyped DEF LoadLoggedIn, ListsTyped
<1>5. FreshIsStored' /\ ReadIsStored'
  BY <1>2 DEF LoadLoggedIn, FreshIsStored, ReadIsStored
<1>. QED
  BY <1>1, <1>4, <1>5 DEF BrowserInv

\* The header, the dialog, the sessions, the form and the minute of staleTime.
LEMMA HeaderKeeps ==
  ASSUME BrowserInv,
         \/ OpenLogin \/ CloseLogin \/ Logout \/ SessionExpires \/ AdminSession
         \/ CancelEdit \/ MinutePasses
         \/ \E c \in ChildIds : StartEdit(c)
  PROVE  BrowserInv'
<1> DEFINE Keeps ==
  /\ UNCHANGED <<stored, list, fetch, late>>
  /\ fresh' = fresh \/ fresh' = FALSE
  /\ Left \/ calls' = calls
<1>1. CASE OpenLogin \/ CloseLogin
  <2>1. PagesTyped'
    BY <1>1 DEF OpenLogin, CloseLogin, BrowserInv, PagesTyped
  <2>2. Keeps
    BY <1>1 DEF OpenLogin, CloseLogin
  <2>. QED
    BY <2>1, <2>2, PagesStep DEF BrowserInv
<1>2. CASE Logout \/ SessionExpires \/ AdminSession
  <2>1. PagesTyped'
    BY <1>2 DEF Logout, SessionExpires, AdminSession, BrowserInv, PagesTyped
  <2>2. Keeps
    BY <1>2 DEF Logout, SessionExpires, AdminSession
  <2>. QED
    BY <2>1, <2>2, PagesStep DEF BrowserInv
<1>3. CASE \/ CancelEdit \/ MinutePasses
           \/ \E c \in ChildIds : StartEdit(c)
  <2>1. PagesTyped'
    BY <1>3 DEF CancelEdit, MinutePasses, StartEdit, pages, BrowserInv, PagesTyped
  <2>2. Keeps
    BY <1>3 DEF CancelEdit, MinutePasses, StartEdit
  <2>. QED
    BY <2>1, <2>2, PagesStep DEF BrowserInv
<1>. QED
  BY <1>1, <1>2, <1>3

\* The window gets the focus back.
LEMMA RefocusKeeps ==
  ASSUME BrowserInv, Refocus
  PROVE  BrowserInv'
<1>1. PagesTyped'
  BY DEF Refocus, pages, BrowserInv, PagesTyped
<1>2. fetch' = fetch \/ (fetch' \in FetchRecords /\ fetch'.stage # "read")
  BY MountedAsks DEF Refocus, BrowserInv, PagesTyped
<1>3. ListsTyped' /\ FreshIsStored' /\ ReadIsStored'
  BY <1>2, PagesStep DEF Refocus
<1>. QED
  BY <1>1, <1>3 DEF BrowserInv

\* The list is thrown away.
LEMMA ForgetKeeps ==
  ASSUME BrowserInv, Forget
  PROVE  BrowserInv'
<1>1. PagesTyped'
  BY DEF Forget, pages, BrowserInv, PagesTyped
<1>2. ListsTyped'
  BY EmptyTyped DEF Forget, BrowserInv, ListsTyped, CallsTyped
<1>3. FreshIsStored' /\ ReadIsStored'
  BY DEF Forget, FreshIsStored, ReadIsStored
<1>. QED
  BY <1>1, <1>2, <1>3 DEF BrowserInv

-----------------------------------------------------------------------------
(* Mutations and refetches keep it.                                        *)

\* A mutation is under way from here on: nothing is claimed of the list.
LEMMA MutateKeeps ==
  ASSUME BrowserInv, NEW kind \in {"create", "update", "delete"},
         NEW c \in ChildIds, NEW is \in Details \cup {NoOne},
         kind # "delete" => is \in Details,
         Mutate(kind, c, is)
  PROVE  BrowserInv'
<1> DEFINE r == [stage |-> "sent", kind |-> kind, c |-> c, is |-> is,
                 as |-> cookie, old |-> list, here |-> TRUE,
                 resets |-> kind # "delete" \/ editing = c]
           w == moves + 1
<1>1. PagesTyped' /\ w \in Writes
  BY FormReleasedTyped, MovesBound
  DEF Mutate, pages, BrowserInv, PagesTyped, ListsTyped, ListRecords, Writes
<1>2. r \in CallRecords /\ CallMeant(r) /\ Pending(r)
  BY DEF BrowserInv, PagesTyped, ListsTyped, CallRecords, CallMeant, Pending
<1>3. calls' = [Released EXCEPT ![w] = r]
  BY DEF Mutate
<1> HIDE DEF r, w
<1>4. /\ Released \in [Writes -> CallRecords]
      /\ \A v \in Writes : Eases(calls[v], Released[v])
  BY ReleasedKeepsCalls DEF BrowserInv, ListsTyped
<1>5. calls' \in [Writes -> CallRecords] /\ calls'[w] = r
  BY <1>1, <1>2, <1>3, <1>4
<1>6. ASSUME NEW v \in Writes
      PROVE  CallMeant(calls'[v])
  <2>1. CASE v = w
    BY <1>2, <1>5, <2>1
  <2>2. CASE v # w
    <3>1. calls'[v] = Released[v] /\ Released[v] \in {NoCall, calls[v]}
      BY <1>3, <1>4, <2>2 DEF Released
    <3>2. CallMeant(calls[v])
      BY DEF BrowserInv, ListsTyped, CallsTyped
    <3>. QED
      BY <3>1, <3>2, NoCallMeant
  <2>. QED
    BY <2>1, <2>2
<1>7. CallsTyped' /\ ~Quiet'
  BY <1>1, <1>2, <1>5, <1>6 DEF CallsTyped, Quiet
<1>8. ListsTyped'
  BY <1>7, WithTyped, EmptyTyped DEF Mutate, BrowserInv, ListsTyped
<1>. QED
  BY <1>1, <1>7, <1>8 DEF BrowserInv, FreshIsStored, ReadIsStored

LEMMA SubmitKeeps ==
  ASSUME BrowserInv, NEW is \in Details, Submit(is)
  PROVE  BrowserInv'
<1>1. CASE editing # NoOne /\ Mutate("update", editing, is)
  BY <1>1, MutateKeeps DEF BrowserInv, PagesTyped
<1>2. CASE \E c \in ChildIds : Mutate("create", c, is)
  BY <1>2, MutateKeeps
<1>. QED
  BY <1>1, <1>2 DEF Submit

LEMMA HandleDeleteKeeps ==
  ASSUME BrowserInv, NEW c \in ChildIds, HandleDelete(c)
  PROVE  BrowserInv'
BY MutateKeeps DEF HandleDelete

\* The rows change, and the mutation is still under way.
LEMMA ServeChildKeeps ==
  ASSUME BrowserInv, NEW w \in Writes, ServeChild(w)
  PROVE  BrowserInv'
<1> DEFINE o == calls[w]
           r == [o EXCEPT !.stage = "served"]
<1>1. /\ o \in CallRecords /\ CallMeant(o) /\ o.stage = "sent"
      /\ o.as # NoOne
  BY DEF ServeChild, BrowserInv, ListsTyped, CallsTyped
<1>2. r \in CallRecords /\ CallMeant(r) /\ Pending(r)
  BY <1>1 DEF CallRecords, CallMeant, Pending
<1>3. calls' = [calls EXCEPT ![w] = r]
  BY DEF ServeChild, BrowserInv, ListsTyped, CallsTyped
<1>4. stored' = [stored EXCEPT ![o.c] = IF o.kind = "delete" THEN NoOne
                                        ELSE [owner |-> o.as, is |-> o.is]]
  BY DEF ServeChild
<1>5. (IF o.kind = "delete" THEN NoOne ELSE [owner |-> o.as, is |-> o.is])
        \in [owner : Families, is : Details] \cup {NoOne}
  BY <1>1 DEF CallRecords, CallMeant, Pending
<1> HIDE DEF o, r
<1>6. PagesTyped'
  <2> DEFINE row == IF o.kind = "delete" THEN NoOne
                    ELSE [owner |-> o.as, is |-> o.is]
  <2>1. stored' = [stored EXCEPT ![o.c] = row]
    BY <1>4
  <2>2. row \in [owner : Families, is : Details] \cup {NoOne}
    BY <1>5
  <2> HIDE DEF row
  <2>3. stored' \in [ChildIds -> [owner : Families, is : Details] \cup {NoOne}]
    BY <2>1, <2>2 DEF BrowserInv, PagesTyped
  <2>. QED
    BY <2>3 DEF ServeChild, pages, BrowserInv, PagesTyped
<1>7. CallsTyped' /\ calls'[w] = r
  BY <1>2, <1>3, OneCallChanges DEF BrowserInv, ListsTyped
<1>8. ~Quiet'
  BY <1>2, <1>7 DEF Quiet
<1>9. ListsTyped'
  BY <1>7 DEF ServeChild, BrowserInv, ListsTyped
<1>. QED
  BY <1>6, <1>8, <1>9 DEF BrowserInv, FreshIsStored, ReadIsStored

\* A refetch that has been read is overtaken unless it begins anew.
LEMMA InvalidatedAsks ==
  ASSUME PagesTyped, fetch \in FetchRecords, Invalidated
  PROVE  ~fresh' /\ fetch' \in FetchRecords /\ (fetch'.stage # "read" \/ fetch'.overtaken)
<1>1. CASE fetch' = Asked(cookie)
  BY <1>1, AskedTyped DEF Invalidated, PagesTyped
<1>2. CASE fetch' = [fetch EXCEPT !.overtaken = @ \/ fetch.stage = "read"]
  BY <1>2 DEF Invalidated, FetchRecords
<1>. QED
  BY <1>1, <1>2 DEF Invalidated

\* The end of a mutation: the list is stale, and so is what has been read.
LEMMA EndKeeps ==
  ASSUME BrowserInv, NEW w \in Writes, NEW resets \in BOOLEAN, Settles(w, resets),
         list' \in ListRecords
  PROVE  ListsTyped' /\ FreshIsStored' /\ ReadIsStored'
<1> DEFINE r == IF ~calls[w].here THEN NoCall
                ELSE [NoCall EXCEPT !.stage = "settling", !.kind = calls[w].kind,
                                    !.here = TRUE, !.resets = resets]
<1>1. ~fresh' /\ fetch' \in FetchRecords /\ (fetch'.stage # "read" \/ fetch'.overtaken)
  BY InvalidatedAsks DEF BrowserInv, ListsTyped, Settles
<1>2. calls' = [calls EXCEPT ![w] = r]
  BY DEF Settles
<1>3. calls[w].kind \in {"create", "update", "delete"}
  BY DEF BrowserInv, ListsTyped, CallsTyped, CallRecords
<1>4. NoList \in ListRecords
  BY EmptyTyped
<1>5. r \in CallRecords /\ CallMeant(r)
  <2>1. CASE ~calls[w].here
    BY <2>1, EmptyTyped, NoCallMeant
  <2>2. CASE calls[w].here
    <3> DEFINE q == [stage |-> "settling", kind |-> calls[w].kind, c |-> NoOne, is |-> 0,
                     as |-> NoOne, old |-> NoList, here |-> TRUE, resets |-> resets]
    <3>1. r = q
      BY <2>2 DEF NoCall
    <3>2. 0 \in Details
      BY DEF Details
    <3>3. q \in CallRecords
      BY <1>3, <1>4, <3>2 DEF CallRecords
    <3>4. ~Pending(q)
      BY DEF Pending
    <3> HIDE DEF q, r
    <3>. QED
      BY <3>1, <3>3, <3>4 DEF CallMeant
  <2>. QED
    BY <2>1, <2>2
<1> HIDE DEF r
<1>6. CallsTyped'
  BY <1>2, <1>5, OneCallChanges DEF BrowserInv, ListsTyped
<1>. QED
  BY <1>1, <1>6 DEF ListsTyped, FreshIsStored, ReadIsStored

LEMMA SucceedKeeps ==
  ASSUME BrowserInv, NEW w \in Writes, Succeed(w)
  PROVE  BrowserInv'
<1>1. /\ calls[w] \in CallRecords /\ calls[w].c \in ChildIds
      /\ calls[w].is \in Details \cup {NoOne} /\ calls[w].resets \in BOOLEAN
  BY DEF Succeed, BrowserInv, ListsTyped, CallsTyped, CallMeant, Pending, CallRecords
<1>2. list' \in ListRecords
  BY <1>1, WithTyped DEF Succeed, BrowserInv, ListsTyped
<1>3. PagesTyped'
  BY DEF Succeed, Settles, Invalidated, pages, BrowserInv, PagesTyped
<1>4. Settles(w, calls[w].resets)
  BY DEF Succeed
<1>5. ListsTyped' /\ FreshIsStored' /\ ReadIsStored'
  BY <1>1, <1>2, <1>4, EndKeeps
<1>. QED
  BY <1>3, <1>5 DEF BrowserInv

LEMMA FailKeeps ==
  ASSUME BrowserInv, NEW w \in Writes, Fail(w)
  PROVE  BrowserInv'
<1>1. calls[w].old \in ListRecords
  BY DEF BrowserInv, ListsTyped, CallsTyped, CallRecords
<1>2. list' \in ListRecords
  BY <1>1 DEF Fail, RolledBack, BrowserInv, ListsTyped
<1>3. PagesTyped'
  BY DEF Fail, RolledBack, Settles, Invalidated, pages, BrowserInv, PagesTyped
<1>4. ListsTyped' /\ FreshIsStored' /\ ReadIsStored'
  BY <1>2, EndKeeps DEF Fail
<1>. QED
  BY <1>3, <1>4 DEF BrowserInv

LEMMA ReadKeeps ==
  ASSUME BrowserInv, Read
  PROVE  BrowserInv'
<1>1. /\ fetch \in FetchRecords /\ fetch.as \in Families
      /\ KidsOf(fetch.as) \in ListRecords
  BY KidsOfTyped DEF Read, BrowserInv, ListsTyped, FetchRecords
<1>2. /\ fetch' \in FetchRecords
      /\ fetch'.as = fetch.as /\ fetch'.data = KidsOf(fetch.as)
  <2> DEFINE k == KidsOf(fetch.as)
  <2>1. k \in ListRecords
    BY <1>1
  <2>2. fetch' = [fetch EXCEPT !.stage = "read", !.data = k]
    BY DEF Read
  <2> HIDE DEF k
  <2>3. fetch' \in FetchRecords /\ fetch'.as = fetch.as /\ fetch'.data = k
    BY <1>1, <2>1, <2>2 DEF FetchRecords
  <2>. QED
    BY <2>3 DEF k
<1>3. PagesTyped'
  BY DEF Read, pages, BrowserInv, PagesTyped
<1>4. ListsTyped' /\ (Quiet' <=> Quiet)
  BY <1>2 DEF Read, BrowserInv, ListsTyped, CallsTyped, Quiet
<1>5. FreshIsStored'
  BY <1>4, SameKids DEF Read, BrowserInv, FreshIsStored
<1>6. ReadIsStored'
  <2>1. \A p : KidsOf(p)' = KidsOf(p)
    BY SameKids DEF Read
  <2>. QED
    BY <1>1, <1>2, <2>1 DEF ReadIsStored
<1>. QED
  BY <1>3, <1>4, <1>5, <1>6 DEF BrowserInv

LEMMA ArriveKeeps ==
  ASSUME BrowserInv, Arrive
  PROVE  BrowserInv'
<1>1. /\ fetch \in FetchRecords /\ fetch.data \in ListRecords /\ list \in ListRecords
      /\ fetch.overtaken \in BOOLEAN
  BY DEF BrowserInv, ListsTyped, FetchRecords
<1>2. PagesTyped'
  BY <1>1, FormReleasedTyped DEF Arrive, pages, BrowserInv, PagesTyped
<1>3. CallsTyped' /\ (Quiet' <=> Quiet)
  BY ReleasedKeepsCalls, EasedCalls DEF Arrive, BrowserInv, ListsTyped
<1>4. ListsTyped'
  BY <1>1, <1>3, EmptyTyped DEF Arrive, BrowserInv, ListsTyped
<1>5. FreshIsStored'
  <2>1. \A p : KidsOf(p)' = KidsOf(p)
    BY SameKids DEF Arrive
  <2>2. CASE fetch.stage = "read" /\ list' = fetch.data /\ late' = fetch.overtaken
    BY <1>3, <2>1, <2>2 DEF BrowserInv, FreshIsStored, ReadIsStored
  <2>3. CASE UNCHANGED <<list, fresh, late>>
    BY <1>3, <2>1, <2>3 DEF BrowserInv, FreshIsStored
  <2>. QED
    BY <2>2, <2>3 DEF Arrive
<1>6. ReadIsStored'
  BY NoFetchUnread DEF Arrive, ReadIsStored
<1>. QED
  BY <1>2, <1>4, <1>5, <1>6 DEF BrowserInv

LEMMA BrowserStart ==
  ASSUME ParentInit
  PROVE  BrowserInv
<1>1. PagesTyped
  <2>1. stored \in [ChildIds -> [owner : Families, is : Details] \cup {NoOne}]
    <3>1. PICK p \in Families, cs \in SUBSET ChildIds :
            stored = [k \in ChildIds |-> IF k \in cs THEN [owner |-> p, is |-> 0] ELSE NoOne]
      BY DEF ParentInit
    <3>2. [owner |-> p, is |-> 0] \in [owner : Families, is : Details]
      BY DEF Details
    <3>. QED
      BY <3>1, <3>2
  <2>. QED
    BY <2>1 DEF ParentInit, PagesTyped
<1>2. CallsTyped
  BY EmptyTyped, NoCallMeant DEF ParentInit, CallsTyped
<1>3. ListsTyped
  BY <1>2, EmptyTyped DEF ParentInit, ListsTyped
<1>4. FreshIsStored /\ ReadIsStored
  BY NoFetchUnread DEF ParentInit, FreshIsStored, ReadIsStored
<1>. QED
  BY <1>1, <1>3, <1>4 DEF BrowserInv

LEMMA BrowserStep ==
  ASSUME BrowserInv, [ParentNext]_parentVars
  PROVE  BrowserInv'
<1>1. CASE \E s \in {"home", "children", "apply", "admin"} : Visit(s)
  BY <1>1, VisitKeeps
<1>2. CASE \E p \in Families : SubmitLogin(p) \/ LoadLoggedIn(p)
  BY <1>2, SubmitLoginKeeps, LoadLoggedInKeeps
<1>3. CASE LoginAnswered
  BY <1>3, LoginAnsweredKeeps
<1>4. CASE \/ OpenLogin \/ CloseLogin \/ Logout \/ SessionExpires \/ AdminSession
           \/ CancelEdit \/ MinutePasses
           \/ \E c \in ChildIds : StartEdit(c)
  BY <1>4, HeaderKeeps
<1>5. CASE \E c \in ChildIds : HandleDelete(c)
  BY <1>5, HandleDeleteKeeps
<1>6. CASE \E is \in Details : Submit(is)
  BY <1>6, SubmitKeeps
<1>7. CASE \E w \in Writes : ServeChild(w) \/ Succeed(w) \/ Fail(w)
  BY <1>7, ServeChildKeeps, SucceedKeeps, FailKeeps
<1>8. CASE Read \/ Arrive \/ Refocus \/ Forget
  BY <1>8, ReadKeeps, ArriveKeeps, RefocusKeeps, ForgetKeeps
<1>9. CASE UNCHANGED parentVars
  <2>1. PagesTyped'
    BY <1>9 DEF parentVars, pages, BrowserInv, PagesTyped
  <2>2. ListsTyped' /\ FreshIsStored' /\ ReadIsStored'
    BY <1>9, PagesStep DEF parentVars
  <2>. QED
    BY <2>1, <2>2 DEF BrowserInv
<1>. QED
  BY <1>1, <1>2, <1>3, <1>4, <1>5, <1>6, <1>7, <1>8, <1>9 DEF ParentNext

\* The browser's sessions, list, refetch and mutations keep their types, and a
\* list no mutation is changing is what one account has stored, unless it is an
\* answer that an invalidation has overtaken.
THEOREM BrowserInductive == ParentSpec => []BrowserInv
<1>1. ParentInit => BrowserInv
  BY BrowserStart
<1>2. BrowserInv /\ [ParentNext]_parentVars => BrowserInv'
  BY BrowserStep
<1>. QED
  BY <1>1, <1>2, PTL DEF ParentSpec

\* Rows, sessions and cached lists keep their types (ChildrenPage.tsx, useAuth.tsx,
\* children.service.ts).
THEOREM BrowserKeepsTypes == ParentSpec => []ParentTypeOK
<1>1. BrowserInv => ParentTypeOK
  BY DEF BrowserInv, PagesTyped, ListsTyped, CallsTyped, ParentTypeOK, ListRecords,
         FetchRecords, CallRecords
<1>. QED
  BY <1>1, BrowserInductive, PTL

\* However saves, deletions, failures, refetches, page changes and changes of the
\* account overlap in "my children", a list that has settled is the stored list of
\* one account, or an answer an invalidation has overtaken, for any number of
\* children and mutations.
THEOREM ChildrenAlwaysSettleTrue == ParentSpec => []ChildrenSettleTrue
<1>1. BrowserInv => ChildrenSettleTrue
  <2> SUFFICES ASSUME BrowserInv, SettledList, ~late
               PROVE  \E p \in Families : list = KidsOf(p)
    BY DEF ChildrenSettleTrue
  <2>1. Quiet
    BY DEF SettledList, Quiet, Pending, NoCall
  <2>. QED
    BY <2>1 DEF BrowserInv, FreshIsStored, SettledList
<1>. QED
  BY <1>1, BrowserInductive, PTL
=============================================================================
