----------------------- MODULE MCReservationGroups -----------------------
(* Small instances of ReservationGroups for TLC.  Minutes are scaled: one   *)
(* unit stands for one timetable step, which the checks never look inside. *)
EXTENDS ReservationGroups, TLC

CONSTANTS r1, r2, g1, g2, c1, p1

Range1(s, e) == [day |-> "MON", start |-> s, end |-> e]

\* Two adjacent cells and their union: every way two ranges can relate.
MCEarly == Range1(0, 1)
MCLate == Range1(1, 2)
MCWhole == Range1(0, 2)
MCThreeRanges == {MCEarly, MCLate, MCWhole}
MCOneRange == {MCWhole}
MCWholeOrLate == {{MCWhole}, {MCLate}}
MCWholeOnly == {{MCWhole}}

MCNoParents == [c \in {} |-> p1]

MCSymmetry == Permutations(RIds) \cup Permutations(GIds)
===========================================================================
