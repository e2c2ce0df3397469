------------------------------- MODULE MCGrid -------------------------------
(* A small instance of TimetableDesk: one day of three rows, students who    *)
(* can come all the time, or at two times that touch.                        *)
EXTENDS TimetableDesk, TLC

CONSTANTS r1, r2, g1, g2

Time(s, e) == [day |-> "MON", start |-> s, end |-> e]
MCRanges == {Time(s, e) : <<s, e>> \in {p \in (0..3) \X (0..3) : p[1] < p[2]}}
MCPrefChoices == {{Time(0, 3)}, {Time(0, 1), Time(1, 2)}}
MCPlanned == {Time(0, 2)}
MCNoParents == [c \in {} |-> "p"]
\* Bound: cells are ticked, and stay ticked, only while an id is left for the
\* group the form would make of them (what the page says of such states is
\* nothing, and every tick may also be made once an id is free again).
IdLeft == selected # {} => LiveGroups # GIds
MCSymmetry == Permutations(RIds) \cup Permutations(GIds)
=============================================================================
