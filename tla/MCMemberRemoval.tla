-------------------------- MODULE MCMemberRemoval --------------------------
(* Two accounts, one child each: every order of two removals' statements    *)
(* with each other and with the desk, on one cell; a removal alone, on two *)
(* adjacent cells and their union.                                         *)
EXTENDS MemberRemoval, TLC

CONSTANTS r1, r2, g1, g2, c1, c2, p1, p2

Range1(s, e) == [day |-> "MON", start |-> s, end |-> e]

MCEarly == Range1(0, 1)
MCLate == Range1(1, 2)
MCWhole == Range1(0, 2)
MCThreeRanges == {MCEarly, MCLate, MCWhole}
MCOneRange == {MCWhole}
MCWholeOnly == {{MCWhole}}
MCParentOf == c1 :> p1 @@ c2 :> p2

MCSymmetry == Permutations(RIds) \cup Permutations(GIds)
=============================================================================
