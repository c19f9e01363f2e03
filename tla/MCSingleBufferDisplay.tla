------------------------- MODULE MCSingleBufferDisplay -------------------------
(* A mask plane that selects everything and one that selects nothing; the  *)
(* proper windows of a panel of two regions.                               *)
EXTENDS SingleBufferDisplay, TLC

Masks == {White, Invert(White)}
Halves == {{r} : r \in Region}
Symmetry == Permutations(Region)
=============================================================================
