-------------------------- MODULE MCDualBufferDisplay --------------------------
(* A mask plane that selects everything; the proper windows of a panel of  *)
(* two regions.                                                            *)
EXTENDS DualBufferDisplay, TLC

Everything == {White}
Halves == {{r} : r \in Region}
Symmetry == Permutations(Region)
=============================================================================
