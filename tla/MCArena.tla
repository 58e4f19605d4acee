------------------------------- MODULE MCArena -------------------------------
(* An instance of the arena for TLC: sizes around every edge.   *)
EXTENDS Arena

EdgeSizes == {0, 1, 5, 8, 17, 24, 26, 29}
=============================================================================
