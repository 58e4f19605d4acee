------------------------------ MODULE MCFacade ------------------------------
(* Instances of the facade for TLC.                                        *)
EXTENDS FacadeProps, TLC

Symmetry == Permutations(Threads) \cup Permutations(Blocks)
=============================================================================
