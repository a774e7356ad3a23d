---------------------------- MODULE MCWrenFibers ----------------------------
(***************************************************************************)
(* Instances of WrenFibers for TLC.                                        *)
(***************************************************************************)
EXTENDS WrenFibersStack, TLC

Symmetry == Permutations(Fibers)

=============================================================================
