----------------------------- MODULE MCWrenHeap -----------------------------
(***************************************************************************)
(* Instances of WrenHeap for TLC.                                          *)
(***************************************************************************)
EXTENDS WrenHeap, TLC

Symmetry == Permutations(Objects)

=============================================================================
