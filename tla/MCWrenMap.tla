------------------------------ MODULE MCWrenMap ------------------------------
(***************************************************************************)
(* Instances of WrenMap for TLC.                                           *)
(***************************************************************************)
EXTENDS WrenMap, TLC

Symmetry == Permutations(Keys) \cup Permutations(Values)

=============================================================================
