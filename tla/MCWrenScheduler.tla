-------------------------- MODULE MCWrenScheduler --------------------------
(***************************************************************************)
(* Instances of WrenScheduler for TLC.                                     *)
(***************************************************************************)
EXTENDS WrenScheduler, TLC

Symmetry == Permutations(Fibers)

=============================================================================
