------------------------------ MODULE MCIoFile ------------------------------
(***************************************************************************)
(* Instances of IoFile for TLC.                                            *)
(***************************************************************************)
EXTENDS IoFile, TLC

Symmetry == Permutations(Paths)

=============================================================================
