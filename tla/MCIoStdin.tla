----------------------------- MODULE MCIoStdin -----------------------------
(***************************************************************************)
(* Instances of IoStdin for TLC.                                           *)
(***************************************************************************)
EXTENDS IoStdin, TLC

Symmetry == Permutations(Readers)

=============================================================================
