-------------------------- MODULE MCTokenAcquirer --------------------------
(***************************************************************************)
(* Instances of TokenAcquirer for TLC.                                     *)
(***************************************************************************)
EXTENDS TokenAcquirer, TLC

Symmetry == Permutations(Tasks) \cup Permutations(Creds)
=============================================================================
