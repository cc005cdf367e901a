--------------------------- MODULE MCTokenBroker ---------------------------
(***************************************************************************)
(* Instances of TokenBroker for TLC.                                       *)
(***************************************************************************)
EXTENDS TokenBroker, TLC

Symmetry == Permutations(Requests)
=============================================================================
