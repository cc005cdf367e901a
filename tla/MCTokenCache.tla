---------------------------- MODULE MCTokenCache ----------------------------
(***************************************************************************)
(* Instances of TokenCache for TLC.                                        *)
(***************************************************************************)
EXTENDS TokenCache, TLC

\* A refresh that is due always finds a slot for its goroutine.
ASSUME EnoughRefreshers == Cardinality(Refreshers) >= Cardinality(Creds)

Symmetry == Permutations(Requests) \cup Permutations(Creds) \cup Permutations(Refreshers)
=============================================================================
