--------------------------- MODULE MCRequestPath ---------------------------
(***************************************************************************)
(* RequestPath for TLC: two connections with one request each, or a single *)
(* one with two.                                                           *)
(***************************************************************************)
EXTENDS RequestPath

CONSTANTS c1, c2, k1, k2

MCCredsOf == [c \in Conns |-> IF c = c1 THEN {k1, k2} ELSE {k1}]
\* Both ask for the same name; another is cached from before.
MCNameOf == [c \in Conns |-> "asked"]
MCWarm == {<<"other">>}
MCLoads == {[c \in Conns |-> 1], [c \in Conns |-> IF c = c1 THEN 2 ELSE 0]}
=============================================================================
