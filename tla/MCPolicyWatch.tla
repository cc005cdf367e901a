---------------------------- MODULE MCPolicyWatch ----------------------------
(***************************************************************************)
(* The watcher on small constants, with the inputs of the compiler and the *)
(* matcher it publishes snapshots for.                                     *)
(***************************************************************************)
EXTENDS PolicyWatch, PolicyMatch

\* Every path of at most four characters, a slash first, and some of five.
Chars == {"/", ".", "%.", "%r", "a"}
Long == {<<"/", "a", "/", ".", ".">>, <<"/", "a", "/", "%.", ".">>, <<"/", "a", "/", "b", "/">>,
         <<"/", "a", "?", "/", ".">>, <<"/", "a", "/", "/", "b">>, <<"/", ".", ".", "/", "a">>,
         <<"a">>, <<>>, <<"?">>, <<"/", "\\">>, <<"/", "%0">>, <<"/", "%">>}
MCRawPaths == UNION {{<<"/">> \o s : s \in [1 .. n -> Chars]} : n \in 0 .. 3} \cup Long

Rule(ref, host, wild, methods, paths, cred) ==
    [ref |-> ref, host |-> host, wildcard |-> wild, methods |-> methods, paths |-> paths,
     allowPlaintext |-> wild, credential |-> cred, effect |-> "Allow"]
Path(e, v) == [exact |-> e, value |-> v]
A == <<"/", "a">>
AB == <<"/", "a", "/", "b">>
Pool ==
    {Rule(1, <<"x", "com">>, FALSE, {}, <<>>, <<"entra", "r1">>),
     Rule(2, <<"x", "com">>, FALSE, {}, <<Path(FALSE, A)>>, <<"entra", "r2">>),
     Rule(3, <<"x", "com">>, FALSE, {"GET"}, <<Path(FALSE, A), Path(TRUE, AB)>>, <<"entra", "r1">>),
     Rule(4, <<"x", "com">>, FALSE, {"GET"}, <<Path(TRUE, AB), Path(FALSE, A)>>, <<"entra", "r2", "s">>),
     Rule(5, <<"com">>, TRUE, {"GET", "PUT"}, <<>>, <<>>),
     Rule(6, <<"com">>, TRUE, {}, <<Path(TRUE, AB)>>, <<"entra", "r1">>),
     [Rule(7, <<"com">>, TRUE, {}, <<>>, <<>>) EXCEPT !.effect = "Deny"],
     Rule(8, <<"com">>, TRUE, {}, <<Path(FALSE, <<"a">>)>>, <<>>),
     Rule(9, <<"x", "com">>, FALSE, {}, <<>>, <<"entra", "r1">>)}
MCRuleSets == {S \in SUBSET Pool : Cardinality(S) <= 4}
MCRequests ==
    {[identity |-> i, plaintext |-> p, method |-> m, path |-> q] :
        i \in {<<"x", "com">>, <<"y", "com">>, <<"com">>}, p \in BOOLEAN, m \in {"GET", "PUT", "POST"},
        q \in {A, AB, <<"/", "a", "b">>}}

\* The two statements about the compiler and the matcher depend on no state:
\* they are evaluated in one of the initial states.
Once == WatchInit /\ broken = {} /\ period = 2

\* OrderIndependent: Compile does not depend on the order in which the policies
\* are listed, and Match answers with the rule that the criteria of the policy
\* language single out.
CompileOrderIndependent == Once => OrderIndependent

\* CanonicalPathsAgree: CanonicalizePath is idempotent and a prefix rule covers
\* exactly the paths below it.
CanonicalPaths == Once => CanonicalPathsAgree
=============================================================================
