----------------------------- MODULE PolicyMatch -----------------------------
(***************************************************************************)
(* Compiling the policies and matching a request (internal/policy), as     *)
(* operators.  A path is a sequence of characters in which an escape is    *)
(* one character: "%." decodes to a dot, "%r" is an escape of a reserved   *)
(* character, which stays, "%0" of the null byte, and "%" is malformed.  A *)
(* host is the sequence of its labels; a reference is its place in the     *)
(* lexicographic order; the methods of a rule are a set, and its credential*)
(* the sequence of its texts, empty when there is none.                    *)
(***************************************************************************)
EXTENDS Integers, FiniteSets, SequencesExt

CONSTANTS MaxTotalRules, Rejected

-----------------------------------------------------------------------------
(* canonicalize.go                                                         *)

StripQuery(raw) ==
    IF "?" \in ToSet(raw) THEN SubSeq(raw, 1, (CHOOSE i \in 1 .. Len(raw) :
        raw[i] = "?" /\ \A j \in 1 .. i - 1 : raw[j] # "?") - 1)
    ELSE raw

DecodeUnreserved(path) == [i \in DOMAIN path |-> IF path[i] = "%." THEN "." ELSE path[i]]

\* The pieces between the slashes, as strings.Split yields them.
SplitAtSlash(path) ==
    LET cuts == SetToSortSeq({0, Len(path) + 1} \cup {i \in DOMAIN path : path[i] = "/"}, <)
    IN  [k \in 1 .. Len(cuts) - 1 |-> SubSeq(path, cuts[k] + 1, cuts[k + 1] - 1)]

\* One segment over the stack of those before; a path above the root is Rejected.
ResolveSegment(stack, seg) ==
    IF stack = Rejected \/ seg \in {<<>>, <<".">>} THEN stack
    ELSE IF seg # <<".", ".">> THEN Append(stack, seg)
    ELSE IF stack = <<>> THEN Rejected ELSE Front(stack)

CanonicalizePath(raw) ==
    LET path == DecodeUnreserved(StripQuery(raw))
        resolved == FoldLeft(ResolveSegment, <<>>, Tail(SplitAtSlash(path)))
        joined == <<"/">> \o FlattenSeq([i \in DOMAIN resolved |->
                        IF i = 1 THEN resolved[i] ELSE <<"/">> \o resolved[i]])
    IN  IF raw = <<>> \/ path = <<>> \/ {"\\", "%0", "%"} \cap ToSet(path) # {} \/ path[1] # "/"
        THEN Rejected
        ELSE IF resolved = Rejected THEN Rejected
        ELSE IF Len(path) > 1 /\ Last(path) = "/" /\ Last(joined) # "/" THEN Append(joined, "/")
        ELSE joined

-----------------------------------------------------------------------------
(* match.go                                                                *)

\* Mutant of MatchPrefix: a prefix may end inside a segment.
MatchPrefixAnywhere(prefix, path) == IsPrefix(prefix, path)

MatchPrefix(prefix, path) ==
    /\ IsPrefix(prefix, path)
    /\ \/ Len(path) = Len(prefix)
       \/ Last(prefix) = "/"
       \/ path[Len(prefix) + 1] = "/"

MatchHost(r, identity) ==
    IF r.wildcard THEN Len(identity) = Len(r.host) + 1 /\ Tail(identity) = r.host
    ELSE identity = r.host

\* One more path of a rule: the best match so far is <<exact, length, matched>>.
BetterPath(best, p, path) ==
    IF p.exact
    THEN IF path # p.value THEN best
         ELSE <<TRUE, IF Len(p.value) > best[2] THEN Len(p.value) ELSE best[2], TRUE>>
    ELSE IF ~MatchPrefix(p.value, path) THEN best
         ELSE <<best[1], IF Len(p.value) > best[2] /\ ~best[1] THEN Len(p.value) ELSE best[2], TRUE>>

MatchPaths(paths, path) ==
    IF paths = <<>> THEN <<FALSE, 0, TRUE>>
    ELSE FoldLeft(LAMBDA best, p : BetterPath(best, p, path), <<FALSE, -1, FALSE>>, paths)

Applies(r, req) ==
    /\ MatchHost(r, req.identity)
    /\ req.plaintext => r.allowPlaintext
    /\ r.methods = {} \/ req.method \in r.methods
    /\ MatchPaths(r.paths, req.path)[3]

\* Fewer methods before more, and none at all last.
CompareMethods(a, b) == IF a = b THEN 0 ELSE IF a = 0 THEN 1 ELSE IF b = 0 THEN -1 ELSE a - b

\* Mutant of CompareRuleRank: no tie-break.
CompareRuleRankNoTie(a, b) ==
    IF a.wildcard # b.wildcard THEN (IF b.wildcard THEN -1 ELSE 1)
    ELSE CompareMethods(Cardinality(a.methods), Cardinality(b.methods))

CompareRuleRank(a, b) ==
    IF a.wildcard # b.wildcard THEN (IF b.wildcard THEN -1 ELSE 1)
    ELSE LET m == CompareMethods(Cardinality(a.methods), Cardinality(b.methods))
         IN  IF m # 0 THEN m ELSE a.ref - b.ref

\* Host, then path, then methods, then the reference.
CompareMatchRank(a, b, req) ==
    LET pa == MatchPaths(a.paths, req.path)
        pb == MatchPaths(b.paths, req.path)
    IN  IF a.wildcard # b.wildcard THEN (IF b.wildcard THEN -1 ELSE 1)
        ELSE IF pa[1] # pb[1] THEN (IF pa[1] THEN -1 ELSE 1)
        ELSE IF pa[2] # pb[2] THEN pb[2] - pa[2]
        ELSE LET m == CompareMethods(Cardinality(a.methods), Cardinality(b.methods))
             IN  IF m # 0 THEN m ELSE a.ref - b.ref

\* The most specific of the rules that apply; ambiguous if any of them has
\* another credential.
Match(rules, req) ==
    LET found == SortSeq(SelectSeq(rules, LAMBDA r : Applies(r, req)),
                         LAMBDA a, b : CompareMatchRank(a, b, req) < 0)
    IN  IF found = <<>> THEN [matched |-> FALSE]
        ELSE [matched |-> TRUE, ref |-> found[1].ref, credential |-> found[1].credential,
              ambiguous |-> \E i \in DOMAIN found : found[i].credential # found[1].credential]

-----------------------------------------------------------------------------
(* compile.go                                                              *)

Text(x) == <<ToString(x)>>
Flag(b) == <<IF b THEN "1" ELSE "0">>

\* What is hashed: the fields of the rules one after another, without the
\* number of methods or paths, or a mark where a rule has no credential.
ComputeVersion(rules) ==
    FlattenSeq([i \in DOMAIN rules |->
        LET r == rules[i]
        IN  Text(r.ref) \o Text(r.host) \o Flag(r.wildcard) \o Flag(r.allowPlaintext)
            \o SetToSeq(r.methods)
            \o FlattenSeq([k \in DOMAIN r.paths |-> Flag(r.paths[k].exact) \o Text(r.paths[k].value)])
            \o r.credential])

\* The rules in the order of their static rank, or Rejected for an effect that is
\* not Allow, a path that does not canonicalize or too many rules.
Compile(rules) ==
    LET Canonical(r) == [r EXCEPT !.paths = [i \in DOMAIN @ |->
                            [@[i] EXCEPT !.value = CanonicalizePath(@)]]]
        sorted == SortSeq([i \in DOMAIN rules |-> Canonical(rules[i])],
                          LAMBDA a, b : CompareRuleRank(a, b) < 0)
    IN  IF \/ \E i \in DOMAIN rules : rules[i].effect # "Allow"
           \/ \E i \in DOMAIN sorted : \E j \in DOMAIN sorted[i].paths :
                 sorted[i].paths[j].value = Rejected
           \/ Len(rules) > MaxTotalRules
        THEN Rejected
        ELSE [version |-> ComputeVersion(sorted), rules |-> sorted]

-----------------------------------------------------------------------------
(* Properties, over the inputs a model gives.                              *)

CONSTANTS RuleSets, Requests, RawPaths

EndsInSlash(path) == Last(path) = "/"
Segments(path) == SelectSeq(Tail(SplitAtSlash(path)), LAMBDA seg : seg # <<>>)

\* How well the paths of r fit the request: one that is equal to it beats every
\* prefix, a prefix is as good as it is long, no paths at all come last.
PathFit(r, path) ==
    LET fits == {p \in ToSet(r.paths) : IF p.exact THEN p.value = path ELSE MatchPrefix(p.value, path)}
    IN  IF \E p \in fits : p.exact THEN Len(path) + 1
        ELSE Max({0} \cup {Len(p.value) : p \in fits})

\* The order of docs/design/S2-policy-crd.md, section 5.2, as one criterion after
\* the other: exact hosts, the best paths, the fewest methods (none at all last),
\* the first reference.
Narrow(S, Measure(_)) == {r \in S : \A q \in S : Measure(r) <= Measure(q)}
Winners(applicable, req) ==
    LET hosts   == Narrow(applicable, LAMBDA r : IF r.wildcard THEN 1 ELSE 0)
        paths   == Narrow(hosts, LAMBDA r : 0 - PathFit(r, req.path))
        most    == Cardinality(UNION {r.methods : r \in paths})
        methods == Narrow(paths, LAMBDA r : IF r.methods = {} THEN most + 1 ELSE Cardinality(r.methods))
    IN  Narrow(methods, LAMBDA r : r.ref)

\* Match answers with the one rule these criteria leave.  An answer that is not
\* flagged ambiguous has the credential of every rule that applies.
WinnerIsBest(rules, req) ==
    \E m \in {Match(rules, req)}, applicable \in {{r \in ToSet(rules) : Applies(r, req)}} :
        /\ m.matched <=> applicable # {}
        /\ m.matched =>
            /\ {<<w.ref, w.credential>> : w \in Winners(applicable, req)} = {<<m.ref, m.credential>>}
            /\ ~m.ambiguous => \A r \in applicable : r.credential = m.credential

\* Compile gives the same rules and the same version for every order in which the
\* rules are listed (the API server promises none), and Match on them finds the
\* best rule.
OrderIndependent ==
    \A S \in RuleSets :
        \E compiled \in {Compile(SetToSeq(S))} :
            /\ \A o \in SetToSeqs(S) : Compile(o) = compiled
            /\ compiled # Rejected => \A req \in Requests : WinnerIsBest(compiled.rules, req)

\* docs/design/S2-policy-crd.md: Ambiguous is set also when "a specificity tie was
\* broken by RuleRank.TieBreak".  Match leaves it unset when the tied rules have
\* the same credential.
TieFlagged ==
    \A S \in RuleSets, req \in Requests :
        LET compiled == Compile(SetToSeq(S)) IN
        compiled # Rejected =>
            \A r, q \in {r \in ToSet(compiled.rules) : Applies(r, req)} :
                /\ Match(compiled.rules, req).ref = r.ref /\ r # q
                /\ r.wildcard = q.wildcard /\ PathFit(r, req.path) = PathFit(q, req.path)
                /\ Cardinality(r.methods) = Cardinality(q.methods)
                => Match(compiled.rules, req).ambiguous

\* Canonical paths: canonicalizing one again changes nothing (the policy and
\* the upstream agree on it), none has an empty, "." or ".." segment, and a
\* prefix rule covers exactly the paths below it, segment by segment.
CanonicalPathsAgree ==
    LET canon == {CanonicalizePath(p) : p \in RawPaths} \ {Rejected}
    IN  /\ \A c \in canon :
            /\ CanonicalizePath(c) = c
            /\ \A i \in DOMAIN SplitAtSlash(c) :
                /\ SplitAtSlash(c)[i] \notin {<<".">>, <<".", ".">>}
                /\ SplitAtSlash(c)[i] = <<>> => i \in {1, Len(SplitAtSlash(c))}
        /\ \A p, c \in canon :
            MatchPrefix(p, c) <=>
                /\ IsPrefix(Segments(p), Segments(c))
                /\ (EndsInSlash(p) /\ Segments(p) = Segments(c)) => EndsInSlash(c)
=============================================================================
