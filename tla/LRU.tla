-------------------------------- MODULE LRU --------------------------------
(***************************************************************************)
(* The recency list shared by the bounded caches of the proxy (Go's        *)
(* container/list plus a map into it): a sequence of distinct keys, most   *)
(* recently used first.  The map half is modelled by the cache that owns   *)
(* the list.  The operators are written by index so that their lemmas need *)
(* no induction over sequences.                                            *)
(***************************************************************************)
EXTENDS Naturals, Sequences

\* The keys a list holds.
Keys(s) == {s[i] : i \in DOMAIN s}

\* The list holds no key twice: the map has one element per key.
Distinct(s) == \A i, j \in DOMAIN s : s[i] = s[j] => i = j

\* list.Remove of the element at position i.
Unlink(s, i) == [j \in 1 .. Len(s) - 1 |-> IF j < i THEN s[j] ELSE s[j + 1]]

\* The position of key k in s.
At(s, k) == CHOOSE i \in DOMAIN s : s[i] = k

\* Remove the element of k, which s holds.
Drop(s, k) == Unlink(s, At(s, k))

\* list.PushFront.
PushFront(s, k) == [j \in 1 .. Len(s) + 1 |-> IF j = 1 THEN k ELSE s[j - 1]]

\* list.MoveToFront of the element of k, which s holds.
MoveToFront(s, k) == PushFront(Drop(s, k), k)

\* Mutant of EvictTo: evicts only when the list is already past its bound.
EvictToLate(s, bound) ==
    [j \in 1 .. (IF Len(s) > bound + 1 THEN bound + 1 ELSE Len(s)) |-> s[j]]

\* Remove(Back()) while the list is longer than its bound.
EvictTo(s, bound) == [j \in 1 .. (IF Len(s) > bound THEN bound ELSE Len(s)) |-> s[j]]

\* MoveToFront of a key already held, otherwise PushFront and evict.
Install(s, k, bound) ==
    IF k \in Keys(s) THEN MoveToFront(s, k) ELSE EvictTo(PushFront(s, k), bound)
=============================================================================
