----------------------------- MODULE LRUProofs -----------------------------
(***************************************************************************)
(* What the list operations of the bounded caches preserve: one element    *)
(* per key, the bound, and which keys are held afterwards.                 *)
(***************************************************************************)
EXTENDS LRU, TLAPS

\* A sequence is a function on 1 .. Len(s).
LEMMA SeqShape ==
    ASSUME NEW S, NEW s \in Seq(S)
    PROVE  Len(s) \in Nat /\ s \in [1 .. Len(s) -> S] /\ DOMAIN s = 1 .. Len(s)
OBVIOUS

\* A function on 1 .. n with values in S is a sequence of length n over S.
LEMMA SeqByIndex ==
    ASSUME NEW S, NEW n \in Nat, NEW f \in [1 .. n -> S]
    PROVE  f \in Seq(S) /\ Len(f) = n /\ DOMAIN f = 1 .. n
<1>1. f \in Seq(S)
  OBVIOUS
<1>2. QED
  BY <1>1, SeqShape

\* Taking one position out of an injective sequence leaves it injective.
LEMMA InjectiveUnlink ==
    ASSUME NEW n \in Nat, NEW i \in 1 .. n, NEW s, NEW d,
           \A j \in 1 .. n - 1 : d[j] = IF j < i THEN s[j] ELSE s[j + 1],
           \A x, y \in 1 .. n : s[x] = s[y] => x = y
    PROVE  \A x, y \in 1 .. n - 1 : d[x] = d[y] => x = y
OBVIOUS

\* A cut at the back of a list without repetitions leaves one.
LEMMA InjectivePrefix ==
    ASSUME NEW m \in Nat, NEW n \in 1 .. m, NEW p, NEW e,
           \A j \in 1 .. n : e[j] = p[j],
           \A x, y \in 1 .. m : p[x] = p[y] => x = y
    PROVE  /\ \A x, y \in 1 .. n : e[x] = e[y] => x = y
           /\ \A j \in 1 .. n : j \in 1 .. m
OBVIOUS

\* The one position of a list of length n that a push and a cut can lose.
LEMMA CutPosition ==
    ASSUME NEW n \in Nat, NEW bound \in Nat, NEW m \in 1 .. n, NEW l \in Nat,
           l = n + 1 \/ (l = n /\ n = bound), m + 1 \notin 1 .. l
    PROVE  n = bound /\ m = n
OBVIOUS

\* list.Remove keeps every other element, in order.
LEMMA UnlinkProperties ==
    ASSUME NEW S, NEW s \in Seq(S), NEW i \in DOMAIN s
    PROVE  /\ Unlink(s, i) \in Seq(S)
           /\ Len(Unlink(s, i)) = Len(s) - 1
           /\ DOMAIN Unlink(s, i) = 1 .. Len(s) - 1
           /\ \A j \in 1 .. Len(s) - 1 : Unlink(s, i)[j] = IF j < i THEN s[j] ELSE s[j + 1]
<1>1. Len(s) - 1 \in Nat /\ i \in 1 .. Len(s) /\ s \in [1 .. Len(s) -> S]
  BY SeqShape
<1>2. Unlink(s, i) \in [1 .. Len(s) - 1 -> S]
  BY <1>1 DEF Unlink
<1>3. QED
  BY <1>1, <1>2, SeqByIndex DEF Unlink

\* removeElement takes exactly the key's element off the list.
LEMMA DropProperties ==
    ASSUME NEW S, NEW s \in Seq(S), Distinct(s), NEW k \in Keys(s)
    PROVE  /\ Drop(s, k) \in Seq(S)
           /\ Distinct(Drop(s, k))
           /\ Len(Drop(s, k)) = Len(s) - 1
           /\ Keys(Drop(s, k)) = Keys(s) \ {k}
<1> DEFINE i == At(s, k)
           d == Unlink(s, i)
<1>1. i \in DOMAIN s /\ s[i] = k
  BY DEF At, Keys
<1>2. DOMAIN s = 1 .. Len(s) /\ Len(s) \in Nat
  BY SeqShape
<1>3. /\ d \in Seq(S)
      /\ Len(d) = Len(s) - 1
      /\ DOMAIN d = 1 .. Len(s) - 1
      /\ \A j \in 1 .. Len(s) - 1 : d[j] = IF j < i THEN s[j] ELSE s[j + 1]
  BY <1>1, UnlinkProperties
<1> HIDE DEF i, d
<1>4. Distinct(d)
  <2>1. \A x, y \in 1 .. Len(s) : s[x] = s[y] => x = y
    BY <1>2 DEF Distinct
  <2>2. \A x, y \in 1 .. Len(s) - 1 : d[x] = d[y] => x = y
    BY <1>1, <1>2, <1>3, <2>1, InjectiveUnlink
  <2>3. QED
    BY <1>3, <2>2 DEF Distinct
<1>5. ASSUME NEW x \in Keys(d) PROVE x \in Keys(s) \ {k}
  <2>1. PICK j \in 1 .. Len(s) - 1 : x = d[j]
    BY <1>3 DEF Keys
  <2>2. PICK m \in 1 .. Len(s) : x = s[m] /\ m # i
    BY <1>1, <1>2, <1>3, <2>1
  <2>3. QED
    BY <1>1, <1>2, <2>2 DEF Keys, Distinct
<1>6. ASSUME NEW x \in Keys(s) \ {k} PROVE x \in Keys(d)
  <2>1. PICK m \in 1 .. Len(s) : x = s[m] /\ m # i
    BY <1>1, <1>2 DEF Keys
  <2>2. CASE m < i
    BY <1>1, <1>2, <1>3, <2>1, <2>2 DEF Keys
  <2>3. CASE m > i
    <3>1. m - 1 \in 1 .. Len(s) - 1 /\ d[m - 1] = x
      BY <1>1, <1>2, <1>3, <2>1, <2>3
    <3>2. QED
      BY <1>3, <3>1, Zenon DEF Keys
  <2>4. QED
    BY <1>1, <1>2, <2>1, <2>2, <2>3
<1>7. QED
  BY <1>3, <1>4, <1>5, <1>6 DEF Drop, i, d

\* list.PushFront of a new key.
LEMMA PushFrontProperties ==
    ASSUME NEW S, NEW s \in Seq(S), Distinct(s), NEW k \in S, k \notin Keys(s)
    PROVE  /\ PushFront(s, k) \in Seq(S)
           /\ Distinct(PushFront(s, k))
           /\ Len(PushFront(s, k)) = Len(s) + 1
           /\ Keys(PushFront(s, k)) = Keys(s) \cup {k}
           /\ \A j \in 1 .. Len(s) + 1 : PushFront(s, k)[j] = IF j = 1 THEN k ELSE s[j - 1]
<1> DEFINE p == PushFront(s, k)
<1>1. DOMAIN s = 1 .. Len(s) /\ Len(s) \in Nat /\ s \in [1 .. Len(s) -> S]
  BY SeqShape
<1>2. p \in [1 .. Len(s) + 1 -> S]
  BY <1>1 DEF PushFront
<1>3. /\ p \in Seq(S)
      /\ Len(p) = Len(s) + 1
      /\ DOMAIN p = 1 .. Len(s) + 1
      /\ \A j \in 1 .. Len(s) + 1 : p[j] = IF j = 1 THEN k ELSE s[j - 1]
  BY <1>1, <1>2, SeqByIndex DEF PushFront
<1> HIDE DEF p
<1>4. Distinct(p)
  <2>1. \A x, y \in 1 .. Len(s) : s[x] = s[y] => x = y
    BY <1>1 DEF Distinct
  <2>2. \A x \in 1 .. Len(s) : s[x] # k
    BY <1>1 DEF Keys
  <2>3. Len(s) \in Nat /\ \A j \in 1 .. Len(s) + 1 : p[j] = IF j = 1 THEN k ELSE s[j - 1]
    BY <1>1, <1>3, Zenon
  <2>4. \A x, y \in 1 .. Len(s) + 1 : p[x] = p[y] => x = y
    BY <2>1, <2>2, <2>3
  <2>5. QED
    BY <1>3, <2>4 DEF Distinct
<1>5. ASSUME NEW x \in Keys(p) PROVE x \in Keys(s) \cup {k}
  BY <1>1, <1>3 DEF Keys
<1>6. ASSUME NEW x \in Keys(s) \cup {k} PROVE x \in Keys(p)
  <2>1. CASE x = k
    BY <1>1, <1>3, <2>1 DEF Keys
  <2>2. CASE x \in Keys(s)
    <3>1. PICK m \in 1 .. Len(s) : x = s[m]
      BY <1>1, <2>2 DEF Keys
    <3>2. m + 1 \in 1 .. Len(s) + 1 /\ p[m + 1] = x
      BY <1>1, <1>3, <3>1
    <3>3. QED
      BY <1>3, <3>2 DEF Keys
  <2>3. QED
    BY <2>1, <2>2
<1>7. QED
  BY <1>3, <1>4, <1>5, <1>6 DEF p

\* list.MoveToFront changes the order only.
LEMMA MoveToFrontProperties ==
    ASSUME NEW S, NEW s \in Seq(S), Distinct(s), NEW k \in Keys(s)
    PROVE  /\ MoveToFront(s, k) \in Seq(S)
           /\ Distinct(MoveToFront(s, k))
           /\ Len(MoveToFront(s, k)) = Len(s)
           /\ Keys(MoveToFront(s, k)) = Keys(s)
<1>1. k \in S /\ Len(s) \in Nat
  BY SeqShape DEF Keys
<1>2. /\ Drop(s, k) \in Seq(S)
      /\ Distinct(Drop(s, k))
      /\ Len(Drop(s, k)) = Len(s) - 1
      /\ Keys(Drop(s, k)) = Keys(s) \ {k}
  BY DropProperties
<1>3. /\ PushFront(Drop(s, k), k) \in Seq(S)
      /\ Distinct(PushFront(Drop(s, k), k))
      /\ Len(PushFront(Drop(s, k), k)) = Len(Drop(s, k)) + 1
      /\ Keys(PushFront(Drop(s, k), k)) = Keys(Drop(s, k)) \cup {k}
  BY <1>1, <1>2, PushFrontProperties
<1>4. QED
  BY <1>1, <1>2, <1>3 DEF MoveToFront

\* store and Put: the key is held afterwards, the bound is respected, and the
\* only key that can go is the last one of a full list.
LEMMA InstallProperties ==
    ASSUME NEW S, NEW s \in Seq(S), Distinct(s), NEW k \in S,
           NEW bound \in Nat \ {0}, Len(s) <= bound
    PROVE  /\ Install(s, k, bound) \in Seq(S)
           /\ Distinct(Install(s, k, bound))
           /\ Len(Install(s, k, bound)) <= bound
           /\ k \in Keys(Install(s, k, bound))
           /\ Keys(Install(s, k, bound)) \subseteq Keys(s) \cup {k}
           /\ \A x \in Keys(s) \ Keys(Install(s, k, bound)) :
                 Len(s) = bound /\ s[Len(s)] = x
<1>1. DOMAIN s = 1 .. Len(s) /\ Len(s) \in Nat
  BY SeqShape
<1>2. CASE k \in Keys(s)
  BY <1>1, <1>2, MoveToFrontProperties, Zenon DEF Install
<1>3. CASE k \notin Keys(s)
  <2> DEFINE p == PushFront(s, k)
             n == IF Len(p) > bound THEN bound ELSE Len(p)
             e == EvictTo(p, bound)
  <2>1. /\ p \in Seq(S) /\ Distinct(p) /\ Len(p) = Len(s) + 1
        /\ Keys(p) = Keys(s) \cup {k}
        /\ \A j \in 1 .. Len(s) + 1 : p[j] = IF j = 1 THEN k ELSE s[j - 1]
    BY <1>3, PushFrontProperties
  <2>2. DOMAIN p = 1 .. Len(s) + 1 /\ p \in [1 .. Len(s) + 1 -> S]
    BY <1>1, <2>1, SeqShape
  <2>3. Install(s, k, bound) = e
    BY <1>3 DEF Install
  <2> HIDE DEF p
  <2>4. n \in Nat /\ n \in 1 .. Len(s) + 1 /\ n <= bound /\ (n = Len(s) + 1 \/ (n = Len(s) /\ Len(s) = bound))
    <3>1. Len(s) \in Nat /\ Len(p) = Len(s) + 1
      BY <1>1, <2>1
    <3>2. QED
      BY <3>1
  <2>5. e \in [1 .. n -> S] /\ \A j \in 1 .. n : e[j] = p[j]
    BY <2>2, <2>4 DEF EvictTo
  <2>6. e \in Seq(S) /\ Len(e) = n /\ DOMAIN e = 1 .. n
    BY <2>4, <2>5, SeqByIndex, Zenon
  <2> HIDE DEF e, n
  <2>7. /\ \A x, y \in 1 .. n : e[x] = e[y] => x = y
        /\ \A j \in 1 .. n : j \in 1 .. Len(s) + 1
    <3>1. \A x, y \in 1 .. Len(s) + 1 : p[x] = p[y] => x = y
      BY <2>1, <2>2 DEF Distinct
    <3>2. Len(s) + 1 \in Nat
      BY <1>1
    <3>3. n \in 1 .. Len(s) + 1 /\ \A j \in 1 .. n : e[j] = p[j]
      BY <2>4, <2>5
    <3>4. QED
      BY <3>1, <3>2, <3>3, InjectivePrefix
  <2>8. k \in Keys(e)
    BY <1>1, <2>1, <2>4, <2>5, <2>6 DEF Keys
  <2>9. Keys(e) \subseteq Keys(p)
    BY <2>2, <2>5, <2>6, <2>7 DEF Keys
  <2>10. ASSUME NEW x \in Keys(s), x \notin Keys(e)
         PROVE  Len(s) = bound /\ s[Len(s)] = x
    <3>1. PICK m \in 1 .. Len(s) : x = s[m]
      BY <1>1 DEF Keys
    <3>2. m + 1 \in 1 .. Len(s) + 1 /\ p[m + 1] = x
      BY <1>1, <2>1, <3>1
    <3>3. m + 1 \notin 1 .. n
      BY <2>5, <2>6, <2>10, <3>2 DEF Keys
    <3>4. Len(s) = bound /\ m = Len(s)
      <4>1. Len(s) \in Nat /\ bound \in Nat
        BY <1>1
      <4>2. n \in Nat
        BY <2>4
      <4>3. n = Len(s) + 1 \/ (n = Len(s) /\ Len(s) = bound)
        BY <2>4
      <4>4. QED
        BY <3>3, <4>1, <4>2, <4>3, CutPosition
    <3>5. QED
      BY <3>1, <3>4
  <2>11. Distinct(e)
    BY <2>6, <2>7 DEF Distinct
  <2>12. QED
    BY <1>1, <2>1, <2>3, <2>4, <2>6, <2>8, <2>9, <2>10, <2>11, Zenon
<1>4. QED
  BY <1>2, <1>3
=============================================================================
