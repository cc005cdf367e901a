--------------------------- MODULE NegativeCache ---------------------------
(***************************************************************************)
(* The cache of permanent acquisition failures                             *)
(* (internal/token/negative_cache.go): an LRU list with a time to live.    *)
(* Every entry stands for the *AcquireError it holds.  An entry's age is   *)
(* kept up to NegTTL + 1, the first age at which it has expired; absent    *)
(* keys have age 0.                                                        *)
(***************************************************************************)
EXTENDS LRU

CONSTANTS
    Creds,
    NegMaxEntries,  \* after NewNegativeCache's floor of 1
    NegTTL          \* zero: entries never expire

ASSUME NegativeAssumption == NegMaxEntries \in Nat \ {0} /\ NegTTL \in Nat

VARIABLES negOrder, negAge

negativeVars == <<negOrder, negAge>>

NegativeType ==
    /\ negOrder \in Seq(Creds)
    /\ negAge \in [Creds -> 0 .. NegTTL + 1]

NegativeInit ==
    /\ negOrder = <<>>
    /\ negAge = [c \in Creds |-> 0]

\* time.Now().After(expiresAt), with no expiry for a zero TTL.
Expired(c) == NegTTL > 0 /\ negAge[c] > NegTTL

\* What Get finds.
NegativeHit(c) == c \in Keys(negOrder) /\ ~Expired(c)

\* Mutant of NegativeGet: a hit renews the entry.
NegativeGetRenewing(c) ==
    \/ /\ NegativeHit(c)
       /\ negOrder' = MoveToFront(negOrder, c)
       /\ negAge' = [negAge EXCEPT ![c] = 0]
    \/ /\ c \in Keys(negOrder) /\ Expired(c)
       /\ negOrder' = Drop(negOrder, c)
       /\ negAge' = [negAge EXCEPT ![c] = 0]
    \/ c \notin Keys(negOrder) /\ UNCHANGED negativeVars

\* The change Get makes: refresh the recency of a hit, remove what expired.
NegativeGet(c) ==
    \/ NegativeHit(c) /\ negOrder' = MoveToFront(negOrder, c) /\ UNCHANGED negAge
    \/ /\ c \in Keys(negOrder) /\ Expired(c)
       /\ negOrder' = Drop(negOrder, c)
       /\ negAge' = [negAge EXCEPT ![c] = 0]
    \/ c \notin Keys(negOrder) /\ UNCHANGED negativeVars

\* Put: a new entry in front, the oldest ones evicted.
NegativePut(c) ==
    /\ negOrder' = Install(negOrder, c, NegMaxEntries)
    /\ negAge' = [d \in Creds |-> IF d # c /\ d \in Keys(negOrder') THEN negAge[d] ELSE 0]

NegativeTick ==
    /\ negAge' = [c \in Creds |-> IF c \in Keys(negOrder) /\ negAge[c] <= NegTTL
                                  THEN negAge[c] + 1 ELSE negAge[c]]
    /\ UNCHANGED negOrder
=============================================================================
