----------------------------- MODULE LeafSource -----------------------------
(***************************************************************************)
(* CachedLeafSource (dataplane/tlsterm/leafsource.go): the certificates    *)
(* the proxy shows for the names the agent asks for, cached by name, with  *)
(* one mint per name at a time.  A caller is the handshake of a connection *)
(* and calls CertificateFor once.  The mint of a caller runs in a          *)
(* goroutine of its own; a caller that is cancelled leaves the publication *)
(* to another.  A certificate is the caller that had it minted.  The CA of *)
(* a process has one generation (PodCA), so it is no part of the key.      *)
(***************************************************************************)
EXTENDS LRU

CONSTANTS
    Conns,         \* the connections: each asks once
    None,
    Names,
    NameOf,        \* the canonical name each caller asks for
    MaxLeaves,     \* opts.CacheEntries
    Warm           \* the names that earlier connections may have left cached,
                   \* as recency lists

ASSUME LeafAssumption ==
    /\ None \notin Conns /\ NameOf \in [Conns -> Names] /\ MaxLeaves \in Nat \ {0}
    /\ \A s \in Warm : s \in Seq(Names) /\ Distinct(s) /\ Len(s) <= MaxLeaves

VARIABLES
    call,      \* CertificateFor of each caller: "idle", "own", "wait", "ok", "failed"
    via,       \* the mint each caller waits for
    mint,      \* the inflightMint of each caller: "none", "minting", "minted",
               \* "published", "closed"
    minted,    \* whether it succeeded
    leaf,      \* entries, the names that are cached
    order,     \* the recency list
    flying     \* inflight: the caller whose mint is under way for each name

leafVars == <<call, via, mint, minted, leaf, order, flying>>

LeafInit ==
    /\ call = [c \in Conns |-> "idle"] /\ via = [c \in Conns |-> None]
    /\ mint = [c \in Conns |-> "none"] /\ minted = [c \in Conns |-> FALSE]
    /\ order \in Warm /\ leaf = Keys(order)
    /\ flying = [n \in Names |-> None]

LeafHit(c) ==
    /\ call[c] = "idle" /\ NameOf[c] \in leaf
    /\ order' = MoveToFront(order, NameOf[c])
    /\ call' = [call EXCEPT ![c] = "ok"]
    /\ UNCHANGED <<via, mint, minted, leaf, flying>>

\* Mutant of DropExpired: the expired entry is left to be overwritten.
DropExpiredNot(c) == UNCHANGED <<order, leaf>>

\* An entry found by the lookup has expired.
DropExpired(c) ==
    /\ order' = IF NameOf[c] \in leaf THEN Drop(order, NameOf[c]) ELSE order
    /\ leaf' = leaf \ {NameOf[c]}

\* No entry, or one that has expired by now: wait for the mint under way, or
\* start one.
LeafMiss(c) ==
    LET n == NameOf[c] IN
    /\ call[c] = "idle"
    /\ DropExpired(c)
    /\ IF flying[n] # None
       THEN /\ call' = [call EXCEPT ![c] = "wait"] /\ via' = [via EXCEPT ![c] = flying[n]]
            /\ UNCHANGED <<mint, flying>>
       ELSE /\ call' = [call EXCEPT ![c] = "own"] /\ via' = [via EXCEPT ![c] = c]
            /\ mint' = [mint EXCEPT ![c] = "minting"] /\ flying' = [flying EXCEPT ![n] = c]
    /\ UNCHANGED minted

\* The key is generated and the certificate signed, or one of them fails.
Mint(c) ==
    /\ mint[c] = "minting"
    /\ mint' = [mint EXCEPT ![c] = "minted"]
    /\ \E ok \in BOOLEAN : minted' = [minted EXCEPT ![c] = ok]
    /\ UNCHANGED <<call, via, leaf, order, flying>>

\* publish under the lock, by the owner or, when it was cancelled, by the
\* goroutine it left behind.
Publish(c) ==
    LET kept == EvictTo(PushFront(order, NameOf[c]), MaxLeaves) IN
    /\ mint[c] = "minted"
    /\ mint' = [mint EXCEPT ![c] = "published"]
    /\ flying' = [flying EXCEPT ![NameOf[c]] = None]
    /\ IF minted[c]
       THEN order' = kept /\ leaf' = (leaf \cup {NameOf[c]}) \ (Keys(order) \ Keys(kept))
       ELSE UNCHANGED <<order, leaf>>
    /\ UNCHANGED <<call, via, minted>>

Answer(c, o) == [call EXCEPT ![c] = IF minted[o] THEN "ok" ELSE "failed"]

\* A caller lets go of the mint o; one that is closed and that nobody holds
\* any more is garbage.
LetGo(c, o, state) ==
    LET dead == state = "closed" /\ \A d \in Conns \ {c} : via[d] # o IN
    /\ via' = [via EXCEPT ![c] = IF @ = o THEN None ELSE @]
    /\ mint' = [mint EXCEPT ![o] = IF dead THEN "none" ELSE state]
    /\ minted' = [minted EXCEPT ![o] = @ /\ ~dead]

\* The result is set and done closed, after the lock; an owner still there returns.
CloseMint(c) ==
    /\ mint[c] = "published"
    /\ LetGo(c, c, "closed")
    /\ call' = IF call[c] = "own" THEN Answer(c, c) ELSE call
    /\ UNCHANGED <<leaf, order, flying>>

LeafAwaited(c) ==
    /\ call[c] = "wait" /\ mint[via[c]] = "closed"
    /\ call' = Answer(c, via[c])
    /\ LetGo(c, via[c], "closed")
    /\ UNCHANGED <<leaf, order, flying>>

\* Mutant of LeafCancelled: a cancelled owner takes its mint with it.
LeafCancelledAlone(c) ==
    /\ \/ call[c] = "own" /\ mint[c] = "minting" /\ LetGo(c, c, "none")
       \/ call[c] = "wait" /\ mint[via[c]] # "closed" /\ LetGo(c, via[c], mint[via[c]])
    /\ call' = [call EXCEPT ![c] = "failed"]
    /\ UNCHANGED <<leaf, order, flying>>

\* The context is done and the result is not there yet.
LeafCancelled(c) ==
    /\ \/ call[c] = "own" /\ mint[c] = "minting"
       \/ call[c] = "wait" /\ mint[via[c]] # "closed"
    /\ LetGo(c, via[c], mint[via[c]])
    /\ call' = [call EXCEPT ![c] = "failed"]
    /\ UNCHANGED <<leaf, order, flying>>

MintStep(c) == Mint(c) \/ Publish(c) \/ CloseMint(c)

\* CertificateFor has returned and the handshake goes on, or fails.
LeafTaken(c) == call' = [call EXCEPT ![c] = "idle"] /\ UNCHANGED <<via, mint, minted, leaf, order, flying>>
-----------------------------------------------------------------------------
LeafTypeOK ==
    /\ call \in [Conns -> {"idle", "own", "wait", "ok", "failed"}]
    /\ via \in [Conns -> Conns \cup {None}] /\ minted \in [Conns -> BOOLEAN]
    /\ mint \in [Conns -> {"none", "minting", "minted", "published", "closed"}]
    /\ leaf \subseteq Names /\ order \in Seq(Names)
    /\ flying \in [Names -> Conns \cup {None}]

\* Map, list and mints under way agree although owners come and go: the list
\* holds each cached name once and no more than its bound, a name being minted
\* is not cached, so that no publish leaves a stray element in the list, and
\* nobody waits for a mint that was forgotten.
LeafShared ==
    /\ Distinct(order) /\ Len(order) <= MaxLeaves /\ leaf = Keys(order)
    /\ \A n \in Names : flying[n] # None => n \notin leaf
    /\ \A c \in Conns : call[c] = "wait" =>
          flying[NameOf[c]] = via[c] \/ mint[via[c]] \in {"published", "closed"}

\* Why: a mint under way is that of its name, and a caller that waits for a mint
\* of another keeps it from being forgotten.
LeafInv ==
    /\ LeafTypeOK
    /\ Distinct(order) /\ Len(order) <= MaxLeaves /\ leaf = Keys(order)
    /\ \A n \in Names : flying[n] # None =>
          n \notin leaf /\ NameOf[flying[n]] = n /\ mint[flying[n]] \in {"minting", "minted"}
    /\ \A c \in Conns : mint[c] \in {"minting", "minted"} => flying[NameOf[c]] = c
    /\ \A c \in Conns : via[c] # None => NameOf[via[c]] = NameOf[c] /\ mint[via[c]] # "none"
    /\ \A c \in Conns : call[c] = "wait" => via[c] \notin {c, None}
    /\ \A c \in Conns : call[c] = "own" => via[c] = c

\* A handshake that asks for a certificate gets one or an error, although the
\* owner of the mint it waits for may be cancelled and nobody has to cancel the
\* one that waits: there is always a later time with nobody in CertificateFor.
LeafAnswered == []<>(\A c \in Conns : call[c] \notin {"own", "wait"})
=============================================================================
