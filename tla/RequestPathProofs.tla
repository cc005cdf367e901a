------------------------- MODULE RequestPathProofs -------------------------
(***************************************************************************)
(* Proofs about the request path and the leaf certificates its connections *)
(* share, for any connections, names, credentials and bounds.              *)
(***************************************************************************)
EXTENDS RequestPath, LRUProofs, TLAPS

(***************************************************************************)
(* CachedLeafSource.                                                       *)
(***************************************************************************)
\* A cache starts with the names earlier connections left, and nobody asking.
LEMMA LeafInitInv == LeafInit => LeafInv
<1> SUFFICES ASSUME LeafInit PROVE LeafInv
  OBVIOUS
<1>1. order \in Seq(Names) /\ Distinct(order) /\ Len(order) <= MaxLeaves /\ leaf = Keys(order)
  BY LeafAssumption, Zenon DEF LeafInit
<1>2. leaf \subseteq Names
  BY <1>1, SeqShape DEF Keys
<1>3. LeafTypeOK
  BY <1>1, <1>2, Zenon DEF LeafInit, LeafTypeOK
<1> QED
  BY <1>1, <1>3 DEF LeafInit, LeafInv

\* A lookup that hits changes the order of the list only.
LEMMA LeafHitStep ==
  ASSUME LeafInv, NEW c \in Conns, LeafHit(c)
  PROVE  LeafInv'
<1>1. /\ order' \in Seq(Names) /\ Distinct(order') /\ Len(order') <= MaxLeaves
      /\ leaf' = Keys(order')
  <2>1. NameOf[c] \in Keys(order) /\ order \in Seq(Names) /\ Distinct(order)
    BY Zenon DEF LeafHit, LeafInv, LeafTypeOK
  <2>2. /\ order' \in Seq(Names) /\ Distinct(order') /\ Len(order') = Len(order)
        /\ Keys(order') = Keys(order)
    BY <2>1, MoveToFrontProperties, Zenon DEF LeafHit
  <2> QED
    BY <2>2, Zenon DEF LeafHit, LeafInv
<1>2. UNCHANGED <<via, mint, minted, leaf, flying>> /\ call' = [call EXCEPT ![c] = "ok"]
  BY Zenon DEF LeafHit
<1>3. LeafTypeOK'
  BY <1>1, <1>2 DEF LeafInv, LeafTypeOK
<1> QED
  BY <1>1, <1>2, <1>3 DEF LeafInv, LeafTypeOK

\* A lookup that misses drops the entry that has expired, so that a name with
\* a mint under way is not cached.
LEMMA DropExpiredStep ==
  ASSUME LeafInv, NEW c \in Conns, DropExpired(c)
  PROVE  /\ order' \in Seq(Names) /\ Distinct(order') /\ Len(order') <= MaxLeaves
         /\ leaf' = Keys(order') /\ leaf' = leaf \ {NameOf[c]}
<1>1. /\ order \in Seq(Names) /\ Distinct(order) /\ Len(order) <= MaxLeaves /\ leaf = Keys(order)
      /\ Len(order) \in Nat /\ MaxLeaves \in Nat
  BY SeqShape, LeafAssumption DEF LeafInv, LeafTypeOK
<1>2. CASE NameOf[c] \in leaf
  <2>1. /\ order' \in Seq(Names) /\ Distinct(order') /\ Len(order') = Len(order) - 1
        /\ Keys(order') = Keys(order) \ {NameOf[c]}
    BY <1>1, <1>2, DropProperties, Zenon DEF DropExpired
  <2>2. Len(order') <= MaxLeaves
    BY <1>1, <2>1
  <2> QED
    BY <1>1, <2>1, <2>2, Zenon DEF DropExpired
<1>3. CASE NameOf[c] \notin leaf
  BY <1>1, <1>3, Zenon DEF DropExpired
<1> QED
  BY <1>2, <1>3

\* A caller that misses joins the mint of its name or starts it.
LEMMA LeafMissStep ==
  ASSUME LeafInv, NEW c \in Conns, LeafMiss(c), mint[c] = "none", via[c] = None
  PROVE  LeafInv'
<1>1. /\ order' \in Seq(Names) /\ Distinct(order') /\ Len(order') <= MaxLeaves
      /\ leaf' = Keys(order') /\ leaf' = leaf \ {NameOf[c]}
  BY DropExpiredStep, Zenon DEF LeafMiss
<1>2. NameOf[c] \in Names /\ None \notin Conns /\ minted' = minted
  BY LeafAssumption, Zenon DEF LeafMiss
<1>3. CASE flying[NameOf[c]] # None
  <2>1. /\ call' = [call EXCEPT ![c] = "wait"] /\ via' = [via EXCEPT ![c] = flying[NameOf[c]]]
        /\ UNCHANGED <<mint, flying>>
    BY <1>3, Zenon DEF LeafMiss
  <2>2. flying[NameOf[c]] \in Conns /\ flying[NameOf[c]] # c
    BY <1>2, <1>3 DEF LeafInv, LeafTypeOK
  <2>3. LeafTypeOK'
    BY <1>1, <1>2, <2>1, <2>2, Zenon DEF LeafInv, LeafTypeOK
  <2> QED
    BY <1>1, <1>2, <1>3, <2>1, <2>2, <2>3 DEF LeafInv, LeafTypeOK
<1>4. CASE flying[NameOf[c]] = None
  <2>1. /\ call' = [call EXCEPT ![c] = "own"] /\ via' = [via EXCEPT ![c] = c]
        /\ mint' = [mint EXCEPT ![c] = "minting"] /\ flying' = [flying EXCEPT ![NameOf[c]] = c]
    BY <1>4, Zenon DEF LeafMiss
  <2>2. LeafTypeOK'
    BY <1>1, <1>2, <2>1 DEF LeafInv, LeafTypeOK
  <2> QED
    BY <1>1, <1>2, <1>4, <2>1, <2>2 DEF LeafInv, LeafTypeOK
<1> QED
  BY <1>3, <1>4

\* Generating the key and signing leaves the mint under way.
LEMMA MintKeeps ==
  ASSUME LeafInv, NEW c \in Conns, Mint(c)
  PROVE  LeafInv'
<1>1. /\ mint[c] = "minting" /\ mint' = [mint EXCEPT ![c] = "minted"]
      /\ UNCHANGED <<call, via, leaf, order, flying>>
  BY Zenon DEF Mint
<1>2. minted' \in [Conns -> BOOLEAN]
  <2>1. PICK ok \in BOOLEAN : minted' = [minted EXCEPT ![c] = ok]
    BY Zenon DEF Mint
  <2> QED
    BY <2>1 DEF LeafInv, LeafTypeOK
<1>3. LeafTypeOK'
  BY <1>1, <1>2, Zenon DEF LeafInv, LeafTypeOK
<1> QED
  BY <1>1, <1>3 DEF LeafInv, LeafTypeOK

\* publish pushes a name the list does not hold, and evicts down to the bound.
LEMMA PublishKeeps ==
  ASSUME LeafInv, NEW c \in Conns, Publish(c)
  PROVE  LeafInv'
<1> DEFINE n == NameOf[c]
           kept == EvictTo(PushFront(order, n), MaxLeaves)
<1>1. /\ mint[c] = "minted" /\ mint' = [mint EXCEPT ![c] = "published"]
      /\ flying' = [flying EXCEPT ![n] = None]
      /\ UNCHANGED <<call, via, minted>>
  BY Zenon DEF Publish
<1>2. n \in Names /\ flying[n] = c /\ n \notin leaf /\ None \notin Conns
  BY <1>1, LeafAssumption DEF LeafInv
<1>3. /\ order \in Seq(Names) /\ Distinct(order) /\ Len(order) <= MaxLeaves /\ leaf = Keys(order)
      /\ MaxLeaves \in Nat \ {0} /\ Keys(order) \subseteq Names
  BY LeafAssumption, Zenon DEF LeafInv, LeafTypeOK
<1>4. /\ kept \in Seq(Names) /\ Distinct(kept) /\ Len(kept) <= MaxLeaves
      /\ n \in Keys(kept) /\ Keys(kept) \subseteq Keys(order) \cup {n}
  <2>1. kept = Install(order, n, MaxLeaves)
    BY <1>2, <1>3, Zenon DEF Install
  <2> HIDE DEF n, kept
  <2> QED
    BY <1>2, <1>3, <2>1, InstallProperties
<1>5. /\ order' \in Seq(Names) /\ Distinct(order') /\ Len(order') <= MaxLeaves
      /\ leaf' = Keys(order') /\ leaf' \subseteq leaf \cup {n}
  <2>1. CASE minted[c]
    <3>1. order' = kept /\ leaf' = (leaf \cup {n}) \ (Keys(order) \ Keys(kept))
      BY <2>1, Zenon DEF Publish
    <3>2. leaf' = Keys(kept)
      BY <1>2, <1>3, <1>4, <3>1
    <3> QED
      BY <1>3, <1>4, <3>1, <3>2, Zenon
  <2>2. CASE ~minted[c]
    BY <1>3, <2>2, Zenon DEF Publish
  <2> QED
    BY <2>1, <2>2
<1> HIDE DEF kept
<1>6. LeafTypeOK'
  BY <1>1, <1>2, <1>3, <1>5 DEF LeafInv, LeafTypeOK
<1> QED
  BY <1>1, <1>2, <1>5, <1>6 DEF LeafInv, LeafTypeOK

\* What letting go of a mint that is done leaves for the others that hold it.
LEMMA LetGoKeeps ==
  ASSUME LeafInv, NEW c \in Conns, NEW o \in Conns, LetGo(c, o, "closed"),
         mint[o] \in {"published", "closed"}
  PROVE  /\ via' \in [Conns -> Conns \cup {None}] /\ minted' \in [Conns -> BOOLEAN]
         /\ mint' \in [Conns -> {"none", "minting", "minted", "published", "closed"}]
         /\ \A d \in Conns : d # o => mint'[d] = mint[d]
         /\ mint'[o] \in {"none", "closed"}
         /\ \A d \in Conns : via'[d] = via[d] \/ (d = c /\ via[d] = o /\ via'[d] = None)
         /\ \A d \in Conns : via'[d] = o => mint'[o] = "closed"
<1> DEFINE dead == \A d \in Conns \ {c} : via[d] # o
<1>1. /\ via' = [via EXCEPT ![c] = IF @ = o THEN None ELSE @]
      /\ mint' = [mint EXCEPT ![o] = IF dead THEN "none" ELSE "closed"]
  BY Zenon DEF LetGo
<1>2. minted' = [minted EXCEPT ![o] = minted[o] /\ ~dead]
  BY Zenon DEF LetGo
<1>3. minted' \in [Conns -> BOOLEAN]
  BY <1>2, Zenon DEF LeafInv, LeafTypeOK
<1> HIDE DEF dead
<1>4. /\ via' \in [Conns -> Conns \cup {None}]
      /\ \A d \in Conns : via'[d] = via[d] \/ (d = c /\ via[d] = o /\ via'[d] = None)
  BY <1>1 DEF LeafInv, LeafTypeOK
<1>5. /\ mint' \in [Conns -> {"none", "minting", "minted", "published", "closed"}]
      /\ \A d \in Conns : d # o => mint'[d] = mint[d]
      /\ mint'[o] = IF dead THEN "none" ELSE "closed"
  BY <1>1 DEF LeafInv, LeafTypeOK
<1>6. ASSUME NEW d \in Conns, via'[d] = o PROVE mint'[o] = "closed"
  <2>1. d # c /\ via[d] = o
    BY <1>1, <1>6, LeafAssumption DEF LeafInv, LeafTypeOK
  <2>2. ~dead
    BY <2>1, Zenon DEF dead
  <2> QED
    BY <1>5, <2>2, Zenon
<1> QED
  BY <1>3, <1>4, <1>5, <1>6, Zenon

\* Closing done answers the owner that is still there.
LEMMA CloseMintKeeps ==
  ASSUME LeafInv, NEW c \in Conns, CloseMint(c)
  PROVE  LeafInv'
<1>1. mint[c] = "published" /\ UNCHANGED <<leaf, order, flying>>
  BY Zenon DEF CloseMint
<1>2. /\ via' \in [Conns -> Conns \cup {None}] /\ minted' \in [Conns -> BOOLEAN]
      /\ mint' \in [Conns -> {"none", "minting", "minted", "published", "closed"}]
      /\ \A d \in Conns : d # c => mint'[d] = mint[d]
      /\ mint'[c] \in {"none", "closed"}
      /\ \A d \in Conns : via'[d] = via[d] \/ (d = c /\ via[d] = c /\ via'[d] = None)
      /\ \A d \in Conns : via'[d] = c => mint'[c] = "closed"
  BY <1>1, LetGoKeeps, Zenon DEF CloseMint
<1>3. /\ call' \in [Conns -> {"idle", "own", "wait", "ok", "failed"}]
      /\ \A d \in Conns : d # c => call'[d] = call[d]
      /\ call'[c] # "own" /\ (call'[c] = "wait" => call[c] = "wait")
  BY DEF CloseMint, Answer, LeafInv, LeafTypeOK
<1>4. LeafTypeOK'
  BY <1>1, <1>2, <1>3, Zenon DEF LeafInv, LeafTypeOK
<1>5. \A n \in Names : flying'[n] # None =>
        n \notin leaf' /\ NameOf[flying'[n]] = n /\ mint'[flying'[n]] \in {"minting", "minted"}
  BY <1>1, <1>2 DEF LeafInv, LeafTypeOK
<1>6. \A d \in Conns : mint'[d] \in {"minting", "minted"} => flying'[NameOf[d]] = d
  BY <1>1, <1>2 DEF LeafInv
<1>7. \A d \in Conns : via'[d] # None => NameOf[via'[d]] = NameOf[d] /\ mint'[via'[d]] # "none"
  BY <1>1, <1>2 DEF LeafInv, LeafTypeOK
<1>8. ASSUME NEW d \in Conns
      PROVE  /\ call'[d] = "wait" => via'[d] \notin {d, None}
             /\ call'[d] = "own" => via'[d] = d
  <2>1. CASE d # c
    <3>1. call'[d] = call[d] /\ via'[d] = via[d]
      BY <1>2, <1>3, <2>1, Zenon
    <3> QED
      BY <3>1, Zenon DEF LeafInv
  <2>2. CASE d = c
    BY <1>1, <1>2, <1>3, <2>2 DEF LeafInv
  <2> QED
    BY <2>1, <2>2
<1>9. (Distinct(order) /\ Len(order) <= MaxLeaves /\ leaf = Keys(order))'
  BY <1>1 DEF LeafInv, Distinct, Keys
<1> QED
  BY <1>4, <1>5, <1>6, <1>7, <1>8, <1>9, Zenon DEF LeafInv

\* A caller that waited takes the result.
LEMMA LeafAwaitedKeeps ==
  ASSUME LeafInv, NEW c \in Conns, LeafAwaited(c)
  PROVE  LeafInv'
<1> DEFINE o == via[c]
<1>1. call[c] = "wait" /\ mint[o] = "closed" /\ UNCHANGED <<leaf, order, flying>>
  BY Zenon DEF LeafAwaited
<1>0. o \in Conns
  BY <1>1 DEF LeafInv, LeafTypeOK
<1>2. /\ via' \in [Conns -> Conns \cup {None}] /\ minted' \in [Conns -> BOOLEAN]
      /\ mint' \in [Conns -> {"none", "minting", "minted", "published", "closed"}]
      /\ \A d \in Conns : d # o => mint'[d] = mint[d]
      /\ mint'[o] \in {"none", "closed"}
      /\ \A d \in Conns : via'[d] = via[d] \/ (d = c /\ via[d] = o /\ via'[d] = None)
      /\ \A d \in Conns : via'[d] = o => mint'[o] = "closed"
  BY <1>0, <1>1, LetGoKeeps, Zenon DEF LeafAwaited
<1>3. /\ call' \in [Conns -> {"idle", "own", "wait", "ok", "failed"}]
      /\ \A d \in Conns : d # c => call'[d] = call[d]
      /\ call'[c] \in {"ok", "failed"}
  BY DEF LeafAwaited, Answer, LeafInv, LeafTypeOK
<1>4. LeafTypeOK'
  BY <1>1, <1>2, <1>3, Zenon DEF LeafInv, LeafTypeOK
<1> HIDE DEF o
<1>5. \A n \in Names : flying'[n] # None =>
        n \notin leaf' /\ NameOf[flying'[n]] = n /\ mint'[flying'[n]] \in {"minting", "minted"}
  BY <1>0, <1>1, <1>2 DEF LeafInv, LeafTypeOK
<1>6. \A d \in Conns : mint'[d] \in {"minting", "minted"} => flying'[NameOf[d]] = d
  BY <1>0, <1>1, <1>2, Zenon DEF LeafInv
<1>7. \A d \in Conns : via'[d] # None => NameOf[via'[d]] = NameOf[d] /\ mint'[via'[d]] # "none"
  BY <1>0, <1>1, <1>2 DEF LeafInv, LeafTypeOK
<1>8. ASSUME NEW d \in Conns
      PROVE  /\ call'[d] = "wait" => via'[d] \notin {d, None}
             /\ call'[d] = "own" => via'[d] = d
  <2>1. CASE d # c
    <3>1. call'[d] = call[d] /\ via'[d] = via[d]
      BY <1>2, <1>3, <2>1, Zenon
    <3> QED
      BY <3>1, Zenon DEF LeafInv
  <2>2. CASE d = c
    BY <1>0, <1>1, <1>2, <1>3, <2>2, Zenon DEF LeafInv
  <2> QED
    BY <2>1, <2>2, Zenon
<1>9. (Distinct(order) /\ Len(order) <= MaxLeaves /\ leaf = Keys(order))'
  BY <1>1 DEF LeafInv, Distinct, Keys
<1> QED
  BY <1>4, <1>5, <1>6, <1>7, <1>8, <1>9, Zenon DEF LeafInv

\* A caller that is cancelled leaves the mint to those that still wait.
LEMMA LeafCancelledKeeps ==
  ASSUME LeafInv, NEW c \in Conns, LeafCancelled(c)
  PROVE  LeafInv'
<1> DEFINE o == via[c]
<1>1. /\ UNCHANGED <<leaf, order, flying>> /\ call' = [call EXCEPT ![c] = "failed"]
      /\ LetGo(c, o, mint[o]) /\ call[c] \in {"own", "wait"}
  BY Zenon DEF LeafCancelled
<1>2. o \in Conns /\ mint[o] # "closed"
  BY DEF LeafInv, LeafTypeOK, LeafCancelled
<1>3. via' = [via EXCEPT ![c] = None]
  BY <1>1, Zenon DEF LetGo
<1>4. mint' = mint
  BY <1>1, <1>2 DEF LetGo, LeafInv, LeafTypeOK
<1>5. minted' \in [Conns -> BOOLEAN]
  BY <1>1, Zenon DEF LetGo, LeafInv, LeafTypeOK
<1>6. LeafTypeOK'
  BY <1>1, <1>3, <1>4, <1>5, Zenon DEF LeafInv, LeafTypeOK
<1> QED
  BY <1>1, <1>3, <1>4, <1>6, LeafAssumption DEF LeafInv, LeafTypeOK

\* The handshake goes on with the answer.
LEMMA LeafTakenKeeps ==
  ASSUME LeafInv, NEW c \in Conns, LeafTaken(c)
  PROVE  LeafInv'
BY DEF LeafTaken, LeafInv, LeafTypeOK
-----------------------------------------------------------------------------
(***************************************************************************)
(* The request path.                                                       *)
(***************************************************************************)
\* The request a connection is at is a request.
LEMMA ReqType ==
  ASSUME PathType, LinkInv, NEW c \in Conns, pc[c] \in {"admit"} \cup ServeOne
  PROVE  Req(c) \in Reqs
<1>1. served[c] \in Nat /\ load[c] \in 0 .. MaxRequests /\ served[c] < load[c] /\ MaxRequests \in Nat
  BY RequestPathAssumption DEF PathType, LinkInv
<1> QED
  BY <1>1 DEF Req, Reqs

\* Closing an upstream connection keeps the types.
LEMMA CloseLinkType ==
  ASSUME PathType, NEW l \in Reqs \cup {None}, CloseLink(l)
  PROVE  link' \in [Reqs -> {"none", "dialling", "open", "closed"}]
BY Zenon DEF CloseLink, PathType

\* Decisions keep the types.
LEMMA DecideType ==
  ASSUME PathType, NEW c \in Conns, NEW s \in {"allow", "deny"}
  PROVE  /\ Latch(c) => decided' \in [Conns -> BOOLEAN]
         /\ Record(c, s) => samples' \in [Conns -> Seq({"allow", "deny"})]
         /\ Decide(c, s) => decided' \in [Conns -> BOOLEAN] /\ samples' \in [Conns -> Seq({"allow", "deny"})]
<1>1. ASSUME Latch(c) PROVE decided' \in [Conns -> BOOLEAN]
  BY <1>1, Zenon DEF Latch, PathType
<1>2. ASSUME Record(c, s) PROVE samples' \in [Conns -> Seq({"allow", "deny"})]
  <2>1. Append(samples[c], s) \in Seq({"allow", "deny"})
    BY DEF PathType
  <2> QED
    BY <1>2, <2>1, Zenon DEF Record, PathType
<1> QED
  BY <1>1, <1>2, Zenon DEF Decide, PathType

\* Leaving keeps the types.
LEMMA LeaveType ==
  ASSUME PathType, NEW c \in Conns, NEW f \in Fates, Leave(c, f)
  PROVE  /\ pc' \in [Conns -> {"resolve", "handshake", "leaf", "wait", "admit", "unwind", "rollup",
                               "done"} \cup ServeOne]
         /\ fate' \in [Conns -> Fates] /\ stall' \in [Conns -> {"none", "up", "down"}]
BY Zenon DEF Leave, Goto, PathType

\* Every step of a handler keeps the types.
LEMMA HandlerType ==
  ASSUME PathType, LinkInv, NEW c \in Conns
  PROVE  /\ Opens(c) \/ Serves(c) => PathType'
         /\ Dials(c) \/ Relays(c) => PathType'
         /\ Panic(c) \/ Ends(c) => PathType'
<1>0. /\ pc[c] \in {"admit"} \cup ServeOne => Req(c) \in Reqs
      /\ up[c] \in Reqs \cup {None}
  BY ReqType, Zenon DEF PathType
<1>L. {"resolve", "handshake", "leaf", "wait", "admit", "unwind", "rollup", "done", "read", "validate",
       "decide", "upstream", "dial", "connect", "next", "write", "respond", "deliver"}
      = {"resolve", "handshake", "leaf", "wait", "admit", "unwind", "rollup", "done"} \cup ServeOne
  BY Zenon DEF ServeOne, Relay
<1>F. Fates = {"none", "unresolved", "refused", "denied", "undialled", "failed", "ended", "error", "panicked"}
  BY Zenon DEF Fates
<1> USE DEF connVars, reqVars, upVars
<1>1. ASSUME Resolve(c) PROVE PathType'
  BY <1>1, <1>L, <1>F, Zenon DEF Resolve, Goto, PathType
<1>2. ASSUME ResolveFails(c) PROVE PathType'
  <2>1. samples' \in [Conns -> Seq({"allow", "deny"})]
    <3>1. <<"deny">> \in Seq({"allow", "deny"}) /\ <<"deny", "deny">> \in Seq({"allow", "deny"})
      OBVIOUS
    <3>2. \E s \in Seq({"allow", "deny"}) : samples' = [samples EXCEPT ![c] = s]
      BY <1>2, <3>1, Zenon DEF ResolveFails
    <3> QED
      BY <3>2, Zenon DEF PathType
  <2> QED
    BY <1>2, <2>1, <1>L, <1>F, Zenon DEF ResolveFails, Goto, PathType
<1>3. ASSUME HandleCancelled(c) PROVE PathType'
  BY <1>3, <1>L, <1>F, Zenon DEF HandleCancelled, Goto, PathType
<1>4. ASSUME WaitForRequest(c) PROVE PathType'
  BY <1>4, <1>L, <1>F, Zenon DEF WaitForRequest, Goto, PathType
<1>5. ASSUME Admit(c) PROVE PathType'
  BY <1>5, <1>L, <1>F, Zenon DEF Admit, Goto, PathType
<1>6. ASSUME ReadRequest(c) PROVE PathType'
  BY <1>6, <1>L, <1>F, Zenon DEF ReadRequest, Goto, PathType
<1>7. ASSUME Validate(c) PROVE PathType'
  BY <1>7, <1>L, <1>F, Zenon DEF Validate, Goto, PathType
<1>8. ASSUME WaitEnds(c) PROVE PathType'
  <2>1. PICK f \in {"ended", "error"} : Leave(c, f)
    BY <1>8, Zenon DEF WaitEnds
  <2> QED
    BY <1>8, <2>1, <1>F, LeaveType, Zenon DEF WaitEnds, PathType
<1>9. ASSUME Reject(c) PROVE PathType'
  BY <1>9, <1>F, LeaveType, DecideType, Zenon DEF Reject, PathType
<1>10. ASSUME ExecuteAllows(c) PROVE PathType'
  <2>1. Req(c) \in Reqs
    BY <1>10, <1>0, Zenon DEF ExecuteAllows, ServeOne
  <2>2. cred' \in [Reqs -> Creds \cup {None}]
    <3>1. PICK k \in Creds : cred' = [cred EXCEPT ![Req(c)] = k]
      BY <1>10, RequestPathAssumption, Zenon DEF ExecuteAllows
    <3> QED
      BY <3>1, <2>1, Zenon DEF PathType
  <2> QED
    BY <1>10, <2>2, <1>L, Zenon DEF ExecuteAllows, Goto, PathType
<1>11. ASSUME ExecuteDenies(c) PROVE PathType'
  BY <1>11, <1>F, LeaveType, DecideType, Zenon DEF ExecuteDenies, PathType
<1>12. ASSUME NextRequest(c) PROVE PathType'
  <2>1. served' \in [Conns -> Nat] /\ \A d \in Conns : served'[d] <= load'[d]
    <3>1. served[c] < load[c] /\ load[c] \in Nat /\ load' = load /\ served' = [served EXCEPT ![c] = served[c] + 1]
      BY <1>12, RequestPathAssumption DEF NextRequest, LinkInv, ServeOne, PathType
    <3> QED
      BY <3>1 DEF PathType
  <2> QED
    BY <1>12, <2>1, <1>L, Zenon DEF NextRequest, Goto, PathType
<1>13. ASSUME Reuse(c) PROVE PathType'
  <2>1. Req(c) \in Reqs
    BY <1>13, <1>0, Zenon DEF Reuse, ServeOne
  <2>2. on' \in [Reqs -> Reqs \cup {None}] /\ dog' \in [Reqs -> {"none", "armed", "flagged", "claimed", "closing", "fired", "gone"}]
    BY <1>13, <2>1, <1>0, Zenon DEF Reuse, Arm, PathType
  <2> QED
    BY <1>13, <2>2, <1>L, Zenon DEF Reuse, Arm, Goto, PathType
<1>14. ASSUME Redial(c) PROVE PathType'
  <2>1. link' \in [Reqs -> {"none", "dialling", "open", "closed"}]
    BY <1>14, <1>0, CloseLinkType, Zenon DEF Redial
  <2> QED
    BY <1>14, <2>1, <1>L, Zenon DEF Redial, Goto, PathType
<1>15. ASSUME DialRefused(c) PROVE PathType'
  BY <1>15, <1>F, LeaveType, DecideType, Zenon DEF DialRefused, Undialled, PathType
<1>16. ASSUME DialSlot(c) PROVE PathType'
  <2>1. Req(c) \in Reqs
    BY <1>16, <1>0, Zenon DEF DialSlot, ServeOne
  <2> QED
    BY <1>16, <2>1, <1>L, Zenon DEF DialSlot, Goto, PathType
<1>17. ASSUME DialFails(c) PROVE PathType'
  <2>1. Req(c) \in Reqs
    BY <1>17, <1>0, Zenon DEF DialFails, ServeOne
  <2>2. link' \in [Reqs -> {"none", "dialling", "open", "closed"}]
    BY <1>17, <2>1, Zenon DEF DialFails, PathType
  <2> QED
    BY <1>17, <2>2, <1>F, LeaveType, DecideType, Zenon DEF DialFails, Undialled, PathType
<1>18. ASSUME Dialled(c) PROVE PathType'
  <2>1. Req(c) \in Reqs
    BY <1>18, <1>0, Zenon DEF Dialled, ServeOne
  <2>2. on' \in [Reqs -> Reqs \cup {None}] /\ dog' \in [Reqs -> {"none", "armed", "flagged", "claimed", "closing", "fired", "gone"}]
    BY <1>18, <2>1, Zenon DEF Dialled, Arm, PathType
  <2>3. link' \in [Reqs -> {"none", "dialling", "open", "closed"}] /\ up' \in [Conns -> Reqs \cup {None}]
    BY <1>18, <2>1, Zenon DEF Dialled, PathType
  <2>4. pc' \in [Conns -> {"resolve", "handshake", "leaf", "wait", "admit", "unwind", "rollup", "done"}
                             \cup ServeOne]
    BY <1>18, <1>L, Zenon DEF Dialled, Arm, Goto, PathType
  <2>5. UNCHANGED <<fate, decided, samples, load, served, cred, down, stall>>
    BY <1>18, Zenon DEF Dialled
  <2> QED
    BY <2>2, <2>3, <2>4, <2>5, Zenon DEF PathType
<1>19. ASSUME Stall(c) PROVE PathType'
  <2>1. \E side \in {"up", "down"} : stall' = [stall EXCEPT ![c] = side]
    BY <1>19, Zenon DEF Stall
  <2> QED
    BY <1>19, <2>1, Zenon DEF Stall, PathType
<1>20. ASSUME WriteRequest(c) PROVE PathType'
  BY <1>20, <1>L, <1>F, Zenon DEF WriteRequest, Goto, PathType
<1>21. ASSUME ReadResponse(c) PROVE PathType'
  BY <1>21, <1>L, <1>F, Zenon DEF ReadResponse, Goto, PathType
<1>22. ASSUME RelayFails(c) PROVE PathType'
  <2>1. Fail(c) /\ decided' \in [Conns -> BOOLEAN] /\ samples' \in [Conns -> Seq({"allow", "deny"})]
    BY <1>22, DecideType, Zenon DEF RelayFails, WriteFails, ResponseFails, DeliverFails,
       DecideUnlessTimedOut, PathType
  <2>2. link' \in [Reqs -> {"none", "dialling", "open", "closed"}]
    BY <2>1, <1>0, CloseLinkType, Zenon DEF Fail
  <2> QED
    BY <2>1, <2>2, <1>F, LeaveType, Zenon DEF Fail, PathType
<1>23. ASSUME Deliver(c) PROVE PathType'
  <2>1. link' \in [Reqs -> {"none", "dialling", "open", "closed"}] /\ up' \in [Conns -> Reqs \cup {None}]
    BY <1>23, <1>0, CloseLinkType, Zenon DEF Deliver, PathType
  <2>2. /\ Leave(c, "ended") \/ (Goto(c, "next") /\ UNCHANGED <<fate, stall>>)
        /\ UNCHANGED <<decided, samples, reqVars, dog, down>>
    BY <1>23, Zenon DEF Deliver
  <2>3. CASE Leave(c, "ended")
    BY <2>1, <2>2, <2>3, <1>F, LeaveType, Zenon DEF PathType
  <2>4. CASE Goto(c, "next") /\ UNCHANGED <<fate, stall>>
    BY <2>1, <2>2, <2>4, <1>L, Zenon DEF Goto, PathType
  <2> QED
    BY <2>2, <2>3, <2>4, Zenon
<1>24. ASSUME Panic(c) PROVE PathType'
  BY <1>24, <1>F, LeaveType, Zenon DEF Panic, PathType
<1>25. ASSUME Unwind(c) PROVE PathType'
  <2>1. link' \in [Reqs -> {"none", "dialling", "open", "closed"}]
    BY <1>25, <1>0, CloseLinkType, Zenon DEF Unwind
  <2> QED
    BY <1>25, <2>1, <1>L, Zenon DEF Unwind, Goto, PathType
<1>26. ASSUME Rollup(c) PROVE PathType'
  <2>1. decided' \in [Conns -> BOOLEAN] /\ samples' \in [Conns -> Seq({"allow", "deny"})]
    BY <1>26, DecideType, Zenon DEF Rollup, PathType
  <2> QED
    BY <1>26, <2>1, <1>L, Zenon DEF Rollup, Goto, PathType
<1> QED
  BY <1>1, <1>2, <1>3, <1>4, <1>5, <1>6, <1>7, <1>8, <1>9, <1>10, <1>11, <1>12, <1>13, <1>14, <1>15, <1>16, <1>17, <1>18,
     <1>19, <1>20, <1>21, <1>22, <1>23, <1>24, <1>25, <1>26, Zenon DEF Opens, Serves, AdmitRejects, ReadRejects,
     ValidateRejects, NextRejects, Dials, Relays, Ends

\* So does every step of the handshake ...
LEMMA GreetType ==
  ASSUME PathType, NEW c \in Conns, Greets(c)
  PROVE  PathType'
<1> USE DEF connVars, reqVars, upVars
<1>1. CASE AskLeaf(c)
  BY <1>1, Zenon DEF AskLeaf, Goto, PathType
<1>2. CASE LeafSteps(c)
  BY <1>2, Zenon DEF LeafSteps, pathVars, PathType
<1>3. CASE Handshake(c)
  BY <1>3, Zenon DEF Handshake, Goto, PathType
<1>4. CASE HandshakeFails(c)
  BY <1>4, DecideType, Zenon DEF HandshakeFails, Goto, PathType, Fates
<1> QED
  BY <1>1, <1>2, <1>3, <1>4, Zenon DEF Greets

\* ... and of a watchdog.
LEMMA DogType ==
  ASSUME PathType, NEW r \in Reqs, Watches(r)
  PROVE  PathType'
<1> USE DEF connVars, reqVars, upVars, DogMoves
<1>0. r[1] \in Conns /\ on[r] \in Reqs \cup {None}
  BY DEF Reqs, PathType
<1>1. CASE DogDone(r) \/ DogExpires(r)
  BY <1>1, Zenon DEF DogDone, DogExpires, PathType
<1>2. CASE DogClaims(r)
  BY <1>0, <1>2, DecideType, Zenon DEF DogClaims, PathType
<1>3. CASE DogClosesUp(r)
  BY <1>0, <1>3, CloseLinkType, Zenon DEF DogClosesUp, PathType
<1>4. CASE DogClosesDown(r)
  BY <1>0, <1>4, Zenon DEF DogClosesDown, PathType
<1> QED
  BY <1>1, <1>2, <1>3, <1>4, Zenon DEF Watches, Fires

\* Every step keeps the types.
LEMMA PathTypeStep ==
  ASSUME PathType, LinkInv, [Next]_vars
  PROVE  PathType'
<1>1. ASSUME UNCHANGED vars PROVE PathType'
  BY <1>1, Zenon DEF vars, pathVars, connVars, reqVars, upVars, PathType
<1> QED
  BY <1>1, HandlerType, GreetType, DogType, Zenon DEF Next

\* A connection past its question never comes back to it.
LEMMA NeverBack ==
  ASSUME PathType, [Next]_vars, NEW d \in Conns, pc'[d] \in {"resolve", "handshake"}
  PROVE  pc[d] \in {"resolve", "handshake"}
<1> SUFFICES ASSUME pc'[d] # pc[d] PROVE pc[d] \in {"resolve", "handshake"}
  BY Zenon
<1> USE DEF PathType
<1>1. ASSUME UNCHANGED pc PROVE FALSE
  BY <1>1, Zenon
<1>2. ASSUME NEW c \in Conns, NEW l, Goto(c, l), l \notin {"resolve", "handshake"} PROVE FALSE
  BY <1>2 DEF Goto
<1>3. ASSUME NEW c \in Conns, Greets(c) PROVE FALSE
  BY <1>1, <1>2, <1>3, Zenon DEF Greets, AskLeaf, LeafSteps, Handshake, HandshakeFails, pathVars
<1>4. ASSUME NEW c \in Conns, Opens(c) PROVE pc[d] \in {"resolve", "handshake"}
  <2>1. CASE Resolve(c)
    BY <2>1 DEF Resolve, Goto
  <2> QED
    BY <1>2, <1>4, <2>1, Zenon DEF Opens, ResolveFails, HandleCancelled
<1>5. ASSUME NEW c \in Conns, Serves(c) PROVE FALSE
  <2>1. ASSUME WaitForRequest(c) \/ Admit(c) \/ ReadRequest(c) \/ Validate(c) \/ ExecuteAllows(c)
               \/ NextRequest(c)
        PROVE  FALSE
    BY <1>2, <2>1, Zenon DEF WaitForRequest, Admit, ReadRequest, Validate, ExecuteAllows, NextRequest
  <2>2. ASSUME WaitEnds(c) \/ Reject(c) \/ ExecuteDenies(c) PROVE FALSE
    <3>1. ASSUME NEW f, Leave(c, f) PROVE FALSE
      BY <1>2, <3>1, Zenon DEF Leave
    <3>2. CASE WaitEnds(c)
      BY <3>1, <3>2, Zenon DEF WaitEnds
    <3>3. CASE Reject(c)
      BY <3>1, <3>3, Zenon DEF Reject
    <3>4. CASE ExecuteDenies(c)
      BY <3>1, <3>4, Zenon DEF ExecuteDenies
    <3> QED
      BY <2>2, <3>2, <3>3, <3>4, Zenon
  <2> QED
    BY <1>5, <2>1, <2>2, Zenon DEF Serves, AdmitRejects, ReadRejects, ValidateRejects, NextRejects
<1>6. ASSUME NEW c \in Conns, Dials(c) PROVE FALSE
  BY <1>2, <1>6, Zenon DEF Dials, Reuse, Redial, DialRefused, DialSlot, DialFails, Dialled, Arm,
     Undialled, Leave
<1>7. ASSUME NEW c \in Conns, Relays(c) PROVE FALSE
  BY <1>1, <1>2, <1>7, Zenon DEF Relays, Stall, WriteRequest, ReadResponse, Deliver, RelayFails,
     WriteFails, ResponseFails, DeliverFails, Fail, Leave
<1>8. ASSUME NEW c \in Conns, Panic(c) \/ Ends(c) PROVE FALSE
  BY <1>2, <1>8, Zenon DEF Panic, Ends, Unwind, Rollup, Leave
<1>9. ASSUME NEW r \in Reqs, Watches(r) PROVE FALSE
  BY <1>1, <1>9, Zenon DEF Watches, DogDone, DogExpires, Fires, DogClaims, DogClosesUp, DogClosesDown
<1>10. CASE UNCHANGED vars
  BY <1>1, <1>10, Zenon DEF vars, pathVars
<1> QED
  BY <1>3, <1>4, <1>5, <1>6, <1>7, <1>8, <1>9, <1>10, Zenon DEF Next

\* What a step leaves alone in the leaf source.
LEMMA LeafFrame ==
  ASSUME LeafInv, UNCHANGED leafVars
  PROVE  LeafInv'
BY DEF LeafInv, LeafTypeOK, leafVars, Distinct, Keys

\* The steps of CertificateFor keep LeafInv, and touch no connection that has not asked.
LEMMA GreetLeaf ==
  ASSUME LeafInv, AskedOnce, PathType, NEW c \in Conns, Greets(c)
  PROVE  LeafInv' /\ AskedOnce'
<1>0. pc \in [Conns -> {"resolve", "handshake", "leaf", "wait", "admit", "unwind", "rollup", "done"}
                          \cup ServeOne]
  BY Zenon DEF PathType
<1>1. CASE AskLeaf(c)
  <2>1. pc[c] = "handshake" /\ pc' = [pc EXCEPT ![c] = "leaf"] /\ (LeafHit(c) \/ LeafMiss(c))
    BY <1>1, Zenon DEF AskLeaf, Goto
  <2>2. LeafInv'
    BY <2>1, LeafHitStep, LeafMissStep, Zenon DEF AskedOnce
  <2>3. ASSUME NEW d \in Conns, d # c PROVE call'[d] = call[d] /\ mint'[d] = mint[d] /\ via'[d] = via[d]
    BY <2>1, <2>3 DEF LeafHit, LeafMiss, LeafInv, LeafTypeOK
  <2> QED
    BY <1>0, <2>1, <2>2, <2>3 DEF AskedOnce
<1>2. CASE LeafSteps(c)
  <2>1. LeafInv'
    BY <1>2, MintKeeps, PublishKeeps, CloseMintKeeps, LeafAwaitedKeeps, LeafCancelledKeeps, Zenon
       DEF LeafSteps, MintStep
  <2>2. pc' = pc
    BY <1>2, Zenon DEF LeafSteps, pathVars
  <2>3. ASSUME NEW d \in Conns, call[d] = "idle", mint[d] = "none", via[d] = None
        PROVE  call'[d] = "idle" /\ mint'[d] = "none" /\ via'[d] = None
    <3>1. CASE Mint(c) \/ Publish(c)
      BY <2>3, <3>1 DEF Mint, Publish, LeafInv, LeafTypeOK
    <3>2. CASE CloseMint(c)
      BY <2>3, <3>2 DEF CloseMint, LetGo, Answer, LeafInv, LeafTypeOK
    <3>3. CASE LeafAwaited(c) \/ LeafCancelled(c)
      <4>1. call[c] \in {"own", "wait"} /\ LetGo(c, via[c], mint[via[c]])
        BY <3>3, Zenon DEF LeafAwaited, LeafCancelled
      <4>2. via[c] \in Conns /\ mint[via[c]] # "none" /\ via[c] # d /\ c # d
        BY <2>3, <4>1, LeafAssumption DEF LeafInv, LeafTypeOK
      <4> QED
        BY <2>3, <3>3, <4>1, <4>2 DEF LeafAwaited, LeafCancelled, LetGo, Answer, LeafInv, LeafTypeOK
    <3> QED
      BY <1>2, <3>1, <3>2, <3>3, Zenon DEF LeafSteps, MintStep
  <2> QED
    BY <2>1, <2>2, <2>3, Zenon DEF AskedOnce
<1>3. CASE LeafTaken(c) /\ pc' \in {[pc EXCEPT ![c] = "wait"], [pc EXCEPT ![c] = "rollup"]}
  <2>1. LeafInv'
    BY <1>3, LeafTakenKeeps, Zenon
  <2> QED
    BY <1>0, <1>3, <2>1 DEF LeafTaken, AskedOnce, LeafInv, LeafTypeOK
<1>4. CASE UNCHANGED leafVars /\ pc' = [pc EXCEPT ![c] = "rollup"]
  <2>1. LeafInv'
    BY <1>4, LeafFrame, Zenon
  <2> QED
    BY <1>0, <1>4, <2>1 DEF AskedOnce, leafVars
<1> QED
  BY <1>1, <1>2, <1>3, <1>4, Zenon DEF Greets, Handshake, HandshakeFails, Goto

\* Every step keeps what the leaf source rests on.
LEMMA LeafPartStep ==
  ASSUME LeafInv, AskedOnce, PathType, [Next]_vars
  PROVE  LeafInv' /\ AskedOnce'
<1>1. ASSUME UNCHANGED leafVars PROVE LeafInv' /\ AskedOnce'
  BY <1>1, LeafFrame, NeverBack, Zenon DEF AskedOnce, leafVars
<1> QED
  BY <1>1, GreetLeaf, Zenon DEF Next, vars

\* A step of the handler of c that moves on, closes upstream connections and
\* forgets one that is closed, keeps LinkInv.
LEMMA LinkFrame ==
  ASSUME PathType, PathType', LinkInv, NEW c \in Conns,
         UNCHANGED <<load, served, cred, on>>,
         \A r \in Reqs : link'[r] \in {link[r], "closed"},
         \A d \in Conns : d # c => up'[d] = up[d] /\ pc'[d] = pc[d],
         up'[c] = up[c] \/ (up'[c] = None /\ (up[c] # None => link'[up[c]] # "open")),
         pc'[c] \in {"resolve", "handshake", "leaf", "dial", "connect"} => up'[c] = None,
         pc'[c] \in {"admit"} \cup ServeOne => served[c] < load[c],
         pc'[c] \notin Late => pc[c] \notin Late,
         pc[c] = "connect" => link'[Req(c)] # "dialling",
         pc'[c] \in {"rollup", "done"} => \A r \in Reqs : r[1] = c => link'[r] # "open"
  PROVE  LinkInv'
<1>1. ASSUME NEW d \in Conns
      PROVE  /\ up'[d] # None => up'[d][1] = d /\ on'[up'[d]] = up'[d]
             /\ pc'[d] \in {"resolve", "handshake", "leaf", "dial", "connect"} => up'[d] = None
             /\ pc'[d] \in {"admit"} \cup ServeOne => served'[d] < load'[d]
  <2>1. up'[d] # None => up'[d] = up[d]
    BY Zenon
  <2>2. up[d] # None => up[d][1] = d /\ on[up[d]] = up[d]
    BY Zenon DEF LinkInv
  <2>3. pc'[d] \in {"resolve", "handshake", "leaf", "dial", "connect"} => up'[d] = None
    <3>1. d # c => up'[d] = up[d] /\ pc'[d] = pc[d]
      BY Zenon
    <3>2. pc[d] \in {"resolve", "handshake", "leaf", "dial", "connect"} => up[d] = None
      BY Zenon DEF LinkInv
    <3> QED
      BY <3>1, <3>2
  <2>4. pc'[d] \in {"admit"} \cup ServeOne => served[d] < load[d]
    <3>1. pc[d] \in {"admit"} \cup ServeOne => served[d] < load[d]
      BY Zenon DEF LinkInv
    <3> QED
      BY <3>1, Zenon
  <2> QED
    BY <2>1, <2>2, <2>3, <2>4
<1>2. ASSUME NEW r \in Reqs,
             r[2] > served'[r[1]] + 1 \/ (r = Req(r[1])' /\ pc'[r[1]] \notin Late)
      PROVE  on'[r] = None
  <2>1. Req(r[1])' = Req(r[1]) /\ served' = served /\ r[1] \in Conns
    BY DEF Req, Reqs
  <2>2. r[2] > served[r[1]] + 1 \/ (r = Req(r[1]) /\ pc[r[1]] \notin Late)
    BY <1>2, <2>1, Zenon
  <2>3. on[r] = None
    BY <2>2, Zenon DEF LinkInv
  <2> QED
    BY <2>3, Zenon
<1>3. ASSUME NEW r \in Reqs, on'[r] # None PROVE on'[on'[r]] = on'[r] /\ cred'[on'[r]] = cred'[r]
  BY <1>3, Zenon DEF LinkInv
<1>4. ASSUME NEW r \in Reqs
      PROVE  /\ link'[r] = "dialling" => pc'[r[1]] = "connect" /\ r = Req(r[1])'
             /\ link'[r] = "open" => up'[r[1]] = r /\ pc'[r[1]] \notin {"rollup", "done"}
  <2>0. r[1] \in Conns /\ r # None /\ Req(r[1])' = Req(r[1])
    BY RequestPathAssumption DEF Reqs, Req
  <2>1. ASSUME link'[r] = "dialling" PROVE pc'[r[1]] = "connect" /\ r = Req(r[1])'
    <3>1. link[r] = "dialling" /\ pc[r[1]] = "connect" /\ r = Req(r[1])
      BY <2>1 DEF LinkInv
    <3>2. r[1] # c
      BY <2>1, <3>1, Zenon
    <3> QED
      BY <2>0, <3>1, <3>2, Zenon
  <2>2. ASSUME link'[r] = "open" PROVE up'[r[1]] = r /\ pc'[r[1]] \notin {"rollup", "done"}
    <3>1. up[r[1]] = r /\ pc[r[1]] \notin {"rollup", "done"}
      BY <2>2 DEF LinkInv
    <3> QED
      BY <2>0, <2>2, <3>1, Zenon
  <2> QED
    BY <2>1, <2>2, Zenon
<1> QED
  BY <1>1, <1>2, <1>3, <1>4, Zenon DEF LinkInv

\* The case in which upstream connections are left alone.
LEMMA LinkMoves ==
  ASSUME PathType, PathType', LinkInv, NEW c \in Conns, NEW l, Goto(c, l),
         UNCHANGED <<load, served, cred, on, up, link>>,
         l \notin {"resolve", "dial", "connect"}, l \in {"handshake", "leaf"} => pc[c] \in {"resolve", "handshake"},
         l \in {"admit"} \cup ServeOne => pc[c] \in {"admit"} \cup ServeOne \/ served[c] < load[c],
         l \notin Late => pc[c] \notin Late, 
         pc[c] # "connect",
         l \in {"rollup", "done"} => pc[c] \in {"resolve", "handshake", "leaf", "rollup"}
  PROVE  LinkInv'
<1>1. pc'[c] = l /\ \A d \in Conns : d # c => pc'[d] = pc[d]
  BY DEF Goto, PathType
<1>2. l \in {"resolve", "handshake", "leaf", "dial", "connect"} => up[c] = None
  BY Zenon DEF LinkInv
<1>3. l \in {"admit"} \cup ServeOne => served[c] < load[c]
  BY Zenon DEF LinkInv
<1>4. ASSUME l \in {"rollup", "done"}, NEW r \in Reqs, r[1] = c PROVE link[r] # "open"
  <2>1. r # None
    BY RequestPathAssumption DEF Reqs
  <2> QED
    BY <1>4, <2>1, Zenon DEF LinkInv
<1> QED
  BY <1>1, <1>2, <1>3, <1>4, LinkFrame, Zenon

\* What Close does: it closes that upstream connection at most, if it was open.
LEMMA CloseLinkShape ==
  ASSUME PathType, NEW l \in Reqs \cup {None}, CloseLink(l)
  PROVE  /\ \A r \in Reqs : link'[r] \in {link[r], "closed"}
         /\ l # None => link'[l] # "open"
BY DEF CloseLink, PathType

\* Every step of a handler that only moves keeps LinkInv.
LEMMA MoveLinks ==
  ASSUME PathType, PathType', LinkInv, NEW c \in Conns,
         \/ Opens(c) \/ Greets(c) \/ WaitForRequest(c) \/ WaitEnds(c) \/ Admit(c) \/ AdmitRejects(c)
         \/ ReadRequest(c) \/ ReadRejects(c) \/ Validate(c) \/ ValidateRejects(c)
         \/ ExecuteDenies(c) \/ NextRejects(c) \/ DialRefused(c) \/ WriteRequest(c) \/ ReadResponse(c)
         \/ Stall(c) \/ Panic(c) \/ Rollup(c)
  PROVE  LinkInv'
<1> USE DEF connVars, reqVars, upVars, ServeOne, Relay, Late
<1> DEFINE Still == UNCHANGED <<load, served, cred, on, up, link>>
<1>1. ASSUME Still, pc' = pc PROVE LinkInv'
  BY <1>1 DEF LinkInv, Req
<1>2. ASSUME Goto(c, "unwind"), Still, pc[c] # "connect" PROVE LinkInv'
  BY <1>2, LinkMoves, Zenon
<1>3. ASSUME Goto(c, "rollup"), Still, pc[c] \in {"handshake", "leaf"} PROVE LinkInv'
  BY <1>3, LinkMoves, Zenon
<1>4. CASE Opens(c)
  <2>1. CASE Resolve(c)
    BY <2>1, LinkMoves, Zenon DEF Resolve
  <2>2. CASE ResolveFails(c)
    BY <2>2, LinkMoves, Zenon DEF ResolveFails
  <2>3. CASE HandleCancelled(c)
    BY <2>3, <1>3, Zenon DEF HandleCancelled
  <2> QED
    BY <1>4, <2>1, <2>2, <2>3, Zenon DEF Opens
<1>5. CASE Greets(c)
  <2>1. CASE AskLeaf(c)
    BY <2>1, LinkMoves, Zenon DEF AskLeaf
  <2>2. CASE LeafSteps(c)
    BY <2>2, <1>1, Zenon DEF LeafSteps, pathVars
  <2>3. CASE Handshake(c)
    BY <2>3, LinkMoves, Zenon DEF Handshake
  <2>4. CASE HandshakeFails(c)
    BY <2>4, <1>3, Zenon DEF HandshakeFails
  <2> QED
    BY <1>5, <2>1, <2>2, <2>3, <2>4, Zenon DEF Greets
<1>6. CASE WaitForRequest(c)
  BY <1>6, LinkMoves, Zenon DEF WaitForRequest
<1>7. CASE WaitEnds(c)
  BY <1>7, <1>2, Zenon DEF WaitEnds, Leave
<1>8. CASE Admit(c)
  BY <1>8, LinkMoves, Zenon DEF Admit
<1>9. CASE Reject(c) /\ pc[c] # "connect"
  BY <1>9, <1>2, Zenon DEF Reject, Leave
<1>10. CASE ReadRequest(c)
  BY <1>10, LinkMoves, Zenon DEF ReadRequest
<1>11. CASE Validate(c)
  BY <1>11, LinkMoves, Zenon DEF Validate
<1>12. CASE ExecuteDenies(c)
  BY <1>12, <1>2, Zenon DEF ExecuteDenies, Leave
<1>13. CASE DialRefused(c)
  BY <1>13, <1>2, Zenon DEF DialRefused, Undialled, Leave
<1>14. CASE WriteRequest(c)
  BY <1>14, LinkMoves, Zenon DEF WriteRequest
<1>15. CASE ReadResponse(c)
  BY <1>15, LinkMoves, Zenon DEF ReadResponse
<1>16. CASE Stall(c)
  BY <1>16, <1>1, Zenon DEF Stall
<1>17. CASE Panic(c)
  BY <1>17, <1>2, Zenon DEF Panic, Leave
<1>18. CASE Rollup(c)
  BY <1>18, LinkMoves, Zenon DEF Rollup
<1> QED
  BY <1>4, <1>5, <1>6, <1>7, <1>8, <1>9, <1>10, <1>11, <1>12, <1>13, <1>14, <1>15, <1>16, <1>17, <1>18,
     Zenon DEF AdmitRejects, ReadRejects, ValidateRejects, NextRejects

\* So does every step that closes an upstream connection.
LEMMA CloseLinks ==
  ASSUME PathType, PathType', LinkInv, NEW c \in Conns,
         Redial(c) \/ DialFails(c) \/ RelayFails(c) \/ Deliver(c) \/ Unwind(c)
  PROVE  LinkInv'
<1> USE DEF reqVars, ServeOne, Relay, Late
<1>0. up[c] \in Reqs \cup {None} /\ None \notin Reqs
  BY RequestPathAssumption DEF PathType, Reqs
<1>1. ASSUME NEW l, Goto(c, l) PROVE pc'[c] = l /\ \A d \in Conns : d # c => pc'[d] = pc[d]
  BY <1>1 DEF Goto, PathType
<1>2. ASSUME up' = [up EXCEPT ![c] = None]
      PROVE  up'[c] = None /\ \A d \in Conns : d # c => up'[d] = up[d]
  BY <1>2 DEF PathType
<1>3. ASSUME CloseLink(up[c]) PROVE /\ \A r \in Reqs : link'[r] \in {link[r], "closed"}
                                    /\ up[c] # None => link'[up[c]] # "open"
  BY <1>3, <1>0, CloseLinkShape, Zenon
<1>4. CASE Redial(c)
  <2>1. served[c] < load[c] /\ pc[c] = "upstream"
    BY <1>4 DEF Redial, LinkInv
  <2>2. /\ \A r \in Reqs : link'[r] \in {link[r], "closed"}
        /\ up[c] # None => link'[up[c]] # "open"
        /\ up'[c] = None /\ \A d \in Conns : d # c => up'[d] = up[d]
    BY <1>2, <1>3, <1>4, Zenon DEF Redial
  <2>3. /\ pc'[c] = "dial" /\ \A d \in Conns : d # c => pc'[d] = pc[d]
        /\ UNCHANGED <<load, served, cred, on>>
    BY <1>1, <1>4, Zenon DEF Redial
  <2> QED
    BY <2>1, <2>2, <2>3, LinkFrame, Zenon
<1>5. CASE DialFails(c)
  <2>1. Req(c) \in Reqs /\ link' = [link EXCEPT ![Req(c)] = "closed"]
    BY <1>5, ReqType, Zenon DEF DialFails
  <2>2. link'[Req(c)] = "closed" /\ \A r \in Reqs : link'[r] \in {link[r], "closed"}
    BY <2>1 DEF PathType
  <2>3. /\ pc'[c] = "unwind" /\ \A d \in Conns : d # c => pc'[d] = pc[d]
        /\ UNCHANGED <<load, served, cred, on, up>>
    BY <1>1, <1>5, Zenon DEF DialFails, Undialled, Leave
  <2> QED
    BY <2>2, <2>3, LinkFrame, Zenon
<1>6. CASE RelayFails(c)
  <2>1. Fail(c) /\ pc[c] \in Relay
    BY <1>6, Zenon DEF RelayFails, WriteFails, ResponseFails, DeliverFails
  <2>2. /\ \A r \in Reqs : link'[r] \in {link[r], "closed"}
        /\ up[c] # None => link'[up[c]] # "open"
        /\ up'[c] = None /\ \A d \in Conns : d # c => up'[d] = up[d]
    BY <1>2, <1>3, <2>1, Zenon DEF Fail
  <2>3. /\ pc'[c] = "unwind" /\ \A d \in Conns : d # c => pc'[d] = pc[d]
        /\ UNCHANGED <<load, served, cred, on>> /\ pc[c] # "connect"
    BY <1>1, <2>1, Zenon DEF Fail, Leave
  <2> QED
    BY <2>2, <2>3, LinkFrame, Zenon
<1>7. CASE Deliver(c)
  <2>1. /\ \A r \in Reqs : link'[r] \in {link[r], "closed"}
        /\ \A d \in Conns : d # c => up'[d] = up[d]
        /\ up'[c] = up[c] \/ (up'[c] = None /\ (up[c] # None => link'[up[c]] # "open"))
    BY <1>2, <1>3, <1>7, Zenon DEF Deliver, upVars
  <2>2. /\ pc'[c] \in {"unwind", "next"} /\ \A d \in Conns : d # c => pc'[d] = pc[d]
        /\ pc[c] = "deliver" /\ UNCHANGED <<load, served, cred, on>>
    BY <1>1, <1>7, Zenon DEF Deliver, Leave
  <2>3. served[c] < load[c]
    BY <2>2 DEF LinkInv
  <2> QED
    BY <2>1, <2>2, <2>3, LinkFrame, Zenon
<1>8. CASE Unwind(c)
  <2>1. ASSUME NEW r \in Reqs, r[1] = c PROVE link'[r] # "open"
    <3>1. link[r] = "open" => up[c] = r
      BY <2>1, Zenon DEF LinkInv
    <3>2. link'[r] \in {link[r], "closed"} /\ (up[c] # None => link'[up[c]] # "open")
      BY <1>3, <1>8, Zenon DEF Unwind
    <3> QED
      BY <1>0, <3>1, <3>2
  <2>2. /\ pc'[c] = "rollup" /\ \A d \in Conns : d # c => pc'[d] = pc[d]
        /\ UNCHANGED <<load, served, cred, on, up>> /\ pc[c] = "unwind"
        /\ \A r \in Reqs : link'[r] \in {link[r], "closed"}
    BY <1>1, <1>3, <1>8, Zenon DEF Unwind
  <2> QED
    BY <2>1, <2>2, LinkFrame, Zenon
<1> QED
  BY <1>4, <1>5, <1>6, <1>7, <1>8, Zenon

\* A credential is set for a request that nothing has been relayed for.
LEMMA AllowLinks ==
  ASSUME PathType, LinkInv, NEW c \in Conns, ExecuteAllows(c)
  PROVE  LinkInv'
<1> USE DEF ServeOne, Relay, Late
<1>1. /\ pc[c] = "decide" /\ Goto(c, "upstream")
      /\ UNCHANGED <<load, served, on, up, link>>
  BY Zenon DEF ExecuteAllows, upVars
<1>2. Req(c) \in Reqs /\ on[Req(c)] = None
  <2>1. Req(c) \in Reqs /\ Req(c)[1] = c
    BY <1>1, ReqType, Zenon DEF Req
  <2> QED
    BY <1>1, <2>1, Zenon DEF LinkInv
<1>3. \A r \in Reqs : r # Req(c) => cred'[r] = cred[r]
  BY DEF ExecuteAllows, PathType
<1>4. ASSUME NEW r \in Reqs, on[r] # None PROVE on[on[r]] = on[r] /\ cred'[on[r]] = cred'[r]
  <2>1. on[r] \in Reqs /\ on[on[r]] = on[r] /\ cred[on[r]] = cred[r]
    BY <1>4 DEF LinkInv, PathType
  <2>2. r # Req(c) /\ on[r] # Req(c)
    BY <1>2, <1>4, <2>1, Zenon
  <2> QED
    BY <1>3, <2>1, <2>2, Zenon
<1>5. pc'[c] = "upstream" /\ \A d \in Conns : d # c => pc'[d] = pc[d]
  BY <1>1 DEF Goto, PathType
<1>6. \A r \in Reqs : Req(r[1])' = Req(r[1]) /\ r[1] \in Conns
  BY <1>1, Zenon DEF Req, Reqs
<1>7. /\ \A r \in Reqs : r[2] > served'[r[1]] + 1 \/ (r = Req(r[1])' /\ pc'[r[1]] \notin Late) => on'[r] = None
      /\ \A r \in Reqs : link'[r] = "dialling" => pc'[r[1]] = "connect" /\ r = Req(r[1])'
      /\ \A r \in Reqs : link'[r] = "open" => up'[r[1]] = r /\ pc'[r[1]] \notin {"rollup", "done"}
  <2> SUFFICES ASSUME NEW r \in Reqs
               PROVE  /\ r[2] > served'[r[1]] + 1 \/ (r = Req(r[1])' /\ pc'[r[1]] \notin Late) => on'[r] = None
                      /\ link'[r] = "dialling" => pc'[r[1]] = "connect" /\ r = Req(r[1])'
                      /\ link'[r] = "open" => up'[r[1]] = r /\ pc'[r[1]] \notin {"rollup", "done"}
    BY Zenon
  <2>1. r[1] \in Conns /\ Req(r[1])' = Req(r[1])
    BY <1>6, Zenon
  <2>2. /\ pc'[r[1]] # "connect" => pc[r[1]] # "connect"
        /\ pc'[r[1]] \notin Late => pc[r[1]] \notin Late
        /\ pc[r[1]] \notin {"rollup", "done"} => pc'[r[1]] \notin {"rollup", "done"}
    BY <1>1, <1>5, <2>1, Zenon
  <2> QED
    BY <1>1, <2>1, <2>2, Zenon DEF LinkInv
<1>8. \A d \in Conns :
        /\ up'[d] # None => up'[d][1] = d /\ on'[up'[d]] = up'[d]
        /\ pc'[d] \in {"resolve", "handshake", "leaf", "dial", "connect"} => up'[d] = None
        /\ pc'[d] \in {"admit"} \cup ServeOne => served'[d] < load'[d]
  BY <1>1, <1>5, Zenon DEF LinkInv
<1> QED
  BY <1>1, <1>4, <1>7, <1>8, Zenon DEF LinkInv

\* The relay of a request starts on an upstream connection with its credential.
LEMMA ReuseLinks ==
  ASSUME PathType, LinkInv, NEW c \in Conns, Reuse(c)
  PROVE  LinkInv'
<1> USE DEF ServeOne, Relay, Late
<1>1. /\ pc[c] = "upstream" /\ Goto(c, "write") /\ on' = [on EXCEPT ![Req(c)] = up[c]]
      /\ UNCHANGED <<load, served, cred, up, link>>
      /\ up[c] # None /\ cred[up[c]] = cred[Req(c)]
  BY Zenon DEF Reuse, Arm, ReusableFor, upVars
<1>2. Req(c) \in Reqs /\ on[Req(c)] = None /\ Req(c)[1] = c
  <2>1. Req(c) \in Reqs /\ Req(c)[1] = c
    BY <1>1, ReqType, Zenon DEF Req
  <2> QED
    BY <1>1, <2>1, Zenon DEF LinkInv
<1>3. up[c] \in Reqs /\ on[up[c]] = up[c] /\ up[c] # Req(c)
  BY <1>1, <1>2 DEF LinkInv, PathType
<1>4. on'[Req(c)] = up[c] /\ \A r \in Reqs : r # Req(c) => on'[r] = on[r]
  BY <1>1, <1>2, Zenon DEF PathType
<1>5. ASSUME NEW r \in Reqs, on'[r] # None PROVE on'[on'[r]] = on'[r] /\ cred[on'[r]] = cred[r]
  <2>1. CASE r = Req(c)
    BY <1>1, <1>3, <1>4, <2>1, Zenon
  <2>2. CASE r # Req(c)
    <3>1. on[r] \in Reqs /\ on[on[r]] = on[r] /\ cred[on[r]] = cred[r] /\ on'[r] = on[r]
      <4>1. on'[r] = on[r] /\ on[r] # None
        BY <1>4, <1>5, <2>2, Zenon
      <4>2. on[r] \in Reqs \cup {None}
        BY Zenon DEF PathType
      <4>3. on[on[r]] = on[r] /\ cred[on[r]] = cred[r]
        BY <4>1, Zenon DEF LinkInv
      <4> QED
        BY <4>1, <4>2, <4>3, Zenon
    <3>2. on[r] # Req(c)
      BY <1>2, <1>5, <3>1, Zenon
    <3> QED
      BY <1>4, <3>1, <3>2, Zenon
  <2> QED
    BY <2>1, <2>2
<1>6. pc'[c] = "write" /\ \A d \in Conns : d # c => pc'[d] = pc[d]
  BY <1>1, Zenon DEF Goto, PathType
<1>7. \A r \in Reqs : Req(r[1])' = Req(r[1]) /\ r[1] \in Conns
  BY <1>1, Zenon DEF Req, Reqs
<1>8. ASSUME NEW r \in Reqs, r[2] > served'[r[1]] + 1 \/ (r = Req(r[1])' /\ pc'[r[1]] \notin Late)
      PROVE  on'[r] = None
  <2>1. r # Req(c)
    <3>1. r = Req(c) => r[2] = served[r[1]] + 1 /\ served[r[1]] \in Nat /\ r[1] = c
      BY <1>2 DEF Req, PathType
    <3> QED
      BY <1>1, <1>6, <1>8, <3>1
  <2>2. served'[r[1]] = served[r[1]] /\ Req(r[1])' = Req(r[1]) /\ r[1] \in Conns /\ on'[r] = on[r]
    BY <1>1, <1>4, <1>7, <2>1, Zenon
  <2>3. pc'[r[1]] \notin Late => pc[r[1]] \notin Late
    BY <1>1, <1>6, <2>2, Zenon
  <2>4. r[2] > served[r[1]] + 1 \/ (r = Req(r[1]) /\ pc[r[1]] \notin Late)
    BY <1>8, <2>2, <2>3, Zenon
  <2> QED
    BY <2>2, <2>4, Zenon DEF LinkInv
<1>9. /\ \A r \in Reqs : link'[r] = "dialling" => pc'[r[1]] = "connect" /\ r = Req(r[1])'
      /\ \A r \in Reqs : link'[r] = "open" => up'[r[1]] = r /\ pc'[r[1]] \notin {"rollup", "done"}
  <2> SUFFICES ASSUME NEW r \in Reqs
               PROVE  /\ link'[r] = "dialling" => pc'[r[1]] = "connect" /\ r = Req(r[1])'
                      /\ link'[r] = "open" => up'[r[1]] = r /\ pc'[r[1]] \notin {"rollup", "done"}
    BY Zenon
  <2>1. /\ link[r] = "dialling" => pc[r[1]] = "connect" /\ r = Req(r[1])
        /\ link[r] = "open" => up[r[1]] = r /\ pc[r[1]] \notin {"rollup", "done"}
    BY Zenon DEF LinkInv
  <2>2. link'[r] = link[r] /\ up'[r[1]] = up[r[1]] /\ Req(r[1])' = Req(r[1]) /\ r[1] \in Conns
    BY <1>1, <1>7, Zenon
  <2> QED
    BY <1>1, <1>6, <2>1, <2>2, Zenon
<1>10. \A d \in Conns :
        /\ up'[d] # None => up'[d][1] = d /\ on'[up'[d]] = up'[d]
        /\ pc'[d] \in {"resolve", "handshake", "leaf", "dial", "connect"} => up'[d] = None
        /\ pc'[d] \in {"admit"} \cup ServeOne => served'[d] < load'[d]
  BY <1>1, <1>2, <1>4, <1>6 DEF LinkInv, PathType
<1>11. \A r \in Reqs : on'[r] # None => on'[on'[r]] = on'[r] /\ cred'[on'[r]] = cred'[r]
  BY <1>1, <1>5, Zenon
<1> QED
  BY <1>8, <1>9, <1>10, <1>11, Zenon DEF LinkInv

\* A slot is taken for the upstream connection of the request at hand.
LEMMA SlotLinks ==
  ASSUME PathType, LinkInv, NEW c \in Conns, DialSlot(c)
  PROVE  LinkInv'
<1> USE DEF ServeOne, Relay, Late
<1>1. /\ pc[c] = "dial" /\ Goto(c, "connect") /\ link' = [link EXCEPT ![Req(c)] = "dialling"]
      /\ UNCHANGED <<load, served, cred, on, up>>
  BY Zenon DEF DialSlot, reqVars
<1>2. Req(c) \in Reqs /\ Req(c)[1] = c
  BY <1>1, ReqType, Zenon DEF Req
<1>3. link'[Req(c)] = "dialling" /\ \A r \in Reqs : r # Req(c) => link'[r] = link[r]
  BY <1>1, <1>2, Zenon DEF PathType
<1>4. pc'[c] = "connect" /\ \A d \in Conns : d # c => pc'[d] = pc[d]
  BY <1>1 DEF Goto, PathType
<1>5. \A r \in Reqs : Req(r[1])' = Req(r[1]) /\ r[1] \in Conns
  BY <1>1, Zenon DEF Req, Reqs
<1>6. ASSUME NEW r \in Reqs
      PROVE  /\ link'[r] = "dialling" => pc'[r[1]] = "connect" /\ r = Req(r[1])'
             /\ link'[r] = "open" => up'[r[1]] = r /\ pc'[r[1]] \notin {"rollup", "done"}
  <2>1. CASE r = Req(c)
    BY <1>2, <1>3, <1>4, <1>5, <2>1, Zenon
  <2>2. CASE r # Req(c)
    <3>1. link'[r] = link[r]
      BY <1>3, <2>2, Zenon
    <3> QED
      BY <1>1, <1>4, <1>5, <2>2, <3>1 DEF LinkInv
  <2> QED
    BY <2>1, <2>2, Zenon
<1>7. \A r \in Reqs : r[2] > served'[r[1]] + 1 \/ (r = Req(r[1])' /\ pc'[r[1]] \notin Late) => on'[r] = None
  BY <1>1, <1>4, <1>5 DEF LinkInv
<1>8. \A d \in Conns :
        /\ up'[d] # None => up'[d][1] = d /\ on'[up'[d]] = up'[d]
        /\ pc'[d] \in {"resolve", "handshake", "leaf", "dial", "connect"} => up'[d] = None
        /\ pc'[d] \in {"admit"} \cup ServeOne => served'[d] < load'[d]
  BY <1>1, <1>4, Zenon DEF LinkInv
<1> QED
  BY <1>1, <1>6, <1>7, <1>8 DEF LinkInv

\* The upstream connection dialled for a request carries it.
LEMMA DialledLinks ==
  ASSUME PathType, LinkInv, NEW c \in Conns, Dialled(c)
  PROVE  LinkInv'
<1> USE DEF ServeOne, Relay, Late
<1>1. /\ pc[c] = "connect" /\ Goto(c, "write") /\ on' = [on EXCEPT ![Req(c)] = Req(c)]
      /\ link' = [link EXCEPT ![Req(c)] = "open"] /\ up' = [up EXCEPT ![c] = Req(c)]
      /\ UNCHANGED <<load, served, cred>>
  BY Zenon DEF Dialled, Arm
<1>2. Req(c) \in Reqs /\ Req(c)[1] = c /\ on[Req(c)] = None /\ up[c] = None /\ None \notin Reqs
  <2>1. Req(c) \in Reqs /\ Req(c)[1] = c
    BY <1>1, ReqType, Zenon DEF Req
  <2> QED
    BY <1>1, <2>1, RequestPathAssumption DEF LinkInv, Reqs
<1>3. /\ on'[Req(c)] = Req(c) /\ link'[Req(c)] = "open" /\ up'[c] = Req(c)
      /\ \A r \in Reqs : r # Req(c) => on'[r] = on[r] /\ link'[r] = link[r]
      /\ \A d \in Conns : d # c => up'[d] = up[d]
  BY <1>1, <1>2, Zenon DEF PathType
<1>4. pc'[c] = "write" /\ \A d \in Conns : d # c => pc'[d] = pc[d]
  BY <1>1 DEF Goto, PathType
<1>5. \A r \in Reqs : Req(r[1])' = Req(r[1]) /\ r[1] \in Conns
  BY <1>1 DEF Req, Reqs
<1>6. ASSUME NEW r \in Reqs, on'[r] # None PROVE on'[on'[r]] = on'[r] /\ cred[on'[r]] = cred[r]
  <2>1. CASE r = Req(c)
    BY <1>3, <2>1, Zenon
  <2>2. CASE r # Req(c)
    <3>1. on[r] \in Reqs /\ on[on[r]] = on[r] /\ cred[on[r]] = cred[r] /\ on'[r] = on[r]
      <4>1. on'[r] = on[r] /\ on[r] # None
        BY <1>3, <1>6, <2>2, Zenon
      <4>2. on[r] \in Reqs \cup {None}
        BY Zenon DEF PathType
      <4>3. on[on[r]] = on[r] /\ cred[on[r]] = cred[r]
        BY <4>1, Zenon DEF LinkInv
      <4> QED
        BY <4>1, <4>2, <4>3, Zenon
    <3>2. on[r] # Req(c)
      BY <1>2, <1>6, <3>1, Zenon
    <3> QED
      BY <1>3, <3>1, <3>2, Zenon
  <2> QED
    BY <2>1, <2>2, Zenon
<1>7. ASSUME NEW r \in Reqs, r[2] > served'[r[1]] + 1 \/ (r = Req(r[1])' /\ pc'[r[1]] \notin Late)
      PROVE  on'[r] = None
  <2>1. r # Req(c)
    <3>1. r = Req(c) => r[2] = served[r[1]] + 1 /\ served[r[1]] \in Nat /\ r[1] = c
      BY <1>2 DEF Req, PathType
    <3> QED
      BY <1>1, <1>4, <1>7, <3>1
  <2>2. served'[r[1]] = served[r[1]] /\ Req(r[1])' = Req(r[1]) /\ r[1] \in Conns /\ on'[r] = on[r]
    BY <1>1, <1>3, <1>5, <2>1, Zenon
  <2>3. pc'[r[1]] \notin Late => pc[r[1]] \notin Late
    BY <1>1, <1>4, <2>2, Zenon
  <2>4. r[2] > served[r[1]] + 1 \/ (r = Req(r[1]) /\ pc[r[1]] \notin Late)
    BY <1>7, <2>2, <2>3, Zenon
  <2> QED
    BY <2>2, <2>4, Zenon DEF LinkInv
<1>8. ASSUME NEW r \in Reqs
      PROVE  /\ link'[r] = "dialling" => pc'[r[1]] = "connect" /\ r = Req(r[1])'
             /\ link'[r] = "open" => up'[r[1]] = r /\ pc'[r[1]] \notin {"rollup", "done"}
  <2>1. CASE r = Req(c)
    BY <1>2, <1>3, <1>4, <1>5, <2>1, Zenon
  <2>2. CASE r # Req(c)
    <3>1. /\ link[r] = "dialling" => pc[r[1]] = "connect" /\ r = Req(r[1])
          /\ link[r] = "open" => up[r[1]] = r /\ pc[r[1]] \notin {"rollup", "done"}
      BY Zenon DEF LinkInv
    <3>2. link'[r] = link[r] /\ r[1] \in Conns /\ r # None
      BY <1>2, <1>3, <1>5, <2>2, Zenon
    <3> QED
      BY <1>2, <1>3, <1>4, <1>5, <2>2, <3>1, <3>2, Zenon
  <2> QED
    BY <2>1, <2>2
<1>9. ASSUME NEW d \in Conns
      PROVE  /\ up'[d] # None => up'[d][1] = d /\ on'[up'[d]] = up'[d]
             /\ pc'[d] \in {"resolve", "handshake", "leaf", "dial", "connect"} => up'[d] = None
             /\ pc'[d] \in {"admit"} \cup ServeOne => served'[d] < load'[d]
  <2>1. CASE d = c
    <3>1. served[c] < load[c] /\ served' = served /\ load' = load
      BY <1>1, Zenon DEF LinkInv
    <3> QED
      BY <1>2, <1>3, <1>4, <2>1, <3>1, Zenon
  <2>2. CASE d # c
    <3>1. up[d] # None => up[d] \in Reqs /\ up[d][1] = d /\ on[up[d]] = up[d]
      BY DEF LinkInv, PathType
    <3>2. up[d] # None => up[d] # Req(c)
      BY <1>2, <2>2, <3>1, Zenon
    <3> QED
      BY <1>1, <1>3, <1>4, <2>2, <3>1, <3>2 DEF LinkInv
  <2> QED
    BY <2>1, <2>2, Zenon
<1>10. \A r \in Reqs : on'[r] # None => on'[on'[r]] = on'[r] /\ cred'[on'[r]] = cred'[r]
  BY <1>1, <1>6, Zenon
<1> QED
  BY <1>7, <1>8, <1>9, <1>10, Zenon DEF LinkInv

\* The next request is a new one.
LEMMA NextLinks ==
  ASSUME PathType, LinkInv, NEW c \in Conns, NextRequest(c)
  PROVE  LinkInv'
<1> USE DEF ServeOne, Relay, Late
<1>1. /\ pc[c] = "next" /\ Goto(c, "wait") /\ served' = [served EXCEPT ![c] = served[c] + 1]
      /\ UNCHANGED <<load, cred, on, up, link>>
  BY Zenon DEF NextRequest, upVars
<1>2. pc'[c] = "wait" /\ \A d \in Conns : d # c => pc'[d] = pc[d] /\ served'[d] = served[d]
  BY <1>1, Zenon DEF Goto, PathType
<1>3. served'[c] = served[c] + 1 /\ served[c] \in Nat
  BY <1>1 DEF PathType
<1>4. ASSUME NEW r \in Reqs, r[2] > served'[r[1]] + 1 \/ (r = Req(r[1])' /\ pc'[r[1]] \notin Late)
      PROVE  on'[r] = None
  <2>0. r[1] \in Conns /\ r[2] \in Int /\ Req(r[1])'[2] = served'[r[1]] + 1
    BY RequestPathAssumption DEF Reqs, Req
  <2>1. CASE r[1] = c
    <3>1. r[2] > served[c] + 1
      BY <1>3, <1>4, <2>0, <2>1
    <3> QED
      BY <1>1, <2>1, <3>1, Zenon DEF LinkInv
  <2>2. CASE r[1] # c
    <3>1. Req(r[1])' = Req(r[1])
      BY <1>2, <2>0, <2>2 DEF Req
    <3> QED
      BY <1>1, <1>2, <1>4, <2>0, <2>2, <3>1, Zenon DEF LinkInv
  <2> QED
    BY <2>1, <2>2
<1>5. ASSUME NEW r \in Reqs
      PROVE  /\ link'[r] = "dialling" => pc'[r[1]] = "connect" /\ r = Req(r[1])'
             /\ link'[r] = "open" => up'[r[1]] = r /\ pc'[r[1]] \notin {"rollup", "done"}
  <2>0. r[1] \in Conns /\ (r[1] # c => Req(r[1])' = Req(r[1]))
    BY <1>2 DEF Reqs, Req
  <2> QED
    BY <1>1, <1>2, <2>0, Zenon DEF LinkInv
<1>6. \A d \in Conns :
        /\ up'[d] # None => up'[d][1] = d /\ on'[up'[d]] = up'[d]
        /\ pc'[d] \in {"resolve", "handshake", "leaf", "dial", "connect"} => up'[d] = None
        /\ pc'[d] \in {"admit"} \cup ServeOne => served'[d] < load'[d]
  BY <1>1, <1>2, Zenon DEF LinkInv
<1> QED
  BY <1>1, <1>4, <1>5, <1>6, Zenon DEF LinkInv

\* A watchdog closes upstream connections only.
LEMMA DogLinks ==
  ASSUME PathType, PathType', LinkInv, NEW r \in Reqs, Watches(r)
  PROVE  LinkInv'
<1>1. UNCHANGED <<pc, load, served, cred, on, up>>
  BY Zenon DEF Watches, DogDone, DogExpires, Fires, DogClaims, DogClosesUp, DogClosesDown, reqVars, upVars
<1>2. \A l \in Reqs : link'[l] \in {link[l], "closed"}
  <2>1. CASE CloseLink(on[r])
    <3>1. on[r] \in Reqs \cup {None}
      BY Zenon DEF PathType
    <3> QED
      BY <2>1, <3>1, CloseLinkShape, Zenon
  <2>2. CASE link' = link
    BY <2>2, Zenon
  <2> QED
    BY <2>1, <2>2, Zenon DEF Watches, DogDone, DogExpires, Fires, DogClaims, DogClosesUp,
       DogClosesDown, upVars
<1>3. ASSUME NEW l \in Reqs
      PROVE  /\ link'[l] = "dialling" => link[l] = "dialling"
             /\ link'[l] = "open" => link[l] = "open"
  BY <1>2
<1>4. \A l \in Reqs : Req(l[1])' = Req(l[1])
  BY <1>1, Zenon DEF Req
<1>5. \A l \in Reqs : /\ link'[l] = "dialling" => pc'[l[1]] = "connect" /\ l = Req(l[1])'
                      /\ link'[l] = "open" => up'[l[1]] = l /\ pc'[l[1]] \notin {"rollup", "done"}
  <2> TAKE l \in Reqs
  <2>1. /\ link[l] = "dialling" => pc[l[1]] = "connect" /\ l = Req(l[1])
        /\ link[l] = "open" => up[l[1]] = l /\ pc[l[1]] \notin {"rollup", "done"}
    BY Zenon DEF LinkInv
  <2> QED
    BY <1>1, <1>3, <1>4, <2>1, Zenon
<1>6. \A l \in Reqs : l[2] > served'[l[1]] + 1 \/ (l = Req(l[1])' /\ pc'[l[1]] \notin Late) => on'[l] = None
  BY <1>1, <1>4, Zenon DEF LinkInv
<1>7. \A l \in Reqs : on'[l] # None => on'[on'[l]] = on'[l] /\ cred'[on'[l]] = cred'[l]
  BY <1>1, Zenon DEF LinkInv
<1>8. \A c \in Conns :
          /\ up'[c] # None => up'[c][1] = c /\ on'[up'[c]] = up'[c]
          /\ pc'[c] \in {"resolve", "handshake", "leaf", "dial", "connect"} => up'[c] = None
          /\ pc'[c] \in {"admit"} \cup ServeOne => served'[c] < load'[c]
  BY <1>1, Zenon DEF LinkInv
<1> QED
  BY <1>5, <1>6, <1>7, <1>8, Zenon DEF LinkInv

\* Every step keeps LinkInv.
LEMMA LinkStep ==
  ASSUME PathType, PathType', LinkInv, [Next]_vars
  PROVE  LinkInv'
<1>1. ASSUME NEW c \in Conns, Opens(c) \/ Greets(c) \/ Panic(c) \/ Ends(c) PROVE LinkInv'
  BY <1>1, MoveLinks, CloseLinks, Zenon DEF Ends
<1>2. ASSUME NEW c \in Conns, Serves(c) PROVE LinkInv'
  BY <1>2, MoveLinks, AllowLinks, NextLinks, Zenon DEF Serves
<1>3. ASSUME NEW c \in Conns, Dials(c) PROVE LinkInv'
  BY <1>3, MoveLinks, CloseLinks, ReuseLinks, SlotLinks, DialledLinks, Zenon DEF Dials
<1>4. ASSUME NEW c \in Conns, Relays(c) PROVE LinkInv'
  BY <1>4, MoveLinks, CloseLinks, Zenon DEF Relays
<1>5. CASE UNCHANGED vars
  BY <1>5, Zenon DEF vars, pathVars, reqVars, upVars, LinkInv, Req
<1> QED
  BY <1>1, <1>2, <1>3, <1>4, <1>5, DogLinks, Zenon DEF Next

\* A step that counts denials only, and latches what it refuses, keeps SampleInv.
LEMMA SampleFrame ==
  ASSUME PathType, PathType', SampleInv, NEW c \in Conns,
         \A d \in Conns : d # c => /\ pc'[d] = pc[d] /\ fate'[d] = fate[d]
                                   /\ decided'[d] = decided[d] /\ samples'[d] = samples[d],
         samples'[c] \in {samples[c], Append(samples[c], "deny")},
         decided[c] => decided'[c],
         fate'[c] \in {fate[c], "failed", "ended", "error", "panicked"}
           \/ (fate'[c] \in {"refused", "denied", "undialled"} /\ decided'[c]),
         pc[c] = "done" => pc'[c] = "done" /\ fate'[c] = fate[c]
  PROVE  SampleInv'
<1> SUFFICES ASSUME NEW d \in Conns
             PROVE  /\ fate'[d] = "unresolved" => pc'[d] = "done"
                    /\ fate'[d] \in {"refused", "denied", "undialled"} => decided'[d]
                    /\ \/ samples'[d] \in Seq({"deny"})
                       \/ pc'[d] = "done" /\ fate'[d] \notin {"unresolved", "refused", "denied", "undialled"}
  BY Zenon DEF SampleInv
<1>1. CASE d # c
  BY <1>1, Zenon DEF SampleInv
<1>2. CASE d = c
  <2>1. samples[c] \in Seq({"deny"}) => samples'[c] \in Seq({"deny"})
    <3>1. samples[c] \in Seq({"deny"}) => Append(samples[c], "deny") \in Seq({"deny"})
      OBVIOUS
    <3> QED
      BY <3>1, Zenon
  <2>2. /\ fate[c] = "unresolved" => pc[c] = "done"
        /\ fate[c] \in {"refused", "denied", "undialled"} => decided[c]
        /\ \/ samples[c] \in Seq({"deny"})
           \/ pc[c] = "done" /\ fate[c] \notin {"unresolved", "refused", "denied", "undialled"}
    BY Zenon DEF SampleInv
  <2> QED
    BY <1>2, <2>1, <2>2
<1> QED
  BY <1>1, <1>2

\* What the latch and the counter do to a connection, and to no other.
LEMMA DecideShape ==
  ASSUME PathType, NEW c \in Conns, NEW s
  PROVE  /\ Latch(c) => decided'[c] /\ \A d \in Conns : d # c => decided'[d] = decided[d]
         /\ Record(c, s) => /\ samples'[c] = Append(samples[c], s)
                            /\ \A d \in Conns : d # c => samples'[d] = samples[d]
         /\ Decide(c, s) => /\ decided'[c] /\ \A d \in Conns : d # c => decided'[d] = decided[d]
                            /\ \A d \in Conns : d # c => samples'[d] = samples[d]
                            /\ samples'[c] = IF decided[c] THEN samples[c] ELSE Append(samples[c], s)
<1>1. ASSUME Latch(c) PROVE decided'[c] /\ \A d \in Conns : d # c => decided'[d] = decided[d]
  BY <1>1, Zenon DEF Latch, PathType
<1>2. ASSUME Record(c, s) PROVE /\ samples'[c] = Append(samples[c], s)
                                /\ \A d \in Conns : d # c => samples'[d] = samples[d]
  BY <1>2, Zenon DEF Record, PathType
<1> QED
  BY <1>1, <1>2, Zenon DEF Decide

\* Every step of a handler but the fallback of the listener keeps SampleInv ...
LEMMA HandlerSamples ==
  ASSUME PathType, PathType', SampleInv, NEW c \in Conns,
         Opens(c) \/ Greets(c) \/ Serves(c) \/ Dials(c) \/ Relays(c) \/ Panic(c) \/ Unwind(c)
  PROVE  SampleInv'
<1> USE DEF connVars
<1>1. ASSUME NEW l, Goto(c, l) PROVE pc'[c] = l /\ \A d \in Conns : d # c => pc'[d] = pc[d]
  BY <1>1, Zenon DEF Goto, PathType
<1>2. ASSUME NEW f, fate' = [fate EXCEPT ![c] = f]
      PROVE  fate'[c] = f /\ \A d \in Conns : d # c => fate'[d] = fate[d]
  BY <1>2, Zenon DEF PathType
<1>3. ASSUME NEW l, Goto(c, l), pc[c] # "done", UNCHANGED connVars PROVE SampleInv'
  BY <1>1, <1>3, SampleFrame, Zenon
<1>4. ASSUME pc' = pc, UNCHANGED connVars PROVE SampleInv'
  BY <1>4, Zenon DEF SampleInv
<1>5. ASSUME NEW l, Goto(c, l), pc[c] # "done", NEW f, fate' = [fate EXCEPT ![c] = f],
             f \in {"failed", "ended", "error", "panicked"}, UNCHANGED <<decided, samples>>
      PROVE  SampleInv'
  BY <1>1, <1>2, <1>5, SampleFrame, Zenon
<1>6. ASSUME NEW l, Goto(c, l), pc[c] # "done", NEW f, fate' = [fate EXCEPT ![c] = f],
             f \in {"refused", "denied", "undialled", "failed"}, Decide(c, "deny")
      PROVE  SampleInv'
  <2>1. /\ decided'[c] /\ \A d \in Conns : d # c => decided'[d] = decided[d] /\ samples'[d] = samples[d]
        /\ samples'[c] \in {samples[c], Append(samples[c], "deny")}
    BY <1>6, DecideShape, Zenon
  <2>2. /\ fate'[c] = f /\ \A d \in Conns : d # c => fate'[d] = fate[d] /\ pc'[d] = pc[d]
    BY <1>1, <1>2, <1>6, Zenon
  <2> QED
    BY <1>6, <2>1, <2>2, SampleFrame, Zenon
<1>7. ASSUME Undialled(c), pc[c] # "done" PROVE SampleInv'
  <2>1. /\ decided'[c] /\ \A d \in Conns : d # c => decided'[d] = decided[d] /\ samples'[d] = samples[d]
        /\ samples'[c] = Append(samples[c], "deny")
    BY <1>7, DecideShape, Zenon DEF Undialled
  <2>2. /\ fate'[c] = "undialled" /\ \A d \in Conns : d # c => fate'[d] = fate[d] /\ pc'[d] = pc[d]
    BY <1>1, <1>2, <1>7, Zenon DEF Undialled, Leave
  <2> QED
    BY <1>7, <2>1, <2>2, SampleFrame, Zenon
<1>8. CASE Opens(c)
  <2>1. CASE Resolve(c)
    BY <2>1, <1>3, Zenon DEF Resolve
  <2>2. CASE ResolveFails(c)
    <3>1. /\ pc'[c] = "done" /\ fate'[c] = "unresolved" /\ decided' = decided
          /\ \A d \in Conns : d # c => fate'[d] = fate[d] /\ pc'[d] = pc[d]
      BY <1>1, <1>2, <2>2, Zenon DEF ResolveFails
    <3>2. PICK s \in {<<"deny">>, <<"deny", "deny">>} : samples' = [samples EXCEPT ![c] = s]
      BY <2>2, Zenon DEF ResolveFails
    <3>3. <<"deny">> \in Seq({"deny"}) /\ <<"deny", "deny">> \in Seq({"deny"})
      OBVIOUS
    <3>4. samples'[c] \in Seq({"deny"}) /\ \A d \in Conns : d # c => samples'[d] = samples[d]
      BY <3>2, <3>3, Zenon DEF PathType
    <3> QED
      BY <3>1, <3>4 DEF SampleInv
  <2>3. CASE HandleCancelled(c)
    BY <2>3, <1>5, Zenon DEF HandleCancelled
  <2> QED
    BY <1>8, <2>1, <2>2, <2>3, Zenon DEF Opens
<1>9. CASE Greets(c)
  <2>1. CASE AskLeaf(c) \/ Handshake(c)
    BY <2>1, <1>3, Zenon DEF AskLeaf, Handshake
  <2>2. CASE LeafSteps(c)
    BY <2>2, <1>4, Zenon DEF LeafSteps, pathVars
  <2>3. CASE HandshakeFails(c)
    BY <2>3, <1>6, Zenon DEF HandshakeFails
  <2> QED
    BY <1>9, <2>1, <2>2, <2>3, Zenon DEF Greets
<1>10. CASE Serves(c)
  <2>1. CASE WaitForRequest(c) \/ Admit(c) \/ ReadRequest(c) \/ Validate(c) \/ ExecuteAllows(c) \/ NextRequest(c)
    BY <2>1, <1>3, Zenon DEF WaitForRequest, Admit, ReadRequest, Validate, ExecuteAllows, NextRequest
  <2>2. CASE WaitEnds(c)
    BY <2>2, <1>5, Zenon DEF WaitEnds, Leave
  <2>3. CASE Reject(c) /\ pc[c] # "done"
    BY <2>3, <1>6, Zenon DEF Reject, Leave
  <2>4. CASE ExecuteDenies(c)
    BY <2>4, <1>6, Zenon DEF ExecuteDenies, Leave
  <2> QED
    BY <1>10, <2>1, <2>2, <2>3, <2>4, Zenon
       DEF Serves, AdmitRejects, ReadRejects, ValidateRejects, NextRejects
<1>11. CASE Dials(c)
  <2>1. CASE Reuse(c) \/ Redial(c) \/ DialSlot(c) \/ Dialled(c)
    BY <2>1, <1>3, Zenon DEF Reuse, Redial, DialSlot, Dialled, Arm
  <2>2. CASE DialRefused(c) \/ DialFails(c)
    BY <2>2, <1>7, Zenon DEF DialRefused, DialFails
  <2> QED
    BY <1>11, <2>1, <2>2, Zenon DEF Dials
<1>12. CASE Relays(c)
  <2>1. CASE WriteRequest(c) \/ ReadResponse(c)
    BY <2>1, <1>3, Zenon DEF WriteRequest, ReadResponse
  <2>2. CASE Stall(c)
    BY <2>2, <1>4, Zenon DEF Stall
  <2>3. CASE Deliver(c)
    BY <2>3, <1>3, <1>5, Zenon DEF Deliver, Leave
  <2>4. CASE RelayFails(c)
    BY <2>4, <1>5, <1>6, Zenon DEF RelayFails, WriteFails, ResponseFails, DeliverFails,
       DecideUnlessTimedOut, Fail, Leave
  <2> QED
    BY <1>12, <2>1, <2>2, <2>3, <2>4, Zenon DEF Relays
<1>13. CASE Panic(c)
  BY <1>13, <1>5, Zenon DEF Panic, Leave, Relay
<1>14. CASE Unwind(c)
  BY <1>14, <1>3, Zenon DEF Unwind
<1> QED
  BY <1>8, <1>9, <1>10, <1>11, <1>12, <1>13, <1>14, Zenon

\* ... and so does the fallback, which finds the latch taken after a refusal.
LEMMA RollupSamples ==
  ASSUME PathType, PathType', SampleInv, NEW c \in Conns, Rollup(c)
  PROVE  SampleInv'
<1>1. /\ pc[c] = "rollup" /\ pc'[c] = "done" /\ fate' = fate
      /\ \A d \in Conns : d # c => pc'[d] = pc[d]
  BY Zenon DEF Rollup, Goto, PathType
<1>2. CASE fate[c] = "panicked"
  <2>1. /\ samples'[c] = Append(samples[c], "deny") /\ decided' = decided
        /\ \A d \in Conns : d # c => samples'[d] = samples[d]
    BY <1>2, DecideShape, Zenon DEF Rollup
  <2> QED
    BY <1>1, <2>1, SampleFrame, Zenon
<1>3. CASE fate[c] # "panicked"
  <2>1. PICK s \in {"allow", "deny"} :
          /\ decided'[c] /\ \A d \in Conns : d # c => decided'[d] = decided[d] /\ samples'[d] = samples[d]
          /\ samples'[c] = IF decided[c] THEN samples[c] ELSE Append(samples[c], s)
    BY <1>3, DecideShape, Zenon DEF Rollup
  <2>2. CASE decided[c]
    BY <1>1, <2>1, <2>2, SampleFrame, Zenon
  <2>3. CASE ~decided[c]
    <3>1. fate[c] \notin {"unresolved", "refused", "denied", "undialled"}
      BY <1>1, <2>3 DEF SampleInv
    <3> QED
      BY <1>1, <2>1, <3>1, Zenon DEF SampleInv
  <2> QED
    BY <2>2, <2>3
<1> QED
  BY <1>2, <1>3

\* A watchdog counts denials only.
LEMMA DogSamples ==
  ASSUME PathType, PathType', SampleInv, NEW r \in Reqs, Watches(r)
  PROVE  SampleInv'
<1> USE DEF connVars
<1>1. CASE UNCHANGED <<pc, connVars>>
  BY <1>1, Zenon DEF SampleInv
<1>2. CASE DogClaims(r)
  <2>0. r[1] \in Conns
    BY DEF Reqs
  <2>1. /\ decided'[r[1]]
        /\ \A d \in Conns : d # r[1] => decided'[d] = decided[d] /\ samples'[d] = samples[d]
        /\ samples'[r[1]] \in {samples[r[1]], Append(samples[r[1]], "deny")}
        /\ UNCHANGED <<pc, fate>>
    BY <1>2, <2>0, DecideShape, Zenon DEF DogClaims
  <2> QED
    BY <2>0, <2>1, SampleFrame, Zenon
<1> QED
  BY <1>1, <1>2, Zenon DEF Watches, DogDone, DogExpires, Fires, DogClosesUp, DogClosesDown

\* Every step keeps SampleInv.
LEMMA SampleStep ==
  ASSUME PathType, PathType', SampleInv, [Next]_vars
  PROVE  SampleInv'
<1>1. ASSUME UNCHANGED vars PROVE SampleInv'
  BY <1>1, Zenon DEF vars, pathVars, connVars, SampleInv
<1> QED
  BY <1>1, HandlerSamples, RollupSamples, DogSamples, Zenon DEF Next, Ends

\* How a process starts.
LEMMA PathInit == Init => PathInv
<1> SUFFICES ASSUME Init PROVE PathInv
  BY Zenon
<1>0. None \notin Conns \X Nat /\ Loads \subseteq [Conns -> 0 .. MaxRequests] /\ MaxRequests \in Nat
  BY RequestPathAssumption
<1>1. LeafInv
  BY LeafInitInv, Zenon DEF Init
<1>2. PathType
  <2>1. samples \in [Conns -> Seq({"allow", "deny"})]
    <3>1. << >> \in Seq({"allow", "deny"})
      OBVIOUS
    <3> QED
      BY <3>1, Zenon DEF Init
  <2>2. served \in [Conns -> Nat] /\ \A c \in Conns : served[c] <= load[c]
    BY <1>0 DEF Init
  <2>3. decided \in [Conns -> BOOLEAN] /\ down \in [Conns -> BOOLEAN]
    BY Zenon DEF Init
  <2> QED
    BY <2>1, <2>2, <2>3, Zenon DEF Init, PathType, Fates
<1>3. AskedOnce
  BY Zenon DEF Init, LeafInit, AskedOnce
<1>4. LinkInv
  BY DEF Init, LinkInv, ServeOne, Relay
<1>5. SampleInv
  <2>1. << >> \in Seq({"deny"})
    OBVIOUS
  <2> QED
    BY <2>1 DEF Init, SampleInv
<1> QED
  BY <1>1, <1>2, <1>3, <1>4, <1>5, Zenon DEF PathInv

\* The inductive invariant of handlers, watchdogs and leaf source holds.
THEOREM PathInvariance == Spec => []PathInv
<1>1. ASSUME PathInv, [Next]_vars PROVE PathInv'
  <2>1. PathType'
    BY <1>1, PathTypeStep, Zenon DEF PathInv
  <2>2. LeafInv' /\ AskedOnce'
    BY <1>1, LeafPartStep, Zenon DEF PathInv
  <2>3. LinkInv'
    BY <1>1, <2>1, LinkStep, Zenon DEF PathInv
  <2>4. SampleInv'
    BY <1>1, <2>1, SampleStep, Zenon DEF PathInv
  <2> QED
    BY <2>1, <2>2, <2>3, <2>4, Zenon DEF PathInv
<1> QED
  BY <1>1, PathInit, PTL DEF Spec

\* No upstream connection carries requests authorised with different
\* credentials, over any number of requests and reuses (reusableFor).
THEOREM OneCredentialPerLinkHolds == Spec => []OneCredentialPerLink
<1>1. ASSUME LinkInv PROVE OneCredentialPerLink
  <2>1. \A r \in Reqs : on[r] # None => cred[on[r]] = cred[r]
    BY <1>1, Zenon DEF LinkInv
  <2> QED
    BY <2>1 DEF OneCredentialPerLink
<1> QED
  BY <1>1, PathInvariance, PTL DEF PathInv

\* A connection that has ended left no upstream connection open, whichever of
\* handler and watchdog came first (the deferred close of Serve).
THEOREM NothingLeftOpenHolds == Spec => []NothingLeftOpen
<1>1. PathInv => NothingLeftOpen
  BY DEF PathInv, PathType, LinkInv, NothingLeftOpen
<1> QED
  BY <1>1, PathInvariance, PTL

\* What was refused or denied is never counted as an allow, by any layer
\* (MarkDecided, the fallback of the listener).
THEOREM DenialNotAllowedHolds == Spec => []DenialNotAllowed
<1>1. ASSUME SampleInv PROVE DenialNotAllowed
  <2> SUFFICES ASSUME NEW c \in Conns, NEW i \in DOMAIN samples[c],
                      fate[c] \in {"unresolved", "refused", "denied", "undialled"}
               PROVE  samples[c][i] = "deny"
    BY Zenon DEF DenialNotAllowed
  <2>1. samples[c] \in Seq({"deny"})
    BY <1>1, Zenon DEF SampleInv
  <2> QED
    BY <2>1, SeqShape
<1> QED
  BY <1>1, PathInvariance, PTL DEF PathInv

\* The leaf cache, its list and the mints under way agree, although owners are
\* cancelled and leave the publication to others (CachedLeafSource).
THEOREM LeafSharedHolds == Spec => []LeafShared
<1>1. ASSUME LeafInv PROVE LeafShared
  <2>1. ASSUME NEW c \in Conns, call[c] = "wait"
        PROVE  flying[NameOf[c]] = via[c] \/ mint[via[c]] \in {"published", "closed"}
    <3>1. via[c] \in Conns /\ NameOf[via[c]] = NameOf[c] /\ mint[via[c]] # "none"
      BY <1>1, <2>1 DEF LeafInv, LeafTypeOK
    <3> QED
      BY <1>1, <3>1 DEF LeafInv, LeafTypeOK
  <2> QED
    BY <1>1, <2>1, Zenon DEF LeafInv, LeafShared
<1> QED
  BY <1>1, PathInvariance, PTL DEF PathInv
=============================================================================
