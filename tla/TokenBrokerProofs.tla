------------------------- MODULE TokenBrokerProofs -------------------------
(***************************************************************************)
(* Proofs about the token broker.  First the safety of the cache, for any  *)
(* number of requests, refreshers and credentials, any capacity and any    *)
(* clock: IInv of TokenCache is inductive and the properties the runs      *)
(* check follow from it.  Then that the broker implements the cache: with  *)
(* the breaker and the negative cache as its provider, every behaviour is  *)
(* one of TokenCache, so that everything proved of the cache holds of the  *)
(* broker.                                                                 *)
(***************************************************************************)
EXTENDS TokenBroker, LRUProofs, TLAPS

\* The ways a Get can end are told apart.
LEMMA OutcomesDiffer ==
    /\ Failed \notin Token
    /\ Cancelled \notin Token
    /\ Failed # Cancelled
    /\ None \notin Entry /\ None \notin Token /\ None # Failed /\ None # Cancelled
    /\ None \notin Requests /\ None \notin Creds
<1>1. DOMAIN Failed = {"failed"} /\ DOMAIN Cancelled = {"failed"}
  BY Zenon DEF Failed, Cancelled
<1>2. \A tok \in Token : DOMAIN tok = {"cred", "until"}
  BY Zenon DEF Token
<1>3. {"failed"} # {"cred", "until"}
  BY Zenon
<1>4. Failed.failed # Cancelled.failed
  BY Zenon DEF Failed, Cancelled
<1>5. QED
  BY <1>1, <1>2, <1>3, <1>4, CacheAssumption, Zenon DEF Outcome

\* computeRefreshWindow: the window is at most half of the usable lifetime, so
\* a refresh never starts before the first half of it is over, and refreshAt
\* lies between the present and the end of the token.
LEMMA RefreshWindowBound ==
    ASSUME NEW life \in Nat
    PROVE  /\ ComputeRefreshWindow(life) \in Nat
           /\ 2 * ComputeRefreshWindow(life) <= life
BY CacheAssumption DEF ComputeRefreshWindow

\* store keeps map and list in step and replaces or removes whole entries.
LEMMA StoreProperties ==
    ASSUME TypeOK, CacheInSync, NEW c \in Creds, NEW tok \in Token,
           now < tok.until, Store(c, tok)
    PROVE  /\ order' \in Seq(Creds)
           /\ entries' \in [Creds -> Entry \cup {None}]
           /\ CacheInSync'
           /\ entries'[c] # None /\ entries'[c].tok = tok
           /\ \A k \in Creds \ {c} : entries'[k] # None => entries'[k] = entries[k]
           /\ \A k \in Creds : entries[k] # None /\ entries'[k] = None =>
                 /\ Len(order) = MaxEntries /\ order[Len(order)] = k
                 /\ entries[c] = None
<1> DEFINE window == ComputeRefreshWindow(tok.until - now)
           entry == [tok |-> tok, refreshAt |-> tok.until - window]
<1>1. now \in Nat /\ tok.until \in Nat
  BY CacheAssumption DEF TypeOK, Token
<1>2. tok.until - now \in Nat
  BY <1>1
<1>3. window \in Nat /\ 2 * window <= tok.until - now
  BY <1>2, RefreshWindowBound, Zenon
<1>4. entry \in Entry
  <2>1. tok.until - window \in Nat
    <3> HIDE DEF window
    <3> QED BY <1>1, <1>3
  <2>2. QED
    BY <2>1, Zenon DEF Entry
<1>5. /\ order' = Install(order, c, MaxEntries)
      /\ entries' = [k \in Creds |-> IF k = c THEN entry
                                     ELSE IF k \in Keys(order') THEN entries[k]
                                     ELSE None]
  BY Zenon DEF Store
<1>6. /\ order' \in Seq(Creds) /\ Distinct(order') /\ Len(order') <= MaxEntries
      /\ c \in Keys(order') /\ Keys(order') \subseteq Keys(order) \cup {c}
      /\ \A x \in Keys(order) \ Keys(order') :
            Len(order) = MaxEntries /\ order[Len(order)] = x
  BY <1>5, InstallProperties, CacheAssumption DEF TypeOK, CacheInSync
<1> HIDE DEF entry
<1>7. entries' \in [Creds -> Entry \cup {None}]
  BY <1>4, <1>5, Zenon DEF TypeOK
<1>8. \A k \in Creds : entries'[k] # None <=> k \in Keys(order')
  BY <1>4, <1>5, <1>6, OutcomesDiffer, Zenon DEF CacheInSync
<1>9. entries'[c] = entry /\ entry.tok = tok
  BY <1>5, Zenon DEF entry
<1>10. \A k \in Creds \ {c} : entries'[k] # None => entries'[k] = entries[k]
  BY <1>5, Zenon
<1>11. \A k \in Creds : entries[k] # None /\ entries'[k] = None =>
          Len(order) = MaxEntries /\ order[Len(order)] = k
  BY <1>6, <1>8, Zenon DEF CacheInSync
<1>12. c \in Keys(order) => Keys(order') = Keys(order)
  BY <1>5, MoveToFrontProperties, Zenon DEF Install, TypeOK, CacheInSync
<1>13. \A k \in Creds : entries[k] # None /\ entries'[k] = None => entries[c] = None
  BY <1>8, <1>12, Zenon DEF CacheInSync
<1>14. QED
  BY <1>4, <1>6, <1>7, <1>8, <1>9, <1>10, <1>11, <1>13, OutcomesDiffer, Zenon DEF CacheInSync

-----------------------------------------------------------------------------
\* The state half of the invariant: types, the list and the map in step, and
\* calls made and answered for the right credential.
StateInv == TypeOK /\ CacheInSync /\ CallsInv

\* Every step preserves it; only getCached, store and the start of a provider
\* call have anything to show.
LEMMA StateInvStep ==
    StateInv /\ [Next]_vars => StateInv'
<1> SUFFICES ASSUME TypeOK, CacheInSync, CallsInv, [Next]_vars PROVE StateInv'
  BY Zenon DEF StateInv
<1> USE OutcomesDiffer, CacheAssumption
<1>1. ASSUME NEW r \in Requests, NEW c \in Creds, Get(r, c) PROVE StateInv'
  BY <1>1 DEF Get, StateInv, TypeOK, CacheInSync, CallsInv, cacheVars, workerVars, Tasks
<1>2. ASSUME NEW r \in Requests, GetCachedHit(r) PROVE StateInv'
  <2>1. want[r] \in Creds /\ want[r] \in Keys(order) /\ entries[want[r]] \in Entry
    BY <1>2 DEF GetCachedHit, TypeOK, CacheInSync, CallsInv
  <2>2. order' \in Seq(Creds) /\ Distinct(order') /\ Len(order') = Len(order) /\ Keys(order') = Keys(order)
    BY <1>2, <2>1, MoveToFrontProperties, Zenon DEF GetCachedHit, TypeOK, CacheInSync
  <2>3. TypeOK'
    BY <1>2, <2>1, <2>2, Zenon DEF GetCachedHit, TypeOK, workerVars, Entry, Outcome
  <2>4. CacheInSync'
    BY <1>2, <2>2, Zenon DEF GetCachedHit, CacheInSync
  <2>5. CallsInv'
    BY <1>2 DEF GetCachedHit, TypeOK, CallsInv, workerVars
  <2>6. QED
    BY <2>3, <2>4, <2>5, Zenon DEF StateInv
<1>3. ASSUME NEW r \in Requests, GetCachedMiss(r) PROVE StateInv'
  <2>1. CASE UNCHANGED cacheVars
    BY <1>3, <2>1 DEF GetCachedMiss, StateInv, TypeOK, CacheInSync, CallsInv, cacheVars, workerVars
  <2>2. CASE entries[want[r]] # None /\ order' = Drop(order, want[r]) /\ entries' = [entries EXCEPT ![want[r]] = None]
    <3>1. want[r] \in Creds /\ want[r] \in Keys(order)
      BY <1>3, <2>2, Zenon DEF GetCachedMiss, TypeOK, CacheInSync, CallsInv
    <3>2. order' \in Seq(Creds) /\ Distinct(order') /\ Len(order') = Len(order) - 1 /\ Keys(order') = Keys(order) \ {want[r]}
      BY <2>2, <3>1, DropProperties DEF TypeOK, CacheInSync
    <3>3. TypeOK'
      BY <1>3, <2>2, <3>2, Zenon DEF GetCachedMiss, TypeOK, workerVars
    <3>4. CacheInSync'
      <4>1. Len(order') <= MaxEntries
        BY <3>2, SeqShape DEF TypeOK, CacheInSync
      <4>2. \A c \in Creds : entries'[c] # None <=> c \in Keys(order')
        BY <2>2, <3>2, Zenon DEF TypeOK, CacheInSync
      <4>3. QED
        BY <3>2, <4>1, <4>2, Zenon DEF CacheInSync
    <3>5. CallsInv'
      BY <1>3 DEF GetCachedMiss, TypeOK, CallsInv, workerVars
    <3>6. QED
      BY <3>3, <3>4, <3>5, Zenon DEF StateInv
  <2>3. QED
    BY <1>3, <2>1, <2>2, Zenon DEF GetCachedMiss
<1>4. ASSUME NEW r \in Requests, MaybeRefresh(r) PROVE StateInv'
  <2>1. CASE UNCHANGED <<refreshing, workerVars, acq>>
    BY <1>4, <2>1, Zenon DEF MaybeRefresh, StateInv, TypeOK, CacheInSync, CallsInv, cacheVars, workerVars
  <2>2. ASSUME NEW k \in Refreshers, refreshing' = refreshing \cup {want[r]},
               wpc[k] = "idle",
               wpc' = [wpc EXCEPT ![k] = "acquire"],
               wcred' = [wcred EXCEPT ![k] = want[r]],
               acq' = [acq EXCEPT ![k] = [state |-> "called", cred |-> want[r], tok |-> None]]
        PROVE  StateInv'
    <3>1. want[r] \in Creds
      BY <1>4, Zenon DEF MaybeRefresh, CallsInv
    <3>2. TypeOK'
      BY <1>4, <2>2, <3>1, Zenon DEF MaybeRefresh, TypeOK, cacheVars, Tasks
    <3>3. CacheInSync'
      BY <1>4, Zenon DEF MaybeRefresh, CacheInSync, cacheVars
    <3>4. CallsInv'
      BY <1>4, <2>2, <3>1 DEF MaybeRefresh, TypeOK, CallsInv, Tasks
    <3>5. QED
      BY <3>2, <3>3, <3>4, Zenon DEF StateInv
  <2>3. QED
    BY <1>4, <2>1, <2>2, Zenon DEF MaybeRefresh
<1>5. ASSUME NEW r \in Requests, StartAcquire(r) PROVE StateInv'
  <2>1. want[r] \in Creds
    BY <1>5, Zenon DEF StartAcquire, CallsInv
  <2>2. CASE /\ joined' = [joined EXCEPT ![r] = inflight[want[r]]]
             /\ pc' = [pc EXCEPT ![r] = "wait"]
             /\ UNCHANGED <<inflight, acq, needless>>
    BY <1>5, <2>1, <2>2 DEF StartAcquire, StateInv, TypeOK, CacheInSync, CallsInv, cacheVars, workerVars
  <2>3. CASE /\ inflight' = [inflight EXCEPT ![want[r]] = r]
             /\ acq' = [acq EXCEPT ![r] = [state |-> "called", cred |-> want[r], tok |-> None]]
             /\ pc' = [pc EXCEPT ![r] = "acquire"]
             /\ needless' \in {needless, needless \cup {r}}
             /\ UNCHANGED joined
    <3>1. TypeOK'
      BY <1>5, <2>1, <2>3, Zenon DEF StartAcquire, TypeOK, cacheVars, workerVars, Tasks
    <3>2. CacheInSync'
      BY <1>5, Zenon DEF StartAcquire, CacheInSync, cacheVars
    <3>3. CallsInv'
      BY <1>5, <2>1, <2>3 DEF StartAcquire, TypeOK, CallsInv, workerVars, Tasks
    <3>4. QED
      BY <3>1, <3>2, <3>3, Zenon DEF StateInv
  <2>4. QED
    BY <1>5, <2>2, <2>3, Zenon DEF StartAcquire, CallInFlight
<1>6. ASSUME NEW r \in Requests, FinishAcquire(r) PROVE StateInv'
  <2> DEFINE tok == acq[r].tok
             ok == tok # Failed /\ Usable(tok, now)
  <2>1. want[r] \in Creds /\ r \in Tasks /\ (tok = Failed \/ tok \in Token)
    BY <1>6, Zenon DEF FinishAcquire, CallsInv, Tasks
  <2>2. /\ order' \in Seq(Creds)
        /\ entries' \in [Creds -> Entry \cup {None}]
        /\ CacheInSync'
    <3>1. CASE ok
      BY <1>6, <2>1, <3>1, StoreProperties, Zenon DEF FinishAcquire, Usable
    <3>2. CASE ~ok
      BY <1>6, <3>2, Zenon DEF FinishAcquire, TypeOK, CacheInSync, cacheVars
    <3>3. QED
      BY <3>1, <3>2, Zenon
  <2>3. TypeOK'
    BY <1>6, <2>1, <2>2, Zenon DEF FinishAcquire, TypeOK, NoCall, Outcome, workerVars
  <2>4. CallsInv'
    BY <1>6, <2>1 DEF FinishAcquire, TypeOK, CallsInv, NoCall, workerVars, Tasks
  <2>5. QED
    BY <2>2, <2>3, <2>4, Zenon DEF StateInv
<1>7. ASSUME NEW r \in Requests, ReleaseCall(r) PROVE StateInv'
  BY <1>7 DEF ReleaseCall, StateInv, TypeOK, CacheInSync, CallsInv, cacheVars, workerVars
<1>8. ASSUME NEW r \in Requests, CloseDone(r) PROVE StateInv'
  <2>1. TypeOK'
    BY <1>8, Zenon DEF CloseDone, TypeOK, cacheVars, workerVars
  <2>2. CacheInSync'
    BY <1>8, Zenon DEF CloseDone, CacheInSync, cacheVars
  <2>3. CallsInv'
    BY <1>8, Zenon DEF CloseDone, TypeOK, CallsInv, Waiters, workerVars
  <2>4. QED
    BY <2>1, <2>2, <2>3, Zenon DEF StateInv
<1>9. ASSUME NEW r \in Requests, WaiterReturns(r) PROVE StateInv'
  BY <1>9 DEF WaiterReturns, StateInv, TypeOK, CacheInSync, CallsInv, cacheVars, workerVars
<1>10. ASSUME NEW r \in Requests, WaiterCancelled(r) PROVE StateInv'
  BY <1>10 DEF WaiterCancelled, StateInv, TypeOK, Outcome, CacheInSync, CallsInv, cacheVars, workerVars
<1>11. ASSUME NEW r \in Requests, Return(r) PROVE StateInv'
  BY <1>11 DEF Return, StateInv, TypeOK, CacheInSync, CallsInv, cacheVars, workerVars
<1>12. ASSUME NEW k \in Refreshers, FinishRefresh(k) PROVE StateInv'
  <2> DEFINE tok == acq[k].tok
             ok == tok # Failed /\ Usable(tok, now)
  <2>1. wcred[k] \in Creds /\ k \in Tasks /\ (tok = Failed \/ tok \in Token)
    BY <1>12, Zenon DEF FinishRefresh, CallsInv, Tasks
  <2>2. /\ order' \in Seq(Creds)
        /\ entries' \in [Creds -> Entry \cup {None}]
        /\ CacheInSync'
    <3>1. CASE ok
      BY <1>12, <2>1, <3>1, StoreProperties, Zenon DEF FinishRefresh, Usable
    <3>2. CASE ~ok
      BY <1>12, <3>2, Zenon DEF FinishRefresh, TypeOK, CacheInSync, cacheVars
    <3>3. QED
      BY <3>1, <3>2, Zenon
  <2>3. TypeOK'
    BY <1>12, <2>1, <2>2, Zenon DEF FinishRefresh, TypeOK, NoCall, reqVars
  <2>4. CallsInv'
    BY <1>12, <2>1 DEF FinishRefresh, TypeOK, CallsInv, NoCall, reqVars, Tasks
  <2>5. QED
    BY <2>2, <2>3, <2>4, Zenon DEF StateInv
<1>13. ASSUME NEW k \in Refreshers, ReleaseRefresh(k) PROVE StateInv'
  BY <1>13 DEF ReleaseRefresh, StateInv, TypeOK, CacheInSync, CallsInv, cacheVars, reqVars
<1>14. CASE Tick
  <2>1. now' \in 0 .. MaxTime
    BY <1>14 DEF Tick, TypeOK
  <2>2. QED
    BY <1>14, <2>1, Zenon DEF Tick, StateInv, TypeOK, CacheInSync, CallsInv, cacheVars, reqVars, workerVars
<1>15. ASSUME NEW t \in Tasks, Provide(t) PROVE StateInv'
  <2>1. acq[t].cred \in Creds
    BY <1>15, Zenon DEF Provide, CallsInv
  <2>2. PICK tok \in Issues(acq[t].cred) \cup {Failed} :
           acq' = [acq EXCEPT ![t] = [state |-> "returned", cred |-> acq[t].cred, tok |-> tok]]
    BY <1>15, Zenon DEF Provide
  <2>3. tok = Failed \/ (tok \in Token /\ tok.cred = acq[t].cred)
    <3>1. now + MaxLife \in Nat
      BY DEF TypeOK
    <3>2. \A u \in 0 .. now + MaxLife : u \in Nat
      BY <3>1
    <3>3. QED
      BY <2>1, <2>2, <3>2 DEF Issues, Token
  <2>4. TypeOK'
    <3>1. acq' \in [Tasks -> [state : {"idle", "called", "returned"},
                              cred : Creds \cup {None},
                              tok : Token \cup {Failed, None}]]
      BY <2>1, <2>2, <2>3, Zenon DEF TypeOK
    <3>2. QED
      BY <1>15, <3>1, Zenon DEF Provide, TypeOK, cacheVars, reqVars, workerVars
  <2>5. CacheInSync'
    BY <1>15, Zenon DEF Provide, CacheInSync, cacheVars
  <2>6. CallsInv'
    BY <1>15, <2>1, <2>2, <2>3 DEF Provide, TypeOK, CallsInv, reqVars, workerVars, Tasks
  <2>7. QED
    BY <2>4, <2>5, <2>6, Zenon DEF StateInv
<1>16. CASE UNCHANGED vars
  BY <1>16, Zenon DEF vars, StateInv, TypeOK, CacheInSync, CallsInv
<1>17. QED
  BY <1>1, <1>2, <1>3, <1>4, <1>5, <1>6, <1>7, <1>8, <1>9, <1>10, <1>11, <1>12,
     <1>13, <1>14, <1>15, <1>16 DEF Next, CacheStep, RequestStep, RefresherStep

-----------------------------------------------------------------------------
\* startAcquire, finishAcquire, maybeRefresh and backgroundRefresh keep their
\* reservations: at most one leader and one refresher per credential, and a
\* leader for every waiter.
LEMMA FlightInvStep ==
    StateInv /\ FlightInv /\ [Next]_vars => FlightInv'
<1> SUFFICES ASSUME TypeOK, CallsInv, FlightInv, [Next]_vars PROVE FlightInv'
  BY Zenon DEF StateInv
<1> USE OutcomesDiffer
<1>1. ASSUME NEW r \in Requests, NEW c \in Creds, Get(r, c) PROVE FlightInv'
  BY <1>1 DEF Get, workerVars, FlightInv, NoOrphanedWaiter, SingleFlight, TypeOK, CallsInv
<1>2. ASSUME NEW r \in Requests, GetCachedHit(r) PROVE FlightInv'
  BY <1>2 DEF GetCachedHit, workerVars, FlightInv, NoOrphanedWaiter, SingleFlight, TypeOK, CallsInv
<1>3. ASSUME NEW r \in Requests, GetCachedMiss(r) PROVE FlightInv'
  BY <1>3 DEF GetCachedMiss, workerVars, FlightInv, NoOrphanedWaiter, SingleFlight, TypeOK, CallsInv
<1>4. ASSUME NEW r \in Requests, MaybeRefresh(r) PROVE FlightInv'
  <2>1. CASE UNCHANGED <<refreshing, workerVars, acq>>
    BY <1>4, <2>1 DEF MaybeRefresh, workerVars, FlightInv, NoOrphanedWaiter, SingleFlight, TypeOK
  <2>2. ASSUME NEW k \in Refreshers, want[r] \notin refreshing,
               refreshing' = refreshing \cup {want[r]},
               wpc[k] = "idle",
               wpc' = [wpc EXCEPT ![k] = "acquire"],
               wcred' = [wcred EXCEPT ![k] = want[r]]
        PROVE  FlightInv'
    <3>1. \A l \in Refreshers : wpc[l] # "idle" => wcred[l] # want[r]
      BY <2>2, Zenon DEF FlightInv
    <3>2. \A l \in Refreshers : wpc'[l] # "idle" => wcred'[l] \in refreshing'
      BY <2>2 DEF FlightInv, TypeOK
    <3>3. SingleFlight'
      BY <1>4, <2>2, <3>1 DEF MaybeRefresh, FlightInv, SingleFlight, TypeOK
    <3>4. QED
      BY <1>4, <3>2, <3>3 DEF MaybeRefresh, FlightInv, NoOrphanedWaiter, TypeOK
  <2>3. QED
    BY <1>4, <2>1, <2>2, Zenon DEF MaybeRefresh, ShouldRefresh
<1>5. ASSUME NEW r \in Requests, StartAcquire(r) PROVE FlightInv'
  <2>1. want[r] \in Creds /\ pc[r] = "miss" /\ UNCHANGED <<want, refreshing, wpc, wcred>>
    BY <1>5, Zenon DEF StartAcquire, CallsInv, workerVars
  <2>2. CASE /\ inflight[want[r]] # None
             /\ joined' = [joined EXCEPT ![r] = inflight[want[r]]]
             /\ pc' = [pc EXCEPT ![r] = "wait"]
             /\ UNCHANGED inflight
    <3>1. inflight[want[r]] \in Requests
      BY <2>1, <2>2, Zenon DEF TypeOK
    <3>2. QED
      BY <2>1, <2>2, <3>1 DEF FlightInv, NoOrphanedWaiter, SingleFlight, TypeOK
  <2>3. CASE /\ inflight[want[r]] = None
             /\ inflight' = [inflight EXCEPT ![want[r]] = r]
             /\ pc' = [pc EXCEPT ![r] = "acquire"]
             /\ UNCHANGED joined
    <3>1. \A q \in Requests : pc[q] \in {"acquire", "release"} => want[q] # want[r]
      BY <2>1, <2>3 DEF FlightInv
    <3>2. SingleFlight'
      BY <2>1, <2>3, <3>1 DEF FlightInv, SingleFlight, TypeOK
    <3>3. NoOrphanedWaiter'
      BY <2>1, <2>3 DEF FlightInv, NoOrphanedWaiter, TypeOK
    <3>4. \A q \in Requests : pc'[q] \in {"acquire", "release"} => inflight'[want[q]] = q
      BY <2>1, <2>3, <3>1 DEF FlightInv, TypeOK, CallsInv
    <3>5. \A c \in Creds : inflight'[c] # None =>
             pc'[inflight'[c]] \in {"acquire", "release"} /\ want[inflight'[c]] = c
      BY <2>1, <2>3 DEF FlightInv, TypeOK
    <3>6. QED
      BY <2>1, <2>3, <3>2, <3>3, <3>4, <3>5 DEF FlightInv, TypeOK
  <2>4. QED
    BY <1>5, <2>2, <2>3, Zenon DEF StartAcquire, CallInFlight
<1>6. ASSUME NEW r \in Requests, FinishAcquire(r) PROVE FlightInv'
  BY <1>6 DEF FinishAcquire, workerVars, FlightInv, NoOrphanedWaiter, SingleFlight, TypeOK, CallsInv
<1>7. ASSUME NEW r \in Requests, ReleaseCall(r) PROVE FlightInv'
  BY <1>7 DEF ReleaseCall, workerVars, FlightInv, NoOrphanedWaiter, SingleFlight, TypeOK, CallsInv
<1>8. ASSUME NEW r \in Requests, CloseDone(r) PROVE FlightInv'
  BY <1>8 DEF CloseDone, Waiters, workerVars, FlightInv, NoOrphanedWaiter, SingleFlight, TypeOK, CallsInv
<1>9. ASSUME NEW r \in Requests, WaiterReturns(r) PROVE FlightInv'
  BY <1>9 DEF WaiterReturns, workerVars, FlightInv, NoOrphanedWaiter, SingleFlight, TypeOK, CallsInv
<1>10. ASSUME NEW r \in Requests, WaiterCancelled(r) PROVE FlightInv'
  BY <1>10 DEF WaiterCancelled, workerVars, FlightInv, NoOrphanedWaiter, SingleFlight, TypeOK, CallsInv
<1>11. ASSUME NEW r \in Requests, Return(r) PROVE FlightInv'
  BY <1>11 DEF Return, workerVars, FlightInv, NoOrphanedWaiter, SingleFlight, TypeOK, CallsInv
<1>12. ASSUME NEW k \in Refreshers, FinishRefresh(k) PROVE FlightInv'
  BY <1>12 DEF FinishRefresh, reqVars, FlightInv, NoOrphanedWaiter, SingleFlight, TypeOK, CallsInv
<1>13. ASSUME NEW k \in Refreshers, ReleaseRefresh(k) PROVE FlightInv'
  BY <1>13 DEF ReleaseRefresh, reqVars, FlightInv, NoOrphanedWaiter, SingleFlight, TypeOK, CallsInv
<1>14. ASSUME UNCHANGED <<inflight, refreshing, pc, want, joined, wpc, wcred>> PROVE FlightInv'
  BY <1>14 DEF FlightInv, NoOrphanedWaiter, SingleFlight
<1>15. CASE Tick
  BY <1>14, <1>15, Zenon DEF Tick, reqVars, workerVars
<1>16. ASSUME NEW t \in Tasks, Provide(t) PROVE FlightInv'
  BY <1>14, <1>16, Zenon DEF Provide, reqVars, workerVars
<1>17. CASE UNCHANGED vars
  BY <1>14, <1>17, Zenon DEF vars
<1>18. QED
  BY Zenon, <1>1, <1>2, <1>3, <1>4, <1>5, <1>6, <1>7, <1>8, <1>9, <1>10, <1>11, <1>12,
     <1>13, <1>15, <1>16, <1>17 DEF Next, CacheStep, RequestStep, RefresherStep

-----------------------------------------------------------------------------
\* Whichever way a token travels, from the provider into the cache, out of the
\* cache, or from a leader to its waiters, it stays with its credential.
LEMMA IsolationInvStep ==
    StateInv /\ FlightInv /\ IsolationInv /\ [Next]_vars => IsolationInv'
<1> SUFFICES ASSUME TypeOK, CacheInSync, CallsInv, FlightInv, IsolationInv, [Next]_vars
             PROVE  IsolationInv'
  BY Zenon DEF StateInv
<1> USE OutcomesDiffer, CacheAssumption
<1>1. ASSUME NEW r \in Requests, NEW c \in Creds, Get(r, c) PROVE IsolationInv'
  BY <1>1 DEF Get, cacheVars, IsolationInv, TokenIsolation, OwnTokenUsable, TypeOK
<1>2. ASSUME NEW r \in Requests, GetCachedHit(r) PROVE IsolationInv'
  <2>1. /\ want[r] \in Creds /\ entries[want[r]] \in Entry
        /\ entries[want[r]].tok \in Token
        /\ entries[want[r]].tok.cred = want[r]
        /\ readAt[r] < entries[want[r]].tok.until
    BY <1>2 DEF GetCachedHit, Usable, CallsInv, TypeOK, Entry, IsolationInv
  <2>2. QED
    BY <1>2, <2>1 DEF GetCachedHit, IsolationInv, TokenIsolation, OwnTokenUsable, TypeOK
<1>3. ASSUME NEW r \in Requests, GetCachedMiss(r) PROVE IsolationInv'
  BY <1>3 DEF GetCachedMiss, cacheVars, IsolationInv, TokenIsolation, OwnTokenUsable, TypeOK
<1>4. ASSUME NEW r \in Requests, MaybeRefresh(r) PROVE IsolationInv'
  BY <1>4 DEF MaybeRefresh, cacheVars, IsolationInv, TokenIsolation, OwnTokenUsable, TypeOK
<1>5. ASSUME NEW r \in Requests, StartAcquire(r) PROVE IsolationInv'
  BY <1>5 DEF StartAcquire, CallInFlight, cacheVars, IsolationInv, TokenIsolation, OwnTokenUsable, TypeOK
<1>6. ASSUME NEW r \in Requests, FinishAcquire(r) PROVE IsolationInv'
  <2> DEFINE tok == acq[r].tok
             ok == tok # Failed /\ Usable(tok, now)
  <2>1. /\ want[r] \in Creds /\ pc[r] = "acquire"
        /\ tok # Failed => tok \in Token /\ tok.cred = want[r]
    BY <1>6, Zenon DEF FinishAcquire, CallsInv, Tasks
  <2>2. /\ UNCHANGED <<now, want, readAt, joined>>
        /\ pc' = [pc EXCEPT ![r] = "release"]
        /\ out' = [out EXCEPT ![r] = IF ok THEN tok ELSE Failed]
    BY <1>6, Zenon DEF FinishAcquire
  <2>3. \A c \in Creds : entries'[c] # None => entries'[c].tok.cred = c
    <3>1. CASE ok
      <4>1. tok \in Token /\ tok.cred = want[r] /\ now < tok.until /\ Store(want[r], tok)
        BY <1>6, <2>1, <3>1, Zenon DEF FinishAcquire, Usable
      <4>2. /\ entries'[want[r]].tok = tok
            /\ \A c \in Creds \ {want[r]} : entries'[c] # None => entries'[c] = entries[c]
        BY <2>1, <4>1, StoreProperties
      <4>3. QED
        BY <4>1, <4>2, Zenon DEF IsolationInv
    <3>2. CASE ~ok
      BY <1>6, <3>2, Zenon DEF FinishAcquire, cacheVars, IsolationInv
    <3>3. QED
      BY <3>1, <3>2, Zenon
  <2>4. ok => readAt[r] < tok.until
    BY <2>1 DEF Usable, IsolationInv, TypeOK, Token
  <2> HIDE DEF ok, tok
  <2>5. (ok => tok # Failed) /\ out'[r] \in Token \cup {Failed}
    BY <2>1, <2>2, Zenon DEF ok, TypeOK
  <2>6. QED
    BY <2>1, <2>2, <2>3, <2>4, <2>5 DEF IsolationInv, TokenIsolation, OwnTokenUsable, TypeOK
<1>7. ASSUME NEW r \in Requests, ReleaseCall(r) PROVE IsolationInv'
  BY <1>7 DEF ReleaseCall, cacheVars, IsolationInv, TokenIsolation, OwnTokenUsable, TypeOK
<1>8. ASSUME NEW r \in Requests, CloseDone(r) PROVE IsolationInv'
  <2>1. \A w \in Waiters(r) : want[w] = want[r] /\ joined[w] = r /\ pc[w] = "wait"
    BY DEF Waiters, FlightInv, NoOrphanedWaiter
  <2>2. QED
    BY <1>8, <2>1, Zenon DEF CloseDone, Waiters, cacheVars, IsolationInv, TokenIsolation, OwnTokenUsable, TypeOK
<1>9. ASSUME NEW r \in Requests, WaiterReturns(r) PROVE IsolationInv'
  BY <1>9 DEF WaiterReturns, cacheVars, IsolationInv, TokenIsolation, OwnTokenUsable, TypeOK
<1>10. ASSUME NEW r \in Requests, WaiterCancelled(r) PROVE IsolationInv'
  BY <1>10 DEF WaiterCancelled, cacheVars, IsolationInv, TokenIsolation, OwnTokenUsable, TypeOK
<1>11. ASSUME NEW r \in Requests, Return(r) PROVE IsolationInv'
  BY <1>11 DEF Return, cacheVars, IsolationInv, TokenIsolation, OwnTokenUsable, TypeOK
<1>12. ASSUME NEW k \in Refreshers, FinishRefresh(k) PROVE IsolationInv'
  <2> DEFINE tok == acq[k].tok
             ok == tok # Failed /\ Usable(tok, now)
  <2>1. /\ wcred[k] \in Creds
        /\ tok # Failed => tok \in Token /\ tok.cred = wcred[k]
    BY <1>12, Zenon DEF FinishRefresh, CallsInv, Tasks
  <2>2. \A c \in Creds : entries'[c] # None => entries'[c].tok.cred = c
    <3>1. CASE ok
      <4>1. tok \in Token /\ tok.cred = wcred[k] /\ now < tok.until /\ Store(wcred[k], tok)
        BY <1>12, <2>1, <3>1, Zenon DEF FinishRefresh, Usable
      <4>2. /\ entries'[wcred[k]].tok = tok
            /\ \A c \in Creds \ {wcred[k]} : entries'[c] # None => entries'[c] = entries[c]
        BY <2>1, <4>1, StoreProperties, Zenon
      <4>3. QED
        BY <4>1, <4>2, Zenon DEF IsolationInv
    <3>2. CASE ~ok
      BY <1>12, <3>2, Zenon DEF FinishRefresh, cacheVars, IsolationInv
    <3>3. QED
      BY <3>1, <3>2, Zenon
  <2>3. QED
    BY <1>12, <2>2, Zenon DEF FinishRefresh, reqVars, IsolationInv, TokenIsolation, OwnTokenUsable
<1>13. ASSUME UNCHANGED <<entries, pc, want, readAt, joined, out>>, now' \in {now, now + 1}
       PROVE  IsolationInv'
  <2>1. \A r \in Requests : readAt[r] <= now'
    BY <1>13 DEF IsolationInv, TypeOK
  <2>2. QED
    BY <1>13, <2>1, Zenon DEF IsolationInv, TokenIsolation, OwnTokenUsable
<1>14. ASSUME NEW k \in Refreshers, ReleaseRefresh(k) PROVE IsolationInv'
  BY <1>13, <1>14, Zenon DEF ReleaseRefresh, cacheVars, reqVars
<1>15. CASE Tick
  BY <1>13, <1>15, Zenon DEF Tick, cacheVars, reqVars
<1>16. ASSUME NEW t \in Tasks, Provide(t) PROVE IsolationInv'
  BY <1>13, <1>16, Zenon DEF Provide, cacheVars, reqVars
<1>17. CASE UNCHANGED vars
  BY <1>13, <1>17, Zenon DEF vars
<1>18. QED
  BY Zenon, <1>1, <1>2, <1>3, <1>4, <1>5, <1>6, <1>7, <1>8, <1>9, <1>10, <1>11, <1>12,
     <1>14, <1>15, <1>16, <1>17 DEF Next, CacheStep, RequestStep, RefresherStep

-----------------------------------------------------------------------------
\* The empty cache NewTokenCache returns satisfies the invariant.
LEMMA InitIInv == Init => IInv
<1> SUFFICES ASSUME Init PROVE IInv
  BY Zenon
<1> USE OutcomesDiffer, CacheAssumption DEF Init
<1>1. TypeOK
  BY DEF TypeOK, NoCall
<1>2. CacheInSync
  <2>1. order \in Seq(Creds) /\ Len(order) = 0 /\ DOMAIN order = {}
    OBVIOUS
  <2>2. QED
    BY <2>1 DEF CacheInSync, Distinct, Keys
<1>3. CallsInv
  BY Zenon DEF CallsInv, NoCall
<1>4. FlightInv
  BY Zenon DEF FlightInv, NoOrphanedWaiter, SingleFlight
<1>5. IsolationInv
  BY DEF IsolationInv, TokenIsolation, OwnTokenUsable
<1>6. QED
  BY <1>1, <1>2, <1>3, <1>4, <1>5, Zenon DEF IInv

\* Every critical section of Get and backgroundRefresh preserves the invariant.
LEMMA IInvStep == IInv /\ [Next]_vars => IInv'
BY StateInvStep, FlightInvStep, IsolationInvStep, Zenon DEF IInv, StateInv

\* The invariant holds in every reachable state of the cache.
THEOREM Invariance == Spec => []IInv
BY InitIInv, IInvStep, PTL DEF Spec

\* The cache's state always has its type; in particular refreshAt is never
\* before the clock's origin (computeRefreshWindow).
THEOREM TypeCorrect == Spec => []TypeOK
<1>1. IInv => TypeOK
  BY Zenon DEF IInv
<1>2. QED
  BY Invariance, <1>1, PTL

\* Concurrent misses and concurrent refreshes of a credential collapse into one
\* provider call each (startAcquire, maybeRefresh).
THEOREM SingleFlightHolds == Spec => []SingleFlight
<1>1. IInv => SingleFlight
  BY Zenon DEF IInv, FlightInv
<1>2. QED
  BY Invariance, <1>1, PTL

\* Nobody waits on a call that has no leader (startAcquire, finishAcquire).
THEOREM NoOrphanedWaiterHolds == Spec => []NoOrphanedWaiter
<1>1. IInv => NoOrphanedWaiter
  BY Zenon DEF IInv, FlightInv
<1>2. QED
  BY Invariance, <1>1, PTL

\* No request is ever handed a token of another credential (Get, INV-8).
THEOREM TokenIsolationHolds == Spec => []TokenIsolation
<1>1. IInv => TokenIsolation
  BY Zenon DEF IInv, IsolationInv
<1>2. QED
  BY Invariance, <1>1, PTL

\* Cached tokens and tokens a request acquired itself were usable when Get read
\* the clock (getCached, finishAcquire).
THEOREM OwnTokenUsableHolds == Spec => []OwnTokenUsable
<1>1. IInv => OwnTokenUsable
  BY Zenon DEF IInv, IsolationInv
<1>2. QED
  BY Invariance, <1>1, PTL

\* Map and list agree and respect the bound (store, removeElement).
THEOREM CacheInSyncHolds == Spec => []CacheInSync
<1>1. IInv => CacheInSync
  BY Zenon DEF IInv
<1>2. QED
  BY Invariance, <1>1, PTL

\* An entry is lost only by expiry or by a new entry from the back of a full list;
\* a failed refresh loses nothing (getCached, store, backgroundRefresh).
THEOREM EntryLossHolds == Spec => EntryLoss
<1> DEFINE Lost(c) == entries[c] # None /\ entries'[c] = None
           Due(c) == \/ ~(now < entries[c].tok.until)
                     \/ /\ Len(order) = MaxEntries /\ order[Len(order)] = c
                        /\ \E d \in Creds : entries[d] = None /\ entries'[d] # None
<1>1. ASSUME IInv, [Next]_vars PROVE [\A c \in Creds : Lost(c) => Due(c)]_vars
  <2> SUFFICES ASSUME NEW c \in Creds, Lost(c) PROVE Due(c)
    BY Zenon
  <2> USE OutcomesDiffer
  <2>1. TypeOK /\ CacheInSync /\ CallsInv /\ IsolationInv
    BY <1>1, Zenon DEF IInv
  <2>2. entries # entries'
    BY Zenon
  <2>3. ASSUME NEW r \in Requests, GetCachedMiss(r) PROVE Due(c)
    <3>1. c = want[r] /\ ~(readAt[r] < entries[c].tok.until)
      BY <2>1, <2>2, <2>3, Zenon DEF GetCachedMiss, Usable, cacheVars, TypeOK
    <3>2. readAt[r] <= now /\ readAt[r] \in Nat /\ now \in Nat /\ entries[c].tok.until \in Nat
      BY <2>1, CacheAssumption DEF IsolationInv, TypeOK, Entry, Token
    <3>3. QED
      BY <3>1, <3>2
  <2>4. ASSUME NEW d \in Creds, NEW tok \in Token, now < tok.until, Store(d, tok) PROVE Due(c)
    BY <2>1, <2>4, StoreProperties, Zenon
  <2>5. ASSUME NEW r \in Requests, FinishAcquire(r) PROVE Due(c)
    BY <2>1, <2>2, <2>4, <2>5, Zenon DEF FinishAcquire, Usable, CallsInv, cacheVars, Tasks
  <2>6. ASSUME NEW k \in Refreshers, FinishRefresh(k) PROVE Due(c)
    BY <2>1, <2>2, <2>4, <2>6, Zenon DEF FinishRefresh, Usable, CallsInv, cacheVars, Tasks
  <2>7. ASSUME NEW r \in Requests,
               \/ GetCachedHit(r) \/ MaybeRefresh(r) \/ StartAcquire(r) \/ ReleaseCall(r)
               \/ CloseDone(r) \/ WaiterReturns(r) \/ WaiterCancelled(r) \/ Return(r)
        PROVE  FALSE
    BY <2>2, <2>7, Zenon DEF GetCachedHit, MaybeRefresh, StartAcquire, ReleaseCall, CloseDone,
                      WaiterReturns, WaiterCancelled, Return, cacheVars
  <2>8. ~UNCHANGED vars /\ ~Tick
    BY <2>2, Zenon DEF vars, Tick, cacheVars
  <2>9. /\ \A r \in Requests, d \in Creds : ~Get(r, d)
        /\ \A k \in Refreshers : ~ReleaseRefresh(k)
        /\ \A t \in Tasks : ~Provide(t)
    BY <2>2, Zenon DEF Get, ReleaseRefresh, Provide, cacheVars
  <2>10. QED
    BY <1>1, <2>3, <2>5, <2>6, <2>7, <2>8, <2>9, Zenon DEF Next, CacheStep, RequestStep, RefresherStep
<1>2. QED
  BY Invariance, <1>1, PTL DEF Spec, EntryLoss

(***************************************************************************)
(* The broker and its gates.                                               *)
(***************************************************************************)

\* A call returned by the gates is a step of the cache's provider.
LEMMA ReturnIsProvide ==
    ASSUME NEW t \in Tasks, acq[t].state = "called",
           NEW tok \in Issues(acq[t].cred) \cup {Failed}, A!Return(t, tok),
           UNCHANGED <<now, cacheVars, inflight, refreshing, reqVars, workerVars>>
    PROVE  Provide(t)
BY Zenon DEF A!Return, Provide

\* Every step of the broker is a step of the cache, or leaves it alone.
LEMMA BrokerStepRefines ==
    ASSUME BrokerInv, [BrokerNext]_brokerVars
    PROVE  [Next]_vars
<1>1. CASE CacheStep /\ UNCHANGED gateVars
  BY <1>1, Zenon DEF Next
<1>2. CASE BrokerTick
  BY <1>2, Zenon DEF BrokerTick, Next
<1>3. ASSUME NEW t \in Tasks, BrokerAcquire(t) PROVE [Next]_vars
  <2>1. UNCHANGED <<now, cacheVars, inflight, refreshing, reqVars, workerVars>>
    BY <1>3, Zenon DEF BrokerAcquire
  <2>2. UNCHANGED acq => UNCHANGED vars
    BY <2>1, Zenon DEF vars, cacheVars, reqVars, workerVars
  <2>3. ASSUME acq[t].state = "called", NEW tok \in Issues(acq[t].cred) \cup {Failed},
               A!Return(t, tok)
        PROVE  [Next]_vars
    BY <2>1, <2>3, ReturnIsProvide, Zenon DEF Next
  <2>4. A!Failed = Failed
    BY Zenon DEF A!Failed, Failed
  <2>5. CASE A!ConsultNegative(t)
    BY <2>2, <2>3, <2>4, <2>5, Zenon DEF A!ConsultNegative
  <2>6. CASE A!ConsultBreaker(t)
    BY <2>2, <2>3, <2>4, <2>6, Zenon DEF A!ConsultBreaker, BrokerInv
  <2>7. ASSUME NEW class, NEW tok, A!BaseAnswers(t, class, tok) PROVE [Next]_vars
    BY <2>2, <2>7, Zenon DEF A!BaseAnswers
  <2>8. CASE A!RecordAnswer(t)
    BY <2>2, <2>3, <2>8, Zenon DEF A!RecordAnswer, BrokerInv
  <2>9. CASE A!RecordNegative(t)
    BY <2>3, <2>4, <2>9, Zenon DEF A!RecordNegative, BrokerInv
  <2>10. QED
    BY <1>3, <2>5, <2>6, <2>7, <2>8, <2>9, Zenon DEF BrokerAcquire, A!AcquireStep
<1>4. CASE UNCHANGED brokerVars
  BY <1>4, Zenon DEF brokerVars
<1>5. QED
  BY <1>1, <1>2, <1>3, <1>4, Zenon DEF BrokerNext

\* The cache's own steps start calls only where none is pending, and collect
\* only what was returned.
LEMMA CacheKeepsBrokerInv ==
    ASSUME IInv, BrokerInv, CacheStep, UNCHANGED gateVars
    PROVE  BrokerInv'
<1> USE CacheAssumption
<1>1. /\ TypeOK /\ CallsInv /\ UNCHANGED <<gate, answer>>
      /\ \A r \in Requests : r \in Tasks /\ r \notin Refreshers
      /\ \A k \in Refreshers : k \in Tasks /\ k \notin Requests
  BY Zenon DEF IInv, gateVars, Tasks
<1>2. ASSUME UNCHANGED <<now, acq, wpc>>,
             \A r \in Requests : pc[r] = "acquire" => pc'[r] = "acquire"
      PROVE  BrokerInv'
  BY <1>1, <1>2 DEF BrokerInv, Issues
<1>3. ASSUME NEW t \in Tasks, NEW x, UNCHANGED now,
             acq[t].state # "called", acq' = [acq EXCEPT ![t] = x],
             \A r \in Requests : acq'[r].state # "idle" => pc'[r] = "acquire",
             \A k \in Refreshers : acq'[k].state # "idle" => wpc'[k] = "acquire"
      PROVE  BrokerInv'
  <2>1. \A u \in Tasks : gate[u] # "idle" => acq'[u] = acq[u]
    BY <1>1, <1>3, Zenon DEF BrokerInv, TypeOK
  <2>2. \A c : Issues(c)' = Issues(c)
    BY <1>3, Zenon DEF Issues
  <2>3. QED
    BY <1>1, <1>3, <2>1, <2>2 DEF BrokerInv
<1>4. ASSUME NEW r \in Requests, StartAcquire(r) PROVE BrokerInv'
  <2>1. CASE UNCHANGED acq
    BY <1>1, <1>2, <1>4, <2>1 DEF StartAcquire, workerVars, TypeOK
  <2>2. CASE /\ acq' = [acq EXCEPT ![r] = [state |-> "called", cred |-> want[r], tok |-> None]]
             /\ pc' = [pc EXCEPT ![r] = "acquire"]
    <3>1. acq[r].state = "idle" /\ UNCHANGED <<now, wpc>>
      BY <1>1, <1>4, Zenon DEF StartAcquire, workerVars, TypeOK, BrokerInv
    <3>2. /\ \A q \in Requests : acq'[q].state # "idle" => pc'[q] = "acquire"
          /\ \A k \in Refreshers : acq'[k].state # "idle" => wpc'[k] = "acquire"
      BY <1>1, <2>2, <3>1 DEF TypeOK, BrokerInv
    <3>3. QED
      BY <1>1, <1>3, <2>2, <3>1, <3>2, Zenon
  <2>3. QED
    BY <1>4, <2>1, <2>2, Zenon DEF StartAcquire
<1>5. ASSUME NEW r \in Requests, MaybeRefresh(r) PROVE BrokerInv'
  <2>1. CASE UNCHANGED <<refreshing, workerVars, acq>>
    BY <1>1, <1>2, <1>5, <2>1, Zenon DEF MaybeRefresh, workerVars, TypeOK
  <2>2. ASSUME NEW k \in Refreshers, wpc[k] = "idle",
               wpc' = [wpc EXCEPT ![k] = "acquire"],
               acq' = [acq EXCEPT ![k] = [state |-> "called", cred |-> want[r], tok |-> None]]
        PROVE  BrokerInv'
    <3>1. acq[k].state = "idle" /\ pc[r] = "hit" /\ UNCHANGED now /\ pc' = [pc EXCEPT ![r] = "done"]
      BY <1>1, <1>5, <2>2, Zenon DEF MaybeRefresh, TypeOK, BrokerInv
    <3>2. /\ \A q \in Requests : acq'[q].state # "idle" => pc'[q] = "acquire"
          /\ \A l \in Refreshers : acq'[l].state # "idle" => wpc'[l] = "acquire"
      BY <1>1, <2>2, <3>1 DEF TypeOK, BrokerInv
    <3>3. QED
      BY <1>1, <1>3, <2>2, <3>1, <3>2, Zenon
  <2>3. QED
    BY <1>5, <2>1, <2>2, Zenon DEF MaybeRefresh
<1>6. ASSUME NEW r \in Requests, FinishAcquire(r) PROVE BrokerInv'
  <2>1. /\ acq' = [acq EXCEPT ![r] = NoCall] /\ acq[r].state = "returned"
        /\ pc' = [pc EXCEPT ![r] = "release"] /\ UNCHANGED <<now, wpc>>
    BY <1>6, Zenon DEF FinishAcquire, workerVars
  <2>2. acq'[r].state = "idle" /\ \A u \in Tasks : u # r => acq'[u] = acq[u]
    BY <1>1, <2>1 DEF NoCall, TypeOK
  <2>3. /\ \A q \in Requests : acq'[q].state # "idle" => pc'[q] = "acquire"
        /\ \A j \in Refreshers : acq'[j].state # "idle" => wpc'[j] = "acquire"
    BY <1>1, <2>1, <2>2 DEF TypeOK, BrokerInv
  <2>4. QED
    BY <1>1, <1>3, <2>1, <2>3, Zenon
<1>7. ASSUME NEW k \in Refreshers, FinishRefresh(k) PROVE BrokerInv'
  <2>1. /\ acq' = [acq EXCEPT ![k] = NoCall] /\ acq[k].state = "returned"
        /\ wpc' = [wpc EXCEPT ![k] = "release"] /\ UNCHANGED <<now, pc>>
    BY <1>7, Zenon DEF FinishRefresh, reqVars
  <2>2. acq'[k].state = "idle" /\ \A u \in Tasks : u # k => acq'[u] = acq[u]
    BY <1>1, <2>1 DEF NoCall, TypeOK
  <2>3. /\ \A q \in Requests : acq'[q].state # "idle" => pc'[q] = "acquire"
        /\ \A j \in Refreshers : acq'[j].state # "idle" => wpc'[j] = "acquire"
    BY <1>1, <2>1, <2>2 DEF TypeOK, BrokerInv
  <2>4. QED
    BY <1>1, <1>3, <2>1, <2>3, Zenon
<1>8. ASSUME NEW k \in Refreshers, ReleaseRefresh(k) PROVE BrokerInv'
  BY <1>1, <1>8 DEF ReleaseRefresh, reqVars, TypeOK, BrokerInv, Issues
<1>9. ASSUME NEW r \in Requests, NEW c \in Creds, Get(r, c) PROVE BrokerInv'
  BY <1>1, <1>2, <1>9, Zenon DEF Get, workerVars, TypeOK
<1>10. ASSUME NEW r \in Requests, GetCachedHit(r) \/ GetCachedMiss(r) PROVE BrokerInv'
  BY <1>1, <1>2, <1>10, Zenon DEF GetCachedHit, GetCachedMiss, workerVars, TypeOK
<1>11. ASSUME NEW r \in Requests, ReleaseCall(r) \/ WaiterReturns(r) \/ WaiterCancelled(r) \/ Return(r)
       PROVE  BrokerInv'
  BY <1>1, <1>2, <1>11 DEF ReleaseCall, WaiterReturns, WaiterCancelled, Return, workerVars, TypeOK
<1>12. ASSUME NEW r \in Requests, CloseDone(r) PROVE BrokerInv'
  BY <1>1, <1>2, <1>12, Zenon DEF CloseDone, Waiters, workerVars, TypeOK
<1>13. QED
  BY <1>4, <1>5, <1>6, <1>7, <1>8, <1>9, <1>10, <1>11, <1>12
  DEF CacheStep, RequestStep, RefresherStep

\* The gates' steps keep it too: a call leaves them only by returning.
LEMMA GatesKeepBrokerInv ==
    ASSUME IInv, BrokerInv, NEW t \in Tasks, BrokerAcquire(t)
    PROVE  BrokerInv'
<1>1. /\ acq \in [Tasks -> [state : {"idle", "called", "returned"},
                            cred : Creds \cup {None},
                            tok : Token \cup {Failed, None}]]
      /\ UNCHANGED <<now, pc, wpc>>
      /\ \A r \in Requests : r \in Tasks
      /\ \A k \in Refreshers : k \in Tasks
  BY Zenon DEF IInv, TypeOK, BrokerAcquire, reqVars, workerVars, Tasks
<1>2. \A c : Issues(c)' = Issues(c)
  BY <1>1, Zenon DEF Issues
<1>3. ASSUME NEW tok, A!Return(t, tok), acq[t].state = "called", gate'[t] = "idle",
             gate' \in [Tasks -> {"idle", "breaker", "base", "record", "put"}],
             DOMAIN answer' = Tasks,
             \A u \in Tasks \ {t} : gate'[u] = gate[u] /\ answer'[u] = answer[u]
      PROVE  BrokerInv'
  <2>1. /\ \A u \in Tasks \ {t} : acq'[u] = acq[u]
        /\ acq'[t].state = "returned"
    BY <1>1, <1>3, Zenon DEF A!Return
  <2>2. QED
    BY <1>1, <1>2, <1>3, <2>1 DEF BrokerInv
<1>4. ASSUME UNCHANGED acq, acq[t].state = "called",
             gate' \in [Tasks -> {"idle", "breaker", "base", "record", "put"}],
             DOMAIN answer' = Tasks,
             \A u \in Tasks \ {t} : gate'[u] = gate[u] /\ answer'[u] = answer[u],
             gate'[t] = "record" => answer'[t].tok \in Issues(acq[t].cred) \cup {Failed}
      PROVE  BrokerInv'
  BY <1>1, <1>2, <1>4, Zenon DEF BrokerInv
<1>5. CASE A!ConsultNegative(t)
  BY <1>3, <1>4, <1>5, Zenon DEF A!ConsultNegative, BrokerInv
<1>6. CASE A!ConsultBreaker(t)
  <2>1. /\ gate[t] = "breaker" /\ UNCHANGED answer
        /\ \/ gate' = [gate EXCEPT ![t] = "base"] /\ UNCHANGED acq
           \/ gate' = [gate EXCEPT ![t] = "idle"] /\ A!Return(t, A!Failed)
    BY <1>6, Zenon DEF A!ConsultBreaker
  <2>2. acq[t].state = "called"
    BY <2>1, Zenon DEF BrokerInv
  <2>3. CASE gate' = [gate EXCEPT ![t] = "base"] /\ UNCHANGED acq
    BY <1>4, <2>1, <2>2, <2>3, Zenon DEF BrokerInv
  <2>4. CASE gate' = [gate EXCEPT ![t] = "idle"] /\ A!Return(t, A!Failed)
    BY <1>3, <2>1, <2>2, <2>4, Zenon DEF BrokerInv
  <2>5. QED
    BY <2>1, <2>3, <2>4, Zenon
<1>7. ASSUME NEW class, NEW tok \in Issues(acq[t].cred) \cup {Failed},
             A!BaseAnswers(t, class, tok)
      PROVE  BrokerInv'
  BY <1>4, <1>7, Zenon DEF A!BaseAnswers, A!Failed, Failed, BrokerInv
<1>8. CASE A!RecordAnswer(t)
  <2>1. /\ gate[t] = "record"
        /\ \/ gate' = [gate EXCEPT ![t] = "put"] /\ UNCHANGED <<acq, answer>>
           \/ /\ gate' = [gate EXCEPT ![t] = "idle"] /\ A!Return(t, answer[t].tok)
              /\ answer' = [answer EXCEPT ![t] = A!NoAnswer]
    BY <1>8, Zenon DEF A!RecordAnswer
  <2>2. acq[t].state = "called"
    BY <2>1, Zenon DEF BrokerInv
  <2>3. CASE gate' = [gate EXCEPT ![t] = "put"] /\ UNCHANGED <<acq, answer>>
    BY <1>4, <2>2, <2>3, Zenon DEF BrokerInv
  <2>4. CASE /\ gate' = [gate EXCEPT ![t] = "idle"] /\ A!Return(t, answer[t].tok)
             /\ answer' = [answer EXCEPT ![t] = A!NoAnswer]
    BY <1>3, <2>2, <2>4, Zenon DEF BrokerInv
  <2>5. QED
    BY <2>1, <2>3, <2>4, Zenon
<1>9. CASE A!RecordNegative(t)
  BY <1>3, <1>9, Zenon DEF A!RecordNegative, BrokerInv
<1>10. QED
  BY <1>5, <1>6, <1>7, <1>8, <1>9, Zenon DEF BrokerAcquire, A!AcquireStep, A!Failed, Failed

\* The broker's invariant: the cache's, and the agreement with the gates.
LEMMA BrokerInvariance == BrokerSpec => [](IInv /\ BrokerInv)
<1>1. BrokerInit => IInv /\ BrokerInv
  <2>1. BrokerInit => IInv
    BY InitIInv, Zenon DEF BrokerInit
  <2>2. BrokerInit => BrokerInv
    BY DEF BrokerInit, Init, A!GateInit, NoCall, BrokerInv, Tasks
  <2>3. QED
    BY <2>1, <2>2, Zenon
<1>2. ASSUME IInv, BrokerInv, [BrokerNext]_brokerVars PROVE IInv' /\ BrokerInv'
  <2>1. IInv'
    BY <1>2, BrokerStepRefines, IInvStep, Zenon
  <2>2. CASE BrokerTick
    <3>1. /\ now \in Nat /\ now' = now + 1 /\ MaxLife \in Nat
          /\ UNCHANGED <<acq, pc, wpc, gate, answer>>
      BY <1>2, <2>2, CacheAssumption
      DEF BrokerTick, Tick, A!GateTick, IInv, TypeOK, reqVars, workerVars
    <3>2. \A u \in 0 .. now + MaxLife : u \in 0 .. now' + MaxLife
      BY <3>1
    <3>3. \A c : Issues(c) \subseteq Issues(c)'
      BY <3>2, Zenon DEF Issues
    <3>4. BrokerInv'
      BY <1>2, <3>1, <3>3, Zenon DEF BrokerInv
    <3>5. QED
      BY <2>1, <3>4, Zenon
  <2>3. CASE UNCHANGED brokerVars
    BY <1>2, <2>1, <2>3 DEF brokerVars, gateVars, vars, BrokerInv, Issues
  <2>4. QED
    BY <1>2, <2>1, <2>2, <2>3, CacheKeepsBrokerInv, GatesKeepBrokerInv, Zenon DEF BrokerNext
<1>3. QED
  BY <1>1, <1>2, PTL DEF BrokerSpec

\* The broker implements the cache of TokenCache: whatever the breaker and the
\* negative cache do, the cache sees a provider that answers each call once,
\* with an error or a token for the call's own credential.
THEOREM BrokerImplementsCache == BrokerSpec => CacheImplemented
<1>1. BrokerInit => Init
  BY Zenon DEF BrokerInit
<1>2. BrokerInv /\ [BrokerNext]_brokerVars => [Next]_vars
  BY BrokerStepRefines, Zenon
<1>3. QED
  BY <1>1, <1>2, BrokerInvariance, PTL DEF BrokerSpec, Spec, CacheImplemented

\* So what holds of the cache holds of the assembled broker: no request is
\* handed a token of another credential, nor by its own acquisition one that is
\* past its lifetime; provider calls are single-flight and no waiter is left
\* without its leader; map and list agree.
THEOREM BrokerSafe ==
    BrokerSpec => [](TokenIsolation /\ OwnTokenUsable /\ SingleFlight /\ NoOrphanedWaiter /\ CacheInSync)
<1>1. Spec => [](TokenIsolation /\ OwnTokenUsable /\ SingleFlight /\ NoOrphanedWaiter /\ CacheInSync)
  BY TokenIsolationHolds, OwnTokenUsableHolds, SingleFlightHolds, NoOrphanedWaiterHolds, CacheInSyncHolds, PTL
<1>2. QED
  BY <1>1, BrokerImplementsCache, PTL DEF CacheImplemented

\* The gates, the cache and the clock keep every admitted probe in flight until
\* it is recorded, and recording releases the reservation.
LEMMA ProbeStep ==
    ASSUME BrokerInv, ProbeInv, [BrokerNext]_brokerVars
    PROVE  ProbeInv'
<1>1. ASSUME UNCHANGED <<probeInFlight, gate, probing>> PROVE ProbeInv'
  BY <1>1, Zenon DEF ProbeInv
<1>2. CASE UNCHANGED gateVars
  BY <1>1, <1>2, Zenon DEF gateVars
<1>3. CASE BrokerTick
  BY <1>1, <1>3, Zenon DEF BrokerTick, A!GateTick, A!BreakerTick
<1>4. ASSUME NEW t \in Tasks, BrokerAcquire(t) PROVE ProbeInv'
  <2>1. DOMAIN gate = Tasks
    BY DEF BrokerInv
  <2>2. ASSUME t \notin probing, UNCHANGED <<probeInFlight, probing>>,
               \A u \in Tasks \ {t} : gate'[u] = gate[u]
        PROVE  ProbeInv'
    BY <2>2, Zenon DEF ProbeInv
  <2>3. CASE A!ConsultNegative(t)
    BY <2>1, <2>2, <2>3, Zenon DEF A!ConsultNegative, A!breakerVars, ProbeInv
  <2>4. CASE A!ConsultBreaker(t)
    <3>1. t \notin probing
      BY <2>4, Zenon DEF A!ConsultBreaker, ProbeInv
    <3>2. CASE UNCHANGED <<probing, A!breakerVars>>
      BY <2>1, <2>2, <2>4, <3>1, <3>2, Zenon DEF A!ConsultBreaker, A!breakerVars
    <3>3. CASE /\ A!AllowRequest /\ probing' = (IF open THEN probing \cup {t} ELSE probing)
               /\ gate' = [gate EXCEPT ![t] = "base"]
      BY <2>1, <3>3 DEF A!AllowRequest, ProbeInv
    <3>4. QED
      BY <2>4, <3>2, <3>3, Zenon DEF A!ConsultBreaker
  <2>5. ASSUME NEW class, NEW tok, A!BaseAnswers(t, class, tok) PROVE ProbeInv'
    <3>1. /\ UNCHANGED <<probeInFlight, probing>> /\ gate'[t] = "record"
          /\ \A u \in Tasks \ {t} : gate'[u] = gate[u]
      BY <2>1, <2>5, Zenon DEF A!BaseAnswers, A!breakerVars
    <3>2. QED
      BY <3>1, Zenon DEF ProbeInv
  <2>6. CASE A!RecordAnswer(t)
    <3>1. ~probeInFlight' /\ probing' = probing \ {t}
      BY <2>6, Zenon DEF A!RecordAnswer, A!RecordSuccess, A!RecordFailure
    <3>2. \A u \in Tasks \ {t} : gate'[u] = gate[u]
      BY <2>1, <2>6, Zenon DEF A!RecordAnswer
    <3>3. QED
      BY <3>1, <3>2, Zenon DEF ProbeInv
  <2>7. CASE A!RecordNegative(t)
    BY <2>1, <2>2, <2>7, Zenon DEF A!RecordNegative, A!breakerVars, ProbeInv
  <2>8. QED
    BY <1>4, <2>3, <2>4, <2>5, <2>6, <2>7, Zenon DEF BrokerAcquire, A!AcquireStep
<1>5. QED
  BY <1>2, <1>3, <1>4, Zenon DEF BrokerNext, brokerVars

\* The probe reservation is never leaked (AllowRequest, RecordFailure,
\* RecordSuccess, as runtimeTokenAcquirer.Acquire calls them): while it is held,
\* an admitted probe of some goroutine is still to be recorded, however the
\* goroutines of the cache interleave.
THEOREM ProbeReservedHolds == BrokerSpec => []ProbeReserved
<1>1. BrokerInit => ProbeInv
  BY Zenon DEF BrokerInit, A!GateInit, A!BreakerInit, ProbeInv
<1>2. BrokerInv /\ ProbeInv /\ [BrokerNext]_brokerVars => ProbeInv'
  BY ProbeStep, Zenon
<1>3. BrokerInv /\ ProbeInv => ProbeReserved
  BY Zenon DEF BrokerInv, ProbeInv, ProbeReserved
<1>4. QED
  BY <1>1, <1>2, <1>3, BrokerInvariance, PTL DEF BrokerSpec
-----------------------------------------------------------------------------
(***************************************************************************)
(* The gated acquirer by itself: IInv of TokenAcquirer is inductive for    *)
(* any number of goroutines and credentials, any threshold, interval,      *)
(* capacity and time to live.                                              *)
(***************************************************************************)
\* The lists of the gates' module are those of the cache's.
LEMMA ListsAgree ==
    /\ \A s : A!Keys(s) = Keys(s) /\ A!Distinct(s) = Distinct(s)
    /\ \A s, k : A!Drop(s, k) = Drop(s, k) /\ A!MoveToFront(s, k) = MoveToFront(s, k)
    /\ \A s, k, n : A!Install(s, k, n) = Install(s, k, n)
<1>1. \A s : A!Keys(s) = Keys(s)
  BY Zenon DEF A!Keys, Keys
<1>2. \A s : A!Distinct(s) = Distinct(s)
  BY Zenon DEF A!Distinct, Distinct
<1>3. \A s, k : A!At(s, k) = At(s, k)
  BY Zenon DEF A!At, At
<1>4. \A s, i : A!Unlink(s, i) = Unlink(s, i)
  BY Zenon DEF A!Unlink, Unlink
<1>5. \A s, k : A!Drop(s, k) = Drop(s, k)
  BY <1>3, <1>4, Zenon DEF A!Drop, Drop
<1>6. \A s, k : A!PushFront(s, k) = PushFront(s, k)
  BY Zenon DEF A!PushFront, PushFront
<1>7. \A s, k : A!MoveToFront(s, k) = MoveToFront(s, k)
  BY <1>5, <1>6, Zenon DEF A!MoveToFront, MoveToFront
<1>8. \A s, n : A!EvictTo(s, n) = EvictTo(s, n)
  BY Zenon DEF A!EvictTo, EvictTo
<1>9. \A s, k, n : A!Install(s, k, n) = Install(s, k, n)
  BY <1>1, <1>6, <1>7, <1>8, Zenon DEF A!Install, Install
<1> QED
  BY <1>1, <1>2, <1>5, <1>7, <1>9, Zenon

\* NewBreaker and NewNegativeCache.
LEMMA GateInitIInv == A!Init => A!IInv
<1> SUFFICES ASSUME A!Init PROVE A!IInv
  OBVIOUS
<1> USE BrokerAssumption DEF A!BreakerAssumption, A!NegativeAssumption, A!Init, A!GateInit, A!BreakerInit, A!NegativeInit
<1>1. negOrder \in Seq(Creds) /\ Len(negOrder) = 0 /\ DOMAIN negOrder = {}
  OBVIOUS
<1>2. A!TypeOK
  <2>1. A!BreakerType
    <3>1. failures \in 0 .. Threshold /\ sinceFailure \in 0 .. ProbeInterval
      BY SMT
    <3>2. open \in BOOLEAN /\ probeInFlight \in BOOLEAN
      BY Zenon
    <3>3. QED
      BY <3>1, <3>2, Zenon DEF A!BreakerType
  <2>2. A!NegativeType
    BY <1>1 DEF A!NegativeType
  <2>3. None \in A!Result
    BY DEF A!Result
  <2>4. /\ acq \in [Tasks -> [state : {"idle", "called", "returned"},
                             cred : Creds \cup {None}, tok : A!Result]]
        /\ gate \in [Tasks -> {"idle", "breaker", "base", "record", "put"}]
        /\ answer \in [Tasks -> [class : A!Classes \cup {"ok", "none"}, tok : A!Result]]
        /\ probing \subseteq Tasks
        /\ blamed \subseteq Creds
    BY <2>3 DEF A!NoAnswer
  <2>5. QED
    BY <2>1, <2>2, <2>4, Zenon DEF A!TypeOK
<1>3. A!NegativeBounded
  BY <1>1 DEF A!NegativeBounded, A!Distinct
<1>4. A!GateInv /\ A!ProbeOut /\ A!OnlyTransientOpens
  BY DEF A!GateInv, A!ProbeOut, A!OnlyTransientOpens
<1>5. QED
  BY <1>2, <1>3, <1>4 DEF A!IInv

\* Negative.Get and Put keep the list within its bound, one element per key.
LEMMA NegativeStep ==
    ASSUME A!NegativeType, A!NegativeBounded, NEW c \in Creds, A!NegativeGet(c) \/ A!NegativePut(c)
    PROVE  A!NegativeType' /\ A!NegativeBounded'
<1> USE BrokerAssumption DEF A!NegativeAssumption
<1>1. CASE UNCHANGED A!negativeVars
  BY <1>1 DEF A!negativeVars, A!NegativeType, A!NegativeBounded
<1>2. CASE c \in A!Keys(negOrder) /\ negOrder' = A!MoveToFront(negOrder, c) /\ UNCHANGED negAge
  BY <1>2, MoveToFrontProperties, ListsAgree DEF A!NegativeType, A!NegativeBounded
<1>3. CASE /\ c \in A!Keys(negOrder) /\ negOrder' = A!Drop(negOrder, c)
           /\ negAge' = [negAge EXCEPT ![c] = 0]
  <2>1. negOrder' \in Seq(Creds) /\ A!Distinct(negOrder') /\ Len(negOrder') = Len(negOrder) - 1
    BY <1>3, DropProperties, ListsAgree DEF A!NegativeType, A!NegativeBounded
  <2>2. Len(negOrder) \in Nat
    BY SeqShape DEF A!NegativeType
  <2>3. Len(negOrder') <= NegMaxEntries
    BY <2>1, <2>2 DEF A!NegativeBounded
  <2>4. QED
    BY <1>3, <2>1, <2>3 DEF A!NegativeType, A!NegativeBounded
<1>4. CASE A!NegativePut(c)
  <2>1. negOrder' \in Seq(Creds) /\ A!Distinct(negOrder') /\ Len(negOrder') <= NegMaxEntries
    BY <1>4, InstallProperties, ListsAgree DEF A!NegativePut, A!NegativeType, A!NegativeBounded
  <2>2. negAge' \in [Creds -> 0 .. NegTTL + 1]
    BY <1>4 DEF A!NegativePut, A!NegativeType
  <2>3. QED
    BY <2>1, <2>2 DEF A!NegativeType, A!NegativeBounded
<1>5. QED
  BY <1>1, <1>2, <1>3, <1>4 DEF A!NegativeGet, A!NegativeHit

\* The breaker's operations keep its counters in range.
LEMMA BreakerStep ==
    ASSUME A!BreakerType, NEW class \in A!Classes,
           A!AllowRequest \/ A!RecordFailure(class) \/ A!RecordSuccess \/ A!BreakerTick
    PROVE  A!BreakerType'
<1> USE BrokerAssumption DEF A!BreakerAssumption
<1>1. failures \in 0 .. Threshold /\ sinceFailure \in 0 .. ProbeInterval
  BY Zenon DEF A!BreakerType
<1>2. open \in BOOLEAN /\ probeInFlight \in BOOLEAN
  BY Zenon DEF A!BreakerType
<1>3. failures' \in 0 .. Threshold /\ sinceFailure' \in 0 .. ProbeInterval
  BY <1>1 DEF A!AllowRequest, A!RecordFailure, A!RecordSuccess, A!BreakerTick
<1>4. open' \in BOOLEAN
  BY <1>2, Zenon DEF A!AllowRequest, A!RecordFailure, A!RecordSuccess, A!BreakerTick
<1>5. probeInFlight' \in BOOLEAN
  BY <1>2, Zenon DEF A!AllowRequest, A!RecordFailure, A!RecordSuccess, A!BreakerTick
<1>6. QED
  BY <1>3, <1>4, <1>5, Zenon DEF A!BreakerType

\* Every step of a call, and time, preserve the invariant.
LEMMA GateStep == A!IInv /\ [A!Next]_A!vars => A!IInv'
<1> SUFFICES ASSUME A!TypeOK, A!GateInv, A!NegativeBounded, A!ProbeOut, A!OnlyTransientOpens,
                    [A!Next]_A!vars
             PROVE  A!IInv'
  BY DEF A!IInv
<1> DEFINE GateType ==
             /\ acq \in [Tasks -> [state : {"idle", "called", "returned"},
                                   cred : Creds \cup {None}, tok : A!Result]]
             /\ gate \in [Tasks -> {"idle", "breaker", "base", "record", "put"}]
             /\ answer \in [Tasks -> [class : A!Classes \cup {"ok", "none"}, tok : A!Result]]
             /\ probing \subseteq Tasks
             /\ blamed \subseteq Creds
<1>1. GateType /\ A!BreakerType /\ A!NegativeType
  BY Zenon DEF A!TypeOK
<1>2. ASSUME GateType', A!GateInv', A!BreakerType', A!NegativeType', A!NegativeBounded',
             A!ProbeOut', A!OnlyTransientOpens'
      PROVE  A!IInv'
  BY <1>2, Zenon DEF A!IInv, A!TypeOK
<1>3. None \in A!Result /\ A!Failed \in A!Result /\ \A c \in Creds : A!IssuedFor(c) \subseteq A!Result
  BY DEF A!Result, A!IssuedFor
<1>4. ASSUME UNCHANGED A!breakerVars PROVE A!BreakerType' /\ (probing' = probing => A!ProbeOut')
             /\ (blamed' = blamed => A!OnlyTransientOpens')
  BY <1>1, <1>4, Zenon DEF A!breakerVars, A!BreakerType, A!ProbeOut, A!OnlyTransientOpens
<1>5. ASSUME UNCHANGED A!negativeVars PROVE A!NegativeType' /\ A!NegativeBounded'
  BY <1>1, <1>5 DEF A!negativeVars, A!NegativeType, A!NegativeBounded
<1>6. ASSUME NEW t \in Tasks, NEW c \in Creds, A!Call(t, c) PROVE A!IInv'
  <2>1. GateType' /\ A!GateInv'
    BY <1>1, <1>3, <1>6 DEF A!Call, A!gateVars, A!GateInv
  <2>2. QED
    BY <1>2, <1>4, <1>5, <1>6, <2>1, Zenon DEF A!Call, A!gateVars
<1>7. ASSUME NEW t \in Tasks, A!Collect(t) PROVE A!IInv'
  <2>1. GateType' /\ A!GateInv'
    BY <1>1, <1>3, <1>7 DEF A!Collect, A!gateVars, A!GateInv
  <2>2. QED
    BY <1>2, <1>4, <1>5, <1>7, <2>1, Zenon DEF A!Collect, A!gateVars
<1>8. ASSUME NEW t \in Tasks, A!ConsultNegative(t) PROVE A!IInv'
  <2>1. acq[t].cred \in Creds
    BY <1>8 DEF A!ConsultNegative, A!GateInv
  <2>2. GateType' /\ A!GateInv'
    <3>1. CASE A!Return(t, A!Failed) /\ UNCHANGED gate
      BY <1>1, <1>3, <1>8, <3>1 DEF A!ConsultNegative, A!Return, A!GateInv
    <3>2. CASE gate' = [gate EXCEPT ![t] = "breaker"] /\ UNCHANGED acq
      BY <1>1, <1>8, <3>2 DEF A!ConsultNegative, A!GateInv
    <3>3. QED
      BY <1>8, <3>1, <3>2 DEF A!ConsultNegative
  <2>3. A!NegativeType' /\ A!NegativeBounded'
    BY <1>1, <1>8, <2>1, NegativeStep DEF A!ConsultNegative
  <2>4. QED
    BY <1>2, <1>4, <1>8, <2>2, <2>3, Zenon DEF A!ConsultNegative
<1>9. ASSUME NEW t \in Tasks, A!ConsultBreaker(t) PROVE A!IInv'
  <2>1. GateType' /\ A!GateInv'
    <3>1. CASE A!Return(t, A!Failed) /\ gate' = [gate EXCEPT ![t] = "idle"] /\ UNCHANGED probing
      BY <1>1, <1>3, <1>9, <3>1 DEF A!ConsultBreaker, A!Return, A!GateInv
    <3>2. CASE /\ gate' = [gate EXCEPT ![t] = "base"] /\ UNCHANGED acq
               /\ probing' \in {probing, probing \cup {t}}
      BY <1>1, <1>9, <3>2 DEF A!ConsultBreaker, A!GateInv
    <3>3. QED
      BY <1>9, <3>1, <3>2, Zenon DEF A!ConsultBreaker
  <2>2. A!NegativeType' /\ A!NegativeBounded'
    BY <1>5, <1>9 DEF A!ConsultBreaker
  <2>3. CASE /\ A!AllowRequest
             /\ probing' = IF open THEN probing \cup {t} ELSE probing
    <3>1. A!BreakerType'
      BY <1>1, <2>3, BreakerStep DEF A!Classes
    <3>2. A!ProbeOut'
      BY <2>3, Zenon DEF A!AllowRequest, A!ProbeOut
    <3>3. A!OnlyTransientOpens'
      BY <1>9, <2>3, Zenon DEF A!ConsultBreaker, A!AllowRequest, A!OnlyTransientOpens
    <3>4. QED
      BY <1>2, <2>1, <2>2, <3>1, <3>2, <3>3
  <2>4. CASE UNCHANGED <<probing, A!breakerVars>>
    BY <1>2, <1>4, <1>9, <2>1, <2>2, <2>4, Zenon DEF A!ConsultBreaker
  <2>5. QED
    BY <1>9, <2>3, <2>4, Zenon DEF A!ConsultBreaker
<1>10. ASSUME NEW t \in Tasks, NEW class \in A!Classes \cup {"ok"},
              NEW tok \in A!Result, A!BaseAnswers(t, class, tok)
       PROVE  A!IInv'
  <2>1. GateType' /\ A!GateInv'
    BY <1>1, <1>3, <1>10 DEF A!BaseAnswers, A!GateInv, A!Classes
  <2>2. QED
    BY <1>2, <1>4, <1>5, <1>10, <2>1, Zenon DEF A!BaseAnswers
<1>11. ASSUME NEW t \in Tasks, A!RecordAnswer(t) PROVE A!IInv'
  <2>1. /\ acq[t].cred \in Creds /\ gate[t] = "record"
        /\ answer[t].class \in A!Classes \cup {"ok"} /\ answer[t].tok \in A!Result
    BY <1>1, <1>11 DEF A!RecordAnswer, A!GateInv
  <2>2. GateType' /\ A!GateInv'
    <3>1. probing' \subseteq Tasks /\ blamed' \subseteq Creds
      BY <1>1, <1>11, <2>1 DEF A!RecordAnswer
    <3>2. CASE gate' = [gate EXCEPT ![t] = "put"] /\ UNCHANGED <<acq, answer>>
      BY <1>1, <2>1, <3>1, <3>2 DEF A!GateInv
    <3>3. CASE /\ gate' = [gate EXCEPT ![t] = "idle"]
               /\ answer' = [answer EXCEPT ![t] = A!NoAnswer]
               /\ A!Return(t, answer[t].tok)
      BY <1>1, <1>3, <2>1, <3>1, <3>3 DEF A!Return, A!NoAnswer, A!GateInv
    <3>4. QED
      BY <1>11, <3>2, <3>3 DEF A!RecordAnswer
  <2>3. A!NegativeType' /\ A!NegativeBounded'
    BY <1>5, <1>11 DEF A!RecordAnswer
  <2>4. CASE A!RecordSuccess /\ blamed' = {}
    <3>1. A!BreakerType'
      BY <1>1, <2>4, BreakerStep DEF A!Classes
    <3>2. A!ProbeOut' /\ A!OnlyTransientOpens'
      BY <2>4, Zenon DEF A!RecordSuccess, A!ProbeOut, A!OnlyTransientOpens
    <3>3. QED
      BY <1>2, <2>2, <2>3, <3>1, <3>2
  <2>5. ASSUME NEW class \in A!Classes, A!RecordFailure(class),
               blamed' = IF class = "transient" THEN blamed \cup {acq[t].cred} ELSE blamed
        PROVE  A!IInv'
    <3>1. A!BreakerType'
      BY <1>1, <2>5, BreakerStep
    <3>2. A!ProbeOut'
      BY <2>5, Zenon DEF A!RecordFailure, A!ProbeOut
    <3>3. A!OnlyTransientOpens'
      BY <2>5, Zenon DEF A!RecordFailure, A!OnlyTransientOpens
    <3>4. QED
      BY <1>2, <2>2, <2>3, <3>1, <3>2, <3>3
  <2>6. QED
    BY <1>11, <2>1, <2>4, <2>5, Zenon DEF A!RecordAnswer
<1>12. ASSUME NEW t \in Tasks, A!RecordNegative(t) PROVE A!IInv'
  <2>1. acq[t].cred \in Creds
    BY <1>12 DEF A!RecordNegative, A!GateInv
  <2>2. GateType' /\ A!GateInv'
    BY <1>1, <1>3, <1>12, <2>1 DEF A!RecordNegative, A!Return, A!NoAnswer, A!GateInv
  <2>3. A!NegativeType' /\ A!NegativeBounded'
    BY <1>1, <1>12, <2>1, NegativeStep DEF A!RecordNegative
  <2>4. QED
    BY <1>2, <1>4, <1>12, <2>2, <2>3, Zenon DEF A!RecordNegative
<1>13. CASE A!GateTick /\ UNCHANGED acq
  <2>1. GateType' /\ A!GateInv'
    BY <1>1, <1>13 DEF A!GateTick, A!GateInv
  <2>2. A!BreakerType'
    BY <1>1, <1>13, BreakerStep DEF A!GateTick, A!Classes
  <2>3. A!NegativeType' /\ A!NegativeBounded'
    BY <1>1, <1>13, BrokerAssumption DEF A!NegativeAssumption, A!GateTick, A!NegativeTick, A!NegativeType, A!NegativeBounded
  <2>4. A!ProbeOut' /\ A!OnlyTransientOpens'
    BY <1>13, Zenon DEF A!GateTick, A!BreakerTick, A!ProbeOut, A!OnlyTransientOpens
  <2>5. QED
    BY <1>2, <2>1, <2>2, <2>3, <2>4
<1>14. CASE UNCHANGED A!vars
  <2>1. GateType' /\ A!GateInv'
    BY <1>1, <1>14 DEF A!vars, A!gateVars, A!GateInv
  <2>2. QED
    BY <1>2, <1>4, <1>5, <1>14, <2>1, Zenon DEF A!vars, A!gateVars
<1>15. ASSUME NEW t \in Tasks, A!AcquireStep(t, A!IssuedFor) PROVE A!IInv'
  <2>1. ASSUME NEW tok \in A!IssuedFor(acq[t].cred), A!BaseAnswers(t, "ok", tok) PROVE A!IInv'
    <3>1. acq[t].cred \in Creds
      BY <2>1 DEF A!BaseAnswers, A!GateInv
    <3>2. QED
      BY <1>3, <1>10, <2>1, <3>1
  <2>2. QED
    BY <1>3, <1>8, <1>9, <1>10, <1>11, <1>12, <1>15, <2>1, Zenon DEF A!AcquireStep
<1>16. QED
  BY <1>6, <1>7, <1>13, <1>14, <1>15, Zenon DEF A!Next

\* The gates' invariant holds in every reachable state.
THEOREM GateInvariance == A!Spec => []A!IInv
BY GateInitIInv, GateStep, PTL DEF A!Spec

\* On its own, too, the gated acquirer never leaks the probe reservation
\* (AllowRequest, RecordFailure, RecordSuccess).
THEOREM ProbeOutHolds == A!Spec => []A!ProbeOut
<1>1. A!IInv => A!ProbeOut
  BY Zenon DEF A!IInv
<1>2. QED
  BY GateInvariance, <1>1, PTL

\* Only transient failures open the breaker (RecordFailure).
THEOREM OnlyTransientOpensHolds == A!Spec => []A!OnlyTransientOpens
<1>1. A!IInv => A!OnlyTransientOpens
  BY Zenon DEF A!IInv
<1>2. QED
  BY GateInvariance, <1>1, PTL

\* The negative cache respects its bound, one element per key (Put, Get).
THEOREM NegativeBoundedHolds == A!Spec => []A!NegativeBounded
<1>1. A!IInv => A!NegativeBounded
  BY Zenon DEF A!IInv
<1>2. QED
  BY GateInvariance, <1>1, PTL
-----------------------------------------------------------------------------
(***************************************************************************)
(* The gates behind the cache: the same of the assembled broker, whose     *)
(* goroutines share one breaker and one negative cache.                    *)
(***************************************************************************)
\* Every step of the broker keeps the gates in order.
LEMMA GatesInvStep ==
    ASSUME IInv, BrokerInv, GatesInv, [BrokerNext]_brokerVars
    PROVE  GatesInv'
<1> DEFINE Known == \A t \in Tasks : gate[t] = "record" => answer[t].class \in A!Classes \cup {"ok"}
<1>1. A!BreakerType /\ A!NegativeType /\ A!NegativeBounded /\ A!OnlyTransientOpens /\ Known
  BY Zenon DEF GatesInv
<1>2. ASSUME A!BreakerType', A!NegativeType', A!NegativeBounded', A!OnlyTransientOpens', Known'
      PROVE  GatesInv'
  BY <1>2, Zenon DEF GatesInv
<1>3. ASSUME UNCHANGED A!breakerVars PROVE A!BreakerType' /\ (blamed' = blamed => A!OnlyTransientOpens')
  BY <1>1, <1>3, Zenon DEF A!breakerVars, A!BreakerType, A!OnlyTransientOpens
<1>4. ASSUME UNCHANGED A!negativeVars PROVE A!NegativeType' /\ A!NegativeBounded'
  BY <1>1, <1>4 DEF A!negativeVars, A!NegativeType, A!NegativeBounded
<1>5. CASE UNCHANGED gateVars
  <2>1. UNCHANGED <<A!breakerVars, A!negativeVars>> /\ blamed' = blamed /\ Known'
    BY <1>1, <1>5, Zenon DEF gateVars, A!breakerVars, A!negativeVars
  <2> QED
    BY <1>2, <1>3, <1>4, <2>1, Zenon
<1>6. CASE BrokerTick
  <2>1. A!BreakerTick /\ A!NegativeTick /\ UNCHANGED <<gate, answer, blamed>>
    BY <1>6, Zenon DEF BrokerTick, A!GateTick
  <2>2. A!BreakerType'
    BY <1>1, <2>1, BreakerStep DEF A!Classes
  <2>3. A!NegativeType' /\ A!NegativeBounded'
    BY <1>1, <2>1, BrokerAssumption DEF A!NegativeAssumption, A!NegativeTick, A!NegativeType, A!NegativeBounded
  <2>4. A!OnlyTransientOpens' /\ Known'
    BY <1>1, <2>1, Zenon DEF A!BreakerTick, A!OnlyTransientOpens
  <2> QED
    BY <1>2, <2>2, <2>3, <2>4, Zenon
<1>7. ASSUME NEW t \in Tasks, BrokerAcquire(t) PROVE GatesInv'
  <2>1. DOMAIN gate = Tasks /\ DOMAIN answer = Tasks
    BY DEF BrokerInv
  <2>2. acq[t].state = "called" => acq[t].cred \in Creds
    BY Zenon DEF IInv, CallsInv
  <2>3. gate[t] # "idle" => acq[t].state = "called"
    BY Zenon DEF BrokerInv
  <2>4. ASSUME \A u \in Tasks \ {t} : gate'[u] = gate[u] /\ answer'[u] = answer[u],
               gate'[t] = "record" => answer'[t].class \in A!Classes \cup {"ok"}
        PROVE  Known'
    BY <1>1, <2>4, Zenon
  <2>5. CASE A!ConsultNegative(t)
    <3>1. A!NegativeGet(acq[t].cred) /\ acq[t].cred \in Creds
      BY <2>2, <2>5, Zenon DEF A!ConsultNegative
    <3>2. A!NegativeType' /\ A!NegativeBounded'
      BY <1>1, <3>1, NegativeStep, Zenon
    <3>3. UNCHANGED A!breakerVars /\ blamed' = blamed /\ Known'
      BY <2>1, <2>4, <2>5, Zenon DEF A!ConsultNegative
    <3> QED
      BY <1>2, <1>3, <3>2, <3>3, Zenon
  <2>6. CASE A!ConsultBreaker(t)
    <3>1. UNCHANGED A!negativeVars /\ blamed' = blamed /\ Known'
      <4>1. \/ gate' = [gate EXCEPT ![t] = "base"]
            \/ gate' = [gate EXCEPT ![t] = "idle"]
        BY <2>6, Zenon DEF A!ConsultBreaker
      <4>2. UNCHANGED <<answer, blamed, A!negativeVars>>
        BY <2>6, Zenon DEF A!ConsultBreaker
      <4> QED
        BY <2>1, <2>4, <4>1, <4>2, Zenon
    <3>2. CASE A!AllowRequest
      <4>1. A!BreakerType'
        BY <1>1, <3>2, BreakerStep DEF A!Classes
      <4>2. A!OnlyTransientOpens'
        BY <1>1, <3>1, <3>2, Zenon DEF A!AllowRequest, A!OnlyTransientOpens
      <4> QED
        BY <1>2, <1>4, <3>1, <4>1, <4>2, Zenon
    <3>3. CASE UNCHANGED A!breakerVars
      BY <1>2, <1>3, <1>4, <3>1, <3>3, Zenon
    <3> QED
      BY <2>6, <3>2, <3>3, Zenon DEF A!ConsultBreaker
  <2>7. ASSUME NEW class \in A!Classes \cup {"ok"}, NEW tok, A!BaseAnswers(t, class, tok) PROVE GatesInv'
    <3>1. UNCHANGED <<blamed, A!breakerVars, A!negativeVars>>
      BY <2>7, Zenon DEF A!BaseAnswers
    <3>2. answer'[t].class = class /\ \A u \in Tasks \ {t} : gate'[u] = gate[u] /\ answer'[u] = answer[u]
      BY <2>1, <2>7 DEF A!BaseAnswers
    <3> QED
      BY <1>2, <1>3, <1>4, <2>4, <3>1, <3>2, Zenon
  <2>8. CASE A!RecordAnswer(t)
    <3> DEFINE class == answer[t].class
    <3>1. class \in A!Classes \cup {"ok"} /\ UNCHANGED A!negativeVars
      BY <1>1, <2>8, Zenon DEF A!RecordAnswer
    <3>2. Known'
      <4>1. \/ gate' = [gate EXCEPT ![t] = "put"] /\ UNCHANGED answer
            \/ gate' = [gate EXCEPT ![t] = "idle"] /\ answer' = [answer EXCEPT ![t] = A!NoAnswer]
        BY <2>8, Zenon DEF A!RecordAnswer
      <4> QED
        BY <2>1, <2>4, <4>1, Zenon
    <3>3. CASE A!RecordSuccess
      <4>1. A!BreakerType'
        BY <1>1, <3>3, BreakerStep DEF A!Classes
      <4>2. A!OnlyTransientOpens'
        BY <3>3, Zenon DEF A!RecordSuccess, A!OnlyTransientOpens
      <4> QED
        BY <1>2, <1>4, <3>1, <3>2, <4>1, <4>2, Zenon
    <3>4. CASE /\ class # "ok" /\ A!RecordFailure(class)
               /\ blamed' = IF class = "transient" THEN blamed \cup {acq[t].cred} ELSE blamed
      <4>1. class \in A!Classes
        BY <3>1, <3>4, Zenon
      <4>2. A!BreakerType'
        BY <1>1, <3>4, <4>1, BreakerStep, Zenon
      <4>3. A!OnlyTransientOpens'
        BY <1>1, <3>4, Zenon DEF A!RecordFailure, A!OnlyTransientOpens
      <4> QED
        BY <1>2, <1>4, <3>1, <3>2, <4>2, <4>3, Zenon
    <3> QED
      BY <2>8, <3>3, <3>4, Zenon DEF A!RecordAnswer
  <2>9. CASE A!RecordNegative(t)
    <3>1. A!NegativePut(acq[t].cred) /\ acq[t].cred \in Creds
      BY <2>2, <2>3, <2>9, Zenon DEF A!RecordNegative
    <3>2. A!NegativeType' /\ A!NegativeBounded'
      BY <1>1, <3>1, NegativeStep, Zenon
    <3>3. UNCHANGED <<blamed, A!breakerVars>> /\ Known'
      BY <2>1, <2>4, <2>9, Zenon DEF A!RecordNegative
    <3> QED
      BY <1>2, <1>3, <3>2, <3>3, Zenon
  <2> QED
    BY <1>7, <2>5, <2>6, <2>7, <2>8, <2>9, Zenon DEF BrokerAcquire, A!AcquireStep
<1> QED
  BY <1>5, <1>6, <1>7, Zenon DEF BrokerNext, brokerVars

\* In the assembled broker, too, only transient failures of the provider open
\* the breaker (RecordFailure), and the negative cache keeps its bound with one
\* element per credential (NegativeCache.Put).
THEOREM BrokerGatesHold == BrokerSpec => [](A!OnlyTransientOpens /\ A!NegativeBounded)
<1>1. BrokerInit => GatesInv
  <2> SUFFICES ASSUME BrokerInit PROVE GatesInv
    OBVIOUS
  <2> USE BrokerAssumption DEF A!BreakerAssumption, A!NegativeAssumption, BrokerInit, A!GateInit, A!BreakerInit, A!NegativeInit
  <2>1. negOrder \in Seq(Creds) /\ Len(negOrder) = 0 /\ DOMAIN negOrder = {}
    OBVIOUS
  <2>2. failures \in 0 .. Threshold /\ sinceFailure \in 0 .. ProbeInterval
    BY SMT
  <2>3. A!BreakerType
    BY <2>2, Zenon DEF A!BreakerType
  <2>4. A!NegativeType
    BY <2>1 DEF A!NegativeType
  <2>5. A!NegativeBounded
    BY <2>1 DEF A!NegativeBounded, A!Distinct
  <2>6. A!OnlyTransientOpens /\ \A t \in Tasks : gate[t] # "record"
    BY DEF A!OnlyTransientOpens
  <2> QED
    BY <2>3, <2>4, <2>5, <2>6, Zenon DEF GatesInv
<1>2. IInv /\ BrokerInv /\ GatesInv /\ [BrokerNext]_brokerVars => GatesInv'
  BY GatesInvStep, Zenon
<1>3. GatesInv => A!OnlyTransientOpens /\ A!NegativeBounded
  BY Zenon DEF GatesInv
<1> QED
  BY <1>1, <1>2, <1>3, BrokerInvariance, PTL DEF BrokerSpec
============================================================================
