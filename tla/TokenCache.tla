----------------------------- MODULE TokenCache -----------------------------
(***************************************************************************)
(* CachingTokenCache (internal/token/cache.go): the token cache in front   *)
(* of the credential provider, with single-flight on misses and            *)
(* refresh-ahead on hits.                                                  *)
(*                                                                         *)
(* A request is a goroutine inside Get; it moves through one critical      *)
(* section of the cache per step, so every interleaving of critical        *)
(* sections is a behaviour.  A refresher is a goroutine running            *)
(* backgroundRefresh.  Both call the provider through acq: the call is     *)
(* "called" until the provider puts a result there.  The provider of this  *)
(* module may return any token or fail, at any moment; TokenBroker replaces*)
(* it by the gated acquirer.                                               *)
(*                                                                         *)
(* Token expiry is kept as usableUntil = ExpiresAt - tokenSkewMargin, the  *)
(* only form of it the code ever compares.                                 *)
(***************************************************************************)
EXTENDS LRU, FiniteSets

CONSTANTS
    Requests,    \* goroutines that call Get
    Refreshers,  \* slots for live backgroundRefresh goroutines
    Creds,       \* resolved credential identities
    MaxEntries,  \* CacheOptions.MaxEntries, after NewTokenCache's floor of 1
    MinWindow,   \* the 5 minute floor of computeRefreshWindow, in clock units
    MaxTime,     \* bound on the clock
    MaxLife,     \* bound on the usable lifetime of a new token
    None         \* no credential, entry, call or token

Tasks == Requests \cup Refreshers

Token == [cred : Creds, until : Nat]

Entry == [tok : Token, refreshAt : Nat]

\* How a Get can end: a token, an error of the acquisition, its own ctx.Err().
Failed == [failed |-> "acquire"]
Cancelled == [failed |-> "ctx"]
Outcome == Token \cup {Failed, Cancelled}

ASSUME CacheAssumption ==
    /\ MaxEntries \in Nat \ {0}
    /\ MinWindow \in Nat
    /\ MaxTime \in Nat
    /\ MaxLife \in Nat
    /\ Requests \cap Refreshers = {}
    /\ None \notin Requests \cup Creds \cup Entry \cup Outcome

VARIABLES
    now,         \* the wall clock
    entries,     \* [Creds -> Entry or None]: the map
    order,       \* the list the map points into, most recent first
    inflight,    \* [Creds -> the leading request or None]
    refreshing,  \* credentials with a refresh reserved
    pc,          \* where each request is in Get
    want,        \* the credential each request asked for
    readAt,      \* the clock value Get read
    joined,      \* the leader whose call a waiter selected on
    out,         \* the result of each request
    wpc,         \* where each refresher is in backgroundRefresh
    wcred,       \* the credential each refresher works for
    acq,         \* the provider call of each task
    needless     \* history: requests that led an acquisition although a usable
                 \* token was cached when they reserved it

reqVars == <<pc, want, readAt, joined, out, needless>>
cacheVars == <<entries, order>>
workerVars == <<wpc, wcred>>
vars == <<now, entries, order, inflight, refreshing, pc, want, readAt, joined,
          out, wpc, wcred, acq, needless>>

NoCall == [state |-> "idle", cred |-> None, tok |-> None]

TypeOK ==
    /\ now \in 0 .. MaxTime
    /\ entries \in [Creds -> Entry \cup {None}]
    /\ order \in Seq(Creds)
    /\ inflight \in [Creds -> Requests \cup {None}]
    /\ refreshing \subseteq Creds
    /\ pc \in [Requests -> {"idle", "lookup", "hit", "miss", "acquire",
                            "release", "close", "wait", "woken", "done"}]
    /\ want \in [Requests -> Creds \cup {None}]
    /\ readAt \in [Requests -> 0 .. MaxTime]
    /\ joined \in [Requests -> Requests \cup {None}]
    /\ out \in [Requests -> Outcome \cup {None}]
    /\ wpc \in [Refreshers -> {"idle", "acquire", "release"}]
    /\ wcred \in [Refreshers -> Creds \cup {None}]
    /\ acq \in [Tasks -> [state : {"idle", "called", "returned"},
                          cred : Creds \cup {None},
                          tok : Token \cup {Failed, None}]]
    /\ needless \subseteq Requests

Init ==
    /\ now = 0
    /\ entries = [c \in Creds |-> None]
    /\ order = <<>>
    /\ inflight = [c \in Creds |-> None]
    /\ refreshing = {}
    /\ pc = [r \in Requests |-> "idle"]
    /\ want = [r \in Requests |-> None]
    /\ readAt = [r \in Requests |-> 0]
    /\ joined = [r \in Requests |-> None]
    /\ out = [r \in Requests |-> None]
    /\ wpc = [k \in Refreshers |-> "idle"]
    /\ wcred = [k \in Refreshers |-> None]
    /\ acq = [t \in Tasks |-> NoCall]
    /\ needless = {}
-----------------------------------------------------------------------------
\* Mutant of Usable: serves a token in the instant it stops being usable.
UsableInclusive(tok, t) == t <= tok.until

\* now.Before(usableUntil), for the clock value t.
Usable(tok, t) == t < tok.until

\* Mutant of ComputeRefreshWindow: the cap at half of the lifetime is missing.
ComputeRefreshWindowUncapped(life) ==
    IF life \div 5 < MinWindow THEN MinWindow ELSE life \div 5

\* min(max(20% of the lifetime, the floor), half of the lifetime).
ComputeRefreshWindow(life) ==
    LET fifth == life \div 5
        window == IF fifth < MinWindow THEN MinWindow ELSE fifth
    IN  IF window > life \div 2 THEN life \div 2 ELSE window

\* store: install the entry and evict from the back of the list.
Store(c, tok) ==
    LET entry == [tok |-> tok,
                  refreshAt |-> tok.until - ComputeRefreshWindow(tok.until - now)]
    IN  /\ order' = Install(order, c, MaxEntries)
        /\ entries' = [k \in Creds |-> IF k = c THEN entry
                                       ELSE IF k \in Keys(order') THEN entries[k]
                                       ELSE None]

\* Get: resolve the selector and read the clock.  A selector that does not
\* resolve returns its error at once and changes nothing.
Get(r, c) ==
    /\ pc[r] = "idle"
    /\ pc' = [pc EXCEPT ![r] = "lookup"]
    /\ want' = [want EXCEPT ![r] = c]
    /\ readAt' = [readAt EXCEPT ![r] = now]
    /\ UNCHANGED <<now, cacheVars, inflight, refreshing, joined, out, workerVars,
                   acq, needless>>

\* getCached finds a usable entry.
GetCachedHit(r) ==
    LET c == want[r] IN
    /\ pc[r] = "lookup"
    /\ entries[c] # None
    /\ Usable(entries[c].tok, readAt[r])
    /\ order' = MoveToFront(order, c)
    /\ out' = [out EXCEPT ![r] = entries[c].tok]
    /\ pc' = [pc EXCEPT ![r] = "hit"]
    /\ UNCHANGED <<now, entries, inflight, refreshing, want, readAt, joined,
                   workerVars, acq, needless>>

\* getCached finds nothing, or an unusable entry, which it removes.
GetCachedMiss(r) ==
    LET c == want[r] IN
    /\ pc[r] = "lookup"
    /\ \/ entries[c] = None /\ UNCHANGED cacheVars
       \/ /\ entries[c] # None
          /\ ~Usable(entries[c].tok, readAt[r])
          /\ order' = Drop(order, c)
          /\ entries' = [entries EXCEPT ![c] = None]
    /\ pc' = [pc EXCEPT ![r] = "miss"]
    /\ UNCHANGED <<now, inflight, refreshing, want, readAt, joined, out,
                   workerVars, acq, needless>>

\* Mutant of ShouldRefresh: ignores that a refresh is already reserved.
ShouldRefreshAgain(r) ==
    entries[want[r]] # None /\ readAt[r] >= entries[want[r]].refreshAt

\* The condition under which maybeRefresh reserves a refresh.
ShouldRefresh(r) ==
    LET c == want[r] IN
    /\ entries[c] # None
    /\ c \notin refreshing
    /\ readAt[r] >= entries[c].refreshAt

\* maybeRefresh: reserve and start a background refresh if one is due, and
\* return the token already read.
MaybeRefresh(r) ==
    LET c == want[r] IN
    /\ pc[r] = "hit"
    /\ pc' = [pc EXCEPT ![r] = "done"]
    /\ \/ /\ ShouldRefresh(r)
          /\ refreshing' = refreshing \cup {c}
          /\ \E k \in Refreshers :
                /\ wpc[k] = "idle"
                /\ wpc' = [wpc EXCEPT ![k] = "acquire"]
                /\ wcred' = [wcred EXCEPT ![k] = c]
                /\ acq' = [acq EXCEPT ![k] = [state |-> "called", cred |-> c, tok |-> None]]
       \/ ~ShouldRefresh(r) /\ UNCHANGED <<refreshing, workerVars, acq>>
    /\ UNCHANGED <<now, cacheVars, inflight, want, readAt, joined, out, needless>>

\* Mutant of CallInFlight: one call for the whole cache instead of one per key.
CallInFlightAnyKey(c) ==
    IF \E d \in Creds : inflight[d] # None
    THEN inflight[CHOOSE d \in Creds : inflight[d] # None] ELSE None

\* The call startAcquire finds for credential c, or None.
CallInFlight(c) == inflight[c]

\* startAcquire: join the call in flight, or reserve one and lead it.  The
\* cache is not looked at again.
StartAcquire(r) ==
    LET c == want[r]
        call == CallInFlight(c)
    IN
    /\ pc[r] = "miss"
    /\ \/ /\ call # None
          /\ joined' = [joined EXCEPT ![r] = call]
          /\ pc' = [pc EXCEPT ![r] = "wait"]
          /\ UNCHANGED <<inflight, acq, needless>>
       \/ /\ call = None
          /\ inflight' = [inflight EXCEPT ![c] = r]
          /\ acq' = [acq EXCEPT ![r] = [state |-> "called", cred |-> c, tok |-> None]]
          /\ pc' = [pc EXCEPT ![r] = "acquire"]
          /\ needless' = IF entries[c] # None /\ Usable(entries[c].tok, now)
                         THEN needless \cup {r} ELSE needless
          /\ UNCHANGED joined
    /\ UNCHANGED <<now, cacheVars, refreshing, want, readAt, out, workerVars>>

\* finishAcquire once the provider returned: a usable token is stored, any
\* other answer is an error.  The clock it reads between the two is the clock
\* of the step.
FinishAcquire(r) ==
    LET c == want[r]
        tok == acq[r].tok
        ok == tok # Failed /\ Usable(tok, now)
    IN
    /\ pc[r] = "acquire"
    /\ acq[r].state = "returned"
    /\ acq' = [acq EXCEPT ![r] = NoCall]
    /\ out' = [out EXCEPT ![r] = IF ok THEN tok ELSE Failed]
    /\ IF ok THEN Store(c, tok) ELSE UNCHANGED cacheVars
    /\ pc' = [pc EXCEPT ![r] = "release"]
    /\ UNCHANGED <<now, inflight, refreshing, want, readAt, joined, workerVars, needless>>

\* Mutant of ReleaseCall: the finished call stays in inflight.
ReleaseCallKept(r) ==
    /\ pc[r] = "release"
    /\ pc' = [pc EXCEPT ![r] = "close"]
    /\ UNCHANGED <<now, cacheVars, inflight, refreshing, want, readAt, joined, out,
                   workerVars, acq, needless>>

\* finishAcquire deletes the call from inflight ...
ReleaseCall(r) ==
    /\ pc[r] = "release"
    /\ inflight' = [inflight EXCEPT ![want[r]] = None]
    /\ pc' = [pc EXCEPT ![r] = "close"]
    /\ UNCHANGED <<now, cacheVars, refreshing, want, readAt, joined, out, workerVars,
                   acq, needless>>

\* Mutant of Waiters: an acquisition that failed never closes done.
WaitersOnSuccess(r) ==
    {w \in Requests : pc[w] = "wait" /\ joined[w] = r /\ out[r] # Failed}

\* The requests blocked on the call r leads.
Waiters(r) == {w \in Requests : pc[w] = "wait" /\ joined[w] = r}

\* ... and closes done: every waiter sees the result the leader published.
CloseDone(r) ==
    /\ pc[r] = "close"
    /\ pc' = [w \in Requests |-> IF w = r THEN "done"
                                ELSE IF w \in Waiters(r) THEN "woken" ELSE pc[w]]
    /\ out' = [w \in Requests |-> IF w \in Waiters(r) THEN out[r] ELSE out[w]]
    /\ UNCHANGED <<now, cacheVars, inflight, refreshing, want, readAt, joined,
                   workerVars, acq, needless>>

\* A waiter's select takes the closed call ...
WaiterReturns(r) ==
    /\ pc[r] = "woken"
    /\ pc' = [pc EXCEPT ![r] = "done"]
    /\ UNCHANGED <<now, cacheVars, inflight, refreshing, want, readAt, joined, out,
                   workerVars, acq, needless>>

\* ... or its own cancelled context, also when both are ready.
WaiterCancelled(r) ==
    /\ pc[r] \in {"wait", "woken"}
    /\ pc' = [pc EXCEPT ![r] = "done"]
    /\ out' = [out EXCEPT ![r] = Cancelled]
    /\ UNCHANGED <<now, cacheVars, inflight, refreshing, want, readAt, joined,
                   workerVars, acq, needless>>

\* The caller takes the result; the goroutine may call Get again.
Return(r) ==
    /\ pc[r] = "done"
    /\ pc' = [pc EXCEPT ![r] = "idle"]
    /\ want' = [want EXCEPT ![r] = None]
    /\ readAt' = [readAt EXCEPT ![r] = 0]
    /\ joined' = [joined EXCEPT ![r] = None]
    /\ out' = [out EXCEPT ![r] = None]
    /\ needless' = needless \ {r}
    /\ UNCHANGED <<now, cacheVars, inflight, refreshing, workerVars, acq>>

\* Mutant of FinishRefresh: a refresh that failed drops the entry it was
\* meant to renew.
FinishRefreshEvicting(k) ==
    LET c == wcred[k]
        tok == acq[k].tok
    IN
    /\ wpc[k] = "acquire"
    /\ acq[k].state = "returned"
    /\ acq' = [acq EXCEPT ![k] = NoCall]
    /\ IF tok # Failed /\ Usable(tok, now) THEN Store(c, tok)
       ELSE /\ c \in Keys(order)
            /\ order' = Drop(order, c)
            /\ entries' = [entries EXCEPT ![c] = None]
    /\ wpc' = [wpc EXCEPT ![k] = "release"]
    /\ UNCHANGED <<now, inflight, refreshing, reqVars, wcred>>

\* backgroundRefresh once the provider returned: only a usable token replaces
\* the entry.
FinishRefresh(k) ==
    LET c == wcred[k]
        tok == acq[k].tok
    IN
    /\ wpc[k] = "acquire"
    /\ acq[k].state = "returned"
    /\ acq' = [acq EXCEPT ![k] = NoCall]
    /\ IF tok # Failed /\ Usable(tok, now) THEN Store(c, tok) ELSE UNCHANGED cacheVars
    /\ wpc' = [wpc EXCEPT ![k] = "release"]
    /\ UNCHANGED <<now, inflight, refreshing, reqVars, wcred>>

\* Mutant of ReleaseRefresh: the deferred delete is missing.
ReleaseRefreshLeaking(k) ==
    /\ wpc[k] = "release"
    /\ wpc' = [wpc EXCEPT ![k] = "idle"]
    /\ wcred' = [wcred EXCEPT ![k] = None]
    /\ UNCHANGED <<now, cacheVars, inflight, refreshing, reqVars, acq>>

\* The deferred delete from refreshing ends the goroutine.
ReleaseRefresh(k) ==
    /\ wpc[k] = "release"
    /\ refreshing' = refreshing \ {wcred[k]}
    /\ wpc' = [wpc EXCEPT ![k] = "idle"]
    /\ wcred' = [wcred EXCEPT ![k] = None]
    /\ UNCHANGED <<now, cacheVars, inflight, reqVars, acq>>

Tick ==
    /\ now < MaxTime
    /\ now' = now + 1
    /\ UNCHANGED <<cacheVars, inflight, refreshing, reqVars, workerVars, acq>>

\* The tokens that can be issued for c: any usable lifetime up to MaxLife, or
\* none left (it expires within the skew margin).
Issues(c) == {[cred |-> c, until |-> u] : u \in 0 .. now + MaxLife}

\* The provider answers a call: a token, or an error, a cancelled ctx included.
Provide(t) ==
    /\ acq[t].state = "called"
    /\ \E tok \in Issues(acq[t].cred) \cup {Failed} :
          acq' = [acq EXCEPT ![t] = [state |-> "returned", cred |-> acq[t].cred, tok |-> tok]]
    /\ UNCHANGED <<now, cacheVars, inflight, refreshing, reqVars, workerVars>>

\* The steps a request takes by itself once it entered Get.
RequestStep(r) ==
    \/ GetCachedHit(r)
    \/ GetCachedMiss(r)
    \/ MaybeRefresh(r)
    \/ StartAcquire(r)
    \/ FinishAcquire(r)
    \/ ReleaseCall(r)
    \/ CloseDone(r)
    \/ WaiterReturns(r)

RefresherStep(k) ==
    \/ FinishRefresh(k)
    \/ ReleaseRefresh(k)

\* Everything but the provider and the clock.
CacheStep ==
    \/ \E r \in Requests, c \in Creds : Get(r, c)
    \/ \E r \in Requests : RequestStep(r) \/ WaiterCancelled(r) \/ Return(r)
    \/ \E k \in Refreshers : RefresherStep(k)

Next == CacheStep \/ Tick \/ \E t \in Tasks : Provide(t)

Spec == Init /\ [][Next]_vars

\* Goroutines are scheduled and the provider answers or times out; nobody has
\* to call Get, to cancel, or to let time pass.
Fairness ==
    /\ \A r \in Requests : WF_vars(RequestStep(r))
    /\ \A k \in Refreshers : WF_vars(RefresherStep(k))
    /\ \A t \in Tasks : WF_vars(Provide(t))

FairSpec == Spec /\ Fairness
-----------------------------------------------------------------------------
\* Concurrent misses for one credential collapse into one blocking
\* acquisition, and concurrent hits inside the refresh window into one
\* background refresh: the provider never has two leaders or two refreshers
\* of one credential at work (startAcquire, maybeRefresh).
SingleFlight ==
    /\ \A r, s \in Requests :
          pc[r] = "acquire" /\ pc[s] = "acquire" /\ want[r] = want[s] => r = s
    /\ \A k, l \in Refreshers :
          wpc[k] # "idle" /\ wpc[l] # "idle" /\ wcred[k] = wcred[l] => k = l

\* A waiter never blocks on a call nobody will close: the request it joined is
\* still leading the acquisition of the waiter's own credential.
NoOrphanedWaiter ==
    \A w \in Requests : pc[w] = "wait" =>
        /\ pc[joined[w]] \in {"acquire", "release", "close"}
        /\ want[joined[w]] = want[w]

\* One validated identity per request (INV-8): whatever way a token reached a
\* request, from the cache, its own acquisition or somebody else's, it was
\* issued for the credential the request asked for.
TokenIsolation ==
    \A r \in Requests : out[r] \in Token => out[r].cred = want[r]

\* A token Get takes from the cache, or from the acquisition it led itself, was
\* usable when Get read the clock, the 60 second skew margin included.
OwnTokenUsable ==
    \A r \in Requests :
        out[r] \in Token /\ joined[r] = None => readAt[r] < out[r].until

\* The same for every path, a joined call included, as getCached's comment has
\* it ("ensures no later path can accidentally serve the raw expiry window").
\* It does not hold: a Get can find the entry expired, remove it, and then
\* join the call that stored it, which is published but not yet deleted from
\* inflight, and so be served the token it has just rejected.
ServedUsable ==
    \A r \in Requests : out[r] \in Token => readAt[r] < out[r].until

\* The map and the list describe the same entries, one element per key, and
\* never more than MaxEntries of them (removeElement, store).
CacheInSync ==
    /\ Distinct(order)
    /\ Len(order) <= MaxEntries
    /\ \A c \in Creds : entries[c] # None <=> c \in Keys(order)

\* A cached entry goes away only when it is unusable, or when it is the least
\* recently used one of a full cache and a new entry takes its place; in
\* particular a failed refresh leaves the token it was meant to renew
\* (backgroundRefresh).
EntryLoss ==
    [][\A c \in Creds : entries[c] # None /\ entries'[c] = None =>
           \/ ~(now < entries[c].tok.until)
           \/ /\ Len(order) = MaxEntries /\ order[Len(order)] = c
              /\ \E d \in Creds : entries[d] = None /\ entries'[d] # None]_vars

\* A goroutine inside Get or backgroundRefresh works for a credential, its
\* provider call is for that credential, and what a call returned was issued
\* for it.
CallsInv ==
    /\ \A r \in Requests : pc[r] # "idle" => want[r] \in Creds
    /\ \A k \in Refreshers : wpc[k] # "idle" => wcred[k] \in Creds
    /\ \A r \in Requests : pc[r] = "acquire" =>
          acq[r].state # "idle" /\ acq[r].cred = want[r]
    /\ \A k \in Refreshers : wpc[k] = "acquire" =>
          acq[k].state # "idle" /\ acq[k].cred = wcred[k]
    /\ \A t \in Tasks : acq[t].state # "idle" => acq[t].cred \in Creds
    /\ \A t \in Tasks : acq[t].state = "returned" =>
          acq[t].tok = Failed \/ (acq[t].tok \in Token /\ acq[t].tok.cred = acq[t].cred)

\* inflight names exactly the requests leading a call, each under its own
\* credential; refreshing covers every live refresher, one per credential;
\* only waiters have joined a call.
FlightInv ==
    /\ \A c \in Creds : inflight[c] # None =>
          pc[inflight[c]] \in {"acquire", "release"} /\ want[inflight[c]] = c
    /\ \A r \in Requests : pc[r] \in {"acquire", "release"} => inflight[want[r]] = r
    /\ \A w \in Requests : pc[w] = "wait" => joined[w] \in Requests
    /\ NoOrphanedWaiter
    /\ \A k \in Refreshers : wpc[k] # "idle" => wcred[k] \in refreshing
    /\ SingleFlight

\* Tokens stay with their credential in the cache and on their way out, and
\* no request read a later clock than the present one.
IsolationInv ==
    /\ \A c \in Creds : entries[c] # None => entries[c].tok.cred = c
    /\ \A r \in Requests : pc[r] \in {"release", "close"} => out[r] \in Token \cup {Failed}
    /\ \A r \in Requests : pc[r] \in {"idle", "lookup", "miss", "acquire"} => out[r] = None
    /\ \A r \in Requests : readAt[r] <= now
    /\ \A r \in Requests : pc[r] \in {"wait", "woken"} => joined[r] # None
    /\ \A r \in Requests : pc[r] = "idle" => joined[r] = None
    /\ TokenIsolation
    /\ OwnTokenUsable

\* The inductive invariant of the cache.
IInv == TypeOK /\ CacheInSync /\ CallsInv /\ FlightInv /\ IsolationInv

\* Every Get returns: leader, waiter or hit, whatever the provider answers.
EveryGetReturns ==
    \A r \in Requests : pc[r] # "idle" ~> pc[r] = "done"

\* A refresh reservation is always given back, so a credential never loses
\* refresh-ahead for good.
RefreshReleased ==
    \A c \in Creds : c \in refreshing ~> c \notin refreshing

\* The gates in front of the provider are applied to requests without a usable
\* token only (docs/design/S3-token-broker.md, section 4: "they must never
\* gate a token we already have"): a Get that was denied had no usable token
\* in the cache when it reserved the acquisition.
ValidTokenWins ==
    \A r \in Requests : pc[r] = "done" /\ out[r] = Failed => r \notin needless
=============================================================================
