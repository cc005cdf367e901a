---------------------------- MODULE PolicyWatch ----------------------------
(***************************************************************************)
(* watch.Watcher (internal/policy/watch) keeps the store current: the      *)
(* goroutine of Run lists, watches and reconnects, that of resyncLoop      *)
(* lists on a ticker.  Both publish through relistAndSwap.                 *)
(*                                                                         *)
(* The API server is the revision of the policy set, the revisions that    *)
(* fail to compile, and whether it can be reached; List reads the current  *)
(* revision.  A snapshot is the revision it was compiled from.  Time moves *)
(* by WatchTick.  Once the context is done the environment stands still:   *)
(* only the goroutines that have to end are of interest.                   *)
(***************************************************************************)
EXTENDS PolicyStore

CONSTANTS
    ResyncPeriods,  \* the values of Options.ResyncPeriod to consider
    MaxEdits,       \* bounds how often the policies change
    MaxOutages,     \* bounds how often the API server goes away
    MaxList         \* bounds how long the answer to a List is on its way

Goroutines == {"run", "resync"}

ASSUME WatchAssumption ==
    /\ MaxStaleness >= 3
    /\ MaxEdits \in Nat /\ MaxOutages \in Nat /\ MaxList \in Nat
    /\ ResyncPeriods \subseteq Nat
    /\ Versions = 0 .. MaxEdits /\ None \notin Versions /\ None \notin Goroutines

VARIABLES
    rev, broken, up, outages,  \* the API server
    wpc,      \* where the two goroutines are
    got,      \* the revision the List of each returned
    lock,     \* relistMu
    stream,   \* the last revision the watch delivered, None without a watch
    cancelled, \* runCtx is done
    period,   \* Options.ResyncPeriod
    since, due,  \* the ticker of resyncLoop and its channel
    old,      \* history: how long each revision has been out of date
    flight,   \* history: how long ago the List of each goroutine was read
    slow,     \* history: how long the List of the published snapshot took
    fails,    \* resyncs that failed since the last publication
    ontime    \* no resync since then was delayed

apiVars   == <<rev, broken, up, outages>>
clockVars == <<since, due>>
delayVars == <<old, flight, slow>>
ghostVars == <<delayVars, fails, ontime>>
watchVars == <<storeVars, apiVars, wpc, got, lock, stream, cancelled, period,
          clockVars, ghostVars>>

WatchInit ==
    /\ StoreInit
    /\ rev = 0 /\ broken \in SUBSET {0} /\ up = TRUE /\ outages = 0
    /\ wpc = [g \in Goroutines |-> IF g = "run" THEN "want" ELSE "unborn"]
    /\ got = [g \in Goroutines |-> None]
    /\ lock = None /\ stream = None /\ cancelled = FALSE
    /\ period \in ResyncPeriods
    /\ since = 0 /\ due = FALSE
    /\ old = [v \in Versions |-> 0]
    /\ flight = [g \in Goroutines |-> 0] /\ slow = 0
    /\ fails = 0 /\ ontime = TRUE

\* No revision is seen to be out of date for longer than this.
OldCap == MaxStaleness + MaxList

OneMore == IF fails = 2 THEN 2 ELSE fails + 1
WatchGoto(g, l) == wpc' = [wpc EXCEPT ![g] = l]
-----------------------------------------------------------------------------
(***************************************************************************)
(* The API server.                                                         *)
(***************************************************************************)
Edit ==
    /\ rev < MaxEdits /\ ~cancelled
    /\ rev' = rev + 1
    /\ broken' \in {broken, broken \cup {rev'}}
    /\ UNCHANGED <<storeVars, up, outages, wpc, got, lock, stream, cancelled,
                   period, clockVars, ghostVars>>

Outage ==
    /\ up /\ outages < MaxOutages /\ ~cancelled
    /\ up' = FALSE /\ outages' = outages + 1
    /\ UNCHANGED <<storeVars, rev, broken, wpc, got, lock, stream, cancelled,
                   period, clockVars, ghostVars>>

Recovers ==
    /\ ~up
    /\ up' = TRUE
    /\ UNCHANGED <<storeVars, rev, broken, outages, wpc, got, lock, stream,
                   cancelled, period, clockVars, ghostVars>>
-----------------------------------------------------------------------------
(***************************************************************************)
(* relistAndSwap, by either goroutine.                                     *)
(***************************************************************************)
\* Mutant of RelistReads: relistMu is not taken.
RelistReadsUnlocked(g) ==
    /\ wpc[g] = "want" /\ up /\ ~cancelled
    /\ got' = [got EXCEPT ![g] = rev]
    /\ WatchGoto(g, "listed")
    /\ UNCHANGED <<storeVars, apiVars, lock, stream, cancelled, period,
                   clockVars, ghostVars>>

\* relistMu is taken and the API server answers the List.
RelistReads(g) ==
    /\ wpc[g] = "want" /\ up /\ ~cancelled
    /\ lock = None
    /\ lock' = g
    /\ got' = [got EXCEPT ![g] = rev]
    /\ WatchGoto(g, "listed")
    /\ UNCHANGED <<storeVars, apiVars, stream, cancelled, period,
                   clockVars, ghostVars>>

\* relistAndSwap returns: the list goes out of scope, but Run keeps its revision.
Forget(g) ==
    /\ got' = IF g = "resync" THEN [got EXCEPT ![g] = None] ELSE got
    /\ flight' = [flight EXCEPT ![g] = 0]

\* After an error the run goroutine stops its watch, if it has one, and
\* lists again; the resync goroutine waits for the next tick.
AfterError(g) ==
    IF g = "run"
    THEN WatchGoto(g, "want") /\ stream' = None /\ UNCHANGED fails
    ELSE WatchGoto(g, "idle") /\ fails' = OneMore /\ UNCHANGED stream

\* Mutant of RelistFails: a failed resync ends resyncLoop.
RelistFailsForGood(g) ==
    /\ wpc[g] \in {"want", "listed"} /\ (~up \/ cancelled)
    /\ lock \in {None, g}
    /\ lock' = None
    /\ IF g = "run" THEN AfterError(g) ELSE WatchGoto(g, "ended") /\ UNCHANGED <<stream, fails>>
    /\ Forget(g)
    /\ UNCHANGED <<storeVars, apiVars, cancelled, period, clockVars,
                   old, slow, ontime>>

\* The List fails, before or after the API server read the policies.
RelistFails(g) ==
    /\ wpc[g] \in {"want", "listed"} /\ (~up \/ cancelled)
    /\ lock \in {None, g}
    /\ lock' = None
    /\ AfterError(g)
    /\ Forget(g)
    /\ UNCHANGED <<storeVars, apiVars, cancelled, period, clockVars,
                   old, slow, ontime>>

\* After a relist the run goroutine goes on consuming or opens a watch.  Its
\* first one starts resyncLoop.
AfterRelist(g) ==
    LET next == IF g = "resync" THEN "idle" ELSE IF stream = None THEN "connect" ELSE "open"
        born == wpc["resync"] = "unborn"
    IN  /\ wpc' = [h \in Goroutines |-> IF h = g THEN next ELSE IF born THEN "idle" ELSE wpc[h]]
        /\ IF born THEN since' = 0 /\ due' = FALSE ELSE UNCHANGED clockVars

\* Mutant of CompileAndSwap: a failed compilation renews the last snapshot.
CompileAndSwapRenewing(g) ==
    /\ IF got[g] \in broken
       THEN age' = 0 /\ UNCHANGED <<snap, slow, ontime>>
       ELSE Swap(got[g]) /\ slow' = flight[g] /\ ontime' = TRUE
    /\ fails' = IF got[g] \notin broken THEN 0
                ELSE IF g = "resync" THEN OneMore ELSE fails

\* A set that does not compile leaves the last good snapshot to its age.  One
\* that does is published with the time of its publication.
CompileAndSwap(g) ==
    /\ IF got[g] \in broken
       THEN UNCHANGED <<storeVars, slow, ontime>>
       ELSE Swap(got[g]) /\ slow' = flight[g] /\ ontime' = TRUE
    /\ fails' = IF got[g] \notin broken THEN 0
                ELSE IF g = "resync" THEN OneMore ELSE fails

RelistSwaps(g) ==
    /\ wpc[g] = "listed"
    /\ CompileAndSwap(g)
    /\ lock' = IF lock = g THEN None ELSE lock
    /\ AfterRelist(g)
    /\ Forget(g)
    /\ UNCHANGED <<apiVars, stream, cancelled, period, old>>
-----------------------------------------------------------------------------
(***************************************************************************)
(* watchLoop and consume.                                                  *)
(***************************************************************************)
\* The watch starts at the revision of the last relist of this goroutine.
WatchConnects ==
    /\ wpc["run"] = "connect" /\ up /\ ~cancelled
    /\ stream' = got["run"]
    /\ WatchGoto("run", "open")
    /\ UNCHANGED <<storeVars, apiVars, got, lock, cancelled, period,
                   clockVars, ghostVars>>

WatchFails ==
    /\ wpc["run"] = "connect" /\ (~up \/ cancelled)
    /\ WatchGoto("run", "want")
    /\ UNCHANGED <<storeVars, apiVars, got, lock, stream, cancelled, period,
                   clockVars, ghostVars>>

\* Every event makes the goroutine list everything again.
WatchEvent ==
    /\ wpc["run"] = "open" /\ up
    /\ stream < rev
    /\ stream' = stream + 1
    /\ WatchGoto("run", "want")
    /\ UNCHANGED <<storeVars, apiVars, got, lock, cancelled, period,
                   clockVars, ghostVars>>

\* The channel is closed, or carries an error such as 410 Gone.
WatchBreaks ==
    /\ wpc["run"] = "open"
    /\ stream' = None
    /\ WatchGoto("run", "want")
    /\ UNCHANGED <<storeVars, apiVars, got, lock, cancelled, period,
                   clockVars, ghostVars>>

\* A goroutine that sees the context done returns.
Ends(g) ==
    /\ cancelled
    /\ wpc[g] \in {"unborn", "idle", "want", "connect", "open"}
    /\ WatchGoto(g, "ended")
    /\ UNCHANGED <<storeVars, apiVars, got, lock, stream, cancelled, period,
                   clockVars, ghostVars>>
-----------------------------------------------------------------------------
(***************************************************************************)
(* resyncLoop.                                                             *)
(***************************************************************************)
Derived == IF MaxStaleness \div 3 = 0 THEN MaxStaleness ELSE MaxStaleness \div 3

\* Mutant of ResyncInterval: a period that is too long is not clamped.
ResyncIntervalUnclamped == IF period = 0 THEN Derived ELSE period

ResyncInterval == IF period = 0 \/ period >= MaxStaleness THEN Derived ELSE period

ResyncDue ==
    /\ wpc["resync"] = "idle" /\ due
    /\ due' = FALSE
    /\ WatchGoto("resync", "want")
    /\ UNCHANGED <<storeVars, apiVars, got, lock, stream, cancelled, period,
                   since, ghostVars>>

\* A unit of time, wherever the goroutines are: also between the API server's
\* reading of the policies and their publication.  The channel of a ticker holds
\* one tick.
WatchTick ==
    /\ ~cancelled
    /\ \A g \in Goroutines : wpc[g] = "listed" => flight[g] < MaxList
    /\ StoreTick
    /\ IF wpc["resync"] = "unborn"
       THEN UNCHANGED clockVars
       ELSE /\ since' = (since + 1) % ResyncInterval
            /\ due' = (due \/ since + 1 = ResyncInterval)
    /\ old' = [v \in Versions |-> IF v < rev /\ old[v] < OldCap THEN old[v] + 1 ELSE old[v]]
    /\ flight' = [g \in Goroutines |-> IF wpc[g] = "listed" THEN flight[g] + 1 ELSE flight[g]]
    /\ ontime' = (ontime /\ ~due /\ wpc["resync"] \notin {"want", "listed"})
    /\ UNCHANGED <<apiVars, wpc, got, lock, stream, cancelled, period, fails, slow>>

Cancel ==
    /\ ~cancelled
    /\ cancelled' = TRUE
    /\ UNCHANGED <<storeVars, apiVars, wpc, got, lock, stream, period,
                   clockVars, ghostVars>>

\* Everything has returned.
Over ==
    /\ cancelled /\ \A g \in Goroutines : wpc[g] = "ended"
    /\ UNCHANGED watchVars

Steps(g) == RelistReads(g) \/ RelistFails(g) \/ RelistSwaps(g)

WatchNext ==
    \/ Edit \/ Outage \/ Recovers
    \/ \E g \in Goroutines : Steps(g) \/ Ends(g)
    \/ WatchConnects \/ WatchFails \/ WatchEvent \/ WatchBreaks
    \/ ResyncDue \/ WatchTick
    \/ Cancel \/ Over

WatchSpec == WatchInit /\ [][WatchNext]_watchVars

\* Goroutines run, time passes and outages end.  The watch owes nothing: it
\* may stay silent for ever.
Fairness ==
    /\ WF_watchVars(Recovers) /\ WF_watchVars(WatchTick) /\ WF_watchVars(ResyncDue)
    /\ WF_watchVars(WatchConnects \/ WatchFails)
    /\ \A g \in Goroutines : SF_watchVars(Steps(g)) /\ WF_watchVars(Ends(g))

FairWatchSpec == WatchSpec /\ Fairness
-----------------------------------------------------------------------------
WatchTypeOK ==
    /\ StoreType
    /\ rev \in 0 .. MaxEdits /\ broken \subseteq 0 .. rev
    /\ up \in BOOLEAN /\ outages \in 0 .. MaxOutages
    /\ wpc \in [Goroutines -> {"unborn", "idle", "want", "listed", "connect", "open", "ended"}]
    /\ got \in [Goroutines -> Versions \cup {None}]
    /\ lock \in Goroutines \cup {None}
    /\ stream \in Versions \cup {None}
    /\ cancelled \in BOOLEAN
    /\ period \in ResyncPeriods
    /\ since \in 0 .. MaxStaleness - 1 /\ due \in BOOLEAN
    /\ old \in [Versions -> 0 .. OldCap]
    /\ flight \in [Goroutines -> 0 .. MaxList] /\ slow \in 0 .. MaxList
    /\ fails \in 0 .. 2 /\ ontime \in BOOLEAN

\* What is published never goes back to older policies and is never withdrawn
\* (relistMu orders whole relists).
PublishedInOrder == [][snap # None => snap' # None /\ snap' >= snap]_snap

\* A policy that was revoked or replaced stops applying, for a failed
\* compilation, a dead watch or an outage: a snapshot that MatchStage still
\* accepts has been out of date for no longer than the age it compares and the
\* time the List of the snapshot took, which the age does not include.
LeaseBoundsLag == snap # None /\ ~Stale => old[snap] <= age + slow

\* Why policies are published in order: a goroutine that has listed holds
\* relistMu, so what it read is no older than what is published; a goroutine that
\* connects has listed, and one that consumes has a watch.
WatchInv ==
    /\ WatchTypeOK
    /\ snap # None => snap <= rev
    /\ wpc["run"] = "connect" => got["run"] # None
    /\ wpc["run"] = "open" => stream # None
    /\ \A g \in Goroutines : wpc[g] = "listed" =>
          lock = g /\ got[g] \in 0 .. rev /\ (snap # None => snap <= got[g])

\* Why the age and the List bound the lag: what was listed was current then.
LagInv ==
    /\ LeaseBoundsLag
    /\ \A g \in Goroutines : wpc[g] = "listed" => old[got[g]] <= flight[g]
    /\ \A v \in Versions : v >= rev => old[v] = 0

LeaseInv == WatchInv /\ LagInv

\* The bound without the time of the List: the publication is stamped when it
\* happens, not when the policies were read (compileAndSwap), so a snapshot can
\* outlive them by more than its age.
AgeBoundsLag == snap # None /\ ~Stale => old[snap] <= age

\* Whatever the watch does, the resyncs alone keep the snapshot fresh, and with
\* the default period a single failed one does no harm (defaultResyncDivisor).
ResyncKeepsFresh ==
    snap # None /\ ~cancelled /\ ontime /\ (fails = 0 \/ (fails = 1 /\ ResyncInterval = Derived))
        => ~Stale

\* The age a resync that is neither late nor failed leaves room for.
ResyncSlack == IF due \/ wpc["resync"] \in {"want", "listed"} THEN ResyncInterval ELSE since

\* Why it holds: the ticker bounds the age, by one interval more after a failure.
TickerBounds ==
    /\ since < ResyncInterval
    /\ wpc["resync"] = "unborn" => snap = None
    /\ wpc["resync"] = "ended" => cancelled
    /\ snap # None /\ ~cancelled /\ ontime => /\ fails = 0 => age <= ResyncSlack
                                              /\ fails = 1 => age <= ResyncInterval + ResyncSlack

FreshInv == WatchInv /\ TickerBounds

\* When the policies stop changing, the snapshot becomes the latest version,
\* even if the watch stays silent (resyncLoop), unless that does not compile.
EventuallyCurrent == <>[](cancelled \/ rev \in broken \/ snap = rev)

\* A cancelled watcher leaves no goroutine behind, wherever the two of them
\* are when productionPolicyStartup gives up or the daemon drains.
CancelEnds == cancelled ~> \A g \in Goroutines : wpc[g] = "ended"
=============================================================================
