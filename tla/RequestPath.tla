---------------------------- MODULE RequestPath ----------------------------
(***************************************************************************)
(* A captured connection from the handler goroutine of the listener to its *)
(* end: the destination is resolved, TLS is terminated with a certificate  *)
(* of the LeafSource the connections share, and requests are               *)
(* served one after the other (dataplane/requestpath), each relayed over   *)
(* an upstream connection of the DirectDialer under the eye of a watchdog  *)
(* goroutine of its own.  The connections share the limiter of requests in *)
(* flight and the slots of the dialer; every layer shares the connection's *)
(* latch for its one sample of aksh_decisions_total.                       *)
(*                                                                         *)
(* Identity and port are the same for all requests of a connection (the    *)
(* SNI must equal the Host), so requests differ in the credential their    *)
(* policy rule names.  What peers send, whether the context is cancelled   *)
(* and what the pipeline decides is left open.                             *)
(***************************************************************************)
EXTENDS LeafSource, Integers, FiniteSets

CONSTANTS
    Creds,
    CredsOf,       \* the credentials that the rules for a connection's SNI name
    MaxRequests,   \* of one connection
    Loads,         \* the numbers of requests the agent may bring on each;
                   \* a connection with none does not come
    MaxInflight,   \* opts.MaxInflightRequests
    MaxDials       \* opts.MaxConcurrentDials

ASSUME RequestPathAssumption ==
    /\ CredsOf \in [Conns -> SUBSET Creds]
    /\ MaxRequests \in Nat \ {0}
    /\ Loads \subseteq [Conns -> 0 .. MaxRequests]
    /\ MaxInflight \in Nat \ {0} /\ MaxDials \in Nat \ {0}
    /\ None \notin Creds /\ None \notin Conns \X Nat

\* The k-th request of connection c, and the upstream connection dialled for it.
Reqs == Conns \X (1 .. MaxRequests)

VARIABLES
    load,      \* how many requests come on each connection, at most
    pc,        \* where the handler of each connection is
    fate,      \* why the handler stopped serving
    decided,   \* the latch of the connection
    samples,   \* the decisions recorded for the connection
    served,    \* cs.served
    cred,      \* the credential of each request
    on,        \* the upstream connection each request was relayed on
    up,        \* cs.upstream
    link,      \* the state of each upstream connection
    dials,     \* slots of the dialer taken
    inflight,  \* slots of the limiter taken
    dog,       \* the watchdog of each request
    down,      \* the downstream connection is open
    stall      \* the peer that will not move again during this relay

connVars == <<fate, decided, samples>>
upVars   == <<up, link, dials>>
reqVars  == <<load, served, cred, on>>
pathVars == <<pc, connVars, reqVars, upVars, inflight, dog, down, stall>>
vars     == <<pathVars, leafVars>>

Init ==
    /\ LeafInit
    /\ load \in Loads
    /\ pc = [c \in Conns |-> "resolve"]
    /\ fate = [c \in Conns |-> "none"]
    /\ decided = [c \in Conns |-> FALSE]
    /\ samples = [c \in Conns |-> <<>>]
    /\ served = [c \in Conns |-> 0]
    /\ cred = [r \in Reqs |-> None] /\ on = [r \in Reqs |-> None]
    /\ up = [c \in Conns |-> None]
    /\ link = [l \in Reqs |-> "none"]
    /\ dials = 0 /\ inflight = 0
    /\ dog = [r \in Reqs |-> "none"]
    /\ down = [c \in Conns |-> TRUE]
    /\ stall = [c \in Conns |-> "none"]

Goto(c, l) == pc' = [pc EXCEPT ![c] = l]
Req(c)     == <<c, served[c] + 1>>
Relay      == {"write", "respond", "deliver"}
ServeOne   == {"read", "validate", "decide", "upstream", "dial", "connect", "next"} \cup Relay

\* Decisions without the latch, and under it (MarkDecided).
Record(c, s) == samples' = [samples EXCEPT ![c] = Append(@, s)]
Latch(c)     == decided' = [decided EXCEPT ![c] = TRUE]
Decide(c, s) == Latch(c) /\ IF decided[c] THEN UNCHANGED samples ELSE Record(c, s)

\* The handler gives up; serveOne, if it is in it, releases the limiter.
Leave(c, f) ==
    /\ Goto(c, "unwind")
    /\ fate' = [fate EXCEPT ![c] = f]
    /\ inflight' = IF pc[c] \in ServeOne THEN inflight - 1 ELSE inflight
    /\ stall' = [stall EXCEPT ![c] = "none"]

\* Mutant of CloseLink: Close gives the slot back every time it is called.
CloseLinkAgain(l) ==
    /\ link' = IF l = None THEN link ELSE [link EXCEPT ![l] = "closed"]
    /\ dials' = IF l = None THEN dials ELSE dials - 1

\* upstreamConn.Close: the first call closes the socket and frees the slot.
CloseLink(l) ==
    IF l # None /\ link[l] = "open"
    THEN link' = [link EXCEPT ![l] = "closed"] /\ dials' = dials - 1
    ELSE UNCHANGED <<link, dials>>
-----------------------------------------------------------------------------
(***************************************************************************)
(* The handler goroutine up to the request path.                           *)
(***************************************************************************)
Resolve(c) ==
    /\ pc[c] = "resolve" /\ load[c] > 0
    /\ Goto(c, "handshake")
    /\ UNCHANGED <<connVars, reqVars, upVars, inflight, dog, down, stall>>

\* The loop guard and a pod-local destination are recorded by the resolver;
\* the listener records every miss, without the latch, and returns.
ResolveFails(c) ==
    /\ pc[c] = "resolve" /\ load[c] > 0
    /\ \E s \in {<<"deny">>, <<"deny", "deny">>} : samples' = [samples EXCEPT ![c] = s]
    /\ fate' = [fate EXCEPT ![c] = "unresolved"]
    /\ down' = [down EXCEPT ![c] = FALSE]
    /\ Goto(c, "done")
    /\ UNCHANGED <<decided, reqVars, upVars, inflight, dog, stall>>

\* A ClientHello with a server name: GetConfigForClient asks for its leaf.
AskLeaf(c) ==
    /\ pc[c] = "handshake"
    /\ LeafHit(c) \/ LeafMiss(c)
    /\ Goto(c, "leaf")
    /\ UNCHANGED <<connVars, reqVars, upVars, inflight, dog, down, stall>>

\* CertificateFor goes on, in the handshake or in the goroutine of a mint.
LeafSteps(c) == (LeafAwaited(c) \/ LeafCancelled(c) \/ MintStep(c)) /\ UNCHANGED pathVars

Handshake(c) ==
    /\ pc[c] = "leaf" /\ call[c] = "ok"
    /\ LeafTaken(c)
    /\ Goto(c, "wait")
    /\ UNCHANGED <<connVars, reqVars, upVars, inflight, dog, down, stall>>

\* A ClientHello refused by the terminator, plaintext, no leaf, a failed
\* handshake or a failed assertion after it: one of the two layers records,
\* both latch.
HandshakeFails(c) ==
    /\ \/ pc[c] = "handshake" /\ UNCHANGED leafVars
       \/ pc[c] = "leaf" /\ call[c] \in {"ok", "failed"} /\ LeafTaken(c)
    /\ Decide(c, "deny")
    /\ fate' = [fate EXCEPT ![c] = "refused"]
    /\ Goto(c, "rollup")
    /\ UNCHANGED <<reqVars, upVars, inflight, dog, down, stall>>

\* Handle finds its context done before it touches the connection.
HandleCancelled(c) ==
    /\ pc[c] = "handshake"
    /\ fate' = [fate EXCEPT ![c] = "error"]
    /\ Goto(c, "rollup")
    /\ UNCHANGED <<decided, samples, reqVars, upVars, inflight, dog, down, stall>>
-----------------------------------------------------------------------------
(***************************************************************************)
(* Serve: wait for a request, admit, read, validate and decide it.         *)
(***************************************************************************)
WaitForRequest(c) ==
    /\ pc[c] = "wait"
    /\ down[c] /\ served[c] < load[c]
    /\ Goto(c, "admit")
    /\ UNCHANGED <<connVars, reqVars, upVars, inflight, dog, down, stall>>

\* The agent is gone or idle, or the context is done; or reading failed.
WaitEnds(c) ==
    /\ pc[c] = "wait"
    /\ \E f \in {"ended", "error"} : Leave(c, f)
    /\ UNCHANGED <<decided, samples, reqVars, upVars, dog, down>>

\* Mutant of Admit: the limiter is not consulted.
AdmitUnbounded(c) ==
    /\ pc[c] = "admit"
    /\ inflight' = inflight + 1
    /\ Goto(c, "read")
    /\ UNCHANGED <<connVars, reqVars, upVars, dog, down, stall>>

Admit(c) ==
    /\ pc[c] = "admit"
    /\ inflight < MaxInflight
    /\ inflight' = inflight + 1
    /\ Goto(c, "read")
    /\ UNCHANGED <<connVars, reqVars, upVars, dog, down, stall>>

\* rejectAndWrite
Reject(c) ==
    /\ Decide(c, "deny")
    /\ Leave(c, "refused")
    /\ UNCHANGED <<reqVars, upVars, dog, down>>

AdmitRejects(c) ==
    /\ pc[c] = "admit"
    /\ inflight = MaxInflight
    /\ Reject(c)

ReadRequest(c) ==
    /\ pc[c] = "read"
    /\ Goto(c, "validate")
    /\ UNCHANGED <<connVars, reqVars, upVars, inflight, dog, down, stall>>

\* The head is too large, too late or not HTTP.
ReadRejects(c) == pc[c] = "read" /\ Reject(c)

Validate(c) ==
    /\ pc[c] = "validate"
    /\ Goto(c, "decide")
    /\ UNCHANGED <<connVars, reqVars, upVars, inflight, dog, down, stall>>

ValidateRejects(c) == pc[c] = "validate" /\ Reject(c)

\* pipeline.Execute allows, with the credential of the matched rule.
ExecuteAllows(c) ==
    /\ pc[c] = "decide"
    /\ \E k \in CredsOf[c] : cred' = [cred EXCEPT ![Req(c)] = k]
    /\ Goto(c, "upstream")
    /\ UNCHANGED <<connVars, load, served, on, upVars, inflight, dog, down, stall>>

\* Mutant of ExecuteDenies: the verdict is recorded and the latch left open.
ExecuteDeniesUnlatched(c) ==
    /\ pc[c] = "decide"
    /\ Record(c, "deny")
    /\ Leave(c, "denied")
    /\ UNCHANGED <<decided, reqVars, upVars, dog, down>>

ExecuteDenies(c) ==
    /\ pc[c] = "decide"
    /\ Decide(c, "deny")
    /\ Leave(c, "denied")
    /\ UNCHANGED <<reqVars, upVars, dog, down>>
-----------------------------------------------------------------------------
(***************************************************************************)
(* ensureUpstream and DialUpstream.                                        *)
(***************************************************************************)
\* Mutant of ReusableFor: the credential is not compared.
ReusableForAny(c) == up[c] # None

ReusableFor(c) == up[c] # None /\ cred[up[c]] = cred[Req(c)]

\* The relay starts, and with it the watchdog of the request.
Arm(c, l) ==
    /\ on' = [on EXCEPT ![Req(c)] = l]
    /\ dog' = [dog EXCEPT ![Req(c)] = "armed"]
    /\ Goto(c, "write")

Reuse(c) ==
    /\ pc[c] = "upstream"
    /\ ReusableFor(c)
    /\ Arm(c, up[c])
    /\ UNCHANGED <<connVars, load, served, cred, upVars, inflight, down, stall>>

\* Mutant of Redial: the connection that cannot be reused is only forgotten.
RedialLeaking(c) ==
    /\ pc[c] = "upstream"
    /\ ~ReusableFor(c)
    /\ up' = [up EXCEPT ![c] = None]
    /\ Goto(c, "dial")
    /\ UNCHANGED <<connVars, reqVars, link, dials, inflight, dog, down, stall>>

Redial(c) ==
    /\ pc[c] = "upstream"
    /\ ~ReusableFor(c)
    /\ CloseLink(up[c])
    /\ up' = [up EXCEPT ![c] = None]
    /\ Goto(c, "dial")
    /\ UNCHANGED <<connVars, reqVars, inflight, dog, down, stall>>

\* Mutant of Undialled: the dialer leaves the record to its caller.
UndialledUnrecorded(c) ==
    /\ Latch(c)
    /\ Leave(c, "undialled")
    /\ UNCHANGED <<samples, reqVars, up, dog, down>>

\* The dialer records its reason, without the latch; the relay latches.
Undialled(c) ==
    /\ Record(c, "deny")
    /\ Latch(c)
    /\ Leave(c, "undialled")
    /\ UNCHANGED <<reqVars, up, dog, down>>

\* The loop guard, or no slot is left.
DialRefused(c) ==
    /\ pc[c] = "dial"
    /\ Undialled(c)
    /\ UNCHANGED <<link, dials>>

DialSlot(c) ==
    /\ pc[c] = "dial"
    /\ dials < MaxDials
    /\ dials' = dials + 1
    /\ link' = [link EXCEPT ![Req(c)] = "dialling"]
    /\ Goto(c, "connect")
    /\ UNCHANGED <<connVars, reqVars, up, inflight, dog, down, stall>>

\* Connecting, registering or the handshake fails, each bounded by a timeout.
DialFails(c) ==
    /\ pc[c] = "connect"
    /\ link' = [link EXCEPT ![Req(c)] = "closed"]
    /\ dials' = dials - 1
    /\ Undialled(c)

Dialled(c) ==
    /\ pc[c] = "connect"
    /\ link' = [link EXCEPT ![Req(c)] = "open"]
    /\ up' = [up EXCEPT ![c] = Req(c)]
    /\ Arm(c, Req(c))
    /\ UNCHANGED <<connVars, load, served, cred, dials, inflight, down, stall>>
-----------------------------------------------------------------------------
(***************************************************************************)
(* relay: write the request, read the response, deliver it.  A peer that   *)
(* stops moving is "stalled": only closing its connection, or the read     *)
(* deadline of a response, unblocks the relay.                             *)
(***************************************************************************)
TimedOut(r) == dog[r] \in {"flagged", "claimed", "closing", "fired"}
Closed(l)   == link[l] # "open"

Stall(c) ==
    /\ pc[c] \in Relay
    /\ stall[c] = "none"
    /\ \E side \in IF pc[c] = "respond" THEN {"up"} ELSE {"up", "down"} :
         stall' = [stall EXCEPT ![c] = side]
    /\ UNCHANGED <<pc, connVars, reqVars, upVars, inflight, dog, down>>

WriteRequest(c) ==
    /\ pc[c] = "write"
    /\ stall[c] = "none" /\ ~Closed(on[Req(c)])
    /\ Goto(c, "respond")
    /\ UNCHANGED <<connVars, reqVars, upVars, inflight, dog, down, stall>>

\* The relay of a request fails: the upstream connection is dropped.
Fail(c) ==
    /\ Leave(c, "failed")
    /\ CloseLink(up[c])
    /\ up' = [up EXCEPT ![c] = None]
    /\ UNCHANGED <<reqVars, dog, down>>

\* A failure after the watchdog flagged the request is left to the watchdog.
DecideUnlessTimedOut(c) ==
    IF TimedOut(Req(c)) THEN UNCHANGED <<decided, samples>> ELSE Decide(c, "deny")

WriteFails(c) ==
    /\ pc[c] = "write"
    /\ stall[c] = "up" => Closed(on[Req(c)])
    /\ stall[c] = "down" => ~down[c]
    /\ DecideUnlessTimedOut(c)
    /\ Fail(c)

ReadResponse(c) ==
    /\ pc[c] = "respond"
    /\ stall[c] = "none"
    /\ Goto(c, "deliver")
    /\ UNCHANGED <<connVars, reqVars, upVars, inflight, dog, down, stall>>

ResponseFails(c) ==
    /\ pc[c] = "respond"
    /\ DecideUnlessTimedOut(c)
    /\ Fail(c)

\* resp.Close drops the upstream connection, req.Close the downstream one.
Deliver(c) ==
    /\ pc[c] = "deliver"
    /\ stall[c] = "none" /\ down[c]
    /\ \E respClose, reqClose \in BOOLEAN :
         /\ IF respClose
            THEN CloseLink(up[c]) /\ up' = [up EXCEPT ![c] = None]
            ELSE UNCHANGED upVars
         /\ IF reqClose
            THEN Leave(c, "ended")
            ELSE Goto(c, "next") /\ UNCHANGED <<fate, inflight, stall>>
    /\ UNCHANGED <<decided, samples, reqVars, dog, down>>

\* The response is too large, or cannot be written or read to its end.
DeliverFails(c) ==
    /\ pc[c] = "deliver"
    /\ stall[c] = "down" => ~down[c]
    /\ Decide(c, "deny")
    /\ Fail(c)

\* No byte of the next request has come yet.
NextRequest(c) ==
    /\ pc[c] = "next"
    /\ served' = [served EXCEPT ![c] = @ + 1]
    /\ inflight' = inflight - 1
    /\ Goto(c, "wait")
    /\ UNCHANGED <<connVars, load, cred, on, upVars, dog, down, stall>>

\* A byte has come (hasImmediateNextByte), or is found after serveOne.
NextRejects(c) ==
    /\ pc[c] = "next" \/ (pc[c] = "wait" /\ served[c] > 0)
    /\ Reject(c)
-----------------------------------------------------------------------------
(***************************************************************************)
(* watchProgress, one goroutine per relayed request.                       *)
(***************************************************************************)
Relaying(r) == pc[r[1]] \in Relay /\ r = Req(r[1])
DogMoves(r, from, to) == dog[r] = from /\ dog' = [dog EXCEPT ![r] = to]

\* The channel done is closed when relay returns.
DogDone(r) ==
    /\ ~Relaying(r)
    /\ DogMoves(r, "armed", "gone")
    /\ UNCHANGED <<pc, connVars, reqVars, upVars, inflight, down, stall>>

\* A tick finds that no byte moved for the progress deadline and stores
\* timedOut; done may be closed by then, select takes either.
DogExpires(r) ==
    /\ DogMoves(r, "armed", "flagged")
    /\ UNCHANGED <<pc, connVars, reqVars, upVars, inflight, down, stall>>

DogClaims(r) ==
    /\ DogMoves(r, "flagged", "claimed")
    /\ Decide(r[1], "deny")
    /\ UNCHANGED <<pc, fate, reqVars, upVars, inflight, down, stall>>

DogClosesUp(r) ==
    /\ DogMoves(r, "claimed", "closing")
    /\ CloseLink(on[r])
    /\ UNCHANGED <<pc, connVars, reqVars, up, inflight, down, stall>>

\* Mutant of DogClosesDown: only the upstream connection is closed.
DogClosesDownNot(r) ==
    /\ DogMoves(r, "closing", "fired")
    /\ UNCHANGED <<pc, connVars, reqVars, upVars, inflight, down, stall>>

DogClosesDown(r) ==
    /\ DogMoves(r, "closing", "fired")
    /\ down' = [down EXCEPT ![r[1]] = FALSE]
    /\ UNCHANGED <<pc, connVars, reqVars, upVars, inflight, stall>>
-----------------------------------------------------------------------------
(***************************************************************************)
(* The end: the deferred calls of Serve and of the listener's goroutine.   *)
(***************************************************************************)
\* A panic in parsing, deciding or copying runs the deferred calls of
\* serveOne, relay and Serve.
Panic(c) ==
    /\ pc[c] \in {"read", "decide"} \cup Relay
    /\ Leave(c, "panicked")
    /\ UNCHANGED <<decided, samples, reqVars, upVars, dog, down>>

Unwind(c) ==
    /\ pc[c] = "unwind"
    /\ CloseLink(up[c])
    /\ down' = [down EXCEPT ![c] = FALSE]
    /\ Goto(c, "rollup")
    /\ UNCHANGED <<connVars, reqVars, up, inflight, dog, stall>>

\* The listener's fallback; a recovered panic is recorded without the latch.
Rollup(c) ==
    /\ pc[c] = "rollup"
    /\ IF fate[c] = "panicked"
       THEN Record(c, "deny") /\ UNCHANGED decided
       ELSE Decide(c, IF fate[c] = "error" THEN "deny" ELSE "allow")
    /\ down' = [down EXCEPT ![c] = FALSE]
    /\ Goto(c, "done")
    /\ UNCHANGED <<fate, reqVars, upVars, inflight, dog, stall>>

Ends(c)  == Unwind(c) \/ Rollup(c)
Opens(c) == Resolve(c) \/ ResolveFails(c) \/ HandleCancelled(c)
Greets(c) == AskLeaf(c) \/ LeafSteps(c) \/ Handshake(c) \/ HandshakeFails(c)
Serves(c) ==
    \/ WaitForRequest(c) \/ WaitEnds(c) \/ Admit(c) \/ AdmitRejects(c)
    \/ ReadRequest(c) \/ ReadRejects(c) \/ Validate(c) \/ ValidateRejects(c)
    \/ ExecuteAllows(c) \/ ExecuteDenies(c) \/ NextRequest(c) \/ NextRejects(c)
Dials(c) == Reuse(c) \/ Redial(c) \/ DialRefused(c) \/ DialSlot(c) \/ DialFails(c) \/ Dialled(c)
RelayFails(c) == WriteFails(c) \/ ResponseFails(c) \/ DeliverFails(c)
Relays(c) ==
    Stall(c) \/ WriteRequest(c) \/ ReadResponse(c) \/ Deliver(c) \/ RelayFails(c)
Fires(r) == DogClaims(r) \/ DogClosesUp(r) \/ DogClosesDown(r)
Watches(r) == DogDone(r) \/ DogExpires(r) \/ Fires(r)

Next ==
    \/ \E c \in Conns : Greets(c)
    \/ /\ \/ \E c \in Conns : Opens(c) \/ Serves(c) \/ Dials(c) \/ Relays(c) \/ Panic(c) \/ Ends(c)
          \/ \E r \in Reqs : Watches(r)
       /\ UNCHANGED leafVars

Spec == Init /\ [][Next]_vars

\* Goroutines run, time passes, and a blocked read or write returns once its
\* connection is closed or its deadline is over.  Peers owe nothing.
Fairness ==
    /\ \A c \in Conns :
         /\ WF_vars(Ends(c) /\ UNCHANGED leafVars)
         /\ WF_vars(RelayFails(c) /\ stall[c] # "none" /\ UNCHANGED leafVars)
         /\ WF_vars(MintStep(c) /\ UNCHANGED pathVars)
         /\ WF_vars(LeafAwaited(c) /\ UNCHANGED pathVars)
    /\ \A r \in Reqs :
         /\ WF_vars(Fires(r) /\ UNCHANGED leafVars)
         /\ WF_vars(DogExpires(r) /\ r = Req(r[1]) /\ stall[r[1]] # "none" /\ UNCHANGED leafVars)

FairSpec == Spec /\ Fairness
-----------------------------------------------------------------------------
Fates == {"none", "unresolved", "refused", "denied", "undialled", "failed", "ended", "error", "panicked"}

PathType ==
    /\ pc \in [Conns -> {"resolve", "handshake", "leaf", "wait", "admit", "unwind", "rollup", "done"}
                          \cup ServeOne]
    /\ fate \in [Conns -> Fates]
    /\ decided \in [Conns -> BOOLEAN]
    /\ samples \in [Conns -> Seq({"allow", "deny"})]
    /\ load \in Loads
    /\ served \in [Conns -> Nat] /\ \A c \in Conns : served[c] <= load[c]
    /\ cred \in [Reqs -> Creds \cup {None}]
    /\ on \in [Reqs -> Reqs \cup {None}]
    /\ up \in [Conns -> Reqs \cup {None}]
    /\ link \in [Reqs -> {"none", "dialling", "open", "closed"}]
    /\ dog \in [Reqs -> {"none", "armed", "flagged", "claimed", "closing", "fired", "gone"}]
    /\ down \in [Conns -> BOOLEAN]
    /\ stall \in [Conns -> {"none", "up", "down"}]

TypeOK == LeafTypeOK /\ PathType /\ dials \in 0 .. MaxDials /\ inflight \in 0 .. MaxInflight

\* An upstream connection never carries requests authorised with different
\* credentials (reusableFor).
OneCredentialPerLink ==
    \A q, r \in Reqs : on[q] = on[r] /\ on[q] # None => cred[q] = cred[r]

\* The slots of the dialer and of the limiter are those of the connections
\* that hold one, although handler and watchdog both close connections.
SlotsConserved ==
    /\ dials = Cardinality({l \in Reqs : link[l] \in {"dialling", "open"}})
    /\ inflight = Cardinality({c \in Conns : pc[c] \in ServeOne})

\* A connection that has ended holds no upstream connection, whatever way it
\* ended (the deferred close of Serve, the closes of relay and ensureUpstream).
NothingLeftOpen == \A r \in Reqs : pc[r[1]] = "done" => link[r] \in {"none", "closed"}

\* Every connection that has ended is counted, once its watchdogs are through
\* (the layers that latch without recording rely on another's record).
Counted ==
    \A c \in Conns :
        pc[c] = "done" /\ (\A r \in Reqs : r[1] = c => dog[r] \in {"none", "fired", "gone"})
            => samples[c] # <<>>

\* A connection that was refused or denied is not counted as an allow, by any
\* layer (issue #89).
DenialNotAllowed ==
    \A c \in Conns :
        fate[c] \in {"unresolved", "refused", "denied", "undialled"}
            => \A i \in DOMAIN samples[c] : samples[c][i] = "deny"

\* A relay whose peer stops moving is ended by its watchdog, and with it the
\* connection.
StalledRelayEnds == \A c \in Conns : stall[c] # "none" ~> pc[c] = "done"

\* Why they hold.  A connection asks for its leaf once.
AskedOnce ==
    \A c \in Conns : pc[c] \in {"resolve", "handshake"} =>
        call[c] = "idle" /\ mint[c] = "none" /\ via[c] = None

Late == Relay \cup {"next", "unwind", "rollup", "done"}

\* A request that has not come to its relay is on no upstream connection, and an
\* upstream connection carries the request it was dialled for.
LinkInv ==
    /\ \A c \in Conns :
          /\ up[c] # None => up[c][1] = c /\ on[up[c]] = up[c]
          /\ pc[c] \in {"resolve", "handshake", "leaf", "dial", "connect"} => up[c] = None
          /\ pc[c] \in {"admit"} \cup ServeOne => served[c] < load[c]
    /\ \A r \in Reqs : r[2] > served[r[1]] + 1 \/ (r = Req(r[1]) /\ pc[r[1]] \notin Late) => on[r] = None
    /\ \A r \in Reqs : on[r] # None => on[on[r]] = on[r] /\ cred[on[r]] = cred[r]
    /\ \A r \in Reqs :
          /\ link[r] = "dialling" => pc[r[1]] = "connect" /\ r = Req(r[1])
          /\ link[r] = "open" => up[r[1]] = r /\ pc[r[1]] \notin {"rollup", "done"}

\* Only the fallback of the listener counts an allow, and every refusal has
\* taken the latch from it.
SampleInv ==
    \A c \in Conns :
        /\ fate[c] = "unresolved" => pc[c] = "done"
        /\ fate[c] \in {"refused", "denied", "undialled"} => decided[c]
        /\ \/ samples[c] \in Seq({"deny"})
           \/ pc[c] = "done" /\ fate[c] \notin {"unresolved", "refused", "denied", "undialled"}

PathInv == PathType /\ LeafInv /\ AskedOnce /\ LinkInv /\ SampleInv

\* What the comments on the relay and the listener's fallback say: no transport
\* fault is "counted as a success".  It does not hold: between the watchdog's
\* timedOut.Store and its MarkDecided the relay may fail for a reason of its
\* own, leave the record to the watchdog, and lose the latch to the fallback.
FaultNotAllowed ==
    \A c \in Conns :
        fate[c] = "failed" => \A i \in DOMAIN samples[c] : samples[c][i] = "deny"
=============================================================================
