------------------------------ MODULE Listener ------------------------------
(***************************************************************************)
(* The loopback listener (internal/dataplane/listener/listener.go): its    *)
(* lifecycle, the accept loop, the dispatch of connections to handlers and *)
(* Shutdown.  Every caller of Bind, AcceptProbe, Serve and Shutdown is a   *)
(* process; the callers run concurrently, as the type allows.  A handler   *)
(* is opaque here: it runs, then returns or panics.                        *)
(***************************************************************************)
EXTENDS Integers, FiniteSets, Sequences

CONSTANTS
    Binders, Probers, Servers, Stoppers,   \* callers of the four operations
    Conns,                                 \* connections agents may open
    MaxConnections,                        \* opts.MaxConnections
    None

ASSUME ListenerAssumption ==
    /\ MaxConnections \in Nat \ {0}
    /\ IsFiniteSet(Conns)
    /\ None \notin Binders \cup Probers \cup Conns
    /\ Binders \cap (Probers \cup Servers \cup Stoppers) = {}
    /\ Probers \cap (Servers \cup Stoppers) = {}
    /\ Servers \cap Stoppers = {}

Callers == Binders \cup Probers \cup Servers \cup Stoppers

VARIABLES
    state,      \* l.state
    ln,         \* l.ln: the binder whose socket it is, or None
    socket,     \* the socket each Bind opened: "none", "open" or "closed"
    closed,     \* closeOnce has run
    acceptMu,   \* the holder of acceptMu
    draining,   \* l.draining
    wg, sem,    \* the WaitGroup's counter, the slots taken
    pc,         \* where each caller is
    accepted,   \* the connection each Serve is dispatching
    conn,       \* the state of each connection
    cancelled   \* the context of Serve is done

lifeVars == <<state, ln, socket, closed, acceptMu>>
connVars == <<draining, wg, sem, conn, accepted>>
vars     == <<lifeVars, connVars, pc, cancelled>>

Init ==
    /\ state = "New"
    /\ ln = None
    /\ socket = [b \in Binders |-> "none"]
    /\ closed = FALSE
    /\ acceptMu = None
    /\ draining = FALSE
    /\ wg = 0 /\ sem = 0
    /\ pc = [p \in Callers |-> "idle"]
    /\ accepted = [s \in Servers |-> None]
    /\ conn = [c \in Conns |-> "idle"]
    /\ cancelled = FALSE

Goto(p, l) == pc' = [pc EXCEPT ![p] = l]
Open == {b \in Binders : socket[b] = "open"}

\* Closing a socket resets the connections still in its accept queue.
Close(b) ==
    /\ socket' = [socket EXCEPT ![b] = "closed"]
    /\ conn' = [c \in Conns |-> IF conn[c] = "queued" THEN "closed" ELSE conn[c]]
-----------------------------------------------------------------------------
(***************************************************************************)
(* Bind: reserve the right to open the socket, open it, store it, publish  *)
(* StateBound.                                                             *)
(***************************************************************************)
BindReserve(b) ==
    /\ pc[b] = "idle"
    /\ IF state = "New"
       THEN state' = "Binding" /\ Goto(b, "listen")
       ELSE Goto(b, "done") /\ UNCHANGED state
    /\ UNCHANGED <<ln, socket, closed, acceptMu, connVars, cancelled>>

BindListen(b) ==
    /\ pc[b] = "listen"
    /\ Open = {}   \* the port is free
    /\ socket' = [socket EXCEPT ![b] = "open"]
    /\ Goto(b, "store")
    /\ UNCHANGED <<state, ln, closed, acceptMu, connVars, cancelled>>

\* Mutant of BindFails: the failed Bind stores StateNew without a CAS.
BindFailsStoring(b) ==
    /\ pc[b] = "listen"
    /\ state' = "New"
    /\ Goto(b, "done")
    /\ UNCHANGED <<ln, socket, closed, acceptMu, connVars, cancelled>>

\* rollbackFailedBind
BindFails(b) ==
    /\ pc[b] = "listen"
    /\ state' = IF state = "Binding" THEN "New" ELSE state
    /\ Goto(b, "done")
    /\ UNCHANGED <<ln, socket, closed, acceptMu, connVars, cancelled>>

\* Mutant of BindStore: StateBound is published before the socket is stored.
BindStoreLate(b) ==
    /\ pc[b] = "store"
    /\ state' = IF state = "Binding" THEN "Bound" ELSE state
    /\ Goto(b, "publish")
    /\ UNCHANGED <<ln, socket, closed, acceptMu, connVars, cancelled>>

BindStore(b) ==
    /\ pc[b] = "store"
    /\ ln' = b
    /\ Goto(b, "publish")
    /\ UNCHANGED <<state, socket, closed, acceptMu, connVars, cancelled>>

BindPublish(b) ==
    /\ pc[b] = "publish"
    /\ Goto(b, "done")
    /\ IF state = "Binding"
       THEN /\ state' = "Bound"
            /\ UNCHANGED <<ln, socket, conn>>
       ELSE /\ ln' = None
            /\ Close(b)
            /\ UNCHANGED state
    /\ UNCHANGED <<closed, acceptMu, draining, wg, sem, accepted, cancelled>>
-----------------------------------------------------------------------------
(***************************************************************************)
(* AcceptProbe: one connection, accepted under acceptMu.                   *)
(***************************************************************************)
ProbeLock(p) ==
    /\ pc[p] = "idle"
    /\ acceptMu = None
    /\ IF state = "Bound"
       THEN acceptMu' = p /\ Goto(p, "accept")
       ELSE Goto(p, "done") /\ UNCHANGED acceptMu
    /\ UNCHANGED <<state, ln, socket, closed, connVars, cancelled>>

ProbeAccept(p) ==
    /\ pc[p] = "accept"
    /\ ln \in Open
    /\ \E c \in Conns :
         /\ conn[c] = "queued"
         /\ conn' = [conn EXCEPT ![c] = "closed"]   \* closed by acceptProbe
    /\ acceptMu' = None
    /\ Goto(p, "done")
    /\ UNCHANGED <<state, ln, socket, closed, draining, wg, sem, accepted, cancelled>>

\* The deadline passes, or Shutdown closes the socket under Accept.
ProbeFails(p) ==
    /\ pc[p] = "accept"
    /\ acceptMu' = None
    /\ Goto(p, "done")
    /\ UNCHANGED <<state, ln, socket, closed, connVars, cancelled>>
-----------------------------------------------------------------------------
(***************************************************************************)
(* Serve: the transition to StateServing, then the accept loop.            *)
(***************************************************************************)
\* Mutant of ServeBegin: the transition does not wait for a probe.
ServeBeginUnlocked(s) ==
    /\ pc[s] = "idle"
    /\ IF state = "Bound"
       THEN state' = "Serving" /\ Goto(s, "loop")
       ELSE Goto(s, "done") /\ UNCHANGED state
    /\ UNCHANGED <<ln, socket, closed, acceptMu, connVars, cancelled>>

\* The check and the CAS are in one critical section, but Shutdown does not
\* take acceptMu: when it moves the state in between, the CAS fails, which
\* is the same as finding StateClosed at once.
ServeBegin(s) ==
    /\ pc[s] = "idle"
    /\ acceptMu = None
    /\ IF state = "Bound"
       THEN state' = "Serving" /\ Goto(s, "loop")
       ELSE Goto(s, "done") /\ UNCHANGED state
    /\ UNCHANGED <<ln, socket, closed, acceptMu, connVars, cancelled>>

ServeAccept(s) ==
    /\ pc[s] = "loop"
    /\ ln \in Open
    /\ \E c \in Conns :
         /\ conn[c] = "queued"
         /\ conn' = [conn EXCEPT ![c] = "accepted"]
         /\ accepted' = [accepted EXCEPT ![s] = c]
    /\ Goto(s, "dispatch")
    /\ UNCHANGED <<lifeVars, draining, wg, sem, cancelled>>

\* Accept fails because the socket was closed, or for good.  A timeout of
\* Accept is retried after a pause.
ServeStops(s) ==
    /\ pc[s] = "loop"
    /\ state' = IF state = "Serving" THEN "Closed" ELSE state
    /\ Goto(s, "served")
    /\ UNCHANGED <<ln, socket, closed, acceptMu, connVars, cancelled>>

\* Mutant of CloseSocket: a call that does not run the Once closes nothing
\* and the first one only notes that it ran.
CloseSocketNever == closed' = TRUE /\ UNCHANGED <<socket, conn>>

\* closeSocket: what it finds in l.ln, once.
CloseSocket ==
    /\ closed' = TRUE
    /\ IF ~closed /\ ln # None THEN Close(ln) ELSE UNCHANGED <<socket, conn>>

\* The goroutine Serve starts, when the context is done.  It may find both
\* the context done and Serve gone, and then it may close the socket as well.
ServeCancelled(s) ==
    /\ pc[s] \in {"loop", "dispatch", "track", "served"}
    /\ cancelled
    /\ ~closed
    /\ CloseSocket
    /\ UNCHANGED <<state, ln, acceptMu, draining, wg, sem, accepted, pc, cancelled>>
-----------------------------------------------------------------------------
(***************************************************************************)
(* dispatch, in the goroutine of the accept loop: the rate limit, a slot,  *)
(* then trackHandler.                                                      *)
(***************************************************************************)
DispatchLimited(s) ==
    /\ pc[s] = "dispatch"
    /\ conn' = [conn EXCEPT ![accepted[s]] = "closed"]
    /\ accepted' = [accepted EXCEPT ![s] = None]
    /\ Goto(s, "loop")
    /\ UNCHANGED <<lifeVars, draining, wg, sem, cancelled>>

\* Mutant of DispatchSlot: the bound on connections is not enforced.
DispatchSlotUnbounded(s) ==
    /\ pc[s] = "dispatch"
    /\ sem' = sem + 1
    /\ conn' = [conn EXCEPT ![accepted[s]] = "slot"]
    /\ Goto(s, "track")
    /\ UNCHANGED <<lifeVars, draining, wg, accepted, cancelled>>

DispatchSlot(s) ==
    /\ pc[s] = "dispatch"
    /\ sem < MaxConnections
    /\ sem' = sem + 1
    /\ conn' = [conn EXCEPT ![accepted[s]] = "slot"]
    /\ Goto(s, "track")
    /\ UNCHANGED <<lifeVars, draining, wg, accepted, cancelled>>

\* Mutant of TrackHandler: the counter is raised whether draining or not.
TrackHandlerAlways(s) ==
    /\ pc[s] = "track"
    /\ wg' = wg + 1
    /\ conn' = [conn EXCEPT ![accepted[s]] = "handled"]
    /\ accepted' = [accepted EXCEPT ![s] = None]
    /\ Goto(s, "loop")
    /\ UNCHANGED <<lifeVars, draining, sem, cancelled>>

\* Mutant of TrackHandler: a refused connection keeps its slot.
TrackHandlerLeaking(s) ==
    /\ pc[s] = "track"
    /\ IF draining
       THEN conn' = [conn EXCEPT ![accepted[s]] = "closed"] /\ UNCHANGED wg
       ELSE conn' = [conn EXCEPT ![accepted[s]] = "handled"] /\ wg' = wg + 1
    /\ accepted' = [accepted EXCEPT ![s] = None]
    /\ Goto(s, "loop")
    /\ UNCHANGED <<lifeVars, draining, sem, cancelled>>

TrackHandler(s) ==
    /\ pc[s] = "track"
    /\ IF draining
       THEN /\ conn' = [conn EXCEPT ![accepted[s]] = "closed"]
            /\ sem' = sem - 1
            /\ UNCHANGED wg
       ELSE /\ conn' = [conn EXCEPT ![accepted[s]] = "handled"]
            /\ wg' = wg + 1
            /\ UNCHANGED sem
    /\ accepted' = [accepted EXCEPT ![s] = None]
    /\ Goto(s, "loop")
    /\ UNCHANGED <<lifeVars, draining, cancelled>>

\* The handler returned or panicked: close the connection, free its slot.
HandlerReturns(c) ==
    /\ conn[c] = "handled"
    /\ conn' = [conn EXCEPT ![c] = "returned"]
    /\ sem' = sem - 1
    /\ UNCHANGED <<lifeVars, draining, wg, accepted, pc, cancelled>>

HandlerDone(c) ==
    /\ conn[c] = "returned"
    /\ conn' = [conn EXCEPT ![c] = "closed"]
    /\ wg' = wg - 1
    /\ UNCHANGED <<lifeVars, draining, sem, accepted, pc, cancelled>>
-----------------------------------------------------------------------------
(***************************************************************************)
(* Shutdown: drain, close the socket, four CASes, wait for the handlers or *)
(* for the deadline.                                                       *)
(***************************************************************************)
ShutdownDrain(x) ==
    /\ pc[x] = "idle"
    /\ draining' = TRUE
    /\ Goto(x, "close")
    /\ UNCHANGED <<lifeVars, wg, sem, conn, accepted, cancelled>>

ShutdownClose(x) ==
    /\ pc[x] = "close"
    /\ CloseSocket
    /\ Goto(x, "Serving")
    /\ UNCHANGED <<state, ln, acceptMu, draining, wg, sem, accepted, cancelled>>

\* Where a caller is while it tries CompareAndSwap(l, StateClosed), in order.
NextCAS == [Serving |-> "Bound", Bound |-> "Binding", Binding |-> "New", New |-> "wait"]

ShutdownCAS(x) ==
    /\ pc[x] \in DOMAIN NextCAS
    /\ state' = IF state = pc[x] THEN "Closed" ELSE state
    /\ Goto(x, NextCAS[pc[x]])
    /\ UNCHANGED <<ln, socket, closed, acceptMu, connVars, cancelled>>

ShutdownDrained(x) ==
    /\ pc[x] = "wait"
    /\ wg = 0
    /\ Goto(x, "drained")
    /\ UNCHANGED <<lifeVars, connVars, cancelled>>

ShutdownExpires(x) ==
    /\ pc[x] = "wait"
    /\ Goto(x, "expired")
    /\ UNCHANGED <<lifeVars, connVars, cancelled>>
-----------------------------------------------------------------------------
\* An agent's connection reaches the accept queue of an open socket.
Connect(c) ==
    /\ conn[c] = "idle"
    /\ Open # {}
    /\ conn' = [conn EXCEPT ![c] = "queued"]
    /\ UNCHANGED <<lifeVars, draining, wg, sem, accepted, pc, cancelled>>

Cancel ==
    /\ ~cancelled
    /\ cancelled' = TRUE
    /\ UNCHANGED <<lifeVars, connVars, pc>>

BindStep(b)   == BindReserve(b) \/ BindListen(b) \/ BindFails(b) \/ BindStore(b) \/ BindPublish(b)
ProbeStep(p)  == ProbeLock(p) \/ ProbeAccept(p) \/ ProbeFails(p)
Dispatch(s)   == DispatchLimited(s) \/ DispatchSlot(s) \/ TrackHandler(s)
ServeStep(s)  == ServeBegin(s) \/ ServeAccept(s) \/ ServeStops(s) \/ ServeCancelled(s) \/ Dispatch(s)
StopStep(x)   == \/ ShutdownDrain(x) \/ ShutdownClose(x) \/ ShutdownCAS(x)
                 \/ ShutdownDrained(x) \/ ShutdownExpires(x)
ConnStep(c)   == Connect(c) \/ HandlerReturns(c) \/ HandlerDone(c)

Next ==
    \/ \E b \in Binders : BindStep(b)
    \/ \E p \in Probers : ProbeStep(p)
    \/ \E s \in Servers : ServeStep(s)
    \/ \E x \in Stoppers : StopStep(x)
    \/ \E c \in Conns : ConnStep(c)
    \/ Cancel

Spec == Init /\ [][Next]_vars

\* The goroutines of the listener run, and Accept returns once its socket is
\* closed.  Nothing is assumed of handlers, agents or the callers' choice to
\* call Shutdown.
Fairness ==
    /\ \A s \in Servers :
         /\ WF_vars(Dispatch(s))
         /\ WF_vars(ServeCancelled(s) /\ pc[s] # "served")
         /\ WF_vars(ServeStops(s) /\ ln \notin Open)
    /\ \A x \in Stoppers :
         WF_vars(ShutdownClose(x) \/ ShutdownCAS(x) \/ ShutdownExpires(x))

LiveSpec == Spec /\ Fairness
-----------------------------------------------------------------------------
TypeOK ==
    /\ state \in {"New", "Binding", "Bound", "Serving", "Closed"}
    /\ ln \in Binders \cup {None}
    /\ socket \in [Binders -> {"none", "open", "closed"}]
    /\ closed \in BOOLEAN
    /\ acceptMu \in Probers \cup {None}
    /\ draining \in BOOLEAN
    /\ wg \in Nat
    /\ sem \in 0 .. MaxConnections
    /\ pc \in [Callers -> {"idle", "listen", "store", "publish", "accept", "loop",
                           "dispatch", "track", "served", "close", "wait", "drained",
                           "expired", "done"} \cup DOMAIN NextCAS]
    /\ accepted \in [Servers -> Conns \cup {None}]
    /\ conn \in [Conns -> {"idle", "queued", "accepted", "slot", "handled", "returned", "closed"}]
    /\ cancelled \in BOOLEAN

Binding == {"listen", "store", "publish"}
Looping == {"loop", "dispatch", "track"}
InFlight == {c \in Conns : conn[c] \in {"handled", "returned"}}
Slotted  == {c \in Conns : conn[c] \in {"slot", "handled"}}

\* Shutdown's nil is a promise for good: once a call returned it, no handler
\* runs and none is started, although Serve may still be dispatching
\* (trackHandler and wg.Wait).
QuietAfterShutdown == (\E x \in Stoppers : pc[x] = "drained") => InFlight = {}

\* AcceptProbe never competes with the accept loop for a connection.
OneAcceptor ==
    \A p \in Probers, s \in Servers :
        pc[p] = "accept" => pc[s] \notin Looping

\* Whoever observes StateBound or StateServing finds a socket in l.ln.
BoundHasSocket == state \in {"Bound", "Serving"} => ln # None

\* Every slot taken is held by one connection on its way through a handler;
\* none is lost when connections are refused while draining.
SlotsHeld == sem = Cardinality(Slotted)

\* The lifecycle behind these properties: who is active in which state.
LifeInv ==
    /\ \A b \in Binders :
         /\ pc[b] \in {"idle", "done"} \cup Binding
         /\ pc[b] \in Binding => state \in {"Binding", "Closed"}
         /\ pc[b] = "publish" => ln = b
    /\ \A a, b \in Binders : pc[a] \in Binding /\ pc[b] \in Binding => a = b
    /\ \A p \in Probers :
         /\ pc[p] \in {"idle", "accept", "done"}
         /\ pc[p] = "accept" => acceptMu = p /\ state \in {"Bound", "Closed"}
    /\ \A s \in Servers :
         /\ pc[s] \in {"idle", "done", "served"} \cup Looping
         /\ pc[s] \in Looping => state \in {"Serving", "Closed"}
    /\ \A r, s \in Servers : pc[r] \in Looping /\ pc[s] \in Looping => r = s

\* The accept loop has at most one connection in hand, the WaitGroup counts the
\* handlers in flight, and who is past the first step of Shutdown has set draining.
HandInv ==
    /\ \A s \in Servers :
         /\ pc[s] = "dispatch" => accepted[s] \in Conns /\ conn[accepted[s]] = "accepted"
         /\ pc[s] = "track" => accepted[s] \in Conns /\ conn[accepted[s]] = "slot"
    /\ wg = Cardinality(InFlight)
    /\ \A x \in Stoppers : pc[x] # "idle" => draining

\* The inductive invariant of the listener.
IInv ==
    /\ TypeOK /\ LifeInv /\ HandInv
    /\ QuietAfterShutdown /\ OneAcceptor /\ BoundHasSocket /\ SlotsHeld

\* StateClosed is final: a Bind that fails late must not bring the listener back.
ClosedIsFinal == [][state = "Closed" => state' = "Closed"]_vars

\* A cancelled context or a Shutdown ends an accept loop, whatever the agents
\* and the handlers do, unless closeSocket ran before there was a socket.
ServeEnds ==
    \A s \in Servers :
        (cancelled \/ draining) /\ ~closed /\ pc[s] = "loop" ~> pc[s] = "served"

\* Shutdown's comment: it "closes the listening socket" and is "safe to call
\* before Bind or Serve"; Bind's: "Close the socket this call just opened
\* rather than leaking it".  It does not hold: a Shutdown that runs its
\* closeSocket before Bind stores the socket has used up the Once, and its
\* CASes can miss StateBinding.
SocketReleased ==
    /\ \E x \in Stoppers : pc[x] = "drained"
    /\ \A b \in Binders : pc[b] \in {"idle", "done"}
    => Open = {}
=============================================================================
