--------------------------- MODULE ListenerProofs ---------------------------
(***************************************************************************)
(* Proofs about Listener, for any number of callers and connections.  IInv *)
(* is inductive: LifeInv says who can be active in which lifecycle state,  *)
(* HandInv ties the WaitGroup and the dispatcher's hand to the states of   *)
(* the connections.  Without them neither QuietAfterShutdown (the counter  *)
(* could miss a handler) nor SlotsHeld (a slot could be returned twice)    *)
(* is preserved by a step.                                                 *)
(***************************************************************************)
EXTENDS Listener, FiniteSetTheorems, TLAPS

\* One element more, or one less, in a set of connections.
LEMMA Counting ==
  ASSUME NEW S \in SUBSET Conns, NEW c \in Conns
  PROVE  /\ Cardinality(S) \in Nat
         /\ c \notin S => Cardinality(S \cup {c}) = Cardinality(S) + 1
         /\ c \in S => Cardinality(S) > 0 /\ Cardinality(S \ {c}) = Cardinality(S) - 1
         /\ c \notin S => S \ {c} = S
         /\ c \in S => S \cup {c} = S
<1>1. IsFiniteSet(S)
  BY Zenon, ListenerAssumption, FS_Subset
<1>2. Cardinality(S) \in Nat
  BY Zenon, <1>1, FS_CardinalityType
<1>3. IsFiniteSet(S \ {c}) /\ Cardinality(S \ {c}) \in Nat
  BY Zenon, <1>1, FS_RemoveElement, FS_CardinalityType
<1>4. c \notin S => Cardinality(S \cup {c}) = Cardinality(S) + 1
  BY Zenon, <1>1, FS_AddElement
<1>5. c \in S => Cardinality(S \ {c}) = Cardinality(S) - 1
  BY Zenon, <1>1, FS_RemoveElement
<1> QED
  BY <1>2, <1>3, <1>4, <1>5

\* What moving one connection does to the two sets that are counted.
LEMMA Moved ==
  ASSUME TypeOK, NEW c \in Conns, NEW v, conn' = [conn EXCEPT ![c] = v]
  PROVE  /\ InFlight' = IF v \in {"handled", "returned"} THEN InFlight \cup {c} ELSE InFlight \ {c}
         /\ Slotted' = IF v \in {"slot", "handled"} THEN Slotted \cup {c} ELSE Slotted \ {c}
         /\ conn'[c] = v
         /\ \A d \in Conns : d # c => conn'[d] = conn[d]
<1>1. conn'[c] = v /\ \A d \in Conns : d # c => conn'[d] = conn[d]
  BY Zenon DEF TypeOK
<1> QED
  BY <1>1, Zenon DEF InFlight, Slotted

\* Closing a socket moves only connections that nobody counts.
LEMMA Reset ==
  ASSUME TypeOK, conn' = [c \in Conns |-> IF conn[c] = "queued" THEN "closed" ELSE conn[c]]
  PROVE  /\ InFlight' = InFlight /\ Slotted' = Slotted
         /\ \A c \in Conns : conn[c] # "queued" => conn'[c] = conn[c]
<1>1. \A c \in Conns : conn'[c] = IF conn[c] = "queued" THEN "closed" ELSE conn[c]
  BY Zenon
<1> QED
  BY <1>1, Zenon DEF InFlight, Slotted

\* Only the caller that takes a step moves.
LEMMA Going ==
  ASSUME TypeOK, NEW p \in Callers, NEW l, Goto(p, l)
  PROVE  /\ pc'[p] = l
         /\ \A q \in Callers : q # p => pc'[q] = pc[q]
  BY Zenon DEF TypeOK, Goto

\* The four attempts of Shutdown and their order.
LEMMA Attempts ==
  /\ DOMAIN NextCAS = {"Serving", "Bound", "Binding", "New"}
  /\ NextCAS["Serving"] = "Bound" /\ NextCAS["Bound"] = "Binding"
  /\ NextCAS["Binding"] = "New" /\ NextCAS["New"] = "wait"
  BY Zenon DEF NextCAS
-----------------------------------------------------------------------------
\* The two bounds on counters: a slot or a count given back was there.
LEMMA CountersBounded ==
  ASSUME IInv
  PROVE  /\ \A c \in Slotted : sem - 1 \in 0 .. MaxConnections
         /\ \A c \in InFlight : wg - 1 \in Nat
<1>1. InFlight \in SUBSET Conns /\ Slotted \in SUBSET Conns
  BY Zenon DEF InFlight, Slotted
<1>2. \A c \in Slotted : Cardinality(Slotted) > 0
  BY Zenon, <1>1, Counting
<1>3. \A c \in InFlight : Cardinality(InFlight) > 0
  BY Zenon, <1>1, Counting
<1> QED
  BY <1>2, <1>3, ListenerAssumption DEF IInv, TypeOK, HandInv, SlotsHeld

LEMMA TypeStep ==
  ASSUME IInv, [Next]_vars
  PROVE  TypeOK'
<1> USE DEF TypeOK, lifeVars, connVars
<1>0. TypeOK
  BY Zenon DEF IInv
<1>1. ASSUME NEW b \in Binders, BindReserve(b) PROVE TypeOK'
  BY <1>1, <1>0, Zenon DEF BindReserve, Goto, Callers
<1>2. ASSUME NEW b \in Binders, BindListen(b) PROVE TypeOK'
  BY <1>2, <1>0, Zenon DEF BindListen, Goto, Callers
<1>3. ASSUME NEW b \in Binders, BindFails(b) PROVE TypeOK'
  BY <1>3, <1>0, Zenon DEF BindFails, Goto, Callers
<1>4. ASSUME NEW b \in Binders, BindStore(b) PROVE TypeOK'
  BY <1>4, <1>0, Zenon DEF BindStore, Goto, Callers
<1>5. ASSUME NEW b \in Binders, BindPublish(b) PROVE TypeOK'
  BY <1>5, <1>0, Zenon DEF BindPublish, Goto, Callers, Close
<1>6. ASSUME NEW p \in Probers, ProbeLock(p) PROVE TypeOK'
  BY <1>6, <1>0, Zenon DEF ProbeLock, Goto, Callers
<1>7. ASSUME NEW p \in Probers, ProbeAccept(p) PROVE TypeOK'
  BY <1>7, <1>0, Zenon DEF ProbeAccept, Goto, Callers
<1>8. ASSUME NEW p \in Probers, ProbeFails(p) PROVE TypeOK'
  BY <1>8, <1>0, Zenon DEF ProbeFails, Goto, Callers
<1>9. ASSUME NEW s \in Servers, ServeBegin(s) PROVE TypeOK'
  BY <1>9, <1>0, Zenon DEF ServeBegin, Goto, Callers
<1>10. ASSUME NEW s \in Servers, ServeAccept(s) PROVE TypeOK'
  BY <1>10, <1>0, Zenon DEF ServeAccept, Goto, Callers
<1>11. ASSUME NEW s \in Servers, ServeStops(s) PROVE TypeOK'
  BY <1>11, <1>0, Zenon DEF ServeStops, Goto, Callers
<1>12. ASSUME NEW s \in Servers, ServeCancelled(s) PROVE TypeOK'
  BY <1>12, <1>0, Zenon DEF ServeCancelled, Goto, Callers, CloseSocket, Close
<1>13. ASSUME NEW s \in Servers, DispatchLimited(s) PROVE TypeOK'
  BY <1>13, <1>0, Zenon DEF DispatchLimited, Goto, Callers
<1>14. ASSUME NEW s \in Servers, DispatchSlot(s) PROVE TypeOK'
  <2>1. sem' \in 0 .. MaxConnections /\ wg' \in Nat
    BY <1>14, <1>0, CountersBounded, ListenerAssumption DEF DispatchSlot, IInv, HandInv, Slotted, InFlight
  <2> QED
    BY <1>14, <1>0, <2>1, Zenon DEF DispatchSlot, Goto, Callers
<1>15. ASSUME NEW s \in Servers, TrackHandler(s) PROVE TypeOK'
  <2>1. sem' \in 0 .. MaxConnections /\ wg' \in Nat
    BY <1>15, <1>0, CountersBounded, ListenerAssumption DEF TrackHandler, IInv, HandInv, Slotted, InFlight
  <2> QED
    BY <1>15, <1>0, <2>1, Zenon DEF TrackHandler, Goto, Callers
<1>16. ASSUME NEW x \in Stoppers, ShutdownDrain(x) PROVE TypeOK'
  BY <1>16, <1>0, Zenon DEF ShutdownDrain, Goto, Callers
<1>17. ASSUME NEW x \in Stoppers, ShutdownClose(x) PROVE TypeOK'
  <2>1. /\ socket' \in [Binders -> {"none", "open", "closed"}] /\ closed' \in BOOLEAN
        /\ conn' \in [Conns -> {"idle", "queued", "accepted", "slot", "handled", "returned", "closed"}]
    BY <1>17, <1>0, Zenon DEF ShutdownClose, CloseSocket, Close
  <2>2. "Serving" \in DOMAIN NextCAS
    BY Zenon, Attempts
  <2> QED
    BY <1>17, <1>0, <2>1, <2>2, Zenon DEF ShutdownClose, Goto, Callers
<1>18. ASSUME NEW x \in Stoppers, ShutdownCAS(x) PROVE TypeOK'
  BY <1>18, <1>0, Attempts, Zenon DEF ShutdownCAS, Goto, Callers
<1>19. ASSUME NEW x \in Stoppers, ShutdownDrained(x) PROVE TypeOK'
  BY <1>19, <1>0, Zenon DEF ShutdownDrained, Goto, Callers
<1>20. ASSUME NEW x \in Stoppers, ShutdownExpires(x) PROVE TypeOK'
  BY <1>20, <1>0, Zenon DEF ShutdownExpires, Goto, Callers
<1>21. ASSUME NEW c \in Conns, Connect(c) PROVE TypeOK'
  BY <1>21, <1>0, Zenon DEF Connect, Goto, Callers
<1>22. ASSUME NEW c \in Conns, HandlerReturns(c) PROVE TypeOK'
  <2>1. sem' \in 0 .. MaxConnections /\ wg' \in Nat
    BY <1>22, <1>0, CountersBounded, ListenerAssumption, Zenon DEF HandlerReturns, IInv, HandInv, Slotted, InFlight
  <2> QED
    BY <1>22, <1>0, <2>1, Zenon DEF HandlerReturns, Goto, Callers
<1>23. ASSUME NEW c \in Conns, HandlerDone(c) PROVE TypeOK'
  <2>1. sem' \in 0 .. MaxConnections /\ wg' \in Nat
    BY <1>23, <1>0, CountersBounded, ListenerAssumption, Zenon DEF HandlerDone, IInv, HandInv, Slotted, InFlight
  <2> QED
    BY <1>23, <1>0, <2>1, Zenon DEF HandlerDone, Goto, Callers
<1>24. CASE Cancel
  BY <1>24, <1>0, Zenon DEF Cancel
<1>25. CASE UNCHANGED vars
  BY <1>25, <1>0, Zenon DEF vars
<1> QED
  BY Zenon, <1>1, <1>2, <1>3, <1>4, <1>5, <1>6, <1>7, <1>8, <1>9, <1>10, <1>11, <1>12, <1>13, <1>14, <1>15, <1>16, <1>17, <1>18, <1>19, <1>20, <1>21, <1>22, <1>23, <1>24, <1>25
     DEF Next, BindStep, ProbeStep, ServeStep, Dispatch, StopStep, ConnStep
-----------------------------------------------------------------------------
\* Callers of different operations are different processes.
LEMMA Apart ==
  /\ \A b \in Binders : b \in Callers /\ b \notin Probers /\ b \notin Servers /\ b \notin Stoppers
  /\ \A p \in Probers : p \in Callers /\ p \notin Binders /\ p \notin Servers /\ p \notin Stoppers
  /\ \A s \in Servers : s \in Callers /\ s \notin Binders /\ s \notin Probers /\ s \notin Stoppers
  /\ \A x \in Stoppers : x \in Callers /\ x \notin Binders /\ x \notin Probers /\ x \notin Servers
  BY ListenerAssumption, Zenon DEF Callers

Lifecycle == LifeInv /\ OneAcceptor /\ BoundHasSocket

LEMMA LifeStep ==
  ASSUME IInv, [Next]_vars
  PROVE  Lifecycle'
<1> USE DEF Lifecycle, LifeInv, OneAcceptor, BoundHasSocket, Binding, Looping, lifeVars, connVars
<1>0. TypeOK /\ Lifecycle
  BY Zenon DEF IInv
<1>a. /\ \A b \in Binders : b \in Callers
      /\ \A p \in Probers : p \in Callers
      /\ \A s \in Servers : s \in Callers
  BY Zenon, Apart
<1>1. ASSUME NEW b \in Binders, BindReserve(b) PROVE Lifecycle'
  <2>1. \A q \in Callers : q # b => pc'[q] = pc[q]
    BY <1>1, <1>0, Apart, Going, Zenon DEF BindReserve
  <2> QED
    BY <1>1, <1>0, <1>a, <2>1, Apart, Going, ListenerAssumption DEF BindReserve, TypeOK
<1>2. ASSUME NEW b \in Binders, BindListen(b) PROVE Lifecycle'
  <2>1. \A q \in Callers : q # b => pc'[q] = pc[q]
    BY <1>2, <1>0, Apart, Going, Zenon DEF BindListen
  <2> QED
    BY <1>2, <1>0, <1>a, <2>1, Apart, Going, ListenerAssumption DEF BindListen, TypeOK
<1>3. ASSUME NEW b \in Binders, BindFails(b) PROVE Lifecycle'
  <2>1. \A q \in Callers : q # b => pc'[q] = pc[q]
    BY <1>3, <1>0, Apart, Going, Zenon DEF BindFails
  <2> QED
    BY <1>3, <1>0, <1>a, <2>1, Apart, Going, ListenerAssumption DEF BindFails, TypeOK
<1>4. ASSUME NEW b \in Binders, BindStore(b) PROVE Lifecycle'
  <2>1. \A q \in Callers : q # b => pc'[q] = pc[q]
    BY <1>4, <1>0, Apart, Going, Zenon DEF BindStore
  <2> QED
    BY <1>4, <1>0, <1>a, <2>1, Apart, Going, ListenerAssumption DEF BindStore, TypeOK
<1>5. ASSUME NEW b \in Binders, BindPublish(b) PROVE Lifecycle'
  <2>1. \A q \in Callers : q # b => pc'[q] = pc[q]
    BY <1>5, <1>0, Apart, Going, Zenon DEF BindPublish
  <2> QED
    BY <1>5, <1>0, <1>a, <2>1, Apart, Going, ListenerAssumption DEF BindPublish, TypeOK
<1>6. ASSUME NEW p \in Probers, ProbeLock(p) PROVE Lifecycle'
  <2>1. \A q \in Callers : q # p => pc'[q] = pc[q]
    BY <1>6, <1>0, Apart, Going, Zenon DEF ProbeLock
  <2> QED
    BY <1>6, <1>0, <1>a, <2>1, Apart, Going, ListenerAssumption DEF ProbeLock, TypeOK
<1>7. ASSUME NEW p \in Probers, ProbeAccept(p) PROVE Lifecycle'
  <2>1. \A q \in Callers : q # p => pc'[q] = pc[q]
    BY <1>7, <1>0, Apart, Going, Zenon DEF ProbeAccept
  <2> QED
    BY <1>7, <1>0, <1>a, <2>1, Apart, Going, ListenerAssumption DEF ProbeAccept, TypeOK
<1>8. ASSUME NEW p \in Probers, ProbeFails(p) PROVE Lifecycle'
  <2>1. \A q \in Callers : q # p => pc'[q] = pc[q]
    BY <1>8, <1>0, Apart, Going, Zenon DEF ProbeFails
  <2> QED
    BY <1>8, <1>0, <1>a, <2>1, Apart, Going, ListenerAssumption DEF ProbeFails, TypeOK
<1>9. ASSUME NEW s \in Servers, ServeBegin(s) PROVE Lifecycle'
  <2>1. \A q \in Callers : q # s => pc'[q] = pc[q]
    BY <1>9, <1>0, Apart, Going, Zenon DEF ServeBegin
  <2> QED
    BY <1>9, <1>0, <1>a, <2>1, Apart, Going, ListenerAssumption DEF ServeBegin, TypeOK
<1>10. ASSUME NEW s \in Servers, ServeAccept(s) PROVE Lifecycle'
  <2>1. \A q \in Callers : q # s => pc'[q] = pc[q]
    BY <1>10, <1>0, Apart, Going, Zenon DEF ServeAccept
  <2> QED
    BY <1>10, <1>0, <1>a, <2>1, Apart, Going, ListenerAssumption DEF ServeAccept, TypeOK
<1>11. ASSUME NEW s \in Servers, ServeStops(s) PROVE Lifecycle'
  <2>1. \A q \in Callers : q # s => pc'[q] = pc[q]
    BY <1>11, <1>0, Apart, Going, Zenon DEF ServeStops
  <2> QED
    BY <1>11, <1>0, <1>a, <2>1, Apart, Going, ListenerAssumption DEF ServeStops, TypeOK
<1>12. ASSUME NEW s \in Servers, ServeCancelled(s) PROVE Lifecycle'
  BY <1>12, <1>0, Zenon DEF ServeCancelled
<1>13. ASSUME NEW s \in Servers, DispatchLimited(s) PROVE Lifecycle'
  <2>1. \A q \in Callers : q # s => pc'[q] = pc[q]
    BY <1>13, <1>0, Apart, Going, Zenon DEF DispatchLimited
  <2> QED
    BY <1>13, <1>0, <1>a, <2>1, Apart, Going, ListenerAssumption DEF DispatchLimited, TypeOK
<1>14. ASSUME NEW s \in Servers, DispatchSlot(s) PROVE Lifecycle'
  <2>1. \A q \in Callers : q # s => pc'[q] = pc[q]
    BY <1>14, <1>0, Apart, Going, Zenon DEF DispatchSlot
  <2> QED
    BY <1>14, <1>0, <1>a, <2>1, Apart, Going, ListenerAssumption DEF DispatchSlot, TypeOK
<1>15. ASSUME NEW s \in Servers, TrackHandler(s) PROVE Lifecycle'
  <2>1. \A q \in Callers : q # s => pc'[q] = pc[q]
    BY <1>15, <1>0, Apart, Going, Zenon DEF TrackHandler
  <2> QED
    BY <1>15, <1>0, <1>a, <2>1, Apart, Going, ListenerAssumption DEF TrackHandler, TypeOK
<1>16. ASSUME NEW x \in Stoppers, ShutdownDrain(x) PROVE Lifecycle'
  <2>1. \A q \in Callers : q # x => pc'[q] = pc[q]
    BY <1>16, <1>0, Apart, Going, Zenon DEF ShutdownDrain
  <2> QED
    BY <1>16, <1>0, <1>a, <2>1, Apart, Going, ListenerAssumption DEF ShutdownDrain, TypeOK
<1>17. ASSUME NEW x \in Stoppers, ShutdownClose(x) PROVE Lifecycle'
  <2>1. \A q \in Callers : q # x => pc'[q] = pc[q]
    BY <1>17, <1>0, Apart, Going, Zenon DEF ShutdownClose
  <2> QED
    BY <1>17, <1>0, <1>a, <2>1, Apart, Going, ListenerAssumption DEF ShutdownClose, TypeOK
<1>18. ASSUME NEW x \in Stoppers, ShutdownCAS(x) PROVE Lifecycle'
  <2>1. \A q \in Callers : q # x => pc'[q] = pc[q]
    BY <1>18, <1>0, Apart DEF ShutdownCAS, Goto, TypeOK
  <2> QED
    BY <1>18, <1>0, <1>a, <2>1, Apart, Going, ListenerAssumption DEF ShutdownCAS, TypeOK
<1>19. ASSUME NEW x \in Stoppers, ShutdownDrained(x) PROVE Lifecycle'
  <2>1. \A q \in Callers : q # x => pc'[q] = pc[q]
    BY <1>19, <1>0, Apart, Going, Zenon DEF ShutdownDrained
  <2> QED
    BY <1>19, <1>0, <1>a, <2>1, Apart, Going, ListenerAssumption DEF ShutdownDrained, TypeOK
<1>20. ASSUME NEW x \in Stoppers, ShutdownExpires(x) PROVE Lifecycle'
  <2>1. \A q \in Callers : q # x => pc'[q] = pc[q]
    BY <1>20, <1>0, Apart, Going, Zenon DEF ShutdownExpires
  <2> QED
    BY <1>20, <1>0, <1>a, <2>1, Apart, Going, ListenerAssumption DEF ShutdownExpires, TypeOK
<1>21. ASSUME NEW c \in Conns, Connect(c) PROVE Lifecycle'
  BY <1>21, <1>0, Zenon DEF Connect
<1>22. ASSUME NEW c \in Conns, HandlerReturns(c) PROVE Lifecycle'
  BY <1>22, <1>0, Zenon DEF HandlerReturns
<1>23. ASSUME NEW c \in Conns, HandlerDone(c) PROVE Lifecycle'
  BY <1>23, <1>0, Zenon DEF HandlerDone
<1>24. CASE Cancel
  BY <1>24, <1>0, Zenon DEF Cancel
<1>25. CASE UNCHANGED vars
  BY <1>25, <1>0, Zenon DEF vars
<1> QED
  BY Zenon, <1>1, <1>2, <1>3, <1>4, <1>5, <1>6, <1>7, <1>8, <1>9, <1>10, <1>11, <1>12, <1>13, <1>14, <1>15, <1>16, <1>17, <1>18, <1>19, <1>20, <1>21, <1>22, <1>23, <1>24, <1>25
     DEF Next, BindStep, ProbeStep, ServeStep, Dispatch, StopStep, ConnStep
-----------------------------------------------------------------------------
\* The connections in somebody's hand, and the counters that follow them.
Hand(s) ==
  /\ pc[s] = "dispatch" => accepted[s] \in Conns /\ conn[accepted[s]] = "accepted"
  /\ pc[s] = "track" => accepted[s] \in Conns /\ conn[accepted[s]] = "slot"

Counts == wg = Cardinality(InFlight) /\ SlotsHeld

LEMMA CountStep ==
  ASSUME IInv, [Next]_vars
  PROVE  Counts'
<1>0. TypeOK /\ Counts /\ (\A s \in Servers : Hand(s))
  BY Zenon DEF IInv, HandInv, Counts, Hand
<1>1. InFlight \in SUBSET Conns /\ Slotted \in SUBSET Conns
  BY Zenon DEF InFlight, Slotted
<1>2. InFlight' = InFlight /\ Slotted' = Slotted /\ wg' = wg /\ sem' = sem => Counts'
  BY <1>0, Zenon DEF Counts, SlotsHeld
<1>3. UNCHANGED conn => InFlight' = InFlight /\ Slotted' = Slotted
  BY Zenon DEF InFlight, Slotted
<1>4. ASSUME NEW b \in Binders, BindReserve(b) PROVE Counts'
  BY <1>4, <1>2, <1>3, Zenon DEF BindReserve, lifeVars, connVars
<1>5. ASSUME NEW b \in Binders, BindListen(b) PROVE Counts'
  BY <1>5, <1>2, <1>3, Zenon DEF BindListen, lifeVars, connVars
<1>6. ASSUME NEW b \in Binders, BindFails(b) PROVE Counts'
  BY <1>6, <1>2, <1>3, Zenon DEF BindFails, lifeVars, connVars
<1>7. ASSUME NEW b \in Binders, BindStore(b) PROVE Counts'
  BY <1>7, <1>2, <1>3, Zenon DEF BindStore, lifeVars, connVars
<1>8. ASSUME NEW b \in Binders, BindPublish(b) PROVE Counts'
  BY <1>8, <1>0, <1>2, <1>3, Reset, Zenon DEF BindPublish, Close, lifeVars, connVars
<1>9. ASSUME NEW p \in Probers, ProbeLock(p) PROVE Counts'
  BY <1>9, <1>2, <1>3, Zenon DEF ProbeLock, lifeVars, connVars
<1>10. ASSUME NEW p \in Probers, ProbeAccept(p) PROVE Counts'
  <2>1. PICK c \in Conns : conn[c] = "queued" /\ conn' = [conn EXCEPT ![c] = "closed"]
    BY <1>10, Zenon DEF ProbeAccept
  <2>2. InFlight' = InFlight /\ Slotted' = Slotted
    BY <2>1, <1>0, Moved, Zenon DEF InFlight, Slotted
  <2> QED
    BY <1>10, <1>2, <2>2, Zenon DEF ProbeAccept, lifeVars
<1>11. ASSUME NEW p \in Probers, ProbeFails(p) PROVE Counts'
  BY <1>11, <1>2, <1>3, Zenon DEF ProbeFails, lifeVars, connVars
<1>12. ASSUME NEW s \in Servers, ServeBegin(s) PROVE Counts'
  BY <1>12, <1>2, <1>3, Zenon DEF ServeBegin, lifeVars, connVars
<1>13. ASSUME NEW s \in Servers, ServeAccept(s) PROVE Counts'
  <2>1. PICK c \in Conns : conn[c] = "queued" /\ conn' = [conn EXCEPT ![c] = "accepted"]
    BY <1>13, Zenon DEF ServeAccept
  <2>2. InFlight' = InFlight /\ Slotted' = Slotted
    BY <2>1, <1>0, Moved, Zenon DEF InFlight, Slotted
  <2> QED
    BY <1>13, <1>2, <2>2, Zenon DEF ServeAccept, lifeVars
<1>14. ASSUME NEW s \in Servers, ServeStops(s) PROVE Counts'
  BY <1>14, <1>2, <1>3, Zenon DEF ServeStops, lifeVars, connVars
<1>15. ASSUME NEW s \in Servers, ServeCancelled(s) PROVE Counts'
  BY <1>15, <1>0, <1>2, <1>3, Reset, Zenon DEF ServeCancelled, CloseSocket, Close, lifeVars, connVars
<1>16. ASSUME NEW s \in Servers, DispatchLimited(s) PROVE Counts'
  <2> DEFINE c == accepted[s]
  <2>1. c \in Conns /\ conn[c] = "accepted" /\ conn' = [conn EXCEPT ![c] = "closed"]
    BY <1>16, <1>0, Zenon DEF DispatchLimited, Hand
  <2> HIDE DEF c
  <2>2. InFlight' = InFlight /\ Slotted' = Slotted
    BY <2>1, <1>0, Moved, Zenon DEF InFlight, Slotted
  <2> QED
    BY <1>16, <1>2, <2>2, Zenon DEF DispatchLimited, lifeVars
<1>17. ASSUME NEW s \in Servers, DispatchSlot(s) PROVE Counts'
  <2> DEFINE c == accepted[s]
  <2>1. c \in Conns /\ conn[c] = "accepted" /\ conn' = [conn EXCEPT ![c] = "slot"]
    BY <1>17, <1>0, Zenon DEF DispatchSlot, Hand
  <2> HIDE DEF c
  <2>2. InFlight' = InFlight /\ Slotted' = Slotted \cup {c} /\ c \notin Slotted
    BY <2>1, <1>0, Moved, Zenon DEF InFlight, Slotted
  <2> QED
    BY <1>17, <1>0, <1>1, <2>1, <2>2, Counting, Zenon DEF DispatchSlot, Counts, SlotsHeld, TypeOK
<1>18. ASSUME NEW s \in Servers, TrackHandler(s) PROVE Counts'
  <2> DEFINE c == accepted[s]
  <2>1. c \in Conns /\ conn[c] = "slot"
    BY <1>18, <1>0, Zenon DEF TrackHandler, Hand
  <2>2. CASE draining
    <3>1. conn' = [conn EXCEPT ![c] = "closed"] /\ sem' = sem - 1 /\ wg' = wg
      BY <1>18, <2>2, Zenon DEF TrackHandler
    <3> HIDE DEF c
    <3>2. InFlight' = InFlight /\ Slotted' = Slotted \ {c} /\ c \in Slotted
      BY <2>1, <3>1, <1>0, Moved, Zenon DEF InFlight, Slotted
    <3> QED
      BY <1>0, <1>1, <2>1, <3>1, <3>2, Counting, Zenon DEF Counts, SlotsHeld
  <2>3. CASE ~draining
    <3>1. conn' = [conn EXCEPT ![c] = "handled"] /\ wg' = wg + 1 /\ sem' = sem
      BY <1>18, <2>3, Zenon DEF TrackHandler
    <3> HIDE DEF c
    <3>2. InFlight' = InFlight \cup {c} /\ Slotted' = Slotted /\ c \notin InFlight
      BY <2>1, <3>1, <1>0, Moved, Zenon DEF InFlight, Slotted
    <3> QED
      BY <1>0, <1>1, <2>1, <3>1, <3>2, Counting, Zenon DEF Counts, SlotsHeld
  <2> QED
    BY <2>2, <2>3, Zenon
<1>19. ASSUME NEW x \in Stoppers, ShutdownDrain(x) PROVE Counts'
  BY <1>19, <1>2, <1>3, Zenon DEF ShutdownDrain, lifeVars, connVars
<1>20. ASSUME NEW x \in Stoppers, ShutdownClose(x) PROVE Counts'
  BY <1>20, <1>0, <1>2, <1>3, Reset, Zenon DEF ShutdownClose, CloseSocket, Close, lifeVars, connVars
<1>21. ASSUME NEW x \in Stoppers, ShutdownCAS(x) PROVE Counts'
  BY <1>21, <1>2, <1>3, Zenon DEF ShutdownCAS, lifeVars, connVars
<1>22. ASSUME NEW x \in Stoppers, ShutdownDrained(x) PROVE Counts'
  BY <1>22, <1>2, <1>3, Zenon DEF ShutdownDrained, lifeVars, connVars
<1>23. ASSUME NEW x \in Stoppers, ShutdownExpires(x) PROVE Counts'
  BY <1>23, <1>2, <1>3, Zenon DEF ShutdownExpires, lifeVars, connVars
<1>24. ASSUME NEW c \in Conns, Connect(c) PROVE Counts'
  <2>1. conn[c] = "idle" /\ conn' = [conn EXCEPT ![c] = "queued"]
    BY <1>24, Zenon DEF Connect
  <2>2. InFlight' = InFlight /\ Slotted' = Slotted
    BY <2>1, <1>0, Moved, Zenon DEF InFlight, Slotted
  <2> QED
    BY <1>24, <1>2, <2>2, Zenon DEF Connect, lifeVars
<1>25. ASSUME NEW c \in Conns, HandlerReturns(c) PROVE Counts'
  <2>1. c \in Conns /\ conn[c] = "handled" /\ conn' = [conn EXCEPT ![c] = "returned"]
    BY <1>25, <1>0, Zenon DEF HandlerReturns, Hand
  <2>2. InFlight' = InFlight /\ Slotted' = Slotted \ {c} /\ c \in Slotted
    BY <2>1, <1>0, Moved, Zenon DEF InFlight, Slotted
  <2> QED
    BY <1>25, <1>0, <1>1, <2>1, <2>2, Counting, Zenon DEF HandlerReturns, Counts, SlotsHeld, TypeOK
<1>26. ASSUME NEW c \in Conns, HandlerDone(c) PROVE Counts'
  <2>1. c \in Conns /\ conn[c] = "returned" /\ conn' = [conn EXCEPT ![c] = "closed"]
    BY <1>26, <1>0, Zenon DEF HandlerDone, Hand
  <2>2. InFlight' = InFlight \ {c} /\ Slotted' = Slotted /\ c \in InFlight
    BY <2>1, <1>0, Moved, Zenon DEF InFlight, Slotted
  <2> QED
    BY <1>26, <1>0, <1>1, <2>1, <2>2, Counting, Zenon DEF HandlerDone, Counts, SlotsHeld, TypeOK
<1>27. CASE Cancel
  BY <1>27, <1>2, <1>3, Zenon DEF Cancel, connVars
<1>28. CASE UNCHANGED vars
  BY <1>28, <1>2, <1>3, Zenon DEF vars, connVars
<1> QED
  BY Zenon, <1>4, <1>5, <1>6, <1>7, <1>8, <1>9, <1>10, <1>11, <1>12, <1>13, <1>14, <1>15, <1>16, <1>17, <1>18, <1>19, <1>20, <1>21, <1>22, <1>23, <1>24, <1>25, <1>26, <1>27, <1>28
     DEF Next, BindStep, ProbeStep, ServeStep, Dispatch, StopStep, ConnStep

\* A server that takes no step keeps what it has in its hand: nobody else
\* moves a connection that is accepted or has a slot and no handler yet.
HandKept ==
  \A r \in Servers :
     /\ pc'[r] = pc[r] /\ accepted'[r] = accepted[r]
     /\ accepted[r] \in Conns /\ conn[accepted[r]] \in {"accepted", "slot"}
           => conn'[accepted[r]] = conn[accepted[r]]

LEMMA HandStep ==
  ASSUME IInv, [Next]_vars
  PROVE  \A r \in Servers : Hand(r)'
<1>0. TypeOK /\ LifeInv /\ (\A r \in Servers : Hand(r))
  BY Zenon DEF IInv, HandInv, Hand
<1>1. ASSUME HandKept PROVE \A r \in Servers : Hand(r)'
  BY <1>0, <1>1, Zenon DEF HandKept, Hand
<1>2. \A r \in Servers : r \in Callers /\ r \notin Binders /\ r \notin Probers /\ r \notin Stoppers
  BY Apart, Zenon
<1>3. ASSUME NEW b \in Binders, BindReserve(b) PROVE \A r \in Servers : Hand(r)'
  <2>1. \A r \in Servers : pc'[r] = pc[r]
    BY <1>3, <1>0, <1>2, Apart, Zenon DEF BindReserve, Goto, TypeOK
  <2>2. \A c2 \in Conns : conn[c2] \in {"accepted", "slot"} => conn'[c2] = conn[c2]
    BY <1>3, <1>0, Zenon DEF BindReserve, lifeVars, connVars, TypeOK
  <2> QED
    BY <1>3, <1>1, <2>1, <2>2, Zenon DEF BindReserve, HandKept, lifeVars, connVars
<1>4. ASSUME NEW b \in Binders, BindListen(b) PROVE \A r \in Servers : Hand(r)'
  <2>1. \A r \in Servers : pc'[r] = pc[r]
    BY <1>4, <1>0, <1>2, Apart, Zenon DEF BindListen, Goto, TypeOK
  <2>2. \A c2 \in Conns : conn[c2] \in {"accepted", "slot"} => conn'[c2] = conn[c2]
    BY <1>4, <1>0, Zenon DEF BindListen, lifeVars, connVars, TypeOK
  <2> QED
    BY <1>4, <1>1, <2>1, <2>2, Zenon DEF BindListen, HandKept, lifeVars, connVars
<1>5. ASSUME NEW b \in Binders, BindFails(b) PROVE \A r \in Servers : Hand(r)'
  <2>1. \A r \in Servers : pc'[r] = pc[r]
    BY <1>5, <1>0, <1>2, Apart, Zenon DEF BindFails, Goto, TypeOK
  <2>2. \A c2 \in Conns : conn[c2] \in {"accepted", "slot"} => conn'[c2] = conn[c2]
    BY <1>5, <1>0, Zenon DEF BindFails, lifeVars, connVars, TypeOK
  <2> QED
    BY <1>5, <1>1, <2>1, <2>2, Zenon DEF BindFails, HandKept, lifeVars, connVars
<1>6. ASSUME NEW b \in Binders, BindStore(b) PROVE \A r \in Servers : Hand(r)'
  <2>1. \A r \in Servers : pc'[r] = pc[r]
    BY <1>6, <1>0, <1>2, Apart, Zenon DEF BindStore, Goto, TypeOK
  <2>2. \A c2 \in Conns : conn[c2] \in {"accepted", "slot"} => conn'[c2] = conn[c2]
    BY <1>6, <1>0, Zenon DEF BindStore, lifeVars, connVars, TypeOK
  <2> QED
    BY <1>6, <1>1, <2>1, <2>2, Zenon DEF BindStore, HandKept, lifeVars, connVars
<1>7. ASSUME NEW b \in Binders, BindPublish(b) PROVE \A r \in Servers : Hand(r)'
  <2>1. \A r \in Servers : pc'[r] = pc[r]
    BY <1>7, <1>0, <1>2, Apart, Zenon DEF BindPublish, Goto, TypeOK
  <2>2. \A c2 \in Conns : conn[c2] \in {"accepted", "slot"} => conn'[c2] = conn[c2]
    BY <1>7, <1>0, Zenon DEF BindPublish, Close, lifeVars, connVars, TypeOK
  <2> QED
    BY <1>7, <1>1, <2>1, <2>2, Zenon DEF BindPublish, HandKept, lifeVars, connVars
<1>8. ASSUME NEW p \in Probers, ProbeLock(p) PROVE \A r \in Servers : Hand(r)'
  <2>1. \A r \in Servers : pc'[r] = pc[r]
    BY <1>8, <1>0, <1>2, Apart, Zenon DEF ProbeLock, Goto, TypeOK
  <2>2. \A c2 \in Conns : conn[c2] \in {"accepted", "slot"} => conn'[c2] = conn[c2]
    BY <1>8, <1>0, Zenon DEF ProbeLock, lifeVars, connVars, TypeOK
  <2> QED
    BY <1>8, <1>1, <2>1, <2>2, Zenon DEF ProbeLock, HandKept, lifeVars, connVars
<1>9. ASSUME NEW p \in Probers, ProbeAccept(p) PROVE \A r \in Servers : Hand(r)'
  <2>1. \A r \in Servers : pc'[r] = pc[r]
    BY <1>9, <1>0, <1>2, Apart, Zenon DEF ProbeAccept, Goto, TypeOK
  <2>2. \A c2 \in Conns : conn[c2] \in {"accepted", "slot"} => conn'[c2] = conn[c2]
    BY <1>9, <1>0, Zenon DEF ProbeAccept, lifeVars, connVars, TypeOK
  <2> QED
    BY <1>9, <1>1, <2>1, <2>2, Zenon DEF ProbeAccept, HandKept, lifeVars, connVars
<1>10. ASSUME NEW p \in Probers, ProbeFails(p) PROVE \A r \in Servers : Hand(r)'
  <2>1. \A r \in Servers : pc'[r] = pc[r]
    BY <1>10, <1>0, <1>2, Apart, Zenon DEF ProbeFails, Goto, TypeOK
  <2>2. \A c2 \in Conns : conn[c2] \in {"accepted", "slot"} => conn'[c2] = conn[c2]
    BY <1>10, <1>0, Zenon DEF ProbeFails, lifeVars, connVars, TypeOK
  <2> QED
    BY <1>10, <1>1, <2>1, <2>2, Zenon DEF ProbeFails, HandKept, lifeVars, connVars
<1>11. ASSUME NEW s \in Servers, ServeBegin(s) PROVE \A r \in Servers : Hand(r)'
  <2>1. /\ \A r \in Servers : r # s => pc'[r] = pc[r] /\ accepted'[r] = accepted[r]
        /\ pc'[s] \notin {"dispatch", "track"} \/ accepted'[s] \in Conns
    BY <1>11, <1>0, <1>2, Apart, Zenon DEF ServeBegin, Goto, TypeOK, lifeVars, connVars, Hand
  <2> QED
    BY <1>11, <1>0, <1>2, <2>1, Going DEF ServeBegin, Hand, LifeInv, Looping, TypeOK, lifeVars, connVars
<1>12. ASSUME NEW s \in Servers, ServeAccept(s) PROVE \A r \in Servers : Hand(r)'
  <2>1. /\ \A r \in Servers : r # s => pc'[r] = pc[r] /\ accepted'[r] = accepted[r]
        /\ pc'[s] \notin {"dispatch", "track"} \/ accepted'[s] \in Conns
    BY <1>12, <1>0, <1>2, Apart, Zenon DEF ServeAccept, Goto, TypeOK, lifeVars, connVars, Hand
  <2> QED
    BY <1>12, <1>0, <1>2, <2>1, Going DEF ServeAccept, Hand, LifeInv, Looping, TypeOK, lifeVars, connVars
<1>13. ASSUME NEW s \in Servers, ServeStops(s) PROVE \A r \in Servers : Hand(r)'
  <2>1. /\ \A r \in Servers : r # s => pc'[r] = pc[r] /\ accepted'[r] = accepted[r]
        /\ pc'[s] \notin {"dispatch", "track"} \/ accepted'[s] \in Conns
    BY <1>13, <1>0, <1>2, Apart, Zenon DEF ServeStops, Goto, TypeOK, lifeVars, connVars, Hand
  <2> QED
    BY <1>13, <1>0, <1>2, <2>1, Going DEF ServeStops, Hand, LifeInv, Looping, TypeOK, lifeVars, connVars
<1>14. ASSUME NEW s \in Servers, ServeCancelled(s) PROVE \A r \in Servers : Hand(r)'
  <2>1. \A r \in Servers : pc'[r] = pc[r]
    BY <1>14, Zenon DEF ServeCancelled
  <2>2. \A c2 \in Conns : conn[c2] \in {"accepted", "slot"} => conn'[c2] = conn[c2]
    BY <1>14, <1>0, Zenon DEF ServeCancelled, CloseSocket, Close, lifeVars, connVars, TypeOK
  <2> QED
    BY <1>14, <1>1, <2>1, <2>2, Zenon DEF ServeCancelled, HandKept, lifeVars, connVars
<1>15. ASSUME NEW s \in Servers, DispatchLimited(s) PROVE \A r \in Servers : Hand(r)'
  <2>1. /\ \A r \in Servers : r # s => pc'[r] = pc[r] /\ accepted'[r] = accepted[r]
        /\ pc'[s] \notin {"dispatch", "track"} \/ accepted'[s] \in Conns
    BY <1>15, <1>0, <1>2, Apart, Zenon DEF DispatchLimited, Goto, TypeOK, lifeVars, connVars, Hand
  <2> QED
    BY <1>15, <1>0, <1>2, <2>1, Going DEF DispatchLimited, Hand, LifeInv, Looping, TypeOK, lifeVars, connVars
<1>16. ASSUME NEW s \in Servers, DispatchSlot(s) PROVE \A r \in Servers : Hand(r)'
  <2>1. /\ \A r \in Servers : r # s => pc'[r] = pc[r] /\ accepted'[r] = accepted[r]
        /\ pc'[s] \notin {"dispatch", "track"} \/ accepted'[s] \in Conns
    BY <1>16, <1>0, <1>2, Apart, Zenon DEF DispatchSlot, Goto, TypeOK, lifeVars, connVars, Hand
  <2> QED
    BY <1>16, <1>0, <1>2, <2>1, Going DEF DispatchSlot, Hand, LifeInv, Looping, TypeOK, lifeVars, connVars
<1>17. ASSUME NEW s \in Servers, TrackHandler(s) PROVE \A r \in Servers : Hand(r)'
  <2>0. Goto(s, "loop") /\ accepted' = [accepted EXCEPT ![s] = None]
    BY <1>17, Zenon DEF TrackHandler
  <2>1. /\ \A r \in Servers : r # s => pc'[r] = pc[r] /\ accepted'[r] = accepted[r]
        /\ pc'[s] \notin {"dispatch", "track"} \/ accepted'[s] \in Conns
    BY <2>0, <1>0, <1>2, Zenon DEF Goto, TypeOK
  <2> QED
    BY <1>17, <1>0, <1>2, <2>1, Going DEF TrackHandler, Hand, LifeInv, Looping, TypeOK, lifeVars, connVars
<1>18. ASSUME NEW x \in Stoppers, ShutdownDrain(x) PROVE \A r \in Servers : Hand(r)'
  <2>1. \A r \in Servers : pc'[r] = pc[r]
    BY <1>18, <1>0, <1>2, Apart, Zenon DEF ShutdownDrain, Goto, TypeOK
  <2>2. \A c2 \in Conns : conn[c2] \in {"accepted", "slot"} => conn'[c2] = conn[c2]
    BY <1>18, <1>0, Zenon DEF ShutdownDrain, lifeVars, connVars, TypeOK
  <2> QED
    BY <1>18, <1>1, <2>1, <2>2, Zenon DEF ShutdownDrain, HandKept, lifeVars, connVars
<1>19. ASSUME NEW x \in Stoppers, ShutdownClose(x) PROVE \A r \in Servers : Hand(r)'
  <2>1. \A r \in Servers : pc'[r] = pc[r]
    BY <1>19, <1>0, <1>2, Apart, Zenon DEF ShutdownClose, Goto, TypeOK
  <2>2. \A c2 \in Conns : conn[c2] \in {"accepted", "slot"} => conn'[c2] = conn[c2]
    BY <1>19, <1>0, Zenon DEF ShutdownClose, CloseSocket, Close, lifeVars, connVars, TypeOK
  <2> QED
    BY <1>19, <1>1, <2>1, <2>2, Zenon DEF ShutdownClose, HandKept, lifeVars, connVars
<1>20. ASSUME NEW x \in Stoppers, ShutdownCAS(x) PROVE \A r \in Servers : Hand(r)'
  <2>1. \A r \in Servers : pc'[r] = pc[r]
    BY <1>20, <1>0, <1>2, Apart, Zenon DEF ShutdownCAS, Goto, TypeOK
  <2>2. \A c2 \in Conns : conn[c2] \in {"accepted", "slot"} => conn'[c2] = conn[c2]
    BY <1>20, <1>0, Zenon DEF ShutdownCAS, lifeVars, connVars, TypeOK
  <2> QED
    BY <1>20, <1>1, <2>1, <2>2, Zenon DEF ShutdownCAS, HandKept, lifeVars, connVars
<1>21. ASSUME NEW x \in Stoppers, ShutdownDrained(x) PROVE \A r \in Servers : Hand(r)'
  <2>1. \A r \in Servers : pc'[r] = pc[r]
    BY <1>21, <1>0, <1>2, Apart, Zenon DEF ShutdownDrained, Goto, TypeOK
  <2>2. \A c2 \in Conns : conn[c2] \in {"accepted", "slot"} => conn'[c2] = conn[c2]
    BY <1>21, <1>0, Zenon DEF ShutdownDrained, lifeVars, connVars, TypeOK
  <2> QED
    BY <1>21, <1>1, <2>1, <2>2, Zenon DEF ShutdownDrained, HandKept, lifeVars, connVars
<1>22. ASSUME NEW x \in Stoppers, ShutdownExpires(x) PROVE \A r \in Servers : Hand(r)'
  <2>1. \A r \in Servers : pc'[r] = pc[r]
    BY <1>22, <1>0, <1>2, Apart, Zenon DEF ShutdownExpires, Goto, TypeOK
  <2>2. \A c2 \in Conns : conn[c2] \in {"accepted", "slot"} => conn'[c2] = conn[c2]
    BY <1>22, <1>0, Zenon DEF ShutdownExpires, lifeVars, connVars, TypeOK
  <2> QED
    BY <1>22, <1>1, <2>1, <2>2, Zenon DEF ShutdownExpires, HandKept, lifeVars, connVars
<1>23. ASSUME NEW c \in Conns, Connect(c) PROVE \A r \in Servers : Hand(r)'
  <2>1. \A r \in Servers : pc'[r] = pc[r]
    BY <1>23, Zenon DEF Connect
  <2>2. \A c2 \in Conns : conn[c2] \in {"accepted", "slot"} => conn'[c2] = conn[c2]
    BY <1>23, <1>0, Zenon DEF Connect, lifeVars, connVars, TypeOK
  <2> QED
    BY <1>23, <1>1, <2>1, <2>2, Zenon DEF Connect, HandKept, lifeVars, connVars
<1>24. ASSUME NEW c \in Conns, HandlerReturns(c) PROVE \A r \in Servers : Hand(r)'
  <2>1. \A r \in Servers : pc'[r] = pc[r]
    BY <1>24, Zenon DEF HandlerReturns
  <2>2. \A c2 \in Conns : conn[c2] \in {"accepted", "slot"} => conn'[c2] = conn[c2]
    BY <1>24, <1>0, Zenon DEF HandlerReturns, lifeVars, connVars, TypeOK
  <2> QED
    BY <1>24, <1>1, <2>1, <2>2, Zenon DEF HandlerReturns, HandKept, lifeVars, connVars
<1>25. ASSUME NEW c \in Conns, HandlerDone(c) PROVE \A r \in Servers : Hand(r)'
  <2>1. \A r \in Servers : pc'[r] = pc[r]
    BY <1>25, Zenon DEF HandlerDone
  <2>2. \A c2 \in Conns : conn[c2] \in {"accepted", "slot"} => conn'[c2] = conn[c2]
    BY <1>25, <1>0, Zenon DEF HandlerDone, lifeVars, connVars, TypeOK
  <2> QED
    BY <1>25, <1>1, <2>1, <2>2, Zenon DEF HandlerDone, HandKept, lifeVars, connVars
<1>26. CASE Cancel
  BY <1>26, <1>1, Zenon DEF Cancel, connVars, HandKept
<1>27. CASE UNCHANGED vars
  BY <1>27, <1>1, Zenon DEF vars, connVars, HandKept
<1> QED
  BY Zenon, <1>3, <1>4, <1>5, <1>6, <1>7, <1>8, <1>9, <1>10, <1>11, <1>12, <1>13, <1>14, <1>15, <1>16, <1>17, <1>18, <1>19, <1>20, <1>21, <1>22, <1>23, <1>24, <1>25, <1>26, <1>27
     DEF Next, BindStep, ProbeStep, ServeStep, Dispatch, StopStep, ConnStep

\* Shutdown has set draining, and nothing is in flight once it returned nil.
Quiet ==
  /\ \A x \in Stoppers : pc[x] # "idle" => draining
  /\ QuietAfterShutdown

LEMMA QuietStep ==
  ASSUME IInv, [Next]_vars
  PROVE  Quiet'
<1>0. TypeOK /\ Counts /\ Quiet /\ (\A r \in Servers : Hand(r))
  BY Zenon DEF IInv, HandInv, Hand, Quiet, Counts
<1>1. InFlight = {} <=> wg = 0
  BY <1>0, FS_EmptySet, FS_Subset, ListenerAssumption, Zenon DEF Counts, InFlight
<1>2. \A x \in Stoppers : x \in Callers /\ x \notin Binders /\ x \notin Probers /\ x \notin Servers
  BY Apart, Zenon
<1>3. ASSUME \A x \in Stoppers : pc'[x] = pc[x], draining' = draining,
             draining => InFlight' \subseteq InFlight
      PROVE  Quiet'
  BY <1>0, <1>3, Zenon DEF Quiet, QuietAfterShutdown
<1>4. UNCHANGED conn => InFlight' = InFlight
  BY Zenon DEF InFlight
<1>5. ASSUME NEW b \in Binders, BindReserve(b) PROVE Quiet'
  <2>1. \A x \in Stoppers : pc'[x] = pc[x]
    BY <1>5, <1>0, <1>2, Zenon DEF BindReserve, Goto, TypeOK
  <2>2. InFlight' \subseteq InFlight
    BY <1>5, <1>4, Zenon DEF BindReserve, connVars
  <2> QED
    BY <1>5, <1>3, <2>1, <2>2, Zenon DEF BindReserve, connVars
<1>6. ASSUME NEW b \in Binders, BindListen(b) PROVE Quiet'
  <2>1. \A x \in Stoppers : pc'[x] = pc[x]
    BY <1>6, <1>0, <1>2, Zenon DEF BindListen, Goto, TypeOK
  <2>2. InFlight' \subseteq InFlight
    BY <1>6, <1>4, Zenon DEF BindListen, connVars
  <2> QED
    BY <1>6, <1>3, <2>1, <2>2, Zenon DEF BindListen, connVars
<1>7. ASSUME NEW b \in Binders, BindFails(b) PROVE Quiet'
  <2>1. \A x \in Stoppers : pc'[x] = pc[x]
    BY <1>7, <1>0, <1>2, Zenon DEF BindFails, Goto, TypeOK
  <2>2. InFlight' \subseteq InFlight
    BY <1>7, <1>4, Zenon DEF BindFails, connVars
  <2> QED
    BY <1>7, <1>3, <2>1, <2>2, Zenon DEF BindFails, connVars
<1>8. ASSUME NEW b \in Binders, BindStore(b) PROVE Quiet'
  <2>1. \A x \in Stoppers : pc'[x] = pc[x]
    BY <1>8, <1>0, <1>2, Zenon DEF BindStore, Goto, TypeOK
  <2>2. InFlight' \subseteq InFlight
    BY <1>8, <1>4, Zenon DEF BindStore, connVars
  <2> QED
    BY <1>8, <1>3, <2>1, <2>2, Zenon DEF BindStore, connVars
<1>9. ASSUME NEW b \in Binders, BindPublish(b) PROVE Quiet'
  <2>1. \A x \in Stoppers : pc'[x] = pc[x]
    BY <1>9, <1>0, <1>2, Zenon DEF BindPublish, Goto, TypeOK
  <2>2. InFlight' \subseteq InFlight
    BY <1>9, <1>0, <1>4, Reset, Zenon DEF BindPublish, Close
  <2> QED
    BY <1>9, <1>3, <2>1, <2>2, Zenon DEF BindPublish, connVars
<1>10. ASSUME NEW p \in Probers, ProbeLock(p) PROVE Quiet'
  <2>1. \A x \in Stoppers : pc'[x] = pc[x]
    BY <1>10, <1>0, <1>2, Zenon DEF ProbeLock, Goto, TypeOK
  <2>2. InFlight' \subseteq InFlight
    BY <1>10, <1>4, Zenon DEF ProbeLock, connVars
  <2> QED
    BY <1>10, <1>3, <2>1, <2>2, Zenon DEF ProbeLock, connVars
<1>11. ASSUME NEW p \in Probers, ProbeAccept(p) PROVE Quiet'
  <2>1. \A x \in Stoppers : pc'[x] = pc[x]
    BY <1>11, <1>0, <1>2, Zenon DEF ProbeAccept, Goto, TypeOK
  <2>2. InFlight' \subseteq InFlight
    <3>1. PICK c \in Conns : conn' = [conn EXCEPT ![c] = "closed"]
      BY <1>11, Zenon DEF ProbeAccept
    <3> QED
      BY <3>1, <1>0, Moved DEF InFlight, Slotted
  <2> QED
    BY <1>11, <1>3, <2>1, <2>2, Zenon DEF ProbeAccept, connVars
<1>12. ASSUME NEW p \in Probers, ProbeFails(p) PROVE Quiet'
  <2>1. \A x \in Stoppers : pc'[x] = pc[x]
    BY <1>12, <1>0, <1>2, Zenon DEF ProbeFails, Goto, TypeOK
  <2>2. InFlight' \subseteq InFlight
    BY <1>12, <1>4, Zenon DEF ProbeFails, connVars
  <2> QED
    BY <1>12, <1>3, <2>1, <2>2, Zenon DEF ProbeFails, connVars
<1>13. ASSUME NEW s \in Servers, ServeBegin(s) PROVE Quiet'
  <2>1. \A x \in Stoppers : pc'[x] = pc[x]
    BY <1>13, <1>0, <1>2, Zenon DEF ServeBegin, Goto, TypeOK
  <2>2. InFlight' \subseteq InFlight
    BY <1>13, <1>4, Zenon DEF ServeBegin, connVars
  <2> QED
    BY <1>13, <1>3, <2>1, <2>2, Zenon DEF ServeBegin, connVars
<1>14. ASSUME NEW s \in Servers, ServeAccept(s) PROVE Quiet'
  <2>1. \A x \in Stoppers : pc'[x] = pc[x]
    BY <1>14, <1>0, <1>2, Zenon DEF ServeAccept, Goto, TypeOK
  <2>2. InFlight' \subseteq InFlight
    <3>1. PICK c \in Conns : conn' = [conn EXCEPT ![c] = "accepted"]
      BY <1>14, Zenon DEF ServeAccept
    <3> QED
      BY <3>1, <1>0, Moved, Zenon DEF InFlight, Slotted
  <2> QED
    BY <1>14, <1>3, <2>1, <2>2, Zenon DEF ServeAccept, connVars
<1>15. ASSUME NEW s \in Servers, ServeStops(s) PROVE Quiet'
  <2>1. \A x \in Stoppers : pc'[x] = pc[x]
    BY <1>15, <1>0, <1>2, Zenon DEF ServeStops, Goto, TypeOK
  <2>2. InFlight' \subseteq InFlight
    BY <1>15, <1>4, Zenon DEF ServeStops, connVars
  <2> QED
    BY <1>15, <1>3, <2>1, <2>2, Zenon DEF ServeStops, connVars
<1>16. ASSUME NEW s \in Servers, ServeCancelled(s) PROVE Quiet'
  <2>1. \A x \in Stoppers : pc'[x] = pc[x]
    BY <1>16, Zenon DEF ServeCancelled
  <2>2. InFlight' \subseteq InFlight
    BY <1>16, <1>0, <1>4, Reset, Zenon DEF ServeCancelled, CloseSocket, Close
  <2> QED
    BY <1>16, <1>3, <2>1, <2>2, Zenon DEF ServeCancelled, connVars
<1>17. ASSUME NEW s \in Servers, DispatchLimited(s) PROVE Quiet'
  <2>1. \A x \in Stoppers : pc'[x] = pc[x]
    BY <1>17, <1>0, <1>2, Zenon DEF DispatchLimited, Goto, TypeOK
  <2>2. InFlight' \subseteq InFlight
    <3>1. accepted[s] \in Conns /\ conn' = [conn EXCEPT ![accepted[s]] = "closed"]
      BY <1>17, <1>0, Zenon DEF DispatchLimited, Hand
    <3> QED
      BY <3>1, <1>0, Moved, Zenon DEF InFlight, Slotted
  <2> QED
    BY <1>17, <1>3, <2>1, <2>2, Zenon DEF DispatchLimited, connVars
<1>18. ASSUME NEW s \in Servers, DispatchSlot(s) PROVE Quiet'
  <2>1. \A x \in Stoppers : pc'[x] = pc[x]
    BY <1>18, <1>0, <1>2, Zenon DEF DispatchSlot, Goto, TypeOK
  <2>2. InFlight' \subseteq InFlight
    <3>1. accepted[s] \in Conns /\ conn' = [conn EXCEPT ![accepted[s]] = "slot"]
      BY <1>18, <1>0, Zenon DEF DispatchSlot, Hand
    <3> QED
      BY <3>1, <1>0, Moved, Zenon DEF InFlight, Slotted
  <2> QED
    BY <1>18, <1>3, <2>1, <2>2, Zenon DEF DispatchSlot, connVars
<1>19. ASSUME NEW s \in Servers, TrackHandler(s) PROVE Quiet'
  <2>1. \A x \in Stoppers : pc'[x] = pc[x]
    BY <1>19, <1>0, <1>2, Zenon DEF TrackHandler, Goto, TypeOK
  <2>2. ASSUME draining PROVE InFlight' \subseteq InFlight
    <3>1. accepted[s] \in Conns /\ conn' = [conn EXCEPT ![accepted[s]] = "closed"]
      BY <1>19, <2>2, <1>0, Zenon DEF TrackHandler, Hand
    <3> QED
      BY <3>1, <1>0, Moved, Zenon DEF InFlight, Slotted
  <2> QED
    BY <1>19, <1>3, <2>1, <2>2, Zenon DEF TrackHandler, connVars
<1>20. ASSUME NEW x \in Stoppers, ShutdownDrain(x) PROVE Quiet'
  <2>1. \A y \in Stoppers : y # x => pc'[y] = pc[y]
    BY <1>20, <1>0, <1>2, Zenon DEF ShutdownDrain, Goto, TypeOK
  <2>2. InFlight' = InFlight
    BY <1>20, <1>4, Zenon DEF ShutdownDrain, connVars
  <2>3. pc'[x] = "close"
    BY <1>20, <1>0, <1>2, Zenon DEF ShutdownDrain, Goto, TypeOK
  <2> QED
    BY <1>20, <1>0, <2>1, <2>2, <2>3, Zenon DEF Quiet, QuietAfterShutdown, ShutdownDrain, connVars
<1>21. ASSUME NEW x \in Stoppers, ShutdownClose(x) PROVE Quiet'
  <2>1. \A y \in Stoppers : y # x => pc'[y] = pc[y]
    BY <1>21, <1>0, <1>2, Zenon DEF ShutdownClose, Goto, TypeOK
  <2>2. InFlight' = InFlight
    BY <1>21, <1>0, <1>4, Reset, Zenon DEF ShutdownClose, CloseSocket, Close
  <2>3. pc'[x] = "Serving"
    BY <1>21, <1>0, <1>2, Zenon DEF ShutdownClose, Goto, TypeOK
  <2> QED
    BY <1>21, <1>0, <2>1, <2>2, <2>3, Zenon DEF Quiet, QuietAfterShutdown, ShutdownClose, connVars
<1>22. ASSUME NEW x \in Stoppers, ShutdownCAS(x) PROVE Quiet'
  <2>1. \A y \in Stoppers : y # x => pc'[y] = pc[y]
    BY <1>22, <1>0, <1>2, Zenon DEF ShutdownCAS, Goto, TypeOK
  <2>2. InFlight' = InFlight
    BY <1>22, <1>4, Zenon DEF ShutdownCAS, connVars
  <2>3. pc[x] # "idle" /\ pc'[x] # "drained"
    BY <1>22, <1>0, <1>2, Attempts, Zenon DEF ShutdownCAS, Goto, TypeOK
  <2> QED
    BY <1>22, <1>0, <2>1, <2>2, <2>3, Zenon DEF Quiet, QuietAfterShutdown, ShutdownCAS, connVars
<1>23. ASSUME NEW x \in Stoppers, ShutdownDrained(x) PROVE Quiet'
  <2>1. \A y \in Stoppers : y # x => pc'[y] = pc[y]
    BY <1>23, <1>0, <1>2, Zenon DEF ShutdownDrained, Goto, TypeOK
  <2>2. InFlight' = InFlight
    BY <1>23, <1>4, Zenon DEF ShutdownDrained, connVars
  <2> QED
    BY <1>23, <1>0, <1>1, <2>1, <2>2, Zenon DEF Quiet, QuietAfterShutdown, ShutdownDrained, connVars
<1>24. ASSUME NEW x \in Stoppers, ShutdownExpires(x) PROVE Quiet'
  <2>1. \A y \in Stoppers : y # x => pc'[y] = pc[y]
    BY <1>24, <1>0, <1>2, Zenon DEF ShutdownExpires, Goto, TypeOK
  <2>2. InFlight' = InFlight
    BY <1>24, <1>4, Zenon DEF ShutdownExpires, connVars
  <2>3. pc'[x] = "expired"
    BY <1>24, <1>0, <1>2, Zenon DEF ShutdownExpires, Goto, TypeOK
  <2> QED
    BY <1>24, <1>0, <2>1, <2>2, <2>3, Zenon DEF Quiet, QuietAfterShutdown, ShutdownExpires, connVars
<1>25. ASSUME NEW c \in Conns, Connect(c) PROVE Quiet'
  <2>1. \A x \in Stoppers : pc'[x] = pc[x]
    BY <1>25, Zenon DEF Connect
  <2>2. InFlight' \subseteq InFlight
    BY <1>25, <1>0, Moved, Zenon DEF Connect, InFlight
  <2> QED
    BY <1>25, <1>3, <2>1, <2>2, Zenon DEF Connect, connVars
<1>26. ASSUME NEW c \in Conns, HandlerReturns(c) PROVE Quiet'
  <2>1. \A x \in Stoppers : pc'[x] = pc[x]
    BY <1>26, Zenon DEF HandlerReturns
  <2>2. InFlight' \subseteq InFlight
    BY <1>26, <1>0, Moved, Zenon DEF HandlerReturns, InFlight
  <2> QED
    BY <1>26, <1>3, <2>1, <2>2, Zenon DEF HandlerReturns, connVars
<1>27. ASSUME NEW c \in Conns, HandlerDone(c) PROVE Quiet'
  <2>1. \A x \in Stoppers : pc'[x] = pc[x]
    BY <1>27, Zenon DEF HandlerDone
  <2>2. InFlight' \subseteq InFlight
    BY <1>27, <1>0, Moved, Zenon DEF HandlerDone, InFlight
  <2> QED
    BY <1>27, <1>3, <2>1, <2>2, Zenon DEF HandlerDone, connVars
<1>28. CASE Cancel
  BY <1>28, <1>3, <1>4, Zenon DEF Cancel, connVars
<1>29. CASE UNCHANGED vars
  BY <1>29, <1>3, <1>4, Zenon DEF vars, connVars
<1> QED
  BY Zenon, <1>5, <1>6, <1>7, <1>8, <1>9, <1>10, <1>11, <1>12, <1>13, <1>14, <1>15, <1>16, <1>17, <1>18, <1>19, <1>20, <1>21, <1>22, <1>23, <1>24, <1>25, <1>26, <1>27, <1>28, <1>29
     DEF Next, BindStep, ProbeStep, ServeStep, Dispatch, StopStep, ConnStep
-----------------------------------------------------------------------------
LEMMA Starts == Init => IInv
<1> SUFFICES ASSUME Init PROVE IInv
  BY Zenon
<1>1. InFlight = {} /\ Slotted = {}
  BY Zenon DEF Init, InFlight, Slotted
<1>2. TypeOK
  <2>1. wg \in Nat /\ sem \in 0 .. MaxConnections
    BY ListenerAssumption DEF Init
  <2> QED
    BY <2>1, Zenon DEF Init, TypeOK
<1>3. LifeInv /\ OneAcceptor /\ BoundHasSocket
  BY Apart, Zenon DEF Init, LifeInv, OneAcceptor, BoundHasSocket, Binding, Looping
<1>4. wg = Cardinality(InFlight) /\ SlotsHeld
  BY <1>1, FS_EmptySet, Zenon DEF Init, SlotsHeld
<1>5. HandInv /\ QuietAfterShutdown
  BY <1>1, <1>4, Apart, Zenon DEF Init, HandInv, QuietAfterShutdown
<1> QED
  BY <1>2, <1>3, <1>4, <1>5, Zenon DEF IInv

LEMMA Steps == IInv /\ [Next]_vars => IInv'
<1> SUFFICES ASSUME IInv, [Next]_vars PROVE IInv'
  BY Zenon
<1>1. TypeOK' /\ Lifecycle' /\ Counts' /\ Quiet' /\ (\A r \in Servers : Hand(r)')
  BY TypeStep, LifeStep, CountStep, QuietStep, HandStep, Zenon
<1> QED
  BY <1>1, Zenon DEF IInv, Lifecycle, Counts, Quiet, Hand, HandInv

\* IInv holds in every reachable state of the listener.
THEOREM Invariance == Spec => []IInv
  BY Starts, Steps, PTL DEF Spec

\* The variables of the listener stay in their types; in particular no more
\* than MaxConnections slots are ever taken.
THEOREM ListenerTypeCorrect == Spec => []TypeOK
<1>1. IInv => TypeOK
  BY Zenon DEF IInv
<1> QED
  BY <1>1, Invariance, PTL

\* After a Shutdown that returned nil no handler runs, and none is started.
THEOREM QuietAfterShutdownHolds == Spec => []QuietAfterShutdown
<1>1. IInv => QuietAfterShutdown
  BY Zenon DEF IInv
<1> QED
  BY <1>1, Invariance, PTL

\* AcceptProbe and the accept loop are never in Accept together.
THEOREM OneAcceptorHolds == Spec => []OneAcceptor
<1>1. IInv => OneAcceptor
  BY Zenon DEF IInv
<1> QED
  BY <1>1, Invariance, PTL

\* Whoever sees StateBound or StateServing finds the socket Bind stored.
THEOREM BoundHasSocketHolds == Spec => []BoundHasSocket
<1>1. IInv => BoundHasSocket
  BY Zenon DEF IInv
<1> QED
  BY <1>1, Invariance, PTL

\* StateClosed is final, whatever Bind, Serve and Shutdown race with.
THEOREM ClosedIsFinalHolds == Spec => ClosedIsFinal
<1>1. ASSUME IInv, [Next]_vars PROVE [state = "Closed" => state' = "Closed"]_vars
  <2> SUFFICES ASSUME state = "Closed" PROVE state' = "Closed"
    BY Zenon
  <2>1. ASSUME NEW b \in Binders, BindStep(b) PROVE state' = "Closed"
    BY <2>1, Zenon DEF BindStep, BindReserve, BindListen, BindFails, BindStore, BindPublish
  <2>2. ASSUME NEW p \in Probers, ProbeStep(p) PROVE state' = "Closed"
    BY <2>2, Zenon DEF ProbeStep, ProbeLock, ProbeAccept, ProbeFails
  <2>3. ASSUME NEW s \in Servers, ServeStep(s) PROVE state' = "Closed"
    BY <2>3, Zenon DEF ServeStep, ServeBegin, ServeAccept, ServeStops, ServeCancelled,
       Dispatch, DispatchLimited, DispatchSlot, TrackHandler, lifeVars
  <2>4. ASSUME NEW x \in Stoppers, StopStep(x) PROVE state' = "Closed"
    BY <2>4, Zenon DEF StopStep, ShutdownDrain, ShutdownClose, ShutdownCAS,
       ShutdownDrained, ShutdownExpires, lifeVars
  <2>5. ASSUME NEW c \in Conns, ConnStep(c) PROVE state' = "Closed"
    BY <2>5, Zenon DEF ConnStep, Connect, HandlerReturns, HandlerDone, lifeVars
  <2>6. CASE Cancel \/ UNCHANGED vars
    BY <2>6, Zenon DEF Cancel, vars, lifeVars
  <2> QED
    BY <1>1, <2>1, <2>2, <2>3, <2>4, <2>5, <2>6, Zenon DEF Next
<1> QED
  BY <1>1, Invariance, PTL DEF Spec, ClosedIsFinal

\* The semaphore counts exactly the connections on their way through a handler.
THEOREM SlotsHeldHolds == Spec => []SlotsHeld
<1>1. IInv => SlotsHeld
  BY Zenon DEF IInv
<1> QED
  BY <1>1, Invariance, PTL
=============================================================================
