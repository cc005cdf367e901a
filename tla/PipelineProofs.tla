--------------------------- MODULE PipelineProofs ---------------------------
(***************************************************************************)
(* Proofs about the pipeline for any number of requests, any inputs and    *)
(* any policy: the inductive invariant IInv, the safety properties that    *)
(* follow from it, that the pipeline implements Enforcement, and that the  *)
(* watcher keeps the promises of the policy store the pipeline reads.      *)
(***************************************************************************)
EXTENDS Pipeline, PolicyWatch, TLAPS

\* The decisions and records the stages make are of their types.
LEMMA MadeTypes ==
  /\ Allow \in Decisions
  /\ \A x \in Reasons : Deny(x) \in Decisions /\ DenyFault(x) \in Decisions
  /\ NoMatchResult \in Matches
  /\ NoRecord \in Events
BY Zenon DEF Allow, Deny, DenyFault, Decisions, NoMatchResult, Matches, NoRecord, Events, Reasons

\* What Init establishes.
LEMMA PipelineInit == Init => IInv
<1> SUFFICES ASSUME Init PROVE IInv
  BY Zenon
<1>1. TypeOK
  <2>1. 0 \in 0 .. MaxStaleness
    BY PipelineAssumption, StalenessAssumption
  <2>2. StoreType
    BY <2>1, Zenon DEF Init, StoreInit, StoreType
  <2>3. auth \in [Requests -> Creds \cup {None, "agent"}] /\ input \in [Requests -> Inputs]
    BY Zenon DEF Init
  <2> QED
    BY <2>1, <2>2, <2>3, MadeTypes, Zenon DEF Init, TypeOK, Stages
<1>2. OutcomeRecorded
  BY Zenon DEF Init, OutcomeRecorded
<1>3. \A r \in Requests : RequestInv(r)
  BY PipelineAssumption, Zenon DEF Init, RequestInv, BeforeAudit
<1> QED
  BY <1>1, <1>2, <1>3, Zenon DEF IInv

\* The reasons a stage settles with are deny reasons.
LEMMA FaultIsReason ==
  ASSUME NEW i
  PROVE  IdentityFault(i) \in Reasons
BY Zenon DEF IdentityFault, Reasons

\* An input that passes the checks of IdentityStage names a host, and no other
\* host or port.
LEMMA IdentityIsHost ==
  ASSUME NEW i \in Input, IdentityFault(i) = "none"
  PROVE  /\ IdentityOf(i) \in Hosts
         /\ {i.sni, i.host} \subseteq {IdentityOf(i), None}
         /\ {i.authPort, i.hostPort} \subseteq {i.dst, None}
BY PipelineAssumption, Zenon DEF Input, IdentityFault, IdentityOf, HostsDisagree, PortsDisagree

\* Every step keeps the types.
LEMMA TypeStep == IInv /\ [Next]_vars => TypeOK'
<1> SUFFICES ASSUME TypeOK, \A r \in Requests : RequestInv(r), [Next]_vars PROVE TypeOK'
  BY Zenon DEF IInv
<1>0. {"policy_cache_empty", "policy_cache_stale", "matcher_fault", "policy_no_match",
       "token_acquisition_failed", "audit_failed", "internal"} \subseteq Reasons
  BY Zenon DEF Reasons
<1> USE DEF TypeOK, StoreType, Stages
<1>1. ASSUME NEW r \in Requests, Start(r) PROVE TypeOK'
  BY <1>1, Zenon DEF Start, Goto, sinkVars, storeVars
<1>2. ASSUME NEW r \in Requests, Sanitise(r) PROVE TypeOK'
  BY <1>2, Zenon DEF Sanitise, Proceed, Goto, sinkVars, storeVars
<1>3. ASSUME NEW r \in Requests, Identity(r) PROVE TypeOK'
  <2>1. input[r] \in Input
    BY PipelineAssumption, Zenon
  <2>2. CASE IdentityFault(input[r]) = "none"
    <3>1. IdentityOf(input[r]) \in Hosts \cup {None}
      BY <2>1, Zenon DEF IdentityOf, Input
    <3> QED
      BY <1>3, <2>2, <3>1 DEF Identity, Proceed, Goto, sinkVars, storeVars
  <2>3. CASE IdentityFault(input[r]) # "none"
    BY <1>3, <2>3, FaultIsReason, MadeTypes DEF Identity, Settle, Goto, sinkVars, storeVars
  <2> QED
    BY <2>2, <2>3, Zenon
<1>4. ASSUME NEW r \in Requests, Match(r) PROVE TypeOK'
  <2>1. CASE UNCHANGED match
    BY <1>4, <2>1, <1>0, MadeTypes DEF Match, Settle, Proceed, Goto, sinkVars, storeVars
  <2>2. CASE /\ snap # None /\ RuleOf[snap][identity[r]] # NoMatch
             /\ match' = [match EXCEPT ![r] = [version |-> snap, rule |-> RuleOf[snap][identity[r]]]]
             /\ Proceed(r, "acquire")
    <3>1. identity[r] = IdentityOf(input[r]) /\ IdentityFault(input[r]) = "none"
      BY <1>4, Zenon DEF Match, RequestInv, BeforeAudit
    <3>2. input[r] \in Input /\ identity[r] \in Hosts /\ snap \in Versions
      BY <2>2, <3>1, IdentityIsHost, PipelineAssumption
    <3>3. RuleOf[snap][identity[r]] \in Creds \cup {None}
      BY <2>2, <3>2, PipelineAssumption
    <3>4. match' \in [Requests -> Matches]
      BY <2>2, <3>2, <3>3, Zenon DEF Matches
    <3> QED
      BY <1>4, <2>2, <3>4, Zenon DEF Match, Proceed, Goto, sinkVars, storeVars
  <2> QED
    BY <1>4, <2>1, <2>2, Zenon DEF Match
<1>5. ASSUME NEW r \in Requests, Acquire(r) PROVE TypeOK'
  <2>1. match[r].rule \in Creds \cup {None}
    BY Zenon DEF Matches
  <2> QED
    BY <1>5, <2>1, <1>0, MadeTypes DEF Acquire, Settle, Proceed, Goto, sinkVars, storeVars
<1>6. ASSUME NEW r \in Requests, Panic(r) PROVE TypeOK'
  BY <1>6, <1>0, MadeTypes, Zenon DEF Panic, Settle, Goto, sinkVars, storeVars
<1>7. ASSUME NEW r \in Requests, Audit(r) \/ RecordRefused(r) PROVE TypeOK'
  <2>1. Event(r) \in Events
    BY Zenon DEF Event, Events, Decisions, Matches
  <2>2. CASE Audit(r)
    BY <2>2, <2>1, Zenon DEF Audit, Goto, storeVars
  <2>3. CASE RecordRefused(r)
    BY <2>3, <2>1, <1>0, MadeTypes, Zenon DEF RecordRefused, Goto, storeVars
  <2> QED
    BY <1>7, <2>2, <2>3, Zenon
<1>8. ASSUME NEW r \in Requests, SinkLock(r) PROVE TypeOK'
  BY <1>8, Zenon DEF SinkLock, Goto, storeVars
<1>9. ASSUME NEW r \in Requests, SinkWrite(r) PROVE TypeOK'
  BY <1>9, Zenon DEF SinkWrite, Goto, storeVars
<1>10. ASSUME NEW r \in Requests, SinkFail(r) PROVE TypeOK'
  BY <1>10, <1>0, MadeTypes, Zenon DEF SinkFail, Goto, storeVars
<1>11. ASSUME NEW r \in Requests, Inject(r) PROVE TypeOK'
  BY <1>11, Zenon DEF Inject, Goto, sinkVars, storeVars
<1>12. ASSUME NEW r \in Requests, InjectFails(r) PROVE TypeOK'
  BY <1>12, <1>0, MadeTypes, Zenon DEF InjectFails, Goto, sinkVars, storeVars
<1>13. ASSUME NEW v \in Versions, Publish(v) PROVE TypeOK'
  BY <1>13, StalenessAssumption DEF Publish, Swap, reqVars, sinkVars
<1>14. CASE Tick
  BY <1>14, PipelineAssumption, StalenessAssumption DEF Tick, StoreTick, reqVars, sinkVars
<1>15. CASE UNCHANGED vars
  BY <1>15, Zenon DEF vars, reqVars, sinkVars, storeVars
<1> QED
  BY Zenon, <1>1, <1>2, <1>3, <1>4, <1>5, <1>6, <1>7, <1>8, <1>9, <1>10, <1>11, <1>12,
     <1>13, <1>14, <1>15 DEF Next, Step, Advance, WriteReturns
-----------------------------------------------------------------------------
\* What a step does not change of a request keeps what the request holds.
SameRequest(q) ==
  /\ pc'[q] = pc[q] /\ input'[q] = input[q] /\ auth'[q] = auth[q]
  /\ identity'[q] = identity[q] /\ match'[q] = match[q] /\ token'[q] = token[q]
  /\ decision'[q] = decision[q] /\ record'[q] = record[q] /\ written'[q] = written[q]

LEMMA Frame ==
  ASSUME NEW q \in Requests, RequestInv(q), SameRequest(q)
  PROVE  RequestInv(q)'
<1>1. Matched(q)' = Matched(q)
  BY Zenon DEF SameRequest, Matched
<1>2. AllowHolds(q)' = AllowHolds(q)
  BY <1>1, Zenon DEF SameRequest, AllowHolds
<1>3. RecordHolds(q)' = RecordHolds(q)
  BY Zenon DEF SameRequest, RecordHolds
<1>4. BeforeAudit(q)' = BeforeAudit(q)
  BY <1>1, Zenon DEF SameRequest, BeforeAudit
<1>5. AtAudit(q)' = AtAudit(q)
  BY <1>2, <1>3, Zenon DEF SameRequest, AtAudit
<1>6. AfterAudit(q)' = AfterAudit(q)
  BY <1>1, <1>2, <1>3, Zenon DEF SameRequest, AfterAudit
<1> QED
  BY <1>4, <1>5, <1>6, Zenon DEF SameRequest, RequestInv

LEMMA FrameInTrail ==
  ASSUME NEW q \in Requests, InTrail(q), SameRequest(q)
  PROVE  InTrail(q)'
BY Zenon DEF SameRequest, InTrail, Recorded

\* The part of the type invariant that speaks of requests.
Shape ==
  /\ pc \in [Requests -> Stages] /\ input \in [Requests -> Inputs]
  /\ auth \in [Requests -> Creds \cup {None, "agent"}]
  /\ identity \in [Requests -> Hosts \cup {None}] /\ match \in [Requests -> Matches]
  /\ token \in [Requests -> Creds \cup {None}] /\ decision \in [Requests -> Decisions]
  /\ record \in [Requests -> Events] /\ written \in [Requests -> {"no", "line", "glued"}]

LEMMA TypeShape == TypeOK => Shape
BY Zenon DEF TypeOK, Shape

\* A step of one request leaves the others alone.
LEMMA OthersSame ==
  ASSUME TypeOK, NEW r \in Requests, Start(r) \/ Step(r), NEW q \in Requests, q # r
  PROVE  SameRequest(q)
<1> USE TypeShape DEF Shape, SameRequest, Goto, Settle, Proceed, sinkVars
<1>1. CASE Start(r) \/ Sanitise(r) \/ Identity(r)
  BY <1>1, Zenon DEF Start, Sanitise, Identity
<1>2. CASE Match(r)
  BY <1>2, Zenon DEF Match
<1>3. CASE Acquire(r) \/ Panic(r) \/ Audit(r) \/ RecordRefused(r)
  BY <1>3, Zenon DEF Acquire, Panic, Audit, RecordRefused
<1>4. CASE SinkLock(r) \/ SinkWrite(r) \/ SinkFail(r)
  BY <1>4, Zenon DEF SinkLock, SinkWrite, SinkFail
<1>5. CASE Inject(r) \/ InjectFails(r)
  BY <1>5, Zenon DEF Inject, InjectFails
<1> QED
  BY <1>1, <1>2, <1>3, <1>4, <1>5, Zenon DEF Step, Advance, WriteReturns

(***************************************************************************)
(* What each step does to the request that takes it, field by field.       *)
(***************************************************************************)
KeepsFacts(r) == identity'[r] = identity[r] /\ match'[r] = match[r] /\ token'[r] = token[r]
KeepsSink(r)  == record'[r] = record[r] /\ written'[r] = written[r]
KeepsHead(r)  == auth'[r] = auth[r] /\ decision'[r] = decision[r]
Moves(r, a, b) == pc[r] = a /\ pc'[r] = b /\ input'[r] = input[r]

Settled(r) ==
  /\ pc[r] \in {"sanitise", "identity", "match", "acquire"} /\ pc'[r] = "audit"
  /\ input'[r] = input[r] /\ auth'[r] = auth[r] /\ decision'[r].disp = "deny"
  /\ KeepsFacts(r) /\ KeepsSink(r)
Started(r) == Moves(r, "idle", "sanitise") /\ KeepsHead(r) /\ KeepsFacts(r) /\ KeepsSink(r)
Sanitised(r) ==
  /\ Moves(r, "sanitise", "identity") /\ auth'[r] = None /\ decision'[r] = decision[r]
  /\ KeepsFacts(r) /\ KeepsSink(r)
Identified(r) ==
  /\ Moves(r, "identity", "match") /\ KeepsHead(r) /\ KeepsSink(r)
  /\ IdentityFault(input[r]) = "none" /\ identity'[r] = IdentityOf(input[r])
  /\ match'[r] = match[r] /\ token'[r] = token[r]
RuleFound(r) ==
  /\ Moves(r, "match", "acquire") /\ KeepsHead(r) /\ KeepsSink(r)
  /\ snap # None /\ identity'[r] = identity[r] /\ token'[r] = token[r]
  /\ match'[r].version = snap /\ match'[r].rule = RuleOf[snap][identity[r]]
Acquired(r) ==
  /\ Moves(r, "acquire", "audit") /\ KeepsHead(r) /\ KeepsSink(r)
  /\ identity'[r] = identity[r] /\ match'[r] = match[r] /\ token'[r] = match[r].rule
Audited(r) ==
  /\ Moves(r, "audit", "sink") /\ KeepsHead(r) /\ KeepsFacts(r)
  /\ record'[r] = Event(r) /\ written'[r] = written[r]
Locked(r) == Moves(r, "sink", "write") /\ KeepsHead(r) /\ KeepsFacts(r) /\ KeepsSink(r)
Wrote(r) ==
  /\ pc[r] = "write" /\ input'[r] = input[r] /\ KeepsHead(r) /\ KeepsFacts(r)
  /\ record'[r] = record[r] /\ written'[r] # "no"
  /\ \/ decision[r].disp = "allow" /\ pc'[r] = "inject"
     \/ decision[r].disp = "deny" /\ pc'[r] = "done"
Failed(r) ==
  /\ pc[r] \in {"audit", "write"} /\ pc'[r] = "done" /\ input'[r] = input[r]
  /\ auth'[r] = auth[r] /\ KeepsFacts(r) /\ written'[r] = written[r]
  /\ decision'[r] = DenyFault("audit_failed")
Injected(r) ==
  /\ Moves(r, "inject", "done") /\ decision'[r] = decision[r] /\ KeepsFacts(r) /\ KeepsSink(r)
  /\ auth'[r] = IF token[r] # None THEN token[r] ELSE auth[r]
InjectFailed(r) ==
  /\ Moves(r, "inject", "done") /\ decision'[r] = DenyFault("internal")
  /\ KeepsFacts(r) /\ KeepsSink(r) /\ auth'[r] \in {token[r], auth[r]}

Effect(r) ==
  \/ Settled(r) \/ Started(r) \/ Sanitised(r) \/ Identified(r) \/ RuleFound(r) \/ Acquired(r)
  \/ Audited(r) \/ Locked(r) \/ Wrote(r) \/ Failed(r) \/ Injected(r) \/ InjectFailed(r)

LEMMA Effects ==
  ASSUME TypeOK, NEW r \in Requests, Start(r) \/ Step(r)
  PROVE  Effect(r)
<1> USE TypeShape DEF Shape, Goto, KeepsFacts, KeepsSink, KeepsHead, Moves, sinkVars
<1>1. CASE Start(r)
  <2>1. Started(r)
    BY <1>1, Zenon DEF Start, Started
  <2> QED
    BY <2>1, Zenon DEF Effect
<1>2. CASE Sanitise(r)
  <2>1. Sanitised(r)
    BY <1>2, Zenon DEF Sanitise, Sanitised, Proceed
  <2> QED
    BY <2>1, Zenon DEF Effect
<1>3. CASE Identity(r)
  <2>1. CASE IdentityFault(input[r]) = "none"
    <3>1. Identified(r)
      BY <1>3, <2>1, Zenon DEF Identity, Identified, Proceed
    <3> QED
      BY <3>1, Zenon DEF Effect
  <2>2. CASE IdentityFault(input[r]) # "none"
    <3>1. Settled(r)
      BY <1>3, <2>2 DEF Identity, Settled, Settle, Deny
    <3> QED
      BY <3>1, Zenon DEF Effect
  <2> QED
    BY <2>1, <2>2, Zenon
<1>4. CASE Match(r)
  <2>1. CASE \E x \in Reasons : UNCHANGED match /\ (Settle(r, Deny(x)) \/ Settle(r, DenyFault(x)))
    <3>1. Settled(r)
      BY <1>4, <2>1 DEF Match, Settled, Settle, Deny, DenyFault
    <3> QED
      BY <3>1, Zenon DEF Effect
  <2>2. CASE /\ snap # None
             /\ match' = [match EXCEPT ![r] = [version |-> snap, rule |-> RuleOf[snap][identity[r]]]]
             /\ Proceed(r, "acquire")
    <3>1. RuleFound(r)
      BY <1>4, <2>2, Zenon DEF Match, RuleFound, Proceed
    <3> QED
      BY <3>1, Zenon DEF Effect
  <2> QED
    BY <1>4, <2>1, <2>2, Zenon DEF Match, Reasons
<1>5. CASE Acquire(r)
  <2>1. CASE token'[r] = match[r].rule /\ Proceed(r, "audit")
    <3>1. Acquired(r)
      BY <1>5, <2>1, Zenon DEF Acquire, Acquired, Proceed
    <3> QED
      BY <3>1, Zenon DEF Effect
  <2>2. CASE Settle(r, DenyFault("token_acquisition_failed")) /\ UNCHANGED token
    <3>1. Settled(r)
      BY <1>5, <2>2, Zenon DEF Acquire, Settled, Settle, DenyFault
    <3> QED
      BY <3>1, Zenon DEF Effect
  <2> QED
    BY <1>5, <2>1, <2>2, Zenon DEF Acquire
<1>6. CASE Panic(r)
  <2>1. Settled(r)
    BY <1>6, Zenon DEF Panic, Settled, Settle, DenyFault
  <2> QED
    BY <2>1, Zenon DEF Effect
<1>7. CASE Audit(r)
  <2>1. Audited(r)
    BY <1>7, Zenon DEF Audit, Audited
  <2> QED
    BY <2>1, Zenon DEF Effect
<1>8. CASE SinkLock(r)
  <2>1. Locked(r)
    BY <1>8, Zenon DEF SinkLock, Locked
  <2> QED
    BY <2>1, Zenon DEF Effect
<1>9. CASE SinkWrite(r)
  <2>1. decision[r].disp \in {"allow", "deny"}
    BY Zenon DEF Decisions
  <2>2. Wrote(r)
    BY <1>9, <2>1, Zenon DEF SinkWrite, Wrote
  <2> QED
    BY <2>2, Zenon DEF Effect
<1>10. CASE SinkFail(r) \/ RecordRefused(r)
  <2>1. Failed(r)
    BY <1>10, Zenon DEF SinkFail, RecordRefused, Failed
  <2> QED
    BY <2>1, Zenon DEF Effect
<1>11. CASE Inject(r)
  <2>1. Injected(r)
    BY <1>11, Zenon DEF Inject, Injected
  <2> QED
    BY <2>1, Zenon DEF Effect
<1>12. CASE InjectFails(r)
  <2>1. InjectFailed(r)
    BY <1>12, Zenon DEF InjectFails, InjectFailed
  <2> QED
    BY <2>1, Zenon DEF Effect
<1> QED
  BY <1>1, <1>2, <1>3, <1>4, <1>5, <1>6, <1>7, <1>8, <1>9, <1>10, <1>11, <1>12, Zenon
     DEF Step, Advance, WriteReturns

\* The request that steps keeps what it holds at its new stage.
LEMMA OwnStep ==
  ASSUME TypeOK, NEW r \in Requests, RequestInv(r), Effect(r)
  PROVE  RequestInv(r)'
<1> USE DEF KeepsFacts, KeepsSink, KeepsHead, Moves
<1>1. CASE Settled(r)
  <2>1. BeforeAudit(r)
    BY <1>1, Zenon DEF Settled, RequestInv
  <2>2. AtAudit(r)'
    BY <1>1, <2>1, Zenon DEF Settled, BeforeAudit, AtAudit
  <2> QED
    BY <1>1, <2>2, Zenon DEF Settled, RequestInv
<1>2. CASE Started(r) \/ Sanitised(r)
  <2>1. BeforeAudit(r)
    BY <1>2, Zenon DEF Started, Sanitised, RequestInv
  <2>2. BeforeAudit(r)'
    BY <1>2, <2>1, PipelineAssumption, Zenon DEF Started, Sanitised, BeforeAudit
  <2> QED
    BY <1>2, <2>2, Zenon DEF Started, Sanitised, RequestInv
<1>3. CASE Identified(r)
  <2>1. BeforeAudit(r)
    BY <1>3, Zenon DEF Identified, RequestInv
  <2>2. BeforeAudit(r)'
    BY <1>3, <2>1, Zenon DEF Identified, BeforeAudit
  <2> QED
    BY <1>3, <2>2, Zenon DEF Identified, RequestInv
<1>4. CASE RuleFound(r)
  <2>1. BeforeAudit(r)
    BY <1>4, Zenon DEF RuleFound, RequestInv
  <2>2. identity[r] = IdentityOf(input[r]) /\ IdentityFault(input[r]) = "none"
    BY <1>4, <2>1, Zenon DEF RuleFound, BeforeAudit
  <2>3. input[r] \in Input /\ snap \in Versions
    BY <1>4, PipelineAssumption, Zenon DEF RuleFound, TypeOK, StoreType
  <2>4. Matched(r)'
    BY <1>4, <2>2, <2>3, IdentityIsHost, Zenon DEF RuleFound, Matched
  <2>5. BeforeAudit(r)'
    BY <1>4, <2>1, <2>2, <2>4, Zenon DEF RuleFound, BeforeAudit
  <2> QED
    BY <1>4, <2>5, Zenon DEF RuleFound, RequestInv
<1>5. CASE Acquired(r)
  <2>1. BeforeAudit(r)
    BY <1>5, Zenon DEF Acquired, RequestInv
  <2>2. Matched(r)'
    BY <1>5, <2>1, Zenon DEF Acquired, BeforeAudit, Matched
  <2>3. AtAudit(r)'
    BY <1>5, <2>1, <2>2, Zenon DEF Acquired, BeforeAudit, AtAudit, AllowHolds
  <2> QED
    BY <1>5, <2>3, Zenon DEF Acquired, RequestInv
<1>6. CASE Audited(r)
  <2>1. AtAudit(r)
    BY <1>6, Zenon DEF Audited, RequestInv
  <2>2. AllowHolds(r) => AllowHolds(r)'
    BY <1>6, Zenon DEF Audited, AllowHolds, Matched
  <2>3. RecordHolds(r)'
    BY <1>6, <2>1 DEF Audited, AtAudit, AllowHolds, RecordHolds, Event
  <2>4. AtAudit(r)'
    BY <1>6, <2>1, <2>2, <2>3, Zenon DEF Audited, AtAudit
  <2> QED
    BY <1>6, <2>4, Zenon DEF Audited, RequestInv
<1>7. CASE Locked(r)
  <2>1. AtAudit(r)
    BY <1>7, Zenon DEF Locked, RequestInv
  <2>2. AllowHolds(r) => AllowHolds(r)'
    BY <1>7, Zenon DEF Locked, AllowHolds, Matched
  <2>3. RecordHolds(r)'
    BY <1>7, <2>1, Zenon DEF Locked, AtAudit, RecordHolds
  <2>4. AtAudit(r)'
    BY <1>7, <2>1, <2>2, <2>3, Zenon DEF Locked, AtAudit
  <2> QED
    BY <1>7, <2>4, Zenon DEF Locked, RequestInv
<1>8. CASE Wrote(r)
  <2>1. AtAudit(r)
    BY <1>8, Zenon DEF Wrote, RequestInv
  <2>2. AllowHolds(r) => AllowHolds(r)'
    BY <1>8, Zenon DEF Wrote, AllowHolds, Matched
  <2>3. RecordHolds(r)'
    BY <1>8, <2>1, Zenon DEF Wrote, AtAudit, RecordHolds
  <2>4. AfterAudit(r)'
    BY <1>8, <2>1, <2>2, <2>3, Zenon DEF Wrote, AtAudit, AfterAudit
  <2> QED
    BY <1>8, <2>4, Zenon DEF Wrote, RequestInv
<1>9. CASE Failed(r)
  <2>1. AtAudit(r)
    BY <1>9, Zenon DEF Failed, RequestInv
  <2>2. pc'[r] = "done" /\ auth'[r] \notin Creds /\ decision'[r].disp = "deny"
    <3>1. auth[r] \notin Creds
      BY <2>1, Zenon DEF AtAudit
    <3>2. decision'[r].disp = "deny"
      BY <1>9 DEF Failed, DenyFault
    <3> QED
      BY <1>9, <3>1, <3>2, Zenon DEF Failed
  <2>3. AfterAudit(r)'
    BY <2>2, Zenon DEF AfterAudit
  <2> QED
    BY <2>2, <2>3, Zenon DEF RequestInv
<1>10. CASE Injected(r) \/ InjectFailed(r)
  <2>1. AfterAudit(r) /\ pc[r] = "inject" /\ pc'[r] = "done"
    BY <1>10, Zenon DEF Injected, InjectFailed, RequestInv
  <2>2. AllowHolds(r) /\ RecordHolds(r) /\ auth[r] = None /\ written[r] # "no"
    BY <2>1, Zenon DEF AfterAudit
  <2>3. decision[r] = Allow /\ token[r] = match[r].rule /\ Matched(r)
    BY <2>2, Zenon DEF AllowHolds
  <2>4. /\ record[r].disp = "allow" /\ record[r].cred = token[r]
        /\ record[r].version = match[r].version /\ record[r].identity = identity[r]
    BY <2>2, <2>3 DEF RecordHolds, Allow
  <2>5. KeepsFacts(r) /\ KeepsSink(r) /\ input'[r] = input[r]
    BY <1>10, Zenon DEF Injected, InjectFailed
  <2>6. auth'[r] \in {None, match[r].rule} /\ match[r].rule \in Creds \cup {None}
    BY <1>10, <2>2, <2>3, Zenon DEF Injected, InjectFailed, TypeOK, Matches
  <2>7. Matched(r)' /\ (decision'[r].disp = "allow" => AllowHolds(r)' /\ RecordHolds(r)')
    <3>1. Matched(r)'
      BY <2>3, <2>5, Zenon DEF Matched
    <3>2. CASE Injected(r)
      BY <2>2, <2>5, <3>1, <3>2, Zenon DEF Injected, AllowHolds, RecordHolds
    <3>3. CASE InjectFailed(r)
      <4>1. decision'[r].disp # "allow"
        BY <3>3 DEF InjectFailed, DenyFault
      <4> QED
        BY <3>1, <4>1, Zenon
    <3> QED
      BY <1>10, <3>2, <3>3, Zenon
  <2>8. AfterAudit(r)'
    BY <2>1, <2>2, <2>3, <2>4, <2>5, <2>6, <2>7, PipelineAssumption, Zenon DEF AfterAudit
  <2> QED
    BY <2>1, <2>8, Zenon DEF RequestInv
<1> QED
  BY <1>1, <1>2, <1>3, <1>4, <1>5, <1>6, <1>7, <1>8, <1>9, <1>10, Zenon DEF Effect

\* The request that returns is in the trail.
LEMMA OwnTrail ==
  ASSUME NEW r \in Requests, RequestInv(r), Effect(r), pc'[r] = "done"
  PROVE  InTrail(r)'
<1> USE DEF KeepsFacts, KeepsSink, KeepsHead, Moves
<1>1. CASE Wrote(r)
  BY <1>1, Zenon DEF Wrote, RequestInv, AtAudit, RecordHolds, InTrail
<1>2. CASE Failed(r)
  BY <1>2, Zenon DEF Failed, RequestInv, AtAudit, InTrail
<1>3. CASE Injected(r) \/ InjectFailed(r)
  <2>1. decision[r] = Allow /\ RecordHolds(r) /\ written[r] # "no"
    BY <1>3, Zenon DEF Injected, InjectFailed, RequestInv, AfterAudit, AllowHolds
  <2>2. CASE Injected(r)
    BY <2>1, <2>2, Zenon DEF Injected, RecordHolds, InTrail
  <2>3. CASE InjectFailed(r)
    BY <2>1, <2>3 DEF InjectFailed, RecordHolds, Allow, InTrail, Recorded
  <2> QED
    BY <1>3, <2>2, <2>3, Zenon
<1> QED
  BY <1>1, <1>2, <1>3, Zenon
     DEF Effect, Settled, Started, Sanitised, Identified, RuleFound, Acquired, Audited, Locked

\* Every step keeps the inductive invariant.
LEMMA IInvStep == IInv /\ [Next]_vars => IInv'
<1> SUFFICES ASSUME IInv, [Next]_vars PROVE IInv'
  BY Zenon
<1>1. TypeOK'
  BY TypeStep, Zenon
<1>2. ASSUME NEW r \in Requests, Start(r) \/ Step(r)
      PROVE  OutcomeRecorded' /\ \A q \in Requests : RequestInv(q)'
  <2>1. RequestInv(r)'
    BY <1>2, Effects, OwnStep, Zenon DEF IInv
  <2>2. \A q \in Requests : q # r => SameRequest(q)
    BY <1>2, OthersSame, Zenon DEF IInv
  <2>3. \A q \in Requests : q # r => RequestInv(q)'
    BY <2>2, Frame, Zenon DEF IInv
  <2>4. pc'[r] = "done" => InTrail(r)'
    BY <1>2, Effects, OwnTrail, Zenon DEF IInv
  <2>5. OutcomeRecorded'
    <3> SUFFICES ASSUME NEW q \in Requests, pc'[q] = "done" PROVE InTrail(q)'
      BY Zenon DEF OutcomeRecorded
    <3>1. CASE q = r
      BY <2>4, <3>1, Zenon
    <3>2. CASE q # r
      BY <2>2, <3>2, FrameInTrail, Zenon DEF IInv, OutcomeRecorded, SameRequest
    <3> QED
      BY <3>1, <3>2, Zenon
  <2> QED
    BY <2>1, <2>3, <2>5, Zenon
<1>3. ASSUME \A q \in Requests : SameRequest(q)
      PROVE  OutcomeRecorded' /\ \A q \in Requests : RequestInv(q)'
  <2>1. OutcomeRecorded'
    BY <1>3, FrameInTrail, Zenon DEF IInv, OutcomeRecorded, SameRequest
  <2>2. \A q \in Requests : RequestInv(q)'
    BY <1>3, Frame, Zenon DEF IInv
  <2> QED
    BY <2>1, <2>2, Zenon
<1>4. ASSUME NEW v \in Versions, Publish(v) PROVE \A q \in Requests : SameRequest(q)
  BY <1>4, Zenon DEF Publish, SameRequest, reqVars, sinkVars
<1>5. CASE Tick \/ UNCHANGED vars
  <2>1. \A q \in Requests : SameRequest(q)
    BY <1>5, Zenon DEF Tick, vars, SameRequest, reqVars, sinkVars
  <2> QED
    BY <1>1, <1>3, <2>1, Zenon DEF IInv
<1> QED
  BY <1>1, <1>2, <1>3, <1>4, <1>5, Zenon DEF Next, IInv

\* The inductive invariant holds in every reachable state.
THEOREM PipelineInvariance == Spec => []IInv
<1>1. IInv /\ [Next]_vars => IInv'
  BY IInvStep, Zenon
<1> QED
  BY PipelineInit, <1>1, PTL DEF Spec

\* The pipeline keeps its types (PolicyStore's included).
THEOREM PipelineTypeCorrect == Spec => []TypeOK
<1>1. IInv => TypeOK
  BY Zenon DEF IInv
<1> QED
  BY PipelineInvariance, <1>1, PTL

\* Every outcome of Execute is in the audit stream, up to the two exceptions
\* the pipeline documents.
THEOREM OutcomeRecordedHolds == Spec => []OutcomeRecorded
<1>1. IInv => OutcomeRecorded
  BY Zenon DEF IInv
<1> QED
  BY PipelineInvariance, <1>1, PTL

\* InjectStage only ever sets the credential that the recorded snapshot gives
\* to the recorded identity.
THEOREM CredentialAttributedHolds == Spec => []CredentialAttributed
<1>1. IInv => CredentialAttributed
  <2> SUFFICES ASSUME IInv, NEW r \in Requests, auth[r] \in Creds
               PROVE  /\ Recorded(r, "allow") /\ record[r].cred = auth[r]
                      /\ RuleOf[record[r].version][record[r].identity] = auth[r]
    BY Zenon DEF CredentialAttributed
  <2>1. pc[r] \in {"inject", "done"}
    BY Zenon DEF IInv, TypeOK, Stages, RequestInv, BeforeAudit, AtAudit
  <2>2. AfterAudit(r)
    BY <2>1, Zenon DEF IInv, RequestInv
  <2> QED
    BY <2>2, Zenon DEF AfterAudit, Recorded, Matched
<1> QED
  BY PipelineInvariance, <1>1, PTL

\* SanitiseStage precedes everything that can let a request pass.
THEOREM NoAgentCredentialHolds == Spec => []NoAgentCredential
<1>1. IInv => NoAgentCredential
  BY Zenon DEF IInv, RequestInv, AfterAudit, NoAgentCredential, Returned
<1> QED
  BY PipelineInvariance, <1>1, PTL

\* An allowed request names one host and one port (IdentityStage).
THEOREM IdentityAgreedHolds == Spec => []IdentityAgreed
<1>1. IInv => IdentityAgreed
  <2> SUFFICES ASSUME IInv, NEW r \in Requests, Returned(r, "allow")
               PROVE  /\ {input[r].sni, input[r].host} \subseteq {identity[r], None}
                      /\ {input[r].authPort, input[r].hostPort} \subseteq {input[r].dst, None}
    BY Zenon DEF IdentityAgreed
  <2>1. identity[r] = IdentityOf(input[r]) /\ IdentityFault(input[r]) = "none"
    BY Zenon DEF IInv, RequestInv, AfterAudit, AllowHolds, Returned
  <2>2. input[r] \in Input
    BY PipelineAssumption, Zenon DEF IInv, TypeOK
  <2> QED
    BY <2>1, <2>2, IdentityIsHost, Zenon
<1> QED
  BY PipelineInvariance, <1>1, PTL
-----------------------------------------------------------------------------
(***************************************************************************)
(* The pipeline implements Enforcement: of one request's steps only the    *)
(* write of its record, its failure, and what Inject does show in the      *)
(* mapped state, and each of them is a step of Enforcement.                *)
(***************************************************************************)
\* The mapped state of one request: verdict, credential carried, outcome.
Verdict(q) == IF written[q] = "no" THEN "none" ELSE record[q].disp
Carried(q) == IF auth[q] \in Creds THEN auth[q] ELSE None
Outcome(q) == IF pc[q] = "done" THEN decision[q].disp ELSE "none"

SameMapped(q) ==
  Verdict(q)' = Verdict(q) /\ Carried(q)' = Carried(q) /\ Outcome(q)' = Outcome(q)

\* A request a step leaves alone keeps its mapped state.
LEMMA SameIsMapped == ASSUME NEW q \in Requests, SameRequest(q) PROVE SameMapped(q)
BY Zenon DEF SameRequest, SameMapped, Verdict, Carried, Outcome

\* If every request keeps its mapped state the step is a stutter.
LEMMA MappedStutter ==
  ASSUME \A q \in Requests : SameMapped(q)
  PROVE  UNCHANGED Promise!vars
<1>1. [q \in Requests |-> Verdict(q)]' = [q \in Requests |-> Verdict(q)]
  BY Zenon DEF SameMapped
<1>2. [q \in Requests |-> Carried(q)]' = [q \in Requests |-> Carried(q)]
  BY Zenon DEF SameMapped
<1>3. [q \in Requests |-> Outcome(q)]' = [q \in Requests |-> Outcome(q)]
  BY Zenon DEF SameMapped
<1> QED
  BY <1>1, <1>2, <1>3, Zenon DEF Promise!vars, Verdict, Carried, Outcome

\* The stages up to the sink's mutex change nothing the promise speaks of.
Quiet(r) ==
  \/ Settled(r) \/ Started(r) \/ Sanitised(r) \/ Identified(r) \/ RuleFound(r) \/ Acquired(r)
  \/ Audited(r) \/ Locked(r)

LEMMA QuietStep ==
  ASSUME NEW r \in Requests, RequestInv(r), Quiet(r)
  PROVE  SameMapped(r)
<1> USE DEF KeepsFacts, KeepsSink, KeepsHead, Moves
<1>1. CASE Audited(r) \/ Locked(r)
  <2>1. written[r] = "no" /\ auth'[r] = auth[r] /\ pc[r] # "done" /\ pc'[r] # "done"
        /\ written'[r] = "no"
    BY <1>1, Zenon DEF Audited, Locked, RequestInv, AtAudit
  <2> QED
    BY <2>1, Zenon DEF SameMapped, Verdict, Carried, Outcome
<1>2. CASE ~(Audited(r) \/ Locked(r))
  <2>1. pc[r] \in {"idle", "sanitise", "identity", "match", "acquire"} /\ pc'[r] # "done"
        /\ written'[r] = written[r] /\ auth'[r] \in {auth[r], None}
    BY <1>2, Zenon DEF Quiet, Settled, Started, Sanitised, Identified, RuleFound, Acquired
  <2>2. written[r] = "no" /\ auth[r] \notin Creds
    BY <2>1, Zenon DEF RequestInv, BeforeAudit
  <2> QED
    BY <2>1, <2>2, PipelineAssumption, Zenon DEF SameMapped, Verdict, Carried, Outcome
<1> QED
  BY <1>1, <1>2, Zenon

\* A step in which only request r changes its mapped state.
LEMMA MappedAt ==
  ASSUME NEW r \in Requests, \A q \in Requests : q # r => SameMapped(q)
  PROVE  /\ [q \in Requests |-> Verdict(q)]'
              = [[q \in Requests |-> Verdict(q)] EXCEPT ![r] = Verdict(r)']
         /\ [q \in Requests |-> Carried(q)]'
              = [[q \in Requests |-> Carried(q)] EXCEPT ![r] = Carried(r)']
         /\ [q \in Requests |-> Outcome(q)]'
              = [[q \in Requests |-> Outcome(q)] EXCEPT ![r] = Outcome(r)']
BY Zenon DEF SameMapped

\* The recorded allow is an Admit, the denials are a Refuse, what follows the
\* record is a Release.
LEMMA LoudStep ==
  ASSUME NEW r \in Requests, RequestInv(r), \A q \in Requests : q # r => SameMapped(q),
         Wrote(r) \/ Failed(r) \/ Injected(r) \/ InjectFailed(r)
  PROVE  Promise!Next
<1> DEFINE V == [q \in Requests |-> Verdict(q)]
           C == [q \in Requests |-> Carried(q)]
           O == [q \in Requests |-> Outcome(q)]
<1>0. /\ V' = [V EXCEPT ![r] = Verdict(r)']
      /\ C' = [C EXCEPT ![r] = Carried(r)']
      /\ O' = [O EXCEPT ![r] = Outcome(r)']
      /\ V[r] = Verdict(r) /\ C[r] = Carried(r) /\ O[r] = Outcome(r)
  BY MappedAt, Zenon
<1>e. [V EXCEPT ![r] = V[r]] = V /\ [C EXCEPT ![r] = C[r]] = C /\ [O EXCEPT ![r] = O[r]] = O
  BY Zenon
<1> HIDE DEF V, C, O
<1>1. CASE Wrote(r)
  <2>0. AtAudit(r) /\ RecordHolds(r) /\ pc[r] = "write"
    BY <1>1, Zenon DEF Wrote, RequestInv, AtAudit
  <2>1. /\ Verdict(r) = "none" /\ Outcome(r) = "none" /\ Carried(r)' = Carried(r)
        /\ Verdict(r)' = decision[r].disp
        /\ \/ decision[r].disp = "allow" /\ Outcome(r)' = "none"
           \/ decision[r].disp = "deny" /\ Outcome(r)' = "deny"
    BY <1>1, <2>0, Zenon DEF Wrote, KeepsHead, AtAudit, RecordHolds, Verdict, Carried, Outcome
  <2>2. CASE decision[r].disp = "allow" /\ Outcome(r)' = "none"
    <3>1. /\ V[r] = "none" /\ O[r] = "none"
          /\ V' = [V EXCEPT ![r] = "allow"] /\ C' = C /\ O' = O
      BY <1>0, <1>e, <2>1, <2>2, Zenon
    <3>2. Promise!Admit(r)
      BY <3>1, Zenon DEF Promise!Admit, V, C, O, Verdict, Carried, Outcome
    <3> QED
      BY <3>2, Zenon DEF Promise!Next
  <2>3. CASE decision[r].disp = "deny" /\ Outcome(r)' = "deny"
    <3>1. /\ V[r] = "none" /\ O[r] = "none"
          /\ V' = [V EXCEPT ![r] = "deny"] /\ C' = C /\ O' = [O EXCEPT ![r] = "deny"]
      BY <1>0, <1>e, <2>1, <2>3, Zenon
    <3>2. Promise!Refuse(r)
      BY <3>1, Zenon DEF Promise!Refuse, V, C, O, Verdict, Carried, Outcome
    <3> QED
      BY <3>2, Zenon DEF Promise!Next
  <2> QED
    BY <2>1, <2>2, <2>3, Zenon
<1>2. CASE Failed(r)
  <2>0. AtAudit(r)
    BY <1>2, Zenon DEF Failed, RequestInv
  <2>1. /\ Verdict(r) = "none" /\ Outcome(r) = "none" /\ Carried(r)' = Carried(r)
        /\ Verdict(r)' = "none" /\ Outcome(r)' = "deny"
    BY <1>2, <2>0 DEF Failed, AtAudit, DenyFault, Verdict, Carried, Outcome
  <2>2. /\ V[r] = "none" /\ O[r] = "none"
        /\ V' = V /\ C' = C /\ O' = [O EXCEPT ![r] = "deny"]
    BY <1>0, <1>e, <2>1, Zenon
  <2>3. Promise!Refuse(r)
    BY <2>2, Zenon DEF Promise!Refuse, V, C, O, Verdict, Carried, Outcome
  <2> QED
    BY <2>3, Zenon DEF Promise!Next
<1>3. CASE Injected(r) \/ InjectFailed(r)
  <2>0. AfterAudit(r) /\ pc[r] = "inject" /\ pc'[r] = "done" /\ KeepsSink(r)
    BY <1>3, Zenon DEF Injected, InjectFailed, Moves, RequestInv
  <2>1. written[r] # "no" /\ decision[r] = Allow /\ record[r].disp = "allow"
    BY <2>0 DEF AfterAudit, AllowHolds, RecordHolds, Allow
  <2>2. decision'[r].disp \in {"allow", "deny"}
    BY <1>3, <2>1 DEF Injected, InjectFailed, DenyFault, Allow
  <2>3. /\ Verdict(r) = "allow" /\ Outcome(r) = "none" /\ Verdict(r)' = "allow"
        /\ Outcome(r)' \in {"allow", "deny"} /\ Carried(r)' \in Creds \cup {None}
    BY <2>0, <2>1, <2>2, Zenon DEF KeepsSink, Verdict, Carried, Outcome
  <2>4. PICK c \in Creds \cup {None}, o \in {"allow", "deny"} : c = Carried(r)' /\ o = Outcome(r)'
    BY <2>3, Zenon
  <2>5. /\ V[r] = "allow" /\ O[r] = "none"
        /\ V' = V /\ C' = [C EXCEPT ![r] = c] /\ O' = [O EXCEPT ![r] = o]
    BY <1>0, <1>e, <2>3, <2>4, Zenon
  <2>6. Promise!Release(r, c, o)
    BY <2>5, Zenon DEF Promise!Release, V, C, O, Verdict, Carried, Outcome
  <2> QED
    BY <2>6, Zenon DEF Promise!Next
<1> QED
  BY <1>1, <1>2, <1>3, Zenon

\* Every step of the pipeline is a step of Enforcement or a stutter.
LEMMA PromiseStep == IInv /\ [Next]_vars => [Promise!Next]_(Promise!vars)
<1> SUFFICES ASSUME IInv, [Next]_vars PROVE [Promise!Next]_(Promise!vars)
  BY Zenon
<1>1. ASSUME NEW r \in Requests, Start(r) \/ Step(r) PROVE Promise!Next \/ UNCHANGED Promise!vars
  <2>1. \A q \in Requests : q # r => SameMapped(q)
    BY <1>1, OthersSame, SameIsMapped, Zenon DEF IInv
  <2>2. Effect(r) /\ RequestInv(r)
    BY <1>1, Effects, Zenon DEF IInv
  <2>3. CASE Wrote(r) \/ Failed(r) \/ Injected(r) \/ InjectFailed(r)
    BY <2>1, <2>2, <2>3, LoudStep, Zenon
  <2>4. CASE Quiet(r)
    BY <2>1, <2>2, <2>4, QuietStep, MappedStutter, Zenon
  <2> QED
    BY <2>2, <2>3, <2>4, Zenon DEF Effect, Quiet
<1>2. ASSUME NEW v \in Versions, Publish(v) PROVE UNCHANGED Promise!vars
  <2>1. \A q \in Requests : SameMapped(q)
    BY <1>2, SameIsMapped, Zenon DEF Publish, SameRequest, reqVars, sinkVars
  <2> QED
    BY <2>1, MappedStutter, Zenon
<1>3. CASE Tick \/ UNCHANGED vars
  <2>1. \A q \in Requests : SameMapped(q)
    BY <1>3, SameIsMapped, Zenon DEF Tick, vars, SameRequest, reqVars, sinkVars
  <2> QED
    BY <2>1, MappedStutter, Zenon
<1> QED
  BY <1>1, <1>2, <1>3, Zenon DEF Next

\* The pipeline implements Enforcement: nothing is released that was not
\* recorded as allowed before (runner.go, Execute).
THEOREM PipelineImplementsEnforcement == Spec => EnforcementImplemented
<1>1. Init => Promise!Init
  BY PipelineAssumption, Zenon DEF Init, Promise!Init
<1>2. IInv /\ [Next]_vars => [Promise!Next]_(Promise!vars)
  BY PromiseStep, Zenon
<1> QED
  BY <1>1, <1>2, PipelineInvariance, PTL DEF Spec, EnforcementImplemented, Promise!Spec
-----------------------------------------------------------------------------
(***************************************************************************)
(* The watcher (PolicyWatch) that feeds the store, for any number of edits *)
(* and outages, any staleness bound and any period.  The pipeline's snap   *)
(* and age are the watcher's.                                              *)
(***************************************************************************)
\* What the pipeline lets happen to the store (Tick and Publish).
StoreNext == StoreTick \/ \E v \in Versions : Swap(v)
StoreSpec == StoreInit /\ [][StoreNext]_storeVars

\* The interval of resyncLoop is positive and below the staleness bound,
\* whatever period is configured.
LEMMA IntervalBounds ==
  ASSUME period \in ResyncPeriods
  PROVE  ResyncInterval \in 1 .. MaxStaleness - 1
<1>1. MaxStaleness \in Nat /\ MaxStaleness >= 3 /\ period \in Nat
  BY StalenessAssumption, WatchAssumption
<1>2. MaxStaleness \div 3 \in 1 .. MaxStaleness - 1
  BY <1>1
<1>3. Derived \in 1 .. MaxStaleness - 1
  BY <1>2, <1>1 DEF Derived
<1> QED
  BY <1>1, <1>3 DEF ResyncInterval

\* The watcher starts with nothing published.
LEMMA WatchStarts == WatchInit => LeaseInv
<1> SUFFICES ASSUME WatchInit PROVE LeaseInv
  OBVIOUS
<1> USE StalenessAssumption, WatchAssumption DEF WatchInit, StoreInit
<1>1. WatchTypeOK
  <2>1. StoreType
    BY SMT DEF StoreType
  <2>2. rev \in 0 .. MaxEdits /\ broken \subseteq 0 .. rev /\ outages \in 0 .. MaxOutages
    BY SMT
  <2>3. /\ since \in 0 .. MaxStaleness - 1 /\ fails \in 0 .. 2 /\ slow \in 0 .. MaxList
        /\ old \in [Versions -> 0 .. OldCap] /\ flight \in [Goroutines -> 0 .. MaxList]
    BY SMT DEF OldCap
  <2>4. /\ wpc \in [Goroutines -> {"unborn", "idle", "want", "listed", "connect", "open", "ended"}]
        /\ got \in [Goroutines -> Versions \cup {None}]
    BY SMT
  <2>5. up \in BOOLEAN /\ cancelled \in BOOLEAN /\ due \in BOOLEAN /\ ontime \in BOOLEAN
    BY Zenon
  <2> QED
    BY <2>1, <2>2, <2>3, <2>4, <2>5, Zenon DEF WatchTypeOK
<1>2. snap = None /\ wpc["run"] = "want" /\ wpc["resync"] = "unborn"
  BY SMT DEF Goroutines
<1>3. \A v \in Versions : old[v] = 0
  BY SMT
<1> QED
  BY <1>1, <1>2, <1>3, Zenon DEF LeaseInv, LagInv, WatchInv, LeaseBoundsLag, Goroutines

\* A step of the watcher publishes a version, lets time pass, or leaves the
\* store alone.
LEMMA StoreStep ==
  ASSUME WatchInv, [WatchNext]_watchVars
  PROVE  [StoreNext]_storeVars
<1> USE DEF storeVars, StoreNext
<1>1. ASSUME NEW g \in Goroutines, RelistSwaps(g) PROVE [StoreNext]_storeVars
  <2>1. got[g] \in Versions
    BY <1>1, WatchAssumption DEF WatchInv, WatchTypeOK, RelistSwaps
  <2> QED
    BY <1>1, <2>1, Zenon DEF RelistSwaps, CompileAndSwap, Swap
<1>2. ASSUME WatchTick PROVE StoreTick
  BY <1>2, Zenon DEF WatchTick, StoreTick
<1>3. CASE UNCHANGED watchVars
  BY <1>3, Zenon DEF watchVars
<1>4. ASSUME NEW g \in Goroutines, RelistReads(g) \/ RelistFails(g) \/ Ends(g)
      PROVE  UNCHANGED storeVars
  BY <1>4, Zenon DEF RelistReads, RelistFails, Ends
<1>5. ASSUME \/ Edit \/ Outage \/ Recovers \/ WatchConnects \/ WatchFails
             \/ WatchEvent \/ WatchBreaks \/ ResyncDue \/ Cancel
      PROVE  UNCHANGED storeVars
  BY <1>5, Zenon DEF Edit, Outage, Recovers, WatchConnects, WatchFails, WatchEvent,
     WatchBreaks, ResyncDue, Cancel
<1> QED
  BY <1>1, <1>2, <1>3, <1>4, <1>5, Zenon DEF WatchNext, Steps, Over

\* Every step of the API server, the two goroutines and the clock keeps WatchInv.
LEMMA WatchStep ==
  ASSUME WatchInv, [WatchNext]_watchVars
  PROVE  WatchInv'
<1> USE StalenessAssumption, WatchAssumption DEF WatchInv, WatchTypeOK,
    StoreType, Goroutines, storeVars, apiVars, clockVars, delayVars, ghostVars, WatchGoto
<1>1. CASE Edit
  <2>1. rev' \in 1 .. MaxEdits /\ rev' = rev + 1 /\ broken' \subseteq 0 .. rev'
    BY <1>1 DEF Edit
  <2>2. UNCHANGED <<snap, age, up, outages, wpc, got, lock, stream, cancelled, period, since, due,
                    old, flight, slow, fails, ontime>>
    BY <1>1, Zenon DEF Edit
  <2>3. WatchTypeOK'
    BY <2>1, <2>2
  <2>4. \A g \in Goroutines : wpc[g] = "listed" => got[g] \in 0 .. rev'
    BY <2>1
  <2> QED
    BY <2>1, <2>2, <2>3, <2>4
<1>2. CASE Outage
  <2>1. up' \in BOOLEAN
    BY <1>2, Zenon DEF Outage
  <2>2. outages' \in 0 .. MaxOutages
    BY <1>2 DEF Outage
  <2> QED
    BY <1>2, <2>1, <2>2, Zenon DEF Outage
<1>3. CASE Recovers
  BY <1>3 DEF Recovers
<1>4. ASSUME NEW g \in Goroutines, RelistReads(g) PROVE WatchInv'
  BY <1>4 DEF RelistReads
<1>5. ASSUME NEW g \in Goroutines, RelistFails(g) PROVE WatchInv'
  BY <1>5 DEF RelistFails, AfterError, OneMore, Forget
<1>6. ASSUME NEW g \in Goroutines, RelistSwaps(g) PROVE WatchInv'
  <2>1. got[g] \in 0 .. rev /\ lock = g
    BY <1>6 DEF RelistSwaps
  <2>2. StoreType' /\ (snap # None => snap <= rev)'
    <3>1. rev' = rev /\ (UNCHANGED <<snap, age>> \/ (snap' = got[g] /\ age' = 0))
      BY <1>6, Zenon DEF RelistSwaps, CompileAndSwap, Swap
    <3>2. rev \in 0 .. MaxEdits /\ Versions = 0 .. MaxEdits /\ MaxEdits \in Nat /\ MaxStaleness \in Nat
      BY Zenon
    <3>3. snap \in Versions \cup {None} /\ age \in 0 .. MaxStaleness /\ (snap # None => snap <= rev)
      BY Zenon
    <3> QED
      BY ONLY <2>1, <3>1, <3>2, <3>3 DEF StoreType
  <2>3. /\ fails' \in 0 .. 2 /\ since' \in 0 .. MaxStaleness - 1
        /\ slow' \in 0 .. MaxList /\ old' = old
    <3>1. /\ old' = old /\ since' \in {since, 0} /\ slow' \in {slow, flight[g]}
          /\ fails' \in {0, fails, OneMore}
      BY <1>6, Zenon DEF RelistSwaps, CompileAndSwap, AfterRelist
    <3>2. OneMore \in 0 .. 2
      BY DEF OneMore
    <3> QED
      BY <3>1, <3>2
  <2>4. ontime' \in BOOLEAN /\ due' \in BOOLEAN
    BY <1>6, Zenon DEF RelistSwaps, CompileAndSwap, AfterRelist
  <2>5. /\ wpc' \in [Goroutines -> {"unborn", "idle", "want", "listed", "connect", "open", "ended"}]
        /\ \A h \in Goroutines : wpc'[h] = "listed" => wpc[h] = "listed" /\ h # g
    BY <1>6 DEF RelistSwaps, AfterRelist
  <2>6. UNCHANGED <<rev, broken, up, outages, stream, cancelled, period>> /\ lock' = None
    BY <1>6, <2>1, Zenon DEF RelistSwaps
  <2>f. /\ got' \in [Goroutines -> Versions \cup {None}] /\ got'["run"] = got["run"]
        /\ flight' \in [Goroutines -> 0 .. MaxList]
    BY <1>6 DEF RelistSwaps, Forget
  <2>7. WatchTypeOK'
    BY <2>2, <2>3, <2>4, <2>5, <2>6, <2>f
  <2>8. /\ wpc'["run"] = "connect" => got'["run"] # None
        /\ wpc'["run"] = "open" => stream' # None
    BY <1>6, <2>1, <2>6, <2>f DEF RelistSwaps, AfterRelist
  <2> QED
    BY <2>1, <2>2, <2>5, <2>7, <2>8, Zenon
<1>7. ASSUME NEW g \in Goroutines, Ends(g) PROVE WatchInv'
  BY <1>7 DEF Ends
<1>8. CASE WatchConnects
  BY <1>8 DEF WatchConnects
<1>9. CASE WatchFails
  BY <1>9 DEF WatchFails
<1>10. CASE WatchEvent
  BY <1>10 DEF WatchEvent
<1>11. CASE WatchBreaks
  BY <1>11 DEF WatchBreaks
<1>12. CASE ResyncDue
  BY <1>12 DEF ResyncDue
<1>13. CASE WatchTick
  <2>1. StoreType' /\ snap' = snap
    BY <1>13 DEF WatchTick, StoreTick
  <2>o. old' \in [Versions -> 0 .. OldCap] /\ flight' \in [Goroutines -> 0 .. MaxList]
    <3>1. /\ old' = [v \in Versions |-> IF v < rev /\ old[v] < OldCap THEN old[v] + 1 ELSE old[v]]
          /\ flight' = [g \in Goroutines |-> IF wpc[g] = "listed" THEN flight[g] + 1 ELSE flight[g]]
          /\ \A g \in Goroutines : wpc[g] = "listed" => flight[g] < MaxList
      BY <1>13, Zenon DEF WatchTick
    <3>2. OldCap \in Nat /\ old \in [Versions -> 0 .. OldCap] /\ flight \in [Goroutines -> 0 .. MaxList]
      BY DEF OldCap
    <3>3. old' \in [Versions -> 0 .. OldCap]
      BY ONLY <3>1, <3>2
    <3>4. flight' \in [Goroutines -> 0 .. MaxList]
      <4>1. MaxList \in Nat
        OBVIOUS
      <4> QED
        BY ONLY <3>1, <3>2, <4>1
    <3> QED
      BY <3>3, <3>4
  <2>2. since' \in 0 .. MaxStaleness - 1
    <3>1. ResyncInterval \in 1 .. MaxStaleness - 1 /\ since \in Nat
      BY IntervalBounds
    <3>2. (since + 1) % ResyncInterval \in 0 .. ResyncInterval - 1
      BY <3>1
    <3>3. since' \in {since, (since + 1) % ResyncInterval}
      BY <1>13, Zenon DEF WatchTick
    <3> QED
      BY <3>1, <3>2, <3>3
  <2>3. due' \in BOOLEAN /\ ontime' \in BOOLEAN
    BY <1>13, Zenon DEF WatchTick
  <2>4. UNCHANGED <<rev, broken, up, outages, wpc, got, lock, stream, cancelled, period, fails, slow>>
    BY <1>13, Zenon DEF WatchTick
  <2>5. WatchTypeOK'
    BY <2>1, <2>o, <2>2, <2>3, <2>4, Zenon
  <2> QED
    BY <2>1, <2>4, <2>5, Zenon
<1>14. CASE Cancel
  BY <1>14 DEF Cancel
<1>15. CASE UNCHANGED watchVars
  BY <1>15 DEF watchVars
<1>16. CASE Over
  BY <1>16, <1>15 DEF Over
<1> QED
  BY <1>1, <1>2, <1>3, <1>4, <1>5, <1>6, <1>7, <1>8, <1>9, <1>10, <1>11, <1>12, <1>13, <1>14,
     <1>15, <1>16, Zenon DEF WatchNext, Steps

\* Every step keeps LagInv: time is counted for the List under way, too.
LEMMA LagStep ==
  ASSUME LeaseInv, [WatchNext]_watchVars
  PROVE  LagInv'
<1>t. /\ rev \in Nat /\ snap \in Versions \cup {None} /\ age \in 0 .. MaxStaleness
      /\ old \in [Versions -> 0 .. OldCap] /\ flight \in [Goroutines -> 0 .. MaxList]
      /\ slow \in 0 .. MaxList /\ OldCap \in Nat /\ MaxList \in Nat /\ MaxStaleness \in Nat
      /\ Versions \subseteq Nat /\ got \in [Goroutines -> Versions \cup {None}]
      /\ wpc \in [Goroutines -> {"unborn", "idle", "want", "listed", "connect", "open", "ended"}]
  BY WatchAssumption, StalenessAssumption DEF LeaseInv, WatchInv, WatchTypeOK, StoreType, OldCap
<1>i. LeaseBoundsLag
  BY Zenon DEF LeaseInv, LagInv
<1>g. \A g \in Goroutines : wpc[g] = "listed" =>
         got[g] \in 0 .. rev /\ got[g] \in Versions /\ old[got[g]] <= flight[g] /\ lock = g
  BY WatchAssumption DEF LeaseInv, LagInv, WatchInv, WatchTypeOK
<1>v. \A v \in Versions : v >= rev => old[v] = 0
  BY Zenon DEF LeaseInv, LagInv
\* Steps that neither read, publish nor let time pass.
<1>0. ASSUME UNCHANGED <<snap, age, rev, old, flight, slow>>,
             \A g \in Goroutines : wpc'[g] = "listed" => wpc[g] = "listed" /\ got'[g] = got[g]
      PROVE  LagInv'
  BY <1>0, <1>i, <1>g, <1>v, Zenon DEF LagInv, LeaseBoundsLag, Stale
<1>1. CASE Edit
  <2>1. rev' = rev + 1 /\ UNCHANGED <<snap, age, wpc, got, old, flight, slow>>
    BY <1>1, Zenon DEF Edit, storeVars, ghostVars, delayVars
  <2>2. \A v \in Versions : v >= rev' => old'[v] = 0
    BY <2>1, <1>t, <1>v
  <2> QED
    BY <2>1, <2>2, <1>i, <1>g, Zenon DEF LagInv, LeaseBoundsLag, Stale
<1>2. CASE Outage \/ Recovers \/ Cancel
  BY <1>2, <1>0, Zenon DEF Outage, Recovers, Cancel, storeVars, apiVars, ghostVars, delayVars
<1>3. ASSUME NEW g \in Goroutines, RelistReads(g) PROVE LagInv'
  <2>1. /\ UNCHANGED <<snap, age, rev, old, flight, slow>>
        /\ wpc' = [wpc EXCEPT ![g] = "listed"] /\ got' = [got EXCEPT ![g] = rev] /\ lock = None
    BY <1>3, Zenon DEF RelistReads, WatchGoto, storeVars, apiVars, ghostVars, delayVars
  <2>2. rev \in Versions
    BY WatchAssumption DEF LeaseInv, WatchInv, WatchTypeOK
  <2>3. \A h \in Goroutines : wpc'[h] = "listed" => old'[got'[h]] <= flight'[h]
    BY <2>1, <2>2, <1>t, <1>g, <1>v
  <2> QED
    BY <2>1, <2>3, <1>i, <1>v, Zenon DEF LagInv, LeaseBoundsLag, Stale
<1>4. ASSUME NEW g \in Goroutines, RelistFails(g) PROVE LagInv'
  <2>1. UNCHANGED <<snap, age, rev, old, slow>>
    BY <1>4, Zenon DEF RelistFails, storeVars, apiVars
  <2>2. \A h \in Goroutines : wpc'[h] = "listed" =>
           wpc[h] = "listed" /\ got'[h] = got[h] /\ flight'[h] = flight[h]
    BY <1>4, <1>t DEF RelistFails, AfterError, WatchGoto, Forget
  <2> QED
    BY <2>1, <2>2, <1>i, <1>g, <1>v, Zenon DEF LagInv, LeaseBoundsLag, Stale
<1>5. ASSUME NEW g \in Goroutines, RelistSwaps(g) PROVE LagInv'
  <2>1. UNCHANGED <<rev, old>> /\ wpc[g] = "listed"
    BY <1>5, Zenon DEF RelistSwaps, apiVars
  <2>2. LeaseBoundsLag'
    <3>1. CASE got[g] \in broken
      BY <1>5, <2>1, <3>1, <1>i, Zenon DEF RelistSwaps, CompileAndSwap, LeaseBoundsLag, Stale, storeVars
    <3>2. CASE got[g] \notin broken
      <4>1. snap' = got[g] /\ age' = 0 /\ slow' = flight[g]
        BY <1>5, <3>2, Zenon DEF RelistSwaps, CompileAndSwap, Swap
      <4>2. old[got[g]] <= flight[g] /\ flight[g] \in Nat
        BY <2>1, <1>g, <1>t
      <4> QED
        BY <2>1, <4>1, <4>2 DEF LeaseBoundsLag
    <3> QED
      BY <3>1, <3>2
  <2>3. \A h \in Goroutines : wpc'[h] = "listed" =>
           wpc[h] = "listed" /\ got'[h] = got[h] /\ flight'[h] = flight[h]
    BY <1>5, <1>t DEF RelistSwaps, AfterRelist, Forget, Goroutines
  <2> QED
    BY <2>1, <2>2, <2>3, <1>g, <1>v, Zenon DEF LagInv
<1>6. ASSUME NEW g \in Goroutines, Ends(g) PROVE LagInv'
  <2>1. \A h \in Goroutines : wpc'[h] = "listed" => wpc[h] = "listed" /\ got'[h] = got[h]
    BY <1>6, <1>t DEF Ends, WatchGoto
  <2> QED
    BY <1>6, <2>1, <1>0, Zenon DEF Ends, storeVars, apiVars, ghostVars, delayVars
<1>7. CASE WatchConnects \/ WatchFails \/ WatchEvent \/ WatchBreaks \/ ResyncDue
  <2>1. \A h \in Goroutines : wpc'[h] = "listed" => wpc[h] = "listed" /\ got'[h] = got[h]
    BY <1>7, <1>t DEF WatchConnects, WatchFails, WatchEvent, WatchBreaks, ResyncDue, WatchGoto, Goroutines
  <2> QED
    BY <1>7, <2>1, <1>0, Zenon DEF WatchConnects, WatchFails, WatchEvent, WatchBreaks, ResyncDue,
       storeVars, apiVars, ghostVars, delayVars
<1>8. CASE WatchTick
  <2>1. UNCHANGED <<rev, wpc, got, slow, snap>>
    BY <1>8, Zenon DEF WatchTick, StoreTick, apiVars
  <2>2. /\ \A v \in Versions : old'[v] <= old[v] + 1 /\ (v >= rev => old'[v] = old[v])
        /\ \A g \in Goroutines : wpc[g] = "listed" => flight'[g] = flight[g] + 1
    BY <1>8, <1>t DEF WatchTick
  <2>3. old' \in [Versions -> 0 .. OldCap]
    BY <1>8, <1>t DEF WatchTick
  <2>4. LeaseBoundsLag'
    <3> SUFFICES ASSUME snap' # None, ~Stale' PROVE old'[snap'] <= age' + slow'
      BY Zenon DEF LeaseBoundsLag
    <3>1. age' = IF age = MaxStaleness THEN age ELSE age + 1
      BY <1>8, <2>1, Zenon DEF WatchTick, StoreTick
    <3>2. age < MaxStaleness /\ age' = age + 1
      BY <3>1, <1>t DEF Stale
    <3>3. old[snap] <= age + slow /\ snap \in Versions
      BY <2>1, <3>2, <1>i, <1>t DEF LeaseBoundsLag, Stale
    <3> QED
      BY <2>1, <2>2, <2>3, <3>2, <3>3, <1>t
  <2>5. \A g \in Goroutines : wpc'[g] = "listed" => old'[got'[g]] <= flight'[g]
    BY <2>1, <2>2, <2>3, <1>g, <1>t
  <2>6. \A v \in Versions : v >= rev' => old'[v] = 0
    BY <2>1, <2>2, <1>v, Zenon
  <2> QED
    BY <2>4, <2>5, <2>6, Zenon DEF LagInv
<1>9. CASE UNCHANGED watchVars
  BY <1>9, <1>0, Zenon DEF watchVars, storeVars, apiVars, ghostVars, delayVars
<1> QED
  BY <1>1, <1>2, <1>3, <1>4, <1>5, <1>6, <1>7, <1>8, <1>9, Zenon DEF WatchNext, Steps, Over

\* A snapshot is replaced only by one listed under relistMu, so by no older one.
LEMMA OrderStep ==
  ASSUME WatchInv, [WatchNext]_watchVars, snap # None, snap' # snap
  PROVE  snap' # None /\ snap' >= snap
<1>1. PICK g \in Goroutines : RelistSwaps(g)
  <2>1. ASSUME WatchTick PROVE FALSE
    BY <2>1, Zenon DEF WatchTick, StoreTick
  <2>2. CASE UNCHANGED watchVars
    BY <2>2, Zenon DEF watchVars, storeVars
  <2>3. ASSUME NEW g \in Goroutines, RelistReads(g) \/ RelistFails(g) \/ Ends(g) PROVE FALSE
    BY <2>3, Zenon DEF RelistReads, RelistFails, Ends, storeVars
  <2>4. ASSUME Edit \/ Outage \/ Recovers \/ WatchConnects \/ WatchFails \/ WatchEvent
               \/ WatchBreaks \/ ResyncDue \/ Cancel
        PROVE  FALSE
    BY <2>4, Zenon DEF Edit, Outage, Recovers, WatchConnects, WatchFails, WatchEvent,
       WatchBreaks, ResyncDue, Cancel, storeVars
  <2> QED
    BY <2>1, <2>2, <2>3, <2>4, Zenon DEF WatchNext, Steps, Over
<1>2. snap' = got[g] /\ got[g] \in 0 .. rev /\ snap <= got[g]
  BY <1>1, Zenon DEF RelistSwaps, CompileAndSwap, Swap, storeVars, WatchInv
<1> QED
  BY <1>2, WatchAssumption DEF WatchInv, WatchTypeOK, StoreType

\* What a goroutine of the watcher has listed, it holds relistMu for and it is no
\* older than the published snapshot (relistAndSwap).
THEOREM WatchInvariance ==
  WatchSpec => []LeaseInv
<1>1. LeaseInv /\ [WatchNext]_watchVars => LeaseInv'
  BY WatchStep, LagStep, Zenon DEF LeaseInv
<1> QED
  BY <1>1, WatchStarts, PTL DEF WatchSpec

\* However long the answers to List take: a snapshot that MatchStage accepts has
\* been out of date for no longer than its age and the time of its own List,
\* whatever outage, lost event or failed compilation kept the watcher from
\* publishing (compileAndSwap stamps the publication).
THEOREM LeaseBoundsLagHolds ==
  WatchSpec => []LeaseBoundsLag
<1>1. LeaseInv => LeaseBoundsLag
  BY Zenon DEF LeaseInv, LagInv
<1> QED
  BY <1>1, WatchInvariance, PTL

\* The two goroutines never publish an older policy set over a newer one, and
\* never withdraw one.
THEOREM PublishedInOrderHolds ==
  WatchSpec => PublishedInOrder
<1>1. LeaseInv /\ [WatchNext]_watchVars => [snap # None => snap' # None /\ snap' >= snap]_snap
  BY OrderStep, Zenon DEF LeaseInv
<1> QED
  BY <1>1, WatchInvariance, PTL DEF WatchSpec, PublishedInOrder

\* The watcher does to the store what the pipeline takes for granted: seen from
\* the stages, it publishes versions and lets time pass, and nothing else.
THEOREM WatchFeedsStore == WatchSpec => StoreSpec
<1>1. WatchInit => StoreInit
  BY Zenon DEF WatchInit, StoreInit
<1>2. LeaseInv /\ [WatchNext]_watchVars => [StoreNext]_storeVars
  BY StoreStep, Zenon DEF LeaseInv
<1> QED
  BY <1>1, <1>2, WatchInvariance, PTL DEF WatchSpec, StoreSpec

\* How the ticker of resyncLoop wraps.
LEMMA Wraps ==
  ASSUME NEW a \in Nat, NEW b \in Nat, b > 0, a < b
  PROVE  (a + 1) % b = IF a + 1 = b THEN 0 ELSE a + 1
<1>1. CASE a + 1 = b
  BY <1>1
<1>2. CASE a + 1 < b
  BY <1>2
<1> QED
  BY <1>1, <1>2

\* Every step keeps the bound that the ticker puts on the age.
LEMMA FreshStep ==
  ASSUME FreshInv, [WatchNext]_watchVars
  PROVE  FreshInv'
<1>0. /\ period \in ResyncPeriods /\ age \in Int /\ since \in Int /\ ResyncInterval \in Int
      /\ fails \in 0 .. 2 /\ ResyncInterval > 0 /\ since >= 0
  <2>1. ResyncInterval \in 1 .. MaxStaleness - 1
    BY IntervalBounds, Zenon DEF FreshInv, WatchInv, WatchTypeOK
  <2> QED
    BY <2>1, StalenessAssumption DEF FreshInv, WatchInv, WatchTypeOK, StoreType
<1>1. WatchInv'
  BY WatchStep, Zenon DEF FreshInv
<1>2. ResyncInterval' = ResyncInterval
  <2>1. period' = period
    <3>1. ASSUME NEW g \in Goroutines, Steps(g) \/ Ends(g) PROVE period' = period
      BY <3>1, Zenon DEF Steps, RelistReads, RelistFails, RelistSwaps, Ends
    <3>2. ASSUME WatchNext PROVE period' = period
      BY <3>1, <3>2, Zenon DEF WatchNext, Edit, Outage, Recovers, WatchConnects, WatchFails, WatchEvent,
         WatchBreaks, ResyncDue, WatchTick, Cancel, Over, watchVars
    <3> QED
      BY <3>2, Zenon DEF watchVars
  <2> QED
    BY <2>1, Zenon DEF ResyncInterval, Derived
<1>3. TickerBounds
  BY Zenon DEF FreshInv
<1>4. wpc \in [Goroutines -> {"unborn", "idle", "want", "listed", "connect", "open", "ended"}]
  BY Zenon DEF FreshInv, WatchInv, WatchTypeOK
<1> SUFFICES TickerBounds'
  BY <1>1, Zenon DEF FreshInv
<1> USE <1>0, <1>2, <1>3, <1>4
    DEF TickerBounds, ResyncSlack, storeVars, clockVars, delayVars, ghostVars, WatchGoto, Goroutines
<1>5. ASSUME UNCHANGED <<storeVars, clockVars, ghostVars, cancelled, wpc>> PROVE TickerBounds'
  BY <1>5
<1>6. ASSUME NEW g \in Goroutines, RelistReads(g) PROVE TickerBounds'
  BY <1>6 DEF RelistReads
<1>7. ASSUME NEW g \in Goroutines, RelistFails(g) PROVE TickerBounds'
  <2>1. UNCHANGED <<snap, age, since, due, cancelled, ontime>>
    BY <1>7, Zenon DEF RelistFails
  <2>2. CASE g = "run"
    BY <1>7, <2>1, <2>2 DEF RelistFails, AfterError
  <2>3. CASE g = "resync"
    BY <1>7, <2>1, <2>3 DEF RelistFails, AfterError, OneMore
  <2> QED
    BY <2>2, <2>3
<1>8. ASSUME NEW g \in Goroutines, RelistSwaps(g) PROVE TickerBounds'
  <2>1. wpc[g] = "listed" /\ cancelled' = cancelled /\ wpc'["resync"] # "unborn"
    BY <1>8 DEF RelistSwaps, AfterRelist
  <2>2. wpc'["resync"] = "ended" => wpc["resync"] = "ended"
    BY <1>8 DEF RelistSwaps, AfterRelist
  <2>3. since' < ResyncInterval /\ since' \in Int /\ since' >= 0
    BY <1>8 DEF RelistSwaps, AfterRelist
  <2>4. CASE got[g] \notin broken
    BY <1>8, <2>1, <2>2, <2>3, <2>4 DEF RelistSwaps, CompileAndSwap, Swap
  <2>5. CASE got[g] \in broken
    <3>1. UNCHANGED <<snap, age, ontime>>
      BY <1>8, <2>5, Zenon DEF RelistSwaps, CompileAndSwap
    <3>2. CASE g = "resync"
      <4>1. UNCHANGED <<since, due>> /\ fails' = OneMore
        BY <1>8, <2>1, <2>5, <3>2, Zenon DEF RelistSwaps, CompileAndSwap, AfterRelist
      <4>2. wpc'["resync"] = "idle"
        BY <1>8, <3>2 DEF RelistSwaps, AfterRelist
      <4> QED
        BY <2>1, <2>3, <3>1, <3>2, <4>1, <4>2 DEF OneMore
    <3>3. CASE g = "run"
      <4>1. fails' = fails /\ (wpc["resync"] # "unborn" => UNCHANGED <<since, due>> /\ wpc'["resync"] = wpc["resync"])
        BY <1>8, <2>5, <3>3 DEF RelistSwaps, CompileAndSwap, AfterRelist
      <4>2. CASE wpc["resync"] = "unborn"
        BY <2>1, <2>2, <2>3, <3>1, <4>2
      <4>3. CASE wpc["resync"] # "unborn"
        BY <2>1, <2>2, <2>3, <3>1, <4>1, <4>3
      <4> QED
        BY <4>2, <4>3
    <3> QED
      BY <3>2, <3>3
  <2> QED
    BY <2>4, <2>5
<1>9. ASSUME NEW g \in Goroutines, Ends(g) PROVE TickerBounds'
  BY <1>9 DEF Ends
<1>10. ASSUME WatchConnects \/ WatchFails \/ WatchEvent \/ WatchBreaks PROVE TickerBounds'
  BY <1>10 DEF WatchConnects, WatchFails, WatchEvent, WatchBreaks
<1>11. CASE ResyncDue
  BY <1>11 DEF ResyncDue
<1>12. CASE WatchTick
  <2>1. UNCHANGED <<snap, wpc, cancelled, fails>> /\ ~cancelled
    BY <1>12, Zenon DEF WatchTick, StoreTick
  <2>2. age' <= age + 1 /\ age' \in Int
    BY <1>12 DEF WatchTick, StoreTick
  <2>3. CASE wpc["resync"] = "unborn"
    BY <1>12, <2>1, <2>3 DEF WatchTick
  <2>4. CASE wpc["resync"] # "unborn"
    <3>1. /\ since' = (since + 1) % ResyncInterval
          /\ due' = (due \/ since + 1 = ResyncInterval)
          /\ ontime' => ontime /\ ~due /\ wpc["resync"] \notin {"want", "listed"}
      BY <1>12, <2>4, Zenon DEF WatchTick
    <3>2. CASE since + 1 = ResyncInterval
      <4>1. since' = 0
        BY <3>1, <3>2, Wraps
      <4>2. due' = TRUE
        BY <3>1, <3>2, Zenon
      <4> QED
        BY <2>1, <2>2, <3>1, <3>2, <4>1, <4>2
    <3>3. CASE since + 1 # ResyncInterval
      <4>1. since' = since + 1
        BY <3>1, <3>3, Wraps
      <4>2. ontime' => ontime /\ ~due /\ ~due'
        BY <3>1, <3>3, Zenon
      <4> QED
        BY <2>1, <2>2, <3>1, <3>3, <4>1, <4>2
    <3> QED
      BY <3>2, <3>3
  <2> QED
    BY <2>3, <2>4
<1>13. CASE Cancel
  BY <1>13 DEF Cancel
<1>14. CASE Edit \/ Outage \/ Recovers
  BY <1>14, <1>5, Zenon DEF Edit, Outage, Recovers
<1>15. CASE UNCHANGED watchVars
  BY <1>15, <1>5, Zenon DEF watchVars
<1> QED
  BY <1>6, <1>7, <1>8, <1>9, <1>10, <1>11, <1>12, <1>13, <1>14, <1>15, Zenon DEF WatchNext, Steps, Over

\* A watch that stays silent for ever lets no snapshot expire: resyncs that come
\* and succeed keep it below the bound, and with the default period one of them
\* may fail (resyncInterval, defaultResyncDivisor).
THEOREM ResyncKeepsFreshHolds ==
  WatchSpec => []ResyncKeepsFresh
<1>1. WatchInit => FreshInv
  <2> SUFFICES ASSUME WatchInit PROVE FreshInv
    OBVIOUS
  <2>1. WatchInv
    BY WatchStarts, Zenon DEF LeaseInv
  <2>2. ResyncInterval \in 1 .. MaxStaleness - 1
    BY <2>1, IntervalBounds, Zenon DEF WatchInv, WatchTypeOK
  <2>3. snap = None /\ since = 0 /\ wpc["resync"] = "unborn"
    BY DEF WatchInit, StoreInit, Goroutines
  <2> QED
    BY <2>1, <2>2, <2>3 DEF FreshInv, TickerBounds
<1>2. FreshInv => ResyncKeepsFresh
  <2> SUFFICES ASSUME FreshInv, snap # None, ~cancelled, ontime,
                      fails = 0 \/ (fails = 1 /\ ResyncInterval = Derived)
               PROVE  ~Stale
    BY Zenon DEF ResyncKeepsFresh
  <2>1. ResyncInterval \in 1 .. MaxStaleness - 1 /\ age \in 0 .. MaxStaleness /\ since \in Int
    BY IntervalBounds, StalenessAssumption DEF FreshInv, WatchInv, WatchTypeOK, StoreType
  <2>2. ResyncInterval = Derived => 2 * ResyncInterval < MaxStaleness
    BY StalenessAssumption, WatchAssumption DEF Derived
  <2>3. ResyncSlack <= ResyncInterval /\ ResyncSlack \in Int
    BY <2>1 DEF ResyncSlack, FreshInv, TickerBounds
  <2>4. age < MaxStaleness
    BY <2>1, <2>2, <2>3, StalenessAssumption DEF FreshInv, TickerBounds
  <2> QED
    BY <2>1, <2>4, StalenessAssumption DEF Stale
<1> QED
  BY <1>1, <1>2, FreshStep, PTL DEF WatchSpec
=============================================================================
