------------------------------ MODULE Pipeline ------------------------------
(***************************************************************************)
(* The enforcement pipeline (internal/pipeline) of concurrent requests:    *)
(* Sanitise, Identity, Match and Acquire, the audit record, then Inject.   *)
(* Each request runs in a goroutine of its own; they share the policy      *)
(* store, which the watcher swaps under them, and the audit sink, which is *)
(* the StreamSink the proxy wires (internal/audit/streamsink.go).          *)
(*                                                                         *)
(* A header, a host or a credential is a model value.  RuleOf[v][h] is what*)
(* the matcher finds for host h in snapshot v: no rule, a rule without     *)
(* credential (None), or the credential the rule names.                    *)
(***************************************************************************)
EXTENDS PolicyStore

CONSTANTS
    Requests, Hosts, Ports, Creds,
    Inputs,        \* what agents may send: a subset of Input
    RuleOf, NoMatch

\* What the agent sends (IdentityInput, the Host header, the path), with the
\* destination port the kernel attests.  hostPort is the port written in the
\* Host header, authPort the one the request path parsed.
Input == [sni : Hosts \cup {None}, host : Hosts \cup {None},
          authPort : Ports \cup {None}, hostPort : Ports \cup {None, "malformed"},
          dst : Ports, pathOK : BOOLEAN, agentAuth : BOOLEAN]

ASSUME PipelineAssumption ==
    /\ Inputs \subseteq Input
    /\ RuleOf \in [Versions -> [Hosts -> Creds \cup {None, NoMatch}]]
    /\ None \notin Creds /\ NoMatch \notin Creds /\ "agent" \notin Creds
    /\ None \notin Hosts /\ None \notin Versions /\ None # NoMatch /\ None # "agent"

VARIABLES
    pc,        \* the stage each request is at
    input,     \* what the agent sent
    auth,      \* the Authorization header: None, the agent's, or a credential
    identity,  \* rc.Facts.Identity, which also replaces the Host header
    match,     \* rc.MatchResult: the snapshot matched and its rule
    token,     \* rc.TokenResult: the credential whose token was acquired
    decision,  \* the decision so far, and the one returned
    record,    \* the audit event built for the request
    written,   \* whether it reached the stream: as a line, glued to a fragment, or not
    sink,      \* the holder of the sink's mutex
    torn       \* the stream ends in a fragment of a record

reqVars  == <<pc, input, auth, identity, match, token, decision>>
sinkVars == <<record, written, sink, torn>>
vars     == <<reqVars, sinkVars, storeVars>>

Allow             == [disp |-> "allow", reason |-> "none", fault |-> FALSE]
Deny(reason)      == [disp |-> "deny", reason |-> reason, fault |-> FALSE]
DenyFault(reason) == [disp |-> "deny", reason |-> reason, fault |-> TRUE]

NoMatchResult == [version |-> None, rule |-> None]
NoRecord == [disp |-> "none", reason |-> "none", identity |-> None,
             version |-> None, cred |-> None, transport |-> None]

Init ==
    /\ StoreInit
    /\ pc = [r \in Requests |-> "idle"]
    /\ input \in [Requests -> Inputs]
    /\ auth = [r \in Requests |-> IF input[r].agentAuth THEN "agent" ELSE None]
    /\ identity = [r \in Requests |-> None]
    /\ match = [r \in Requests |-> NoMatchResult]
    /\ token = [r \in Requests |-> None]
    /\ decision = [r \in Requests |-> Allow]
    /\ record = [r \in Requests |-> NoRecord]
    /\ written = [r \in Requests |-> "no"]
    /\ sink = None
    /\ torn = FALSE
-----------------------------------------------------------------------------
(***************************************************************************)
(* runStages before the audit boundary: an allow goes on to the next       *)
(* stage, anything else goes straight to the audit attempt.                *)
(***************************************************************************)
Goto(r, stage) == pc' = [pc EXCEPT ![r] = stage]

Settle(r, d) ==
    /\ decision' = [decision EXCEPT ![r] = d]
    /\ Goto(r, "audit")

Proceed(r, stage) == Goto(r, stage) /\ UNCHANGED decision

\* Execute is called with a request context of its own.
Start(r) ==
    /\ pc[r] = "idle"
    /\ Goto(r, "sanitise")
    /\ UNCHANGED <<input, auth, identity, match, token, decision, sinkVars, storeVars>>

\* Mutant of Sanitise: the agent's Authorization header survives.
SanitiseKeeping(r) ==
    /\ pc[r] = "sanitise"
    /\ Proceed(r, "identity")
    /\ UNCHANGED <<auth, input, identity, match, token, sinkVars, storeVars>>

\* SanitiseStage strips every credential and provenance header of the agent.
Sanitise(r) ==
    /\ pc[r] = "sanitise"
    /\ auth' = [auth EXCEPT ![r] = None]
    /\ Proceed(r, "identity")
    /\ UNCHANGED <<input, identity, match, token, sinkVars, storeVars>>

\* Mutant of HostsDisagree: SNI and Host are not compared.
HostsDisagreeMissing(i) == i.sni = None /\ i.host = None

\* There is a host, and SNI and Host agree on it where both are given.
HostsDisagree(i) ==
    \/ i.sni = None /\ i.host = None
    \/ i.sni # None /\ i.host # None /\ i.sni # i.host

\* The port of the Host header, else the one the request path parsed, is the
\* destination's.
PortsDisagree(i) ==
    \/ i.hostPort # None /\ i.authPort \notin {None, i.hostPort}
    \/ i.hostPort # None /\ i.hostPort # i.dst
    \/ i.hostPort = None /\ i.authPort \notin {None, i.dst}

\* The checks of IdentityStage in their order, "none" when all of them pass.
IdentityFault(i) ==
    IF HostsDisagree(i) THEN "identity_mismatch"
    ELSE IF i.hostPort = "malformed" THEN "malformed_target"
    ELSE IF PortsDisagree(i) THEN "identity_mismatch"
    ELSE IF i.pathOK THEN "none" ELSE "malformed_target"

IdentityOf(i) == IF i.sni # None THEN i.sni ELSE i.host

\* IdentityStage: the identity is fixed only when every claim agrees with it.
Identity(r) ==
    /\ pc[r] = "identity"
    /\ \/ /\ IdentityFault(input[r]) = "none"
          /\ identity' = [identity EXCEPT ![r] = IdentityOf(input[r])]
          /\ Proceed(r, "match")
       \/ /\ IdentityFault(input[r]) # "none"
          /\ Settle(r, Deny(IdentityFault(input[r])))
          /\ UNCHANGED identity
    /\ UNCHANGED <<input, auth, match, token, sinkVars, storeVars>>

\* Mutant of Match: a refused request returns before the audit attempt.
MatchUnaudited(r) ==
    /\ pc[r] = "match"
    /\ \/ /\ snap = None \/ Stale \/ RuleOf[snap][identity[r]] = NoMatch
          /\ decision' = [decision EXCEPT ![r] = Deny("policy_no_match")]
          /\ Goto(r, "done")
          /\ UNCHANGED match
       \/ /\ snap # None /\ ~Stale
          /\ RuleOf[snap][identity[r]] # NoMatch
          /\ match' = [match EXCEPT ![r] = [version |-> snap, rule |-> RuleOf[snap][identity[r]]]]
          /\ Proceed(r, "acquire")
    /\ UNCHANGED <<input, auth, identity, token, sinkVars, storeVars>>

\* MatchStage reads the store once and evaluates that snapshot; the result is
\* kept only for a match.  The matcher itself may fault.
Match(r) ==
    /\ pc[r] = "match"
    /\ \/ /\ snap = None
          /\ Settle(r, DenyFault("policy_cache_empty"))
          /\ UNCHANGED match
       \/ /\ snap # None /\ Stale
          /\ Settle(r, DenyFault("policy_cache_stale"))
          /\ UNCHANGED match
       \/ /\ snap # None /\ ~Stale
          /\ Settle(r, DenyFault("matcher_fault"))
          /\ UNCHANGED match
       \/ /\ snap # None /\ ~Stale
          /\ RuleOf[snap][identity[r]] = NoMatch
          /\ Settle(r, Deny("policy_no_match"))
          /\ UNCHANGED match
       \/ /\ snap # None /\ ~Stale
          /\ RuleOf[snap][identity[r]] # NoMatch
          /\ match' = [match EXCEPT ![r] = [version |-> snap, rule |-> RuleOf[snap][identity[r]]]]
          /\ Proceed(r, "acquire")
    /\ UNCHANGED <<input, auth, identity, token, sinkVars, storeVars>>

\* Mutant of Acquire: the credential is looked up in the current snapshot
\* instead of being taken from the match.
AcquireFromStore(r) ==
    /\ pc[r] = "acquire"
    /\ token' = [token EXCEPT ![r] = IF RuleOf[snap][identity[r]] \in Creds
                                     THEN RuleOf[snap][identity[r]] ELSE None]
    /\ Proceed(r, "audit")
    /\ UNCHANGED <<input, auth, identity, match, sinkVars, storeVars>>

\* AcquireStage: the token cache answers for the selector of the match with a
\* token of that credential (TokenCache, TokenIsolation) or with an error.
Acquire(r) ==
    /\ pc[r] = "acquire"
    /\ \/ /\ match[r].rule = None
          /\ token' = [token EXCEPT ![r] = None]
          /\ Proceed(r, "audit")
       \/ /\ match[r].rule # None
          /\ token' = [token EXCEPT ![r] = match[r].rule]
          /\ Proceed(r, "audit")
       \/ /\ match[r].rule # None
          /\ Settle(r, DenyFault("token_acquisition_failed"))
          /\ UNCHANGED token
    /\ UNCHANGED <<input, auth, identity, match, sinkVars, storeVars>>

\* executeStage recovers the panic of a stage and settles for a fault.
Panic(r) ==
    /\ pc[r] \in {"sanitise", "identity", "match", "acquire"}
    /\ Settle(r, DenyFault("internal"))
    /\ UNCHANGED <<input, auth, identity, match, token, sinkVars, storeVars>>
-----------------------------------------------------------------------------
(***************************************************************************)
(* The audit attempt, once for every request.                              *)
(***************************************************************************)
\* buildAuditEvent.  The transport field of the event is never assigned.
Event(r) ==
    [disp |-> decision[r].disp, reason |-> decision[r].reason,
     identity |-> identity[r], version |-> match[r].version,
     cred |-> IF token[r] # None THEN token[r] ELSE match[r].rule,
     transport |-> None]

\* The event is built and handed to the sink, which encodes it.
Audit(r) ==
    /\ pc[r] = "audit"
    /\ record' = [record EXCEPT ![r] = Event(r)]
    /\ Goto(r, "sink")
    /\ UNCHANGED <<input, auth, identity, match, token, decision,
                   written, sink, torn, storeVars>>

\* Record refuses the event before it takes the mutex: the deadline of audit()
\* has passed by then, or the event does not encode.
RecordRefused(r) ==
    /\ pc[r] = "audit"
    /\ record' = [record EXCEPT ![r] = Event(r)]
    /\ decision' = [decision EXCEPT ![r] = DenyFault("audit_failed")]
    /\ Goto(r, "done")
    /\ UNCHANGED <<input, auth, identity, match, token,
                   written, sink, torn, storeVars>>

\* StreamSink.write takes the mutex.  From here on nothing looks at the deadline.
SinkLock(r) ==
    /\ pc[r] = "sink" /\ sink = None
    /\ sink' = r
    /\ Goto(r, "write")
    /\ UNCHANGED <<input, auth, identity, match, token, decision,
                   record, written, torn, storeVars>>

\* The write succeeds and the mutex is released; an allow goes on to Inject,
\* anything else is returned.  A line started by a failed write is completed
\* by this record.
SinkWrite(r) ==
    /\ pc[r] = "write"
    /\ written' = [written EXCEPT ![r] = IF torn THEN "glued" ELSE "line"]
    /\ torn' = FALSE
    /\ sink' = None
    /\ Goto(r, IF decision[r].disp = "allow" THEN "inject" ELSE "done")
    /\ UNCHANGED <<input, auth, identity, match, token, decision,
                   record, storeVars>>

\* Mutant of SinkFail: the mutex is kept on the error path.
SinkFailLocked(r) ==
    /\ pc[r] = "write"
    /\ torn' \in {torn, TRUE}
    /\ decision' = [decision EXCEPT ![r] = DenyFault("audit_failed")]
    /\ Goto(r, "done")
    /\ UNCHANGED <<input, auth, identity, match, token,
                   record, written, sink, storeVars>>

\* The write fails, possibly after a part of the record: the request is denied
\* whatever was decided.
SinkFail(r) ==
    /\ pc[r] = "write"
    /\ torn' \in {torn, TRUE}
    /\ sink' = None
    /\ decision' = [decision EXCEPT ![r] = DenyFault("audit_failed")]
    /\ Goto(r, "done")
    /\ UNCHANGED <<input, auth, identity, match, token,
                   record, written, storeVars>>
-----------------------------------------------------------------------------
\* InjectStage sets the header when there is a token; the request is allowed.
Inject(r) ==
    /\ pc[r] = "inject"
    /\ auth' = [auth EXCEPT ![r] = IF token[r] # None THEN token[r] ELSE @]
    /\ Goto(r, "done")
    /\ UNCHANGED <<input, identity, match, token, decision, sinkVars, storeVars>>

\* Mutant of InjectFails: the fault is recorded over the committed allow.
InjectFailsRecorded(r) ==
    /\ pc[r] = "inject"
    /\ decision' = [decision EXCEPT ![r] = DenyFault("internal")]
    /\ record' = [record EXCEPT ![r].disp = "deny", ![r].reason = "internal"]
    /\ Goto(r, "done")
    /\ UNCHANGED <<auth, input, identity, match, token, written, sink, torn, storeVars>>

\* A failure after the record, with or without the header set: the caller is
\* told of a fault, the recorded allow stays.
InjectFails(r) ==
    /\ pc[r] = "inject"
    /\ \/ auth' = [auth EXCEPT ![r] = token[r]]
       \/ UNCHANGED auth
    /\ decision' = [decision EXCEPT ![r] = DenyFault("internal")]
    /\ Goto(r, "done")
    /\ UNCHANGED <<input, identity, match, token, sinkVars, storeVars>>

\* Time passes for the snapshot.
Tick ==
    /\ StoreTick
    /\ UNCHANGED <<reqVars, sinkVars>>

\* The watcher publishes a snapshot (PolicyWatch).
Publish(v) == Swap(v) /\ UNCHANGED <<reqVars, sinkVars>>

\* What the goroutine of the request does by itself.
Advance(r) ==
    \/ Sanitise(r) \/ Identity(r) \/ Match(r) \/ Acquire(r) \/ Panic(r)
    \/ Audit(r) \/ RecordRefused(r) \/ SinkLock(r)
    \/ Inject(r) \/ InjectFails(r)

\* The stream answers the write.  It may never do so, with the mutex held.
WriteReturns(r) == SinkWrite(r) \/ SinkFail(r)

Step(r) == Advance(r) \/ WriteReturns(r)

Next ==
    \/ \E r \in Requests : Start(r) \/ Step(r)
    \/ \E v \in Versions : Publish(v)
    \/ Tick

Spec == Init /\ [][Next]_vars

\* Stages run to their end.  The stream owes nothing.
FairSpec == Spec /\ \A r \in Requests : WF_vars(Advance(r))
-----------------------------------------------------------------------------
Reasons == {"none", "identity_mismatch", "malformed_target", "policy_cache_empty",
            "policy_cache_stale", "matcher_fault", "policy_no_match",
            "token_acquisition_failed", "audit_failed", "internal"}

Stages == {"idle", "sanitise", "identity", "match", "acquire",
           "audit", "sink", "write", "inject", "done"}
Decisions == [disp : {"allow", "deny"}, reason : Reasons, fault : BOOLEAN]
Matches == [version : Versions \cup {None}, rule : Creds \cup {None}]
Events == [disp : {"none", "allow", "deny"}, reason : Reasons, identity : Hosts \cup {None},
           version : Versions \cup {None}, cred : Creds \cup {None}, transport : {None}]

TypeOK ==
    /\ StoreType
    /\ pc \in [Requests -> Stages]
    /\ input \in [Requests -> Inputs]
    /\ auth \in [Requests -> Creds \cup {None, "agent"}]
    /\ identity \in [Requests -> Hosts \cup {None}]
    /\ match \in [Requests -> Matches]
    /\ token \in [Requests -> Creds \cup {None}]
    /\ decision \in [Requests -> Decisions]
    /\ record \in [Requests -> Events]
    /\ written \in [Requests -> {"no", "line", "glued"}]
    /\ sink \in Requests \cup {None}
    /\ torn \in BOOLEAN

Recorded(r, disp) == written[r] # "no" /\ record[r].disp = disp
Returned(r, disp) == pc[r] = "done" /\ decision[r].disp = disp

\* Every step of every request keeps the promise of the pipeline
\* (runner.go: "every earlier decision is therefore recorded before
\* injection"): Enforcement is implemented, with the verdict read off the
\* stream and the credential off the request.
Promise == INSTANCE Enforcement WITH
    verdict <- [r \in Requests |-> IF written[r] = "no" THEN "none" ELSE record[r].disp],
    carried <- [r \in Requests |-> IF auth[r] \in Creds THEN auth[r] ELSE None],
    outcome <- [r \in Requests |-> IF pc[r] = "done" THEN decision[r].disp ELSE "none"]

EnforcementImplemented == Promise!Spec

\* The credential on a request is the one its record names, and the one the
\* recorded snapshot gives to the recorded identity, although the watcher may
\* have swapped the snapshot since the match ("later acquisition and audit
\* must agree on the exact rule, version, and credential that authorised").
CredentialAttributed ==
    \A r \in Requests : auth[r] \in Creds =>
        /\ Recorded(r, "allow")
        /\ record[r].cred = auth[r]
        /\ RuleOf[record[r].version][record[r].identity] = auth[r]

\* A request that is allowed has lost the agent's own Authorization header,
\* also when no credential replaced it (SanitiseStage before InjectStage).
NoAgentCredential == \A r \in Requests : Returned(r, "allow") => auth[r] # "agent"

InTrail(r) ==
    \/ written[r] # "no" /\ record[r].disp = decision[r].disp
                         /\ record[r].reason = decision[r].reason
    \/ written[r] = "no" /\ decision[r] = DenyFault("audit_failed")
    \/ Recorded(r, "allow") /\ decision[r] = DenyFault("internal")

\* Whatever Execute returns is in the stream with the same reason, except a
\* denial for the stream's own failure and a fault after a recorded allow.
OutcomeRecorded == \A r \in Requests : pc[r] = "done" => InTrail(r)

\* An allowed request names one host: SNI and Host, where present, and the
\* identity the policy was matched with agree, and so do the ports.
IdentityAgreed ==
    \A r \in Requests : Returned(r, "allow") =>
        /\ {input[r].sni, input[r].host} \subseteq {identity[r], None}
        /\ {input[r].authPort, input[r].hostPort} \subseteq {input[r].dst, None}

\* What a request holds at each stage, on which the properties above rest: the
\* agent's header is gone after Sanitise, an allow has its identity after
\* Identity and its match after Match, and the record handed to the sink tells
\* the decision it was built from.
Matched(r) ==
    /\ match[r].version \in Versions /\ identity[r] \in Hosts
    /\ RuleOf[match[r].version][identity[r]] = match[r].rule

BeforeAudit(r) ==
    /\ decision[r] = Allow /\ written[r] = "no" /\ auth[r] \notin Creds
    /\ token[r] = None
    /\ pc[r] \in {"identity", "match", "acquire"} => auth[r] = None
    /\ pc[r] \in {"match", "acquire"} => identity[r] = IdentityOf(input[r])
                                        /\ IdentityFault(input[r]) = "none"
    /\ pc[r] = "acquire" => Matched(r)

AllowHolds(r) ==
    /\ decision[r] = Allow
    /\ identity[r] = IdentityOf(input[r]) /\ IdentityFault(input[r]) = "none"
    /\ Matched(r) /\ token[r] = match[r].rule

RecordHolds(r) ==
    /\ record[r].disp = decision[r].disp /\ record[r].reason = decision[r].reason
    /\ decision[r].disp = "allow" =>
         /\ record[r].cred = token[r] /\ record[r].version = match[r].version
         /\ record[r].identity = identity[r]

AtAudit(r) ==
    /\ written[r] = "no" /\ auth[r] \notin Creds
    /\ decision[r].disp = "allow" => AllowHolds(r) /\ auth[r] = None
    /\ pc[r] \in {"sink", "write"} => RecordHolds(r)

AfterAudit(r) ==
    /\ pc[r] = "inject" => AllowHolds(r) /\ RecordHolds(r) /\ auth[r] = None
                           /\ written[r] # "no"
    /\ pc[r] = "done" /\ decision[r].disp = "allow" =>
         AllowHolds(r) /\ RecordHolds(r) /\ auth[r] # "agent"
    /\ auth[r] \in Creds =>
         /\ Matched(r) /\ written[r] # "no"
         /\ record[r].disp = "allow" /\ record[r].cred = auth[r]
         /\ record[r].version = match[r].version /\ record[r].identity = identity[r]
         /\ match[r].rule = auth[r]

RequestInv(r) ==
    /\ pc[r] \in {"idle", "sanitise", "identity", "match", "acquire"} => BeforeAudit(r)
    /\ pc[r] \in {"audit", "sink", "write"} => AtAudit(r)
    /\ pc[r] \in {"inject", "done"} => AfterAudit(r)

\* The inductive invariant of the pipeline.
IInv == TypeOK /\ OutcomeRecorded /\ \A r \in Requests : RequestInv(r)

\* Every request that enters the pipeline gets an answer, as long as each write
\* to the stream returns: the mutex of the sink is given back on every path, so
\* a request waits for nothing but the write of another one.
EveryRequestAnswered ==
    (\A w \in Requests : []<>(pc[w] # "write"))
        => \A r \in Requests : pc[r] = "sanitise" ~> pc[r] = "done"
-----------------------------------------------------------------------------
\* internal/pipeline/runner.go: "the private deadline still bounds sink stalls".
\* Record looks at it before the mutex only: a write that does not return holds
\* its own request, and every other one behind the mutex, for ever.
AuditBounded == \A r \in Requests : pc[r] = "sink" ~> pc[r] = "done"

\* internal/audit/encoder.go: "for a validated request it is the closed
\* tls|plaintext enum".  The event carries no transport for any request.
TransportRecorded ==
    \A r \in Requests : written[r] # "no" /\ record[r].identity # None
                        => record[r].transport # None

\* internal/audit/encoder.go: the policy block is "Present even on
\* stale/evaluator-fault outcomes, using the last known version".  MatchStage
\* leaves the match result empty on those outcomes.
StaleVersionRecorded ==
    \A r \in Requests : written[r] # "no" /\ record[r].reason = "policy_cache_stale"
                        => record[r].version # None

\* internal/audit/streamsink.go: Record "writes one complete decision record",
\* as a line of its own.  After a partial write the next record is glued to
\* the fragment.
RecordsAreLines == \A r \in Requests : written[r] # "glued"
=============================================================================
