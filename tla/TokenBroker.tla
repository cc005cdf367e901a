---------------------------- MODULE TokenBroker ----------------------------
(***************************************************************************)
(* The token broker as internal/runtime/assembly.go puts it together: the  *)
(* cache of TokenCache with the gated acquirer of TokenAcquirer as its     *)
(* provider.  The two share acq, the provider call of each goroutine, and  *)
(* the clock; one breaker and one negative cache serve every credential.   *)
(***************************************************************************)
EXTENDS TokenCache

CONSTANTS Threshold, ProbeInterval, NegMaxEntries, NegTTL

VARIABLES failures, open, sinceFailure, probeInFlight, negOrder, negAge,
          gate, answer, probing, blamed

A == INSTANCE TokenAcquirer

ASSUME BrokerAssumption == A!BreakerAssumption /\ A!NegativeAssumption

gateVars == <<failures, open, sinceFailure, probeInFlight, negOrder, negAge,
              gate, answer, probing, blamed>>

brokerVars == <<vars, gateVars>>

BrokerInit == Init /\ A!GateInit

BrokerTick == Tick /\ A!GateTick

\* One step of the acquirer for the goroutine t.
BrokerAcquire(t) ==
    /\ A!AcquireStep(t, Issues)
    /\ UNCHANGED <<now, cacheVars, inflight, refreshing, reqVars, workerVars>>

BrokerNext ==
    \/ CacheStep /\ UNCHANGED gateVars
    \/ BrokerTick
    \/ \E t \in Tasks : BrokerAcquire(t)

BrokerSpec == BrokerInit /\ [][BrokerNext]_brokerVars

FairBrokerSpec ==
    /\ BrokerSpec
    /\ \A r \in Requests : WF_brokerVars(RequestStep(r) /\ UNCHANGED gateVars)
    /\ \A k \in Refreshers : WF_brokerVars(RefresherStep(k) /\ UNCHANGED gateVars)
    /\ \A t \in Tasks : WF_brokerVars(BrokerAcquire(t))
-----------------------------------------------------------------------------
\* The gates are a provider as the cache expects one: every call gets a token
\* for its own credential or an error, once, and nothing else of the cache's
\* state is touched.  Every behaviour of the broker is one of TokenCache.
CacheImplemented == Spec

\* The gates never leave a request hanging: with the negative cache and the
\* breaker between the cache and the provider, every Get still returns and
\* every refresh gives its reservation back.
BrokerReturns == EveryGetReturns /\ RefreshReleased

\* The probe reservation is never leaked: while it is held, a goroutine of the
\* cache that the open breaker admitted is still on its way to RecordSuccess or
\* RecordFailure (runtimeTokenAcquirer.Acquire records every admitted attempt).
\* Otherwise AllowRequest would refuse every call from then on.
ProbeReserved ==
    probeInFlight => \E t \in probing : acq[t].state = "called" /\ gate[t] \in {"base", "record"}

\* What makes it so: the admitted probes are all in flight.
ProbeInv ==
    /\ probeInFlight => probing # {}
    /\ \A t \in probing : t \in Tasks /\ gate[t] \in {"base", "record"}

\* The one breaker and the one negative cache in the broker: their counters and
\* list in range, an open breaker with a credential to blame, and every answer
\* that is recorded of a class they know.
GatesInv ==
    /\ A!BreakerType /\ A!NegativeType /\ A!NegativeBounded /\ A!OnlyTransientOpens
    /\ \A t \in Tasks : gate[t] = "record" => answer[t].class \in A!Classes \cup {"ok"}

\* What makes the gates a provider: they work on pending calls only, the cache
\* calls only for goroutines that wait for the answer, and the answer kept
\* until it is recorded is one the provider may give.
BrokerInv ==
    /\ gate \in [Tasks -> {"idle", "breaker", "base", "record", "put"}]
    /\ DOMAIN answer = Tasks
    /\ \A r \in Requests : acq[r].state # "idle" => pc[r] = "acquire"
    /\ \A k \in Refreshers : acq[k].state # "idle" => wpc[k] = "acquire"
    /\ \A t \in Tasks : gate[t] # "idle" => acq[t].state = "called"
    /\ \A t \in Tasks : gate[t] = "record" =>
          answer[t].tok \in Issues(acq[t].cred) \cup {Failed}
=============================================================================
