# TLA+ models and proofs for aksh

aksh is an egress proxy that runs as a sidecar of an AI agent's pod. eBPF hooks
redirect the agent's TCP connections to the proxy; the proxy terminates TLS with
a pod-local CA, matches each request against the policy of the cluster, obtains a
token for the credential the policy names, writes an audit record and forwards
the request with the token injected. Everything that fails, fails closed. An
admission webhook injects the sidecar into pods.

This directory holds TLA+ modules for the parts of the proxy where
interleavings, time, failure and restart decide whether it is correct, TLC
configurations that check them on small instances, and TLAPS proofs of the
properties that matter most, for every instance.

## Parts of the system

| part | state | operations | hard behaviour | modules |
|---|---|---|---|---|
| token cache `internal/token/cache.go` | entries, recency list, calls in flight, refresh reservations | Get, background refresh | single flight, refresh-ahead, cancellation, expiry during acquisition | `LRU` `TokenCache` |
| gated acquirer `internal/runtime/token_acquirer.go`, `internal/token/{breaker,negative_cache}.go` | breaker, negative cache | Acquire | probe reservation, late completions, expiry of failures | `Breaker` `NegativeCache` `TokenAcquirer` `TokenBroker` |
| enforcement pipeline `internal/pipeline`, `internal/audit/streamsink.go` | decision of each request, audit stream | Sanitise, Identity, Match, Acquire, audit, Inject | record before the credential leaves, panics, snapshot swapped underneath, partial writes | `Enforcement` `Pipeline` |
| policy `internal/policy`, `internal/policy/watch` | compiled snapshot and its age | list, watch, resync, compile, swap, match | reconnects, failed compilation, staleness, ranking | `PolicyStore` `PolicyWatch` `PolicyMatch` |
| listener `internal/dataplane/listener` | lifecycle word, socket, slots, live connections | Bind, AcceptProbe, Serve, dispatch, Shutdown | Shutdown racing each other operation | `Listener` |
| leaf certificates `internal/dataplane/tlsterm` | leaf cache, mints under way | CertificateFor, publish | single-flight mint, cancelled owner | `LeafSource` |
| request path `internal/dataplane/{requestpath,upstream}`, `internal/runtime/tls_conn_handler.go` | loop of each connection, latch, link, watchdog, slots | resolve, handshake, serve, dial, relay | watchdog against completion, one sample per connection, reuse of a link | `RequestPath` |
| capture `internal/dataplane/bpf/aksh_capture.c`, `internal/dataplane/capture/resolver_linux.go`, `internal/config` | BPF maps, sockets | the hooks, Resolve, configuration to image | port reuse, map eviction, order of accept and resolve | `CaptureConfig` `CaptureDatapath` |
| sidecar process `cmd/aksh-proxy`, `internal/runtime/orchestrator.go`, `internal/dataplane/capture`, `internal/pki` | gates, loader, credentials, CA files | run, Run, LoadAndAttach, DropPrivileges, Shutdown | order of the gates, failure at each, crash and restart, attach loss | `PodCgroup` `Preflight` `CaptureLoader` `PodCA` `PrivDrop` `Sidecar` |
| injector `internal/injector`, `cmd/aksh-injector` | webhook CA bundles, readiness, pods | mutate, validate, reconcile | replicas overwriting each other, expiry, other webhooks, what the API server fills in, debug containers | `InjectedPod` `Injector` |

A request meets these parts in this order: the injector put the sidecar into the
pod; the sidecar process came up through its gates and attached the capture
programs; a connection of the agent is redirected, accepted by the listener and
given to the request path, which asks the resolver for the destination, the leaf
source for a certificate, and for each request the pipeline for a decision; the
pipeline reads the policy snapshot and asks the token broker.

`PROJECT.json` lists every part with its status, the lines each definition
stands for, and the hazards of each part at the line where they bite.

## Modules

Each module names the code's operations after the code. An action is one
critical section or one system call: what the code does under one lock, or
between two points where another goroutine can be seen. A definition called
*Mutant of X* is a plausible bug in X; no specification uses it, it shows that
a property would notice.

### Token broker

`LRU` is the recency list of the bounded caches. `TokenCache` models
`CachingTokenCache`: a request is a goroutine in Get and moves through one
critical section per action (`GetCachedHit`/`GetCachedMiss`, `MaybeRefresh`,
`StartAcquire`, `FinishAcquire`, `ReleaseCall`, `CloseDone`, the two exits of a
waiter's select); a refresher is a goroutine in backgroundRefresh. `acq[t]` is
the provider call of goroutine `t`. `Breaker` and `NegativeCache` model the two
gates with relative, saturating ages, so time is unbounded there; `TokenAcquirer`
puts them in front of the exchange as `runtimeTokenAcquirer.Acquire` does.
`TokenBroker` composes cache and acquirer over the shared `acq`, the way
`assembly.go` does, and is shown to implement `TokenCache`: the gates are a
provider like any other.

### Enforcement pipeline

`Enforcement` is the promise, with three variables per request: an allow is in
the audit trail before a credential is on the request, and only such a request
is told "allow". `Pipeline` is the code: one action per stage and outcome, the
audit record under the mutex of `StreamSink` with complete, partial and failed
writes, a panic at any stage and its recovery, and the watcher swapping and
ageing the snapshot (`PolicyStore`) between any two steps. A host, a header or a
credential is a model value; `RuleOf` is what the matcher finds. The refinement
maps the record to the verdict and the Authorization header to the credential
carried.

### Policy

`PolicyStore` is the one atomic cell of `watch.Store`, snapshot and age.
`PolicyWatch` has the two goroutines that feed it, `Run` (list, watch, reconnect)
and `resyncLoop`, with the mutex that orders whole relists, against an API server
that edits policies, accepts ones that do not compile, takes its time to answer
a List, loses watch events and goes away. `PolicyMatch` has the pure part as operators: path canonicalisation,
host, path and method matching, the ranking of rules, and compilation with its
limits. It is checked against reference definitions over bounded inputs, not
proved: canonicalisation folds over a sequence. The version of a snapshot is its
number in the model; nothing is claimed of the digest.

### Listener

`Listener` has a process per caller of Bind, AcceptProbe, Serve and Shutdown, all
concurrent, as the type allows. Each atomic load, CompareAndSwap and lock of the
lifecycle is an action of its own; a connection goes from the accept queue over
the slot semaphore and the WaitGroup to a handler, which returns or panics.

### Request path and leaf certificates

`RequestPath` follows captured connections from `dispatch` to the rollup of the
listener: destination, handshake, then requests one after the other through
admission, reading, validation, the pipeline's decision, the upstream link
(reused, dialled or refused) and the relay, with one watchdog goroutine per
request. It keeps who latched the connection's decision and what was recorded.
`LeafSource` is the part of the handshake the connections share: the cache of
leaf certificates, one mint per name, owners that are cancelled and leave the
publication to a goroutine. A certificate carries no data; which names are
cached, who mints and who waits is the state. What peers send and what the
pipeline decides is a choice of the step.

### Capture

`CaptureConfig` takes a setting from file and environment through both
validations to the image in `aksh_config`. Addresses are numbers of `Width`
bits, so that prefixes, masks and the IPv4-mapped spelling are real.
`CaptureDatapath` runs the hooks of `aksh_capture.c` (`connect4`, `connect6`,
`sendmsg4`/`6`, `sock_create`, `sock_ops`) with the accepted image, over sockets
of the agent and of the proxy, the two destination maps, their evictions and
failed updates, and `Resolve` of the listener's handlers. The proxy runs with the
uid it drops to, a constant (`orchestrator.go:50`); the programs exempt the uid of
the configuration, which is a setting.

### Sidecar process

`Sidecar` composes what `run()` drives: the cgroup (`PodCgroup`), the gates P1 to
P8 (`Preflight`), the loader and its health loop (`CaptureLoader`), the CA files
(`PodCA`) and the privilege drop (`PrivDrop`, system calls as operators on
credentials with the kernel's rules). Credentials belong to a thread: setgroups,
setresgid and setresuid are made on every thread of the process, prctl and capset
on the thread of the main goroutine, which the scheduler may change between two
calls (`Migrate`), as nothing locks it. The main goroutine, the health loop, the
goroutine of Serve, SIGTERM, the agent's first connection and a crash
interleave; after an exit or a crash the process is started again, with the files
and pins of the one before.

### Injector

`InjectedPod` has Patch and Validate over pods as their manifests state them, and
the fields of volumes that the API server fills in when a pod is submitted and
again between the two webhooks. Which fields those are is a constant: the ones
that the code's own test imitates, or those and the `apiVersion` of a fieldRef.
`Injector` adds the replicas with their CAs, the read-modify-write of the two
webhook configurations with conflicts and retries, readiness, the expiry of a
replica's certificate, outages, reapplied manifests, and the life of a pod:
submitted, patched, changed by other webhooks, validated, running, given debug
containers, submitted again.

## Runs

`tlc -config X.cfg M` with the names below; every passing run takes at most
three minutes on two cores. The numbers are distinct states.

| run | module, config | states | what it shows |
|---|---|---|---|
| token_cache | `MCTokenCache` `TokenCache.cfg` | 1,827,208 (symmetric) | a token is never handed out for another credential (`TokenIsolation`); what a Get takes from the cache or acquires itself is within its usable lifetime at the clock reading of that Get (`OwnTokenUsable`); a waiter's call still has its leader (`NoOrphanedWaiter`) |
| token_acquirer | `MCTokenAcquirer` `TokenAcquirer.cfg` | 43,157 | once the provider is healthy the breaker closes for good (`BreakerRecovers`) |
| token_broker | `MCTokenBroker` `TokenBroker.cfg` | 40,178 | cache over gates implements cache over any provider (`CacheImplemented`); while the breaker's probe is reserved, a goroutine of the cache is on its way to record it (`ProbeReserved`); every Get returns and every refresh gives its reservation back (`BrokerReturns`) |
| pipeline | `MCPipeline` `Pipeline.cfg` | 239,572 | the pipeline implements `Enforcement`; a credential is on a request only with an allow in the stream that names it and the snapshot that authorised it (`CredentialAttributed`); every answer is in the stream, or is a denial because the stream failed (`OutcomeRecorded`); every request is answered as long as each write to the stream returns (`EveryRequestAnswered`) |
| listener | `Listener` `Listener.cfg` | 243,040 | after a Shutdown that returned nil no handler runs and none will (`QuietAfterShutdown`); probe and accept loop never compete (`OneAcceptor`); slots are conserved (`SlotsHeld`); a cancelled or shut-down accept loop ends (`ServeEnds`) |
| request_path | `MCRequestPath` `RequestPath.cfg` | 240,947 | an upstream connection never carries two credentials (`OneCredentialPerLink`); an ended connection has closed every link (`NothingLeftOpen`); a refusal is never counted as an allow (`DenialNotAllowed`); a relay that stops moving ends (`StalledRelayEnds`); leaf cache, list and mints agree (`LeafShared`), and no handshake is left waiting for a certificate (`LeafAnswered`) |
| policy_watch | `MCPolicyWatch` `PolicyWatch.cfg` | 477,667 | a snapshot that MatchStage accepts has been out of date for no longer than its age and the time its List took (`LeaseBoundsLag`); publication never goes back (`PublishedInOrder`); the store becomes current again after every edit and outage (`EventuallyCurrent`); compiling does not depend on the order of the listing, and matching picks the rule the criteria single out (`CompileOrderIndependent`); canonicalisation is idempotent and a prefix covers exactly the paths below it (`CanonicalPaths`) |
| capture | `MCCapture` `Capture.cfg` | 226,696 (symmetric) | under every configuration that loads, and for every user but the one it names, only the pod, the DNS endpoint and the prefixes written are left alone (`OnlyExemptUncaptured`) and datagrams leave only for DNS (`DatagramsOnlyToDNS`); an open connection gets its own destination, or, if the maps dropped its record, at most that of an earlier user of its port (`OwnDestination`) |
| sidecar | `MCSidecar` `Sidecar.cfg` | 485,325 | connections are served only behind all gates, with the identities dropped on every thread and the capabilities on the one thread that all of the drop was made on (`ServingGuarded`); the programs are on the proxy's own pod (`OwnPod`); parts go down in reverse order (`ReverseTeardown`); a return leaves nothing behind (`CleanReturn`); a drop made on one thread fits the kernel's rules (`DropWorks`); over crashes the pod has one CA (`OneCA`); a SIGTERM or an attach loss ends the process (`StopEnds`) |
| injector | `MCInjector` `Injector.cfg` | 341,906 | in all that `Validate` compares, a running pod has the sidecar as written, and no other container asks for what is its own (`RunningGuarded`); the two webhooks agree if the API server fills in only what they pass over, and otherwise no pod runs (`WebhooksAgree`); once one replica stays, bundles settle on its CA, and its readiness on whether its certificate is valid (`BundlesSettle`) |
| listener_socket | `Listener` `ListenerSocket.cfg` | violation | `SocketReleased`; see Findings |
| sidecar_probe | `MCSidecar` `SidecarProbe.cfg` | violation | `StartupServes`; see Findings |

`CHECK_DEADLOCK FALSE` is set for the listener and the request path only: there
every caller and every connection comes to an end.

### Bounds, and why they are enough

* *Token broker.* Two requests give leader and waiter, two credentials on a cache
  of one entry give eviction and confusion, two refreshers a refresh of each. The
  clock stops at 2 with lifetimes up to 2, so tokens expire before, during and
  after every step. Threshold 2 makes the breaker's counter matter. The broker
  instance has one credential; isolation is proved for the composition.
* *Pipeline.* Two requests contend for the sink; two snapshots differ in the rule
  of both hosts; the eight inputs hit every refusal of Identity and Match.
* *Listener.* Two binders and two stoppers race for the lifecycle word; two
  connections on one slot make one of them wait for it.
* *Request path.* Two connections with one request each contend for the one slot
  of limiter and dialer and for the leaf of one name; or one connection brings
  two requests, for reuse of the link and a watchdog of the first that is late
  for the second. The leaf cache has room for one entry and starts with another
  name in it, so that publishing evicts.
* *Policy.* One edit and one outage with a staleness bound of three, and a List
  that takes up to one unit of time; every path of up to four characters; rule
  sets of up to four of nine rules that tie in every way but one, or in all of
  them.
* *Capture.* Four-bit addresses with loopback in the upper quarter; the
  configurations are one change away from a valid one, in file or environment,
  one of them with another uid for the proxy; two sockets over one source port,
  so the port is used again.
* *Sidecar.* Two starts, so one crash or failure and what comes after; eight hosts
  (shared and private cgroup namespaces, two directories with one inode, a path
  that is another pod's, a shallow and a deeper layout, no cgroup2),
  three environments, both kinds of starting credentials; two threads and one
  move of the main goroutine between them, at any call of the drop; two links, so
  that a failure falls between them.
* *Injector.* Two replicas; six budgets of starts, expiries, outages, reapplied
  manifests and pods, rather than their product; two API servers, one that fills
  in what the code passes over and one that fills in `apiVersion` as well, each
  with three admissions in a row.

### Fairness, and why the code justifies it

Weak fairness stands for the Go scheduler: a goroutine that can take its next
step takes it. It is asserted for the steps of requests, refreshers and provider
calls (`internal/token/entra` calls have a timeout, so a call returns), of
pipeline stages, of the accept loop and
of Shutdown (whose context expires), of unwinding handlers and watchdogs, of
mints and waiters in `CertificateFor`, of the main goroutine, health loop and
Serve, of reconciliation, its ticker and the readiness probe, which the kubelet
calls again and again. Where the answer comes from outside it
is asserted that there is one, never which: a failure must stay possible, so
actions for failing (`ServeFails`, `CAFault`, a crash) are never fair. In the
request path peers owe nothing: a stalled relay ends because reads and writes
fail once the watchdog closed the connection. `PolicyWatch` uses strong fairness
for the steps of a goroutine because the API server may come and go: it says that
a server that is reachable again and again is eventually asked while it is.
That a write to the stream returns is not assumed of the code, which cannot
interrupt one (`docs/design/S1b-request-path.md:3167`, DEV-S1b-05): it is the
hypothesis of `EveryRequestAnswered`. Nothing is assumed of agents, operators and
other webhooks, of the scheduler moving a goroutine, or of a certificate expiring.

## Findings

Each is a counterexample TLC finds under the source's own rules.

* **A socket outlives Shutdown** (`listener_socket`). `listener.go:584-586`:
  Shutdown "stops the accept loop, closes the listening socket" and is "safe to
  call before Bind or Serve". `closeSocket` runs once; a Shutdown that runs it
  before Bind has stored the socket, and whose four CompareAndSwaps miss the
  moment of `StateBound`, returns nil with the listener bound and the socket open.
* **A silent agent keeps the sidecar from serving** (`sidecar_probe`). The gate of
  `orchestrator.go:385` waits for a connection; nothing in the proxy makes one.
  `docs/design/S1a-dataplane-capture.md:980` describes a probe that dials.

A third has no run of its own, and shows in `WebhooksAgree` and `DefaultsAccepted`:

* **The validating webhook refuses what the mutating one made**, on an API server
  that fills in the `apiVersion` of a fieldRef, as Kubernetes does with "v1".
  `canonical.go:96` compares the items of the downwardAPI volume `podinfo` whole
  and `Patch` writes them without it, so the defaulted pod is not equivalent. The
  test `canonical_defaulting_test.go:38-39` says that it is accepted; it fills in
  other fields only. The model has no pod running on such a server.

### Statements of the documentation that do not hold

These are stated as definitions in the modules, with the line they come from, and
TLC refutes each of them on the instance of the module's run; they are not kept
as runs of their own.

* `ServedUsable` (`TokenCache`; comment at `cache.go:115`): a Get can find an entry
  expired, remove it, and then join the call that stored it, which is published
  but still in `inflight`, and be served the token it has just rejected.
* `ValidTokenWins` (`TokenCache`; `docs/design/S3-token-broker.md:354`): a Get whose
  lookup missed reserves an acquisition although a token has arrived since, and
  may be denied by the gates.
* `SingleProbe` (`TokenAcquirer`; `S3-token-broker.md:433`): any completed attempt
  releases the probe's reservation (`breaker.go:68`), also one admitted before the
  breaker opened.
* `DenialPerCredential` (`TokenAcquirer`; `S3-token-broker.md:421`): the runtime
  shares one breaker between all credentials.
* `TransportRecorded`, `StaleVersionRecorded` (`Pipeline`; `audit/encoder.go`): the
  event has no transport, and no version when the snapshot was stale.
* `RecordsAreLines` (`Pipeline`; `streamsink.go:33`): after a partial write the next
  record is glued to the fragment.
* `AuditBounded` (`Pipeline`; comment at `runner.go:193-194`): `Record` looks at its
  deadline before the mutex only, so a write that does not return holds its
  request and those behind it. DEV-S1b-05 says so.
* `AgeBoundsLag` (`PolicyWatch`): the age alone does not bound how long a snapshot has
  been out of date, as it starts at the publication and not at the List.
* `TieFlagged` (`PolicyMatch`; `docs/design/S2-policy-crd.md:641`): a tie between rules
  with the same credential is not flagged as ambiguous.
* `FaultNotAllowed` (`RequestPath`; comment at `relay.go:141-144`): when a relay
  fails for a reason of its own between the watchdog's `timedOut.Store` and its
  `MarkDecided`, it leaves the record to the watchdog, and the listener's rollup,
  which comes first, counts the connection as an allow.
* `UidsAgree` (`CaptureDatapath`; `aksh_capture.c:20-23`): the uid the programs exempt is
  a setting, the one the process drops to a constant, and nothing compares them.
* `NeverInherited` (`CaptureDatapath`; `aksh_capture.c:342-343`,
  `docs/design/S1a-dataplane-capture.md:535`): a connection whose record was evicted
  before it was established finds the one an earlier user of its port left.
* `EveryThreadDropped`, `NoThreadReturns` (`Sidecar`; `privdrop_linux.go:77-80`,
  `:404-408`): the drop changes and reads capabilities on one thread, and the
  probe for a way back stops at the first refusal.
* `DropWorksAnywhere` (`Sidecar`; `privdrop_linux.go:83-84`, `:104-107`): started as
  user 0, a drop that is moved to another thread after KEEPCAPS was set finds no
  capability to raise, and the start fails. It fails closed.
* `AttachmentKept`, `PinAdopted` (`Sidecar`; `S1a-dataplane-capture.md:1217`,
  `:1178-1190`): the code detaches on SIGTERM and refuses to start on a pin it
  finds. It follows `S9b-production-wiring.md:143` instead ("idempotent
  detach/unpin"), which is what `CleanReturn` states.
* `UserDeclared`, `NothingAdded`, `ShapeExact` (`Injector`; `S5-injection-pki.md:192`,
  `:195`, `:194`): neither webhook asks other containers for a user, `Validate` knows
  a list of capabilities and not every one, and parts of the sidecar are not
  compared.

Others were met while reading and follow from single lines, without a model:

* `listener/types.go:142` speaks of a connection's "one and only" sample; a
  connection that panics, or that the resolver refuses as a loop, is sampled by
  two layers.
* `docs/design/S1c-transport.md:45` lists a downstream handshake timeout of 10 s; the
  handshake has no deadline.
* `docs/design/S1a-dataplane-capture.md:1246` has the process "exit non-zero" on
  attach loss; Run returns nil and the exit code is 0.
* The version digest of a rule set does not encode the lengths of its lists.
* `LeafOptions.Validate` compares lifetime and cache TTL without the backdating;
  the values the daemon uses leave room for it.
* A crash between the key and the certificate of the CA leaves a pod that refuses
  every later start. This is what the code means to do (`OneCA` rests on it).

## Proofs

Checked by `tlapm` from nothing, for every value of the constants that satisfies
the named assumptions, which TLC evaluates on the instances of the runs. A module
of proofs extends the module it is about. Every inductive invariant was checked
with TLC first. Every safety property of the passing runs is proved, except the
two pure ones named below.

* `LRUProofs`: what moving to the front, dropping, pushing and evicting do to the
  keys, the length and the distinctness of a recency list. The operators are
  written by index, so the lemmas need no induction.
* `TokenBrokerProofs`, from `CacheAssumption` and `BrokerAssumption`. First the
  cache: `IInv` is types, map and list in step (`CacheInSync`), who works for which
  credential (`CallsInv`), that `inflight` names exactly the leaders and
  `refreshing` covers every refresher (`FlightInv`), and that tokens stay with
  their credential (`IsolationInv`). Isolation alone is not inductive: that a
  waiter gets its own credential's token needs that the call it joined was made
  for it. Theorems: types, `SingleFlight`, `NoOrphanedWaiter`, `TokenIsolation`,
  `OwnTokenUsable`, `CacheInSync`, and the action property `EntryLoss` (a failed
  refresh loses nothing).
  Then the broker: `BrokerInv` says that the gates work on pending calls only and
  keep only answers the provider may give, so `BrokerSpec` implements the cache's
  `Spec`, step by step, and the cache's theorems hold of the broker (`BrokerSafe`).
  `ProbeInv` (the admitted probes are all between AllowRequest and the recording)
  gives `ProbeReserved`: recording any attempt releases the reservation, so what
  has to be shown is that nothing else ends a probe.
  Last the gates on their own, under any caller (`A` is the instance of
  `TokenAcquirer`): `ProbeOut`, `OnlyTransientOpens` and `NegativeBounded`,
  strengthened by the stage each call has reached (`GateInv`). Composed with
  the cache (`GatesInv`), the last two hold of the broker too (`BrokerGatesHold`).
* `PipelineProofs`, from `PipelineAssumption` and `StalenessAssumption`: `RequestInv`
  says what a request holds before, at and after the audit boundary. Theorems:
  types, `OutcomeRecorded`, `CredentialAttributed`, `NoAgentCredential`,
  `IdentityAgreed`; and the pipeline implements `Enforcement`: each stage maps to a
  step of the promise or to a stutter, on the same invariant.
  The second half is about the policy watcher, from `WatchAssumption`. `WatchInv`
  ties what a goroutine has listed to the lock it holds and to the snapshot
  published: without it an older list could be swapped in over a newer one. It
  gives the action property `PublishedInOrder`. `LagInv` adds that what a List
  answered was current when it was asked, and gives `LeaseBoundsLag`. `FreshInv` adds
  how far the resync ticker lets the age run, by one interval more after a
  failed resync, and gives `ResyncKeepsFresh`: a silent watch lets no snapshot
  expire. `WatchFeedsStore` closes the composition: seen from the store the
  watcher takes only steps of `StoreSpec`, which is the environment the pipeline
  is proved against.
* `ListenerProofs`, from `ListenerAssumption`: `LifeInv` (who is active in which
  state of the lifecycle), `HandInv` (what the accept loop holds, that the
  WaitGroup counts the handlers in flight), the slots as a cardinality. Theorems:
  types, `QuietAfterShutdown`, `OneAcceptor`, `BoundHasSocket`, `SlotsHeld`, and
  `ClosedIsFinal`.
* `RequestPathProofs`, from `RequestPathAssumption` and `LeafAssumption`, for any
  number of connections, requests on each, slots, names and cached leaves:
  `PathInv` is types, `LinkInv` (a link that is open is the one its connection
  holds, and a request is relayed only on a link dialled with its credential),
  `SampleInv` (a refusal has taken the latch; only the fallback counts an allow),
  `AskedOnce` and `LeafInv` (a mint under way is that of its name, and somebody who
  waits for a mint keeps it from being forgotten). `AskedOnce` joins the two
  modules: a connection asks for its certificate once, before its first request,
  so a mint that was let go cannot be taken for a new one of the same caller.
  Theorems: `OneCredentialPerLink`, `NothingLeftOpen`, `DenialNotAllowed`,
  `LeafShared`.
* `CaptureProofs`, from `DatapathAssumption`, for every configuration that
  loads, any sockets, ports and destinations: `CaptureInv` says what the two
  validations and the image leave of a configuration (`ConfigInv`), that open
  sockets have ports of their own (`SockInv`), that a record is in one place at a
  time, under a cookie, under a port or given away (`RecordInv`), whose it is
  (`OwnInv`), and where sockets that are not TCP may send (`DatagramInv`); `PortInv`
  adds that a record under a port was made for it, by no later connection than
  the one that has it. Theorems: `OnlyExemptUncaptured`, `OwnDestination`,
  `DatagramsOnlyToDNS`. Nothing is assumed of the uid in the configuration: the
  exemption is that of the user named there, and whether this is the proxy's is
  another matter (`UidsAgree`).
* `InjectorProofs`: `RunningGuarded` holds whatever pods, other webhooks and debug
  containers do: nothing is assumed of them, as only `Validate` lets a pod run. It
  is about what the manifest says, not about what a container can do.
  `WebhooksAgree` rests on `AdmissionInv` (a request under way is what `Patch` made
  of the pod submitted, with what the API server filled in), on pods having the
  fields of a pod and API servers filling in none but the three modelled
  (`InjectorAssumption`), and on `OthersKeepHostPID`: other webhooks leave the
  hostPID that `Patch` set. Without that it fails: `Validate` does not look at
  hostPID, and a pod that lost it is given it back when it is submitted again.
* `SidecarProofs`, from `NoCAAssumption`, `NumLinksAssumption`, for the privilege
  drop `DropAssumption` and for the pod cgroup `HostAssumption`, for any hosts,
  environments, threads, moves between them, numbers of links, starts and CAs: `CAInv` says that any prefix of the three file writes is one that the next
  start completes or refuses, which gives `OneCA`. `LifeInv` ties the place of the
  main goroutine to what the loader holds, to the pins found and made, to socket,
  control plane and Serve, and to the gates passed; it gives `ReverseTeardown` and
  `CleanReturn`. `DropInv` says what the calls of `DropPrivileges` made so far have
  left of the identities of every thread (`IdStage`) and, while the main goroutine
  has not moved, of all the credentials of its own (`DropStage`); it gives
  `DropWorks`: no call is refused and the verification succeeds. The three
  together give `ServingGuarded`. `DropAssumption` is what the injected container
  has: SETGID and SETUID in force, SETPCAP and the capabilities to keep permitted,
  SETUID not among those to keep, and another target than user 0.
  `OwnInv` (the target is chosen before the loader is entered, and only a new
  process chooses again) and `ResolvedIsOwn` (what the resolution answers is the
  parent of the proxy's cgroup) give `OwnPod`. `HostAssumption` asks nothing of
  `/proc/self/cgroup`, of the inodes or of what can be read where the container
  lies right below a pod cgroup of the least depth V4 accepts: there V6 alone
  leaves one answer. V6 accepts any ancestor that is deep enough, though, so for
  deeper layouts (a slice per QoS class) it asks for what the kernel guarantees:
  the process is shown its own path, or the root of its namespace, and the inodes
  of the cgroup2 file system are distinct.

Only model-checked:

* Liveness (`BreakerRecovers`, `BrokerReturns`, `EveryRequestAnswered`, `ServeEnds`,
  `StalledRelayEnds`, `LeafAnswered`, `EventuallyCurrent`, `StopEnds`, `BundlesSettle`):
  fairness and ENABLED are out of this prover's reach.
* `CompileOrderIndependent` and `CanonicalPaths`: what a fold over a sequence
  computes for every input (canonicalisation, ranking) would need induction over
  data, which the installed provers cannot instantiate; the operators are compared
  with reference definitions over bounded inputs instead.

## Not modelled

* The TLS protocol, HTTP parsing and x509: library code; the models take its
  verdicts, every one of them at every step.
* The canonicalisation of server names, the validation of request heads and the
  making of certificates, as text: their verdict is a choice. Encoding of audit
  records and metrics.
* The answer of `Serve` to a handover without destination or TLS state
  (`requestpath/handler.go:78-85`): `dispatch` and `Handle` refuse such a
  connection before.
* A panic of the provider in `Acquire`: `finishAcquire` (`token/cache.go:189-210`)
  has no defer, so the call would stay in flight and its waiters would wait for
  their own deadlines. `NoOrphanedWaiter` and `BrokerReturns` are about providers that
  return.
* Threads that the Go runtime creates later: each copies the credentials of an
  existing one. What a container of a pod can do beyond what its manifest says
  (the user of its image, the capabilities its runtime grants).
* `internal/audit` `bufferedsink.go` and `emergency_channel.go`: neither command
  wires them. The bounded recorder of rejections drops what does not fit, and
  nothing depends on it.
* The selection of policies by pod labels, the gauge of staleness, and the
  construction of API clients.
* Credential resolution and secrets: stateless conversions to the key the token
  models use.
* Discrimination and passthrough handlers of the listener, and `ProbeAggregator`:
  not part of what the daemon assembles.
* Gates P9 to P15 and assertions V7 and V8: not wired, or only warnings.
* API types, generated code, test servers.
* IPv6 capture beyond its denial, and kernels without the hooks: the code refuses
  them at the gates that are modelled.
