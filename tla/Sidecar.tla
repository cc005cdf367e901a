------------------------------- MODULE Sidecar -------------------------------
(***************************************************************************)
(* The life of the sidecar process: run() of cmd/aksh-proxy/main.go and    *)
(* the Orchestrator it drives (internal/runtime/orchestrator.go), composed *)
(* from the pod CA, the capture loader, the environment gates and the      *)
(* privilege drop.  The main goroutine, the health loop, the goroutine of  *)
(* Serve, a SIGTERM, the agent's first connection and a crash interleave,  *)
(* and the Go scheduler may move the main goroutine to another thread      *)
(* between two calls of the drop.                                          *)
(* After an exit or a crash the kubelet starts the process again.          *)
(*                                                                         *)
(* Any gate may fail: the failures of the components modelled here are     *)
(* theirs, the others are a choice of the step.                            *)
(***************************************************************************)
EXTENDS CaptureLoader, PodCA, Preflight, PrivDrop

CONSTANTS
    NoHost, Hosts,   \* the hosts the pod may be placed on
    Envs,            \* what the environment probes may answer
    StartCreds,      \* the credentials a container may start with
    DropConfig,      \* the target Run passes to DropPrivileges
    MaxBoots,        \* bound on the starts of the process
    MaxMoves,        \* bound on the moves of the main goroutine during a drop
    Faults           \* BOOLEAN: crashes, and failures of what is not modelled

\* The container is given the capabilities the drop itself uses and the ones
\* that are kept; the target is not user 0, which the configuration refuses,
\* and keeps no way back to it.
ASSUME DropAssumption ==
    /\ Refused \notin Credentials /\ Threads # {}
    /\ DropConfig \in [uid : Nat, gid : Nat, groups : SUBSET Nat, keep : SUBSET STRING, nnp : BOOLEAN]
    /\ "SETUID" \notin DropConfig.keep /\ DropConfig.uid # 0
    /\ \A c \in StartCreds :
        /\ c \in Credentials /\ {"SETGID", "SETUID"} \subseteq c.effective
        /\ WithSetpcap(DropConfig.keep) \subseteq c.permitted /\ DropConfig.keep \subseteq c.bounding

\* The container's cgroup is a directory of the host.  Either it lies right
\* below the shallowest pod cgroup that is accepted, and then nothing is asked
\* of what the namespace shows or of the inodes; or it lies deeper, and then
\* the kernel shows the process its own path, or the root of its namespace, and
\* the inodes of the one cgroup2 file system are distinct.
ASSUME HostAssumption ==
    /\ MinPodCgroupDepth \in Nat
    /\ \A h \in Hosts :
        /\ h.dirs \subseteq Seq(STRING) /\ h.own \in h.dirs
        /\ \/ Len(h.own) <= MinPodCgroupDepth + 1
           \/ /\ h.seen \in {<<>>, h.own}
              /\ \A d \in h.dirs : h.ino[d] = h.ino[h.own] => d = h.own

VARIABLES
    boots,     \* how often the process was started
    m,         \* run() and the Orchestrator; see Fresh
    creds,     \* the credentials of each thread
    term,      \* SIGTERM was received: the daemon's context is cancelled
    agent,     \* the agent has opened a connection
    code       \* how the last process ended: "none", "clean" (exit 0),
               \* "failed" (exit 1) or "crash"

hostVars == <<boots, term, code>>
vars == <<boots, m, creds, term, agent, code, loaderVars, caVars>>

\* The thread the main goroutine starts on.
MainThread == CHOOSE t \in Threads : TRUE

NoTarget == [path |-> <<>>, own |-> FALSE]

\* pc is the main goroutine, host and target the cgroup it chose and whose it
\* is, cancel whether cancelServe was called, cp and sock the control plane
\* and the data-plane socket, srv the goroutine of Serve, drop the
\* next call of DropPrivileges, at the thread the goroutine is on and moves how
\* often it was moved during the drop, err Run's error, stale the pins that were
\* there at the start.
Fresh(pc, h) ==
    [pc |-> pc, host |-> h, target |-> NoTarget, cancel |-> FALSE, snapshot |-> FALSE,
     cp |-> "none", sock |-> "none", srv |-> "off", drop |-> 1, at |-> MainThread, moves |-> 0,
     ready |-> FALSE, live |-> TRUE, err |-> FALSE, stale |-> pins]

Init ==
    /\ LoaderInit /\ CAInit
    /\ boots = 0 /\ term = FALSE /\ agent = FALSE /\ code = "none"
    /\ m = Fresh("down", NoHost)
    /\ \E c \in StartCreds : creds = [t \in Threads |-> c]

\* The serve context is done.
Done == term \/ m.cancel

To(p) == [m EXCEPT !.pc = p]
\* Orchestrator.fail, or a return of run() before it: the deferred cancelServe
\* and Handle.Close follow.
Failed(p) == [m EXCEPT !.pc = p, !.ready = FALSE, !.live = FALSE, !.err = TRUE]

Alone == UNCHANGED <<boots, creds, term, agent, code, loaderVars, caVars>>

\* The kubelet starts the process.
Boot ==
    /\ m.pc = "down" /\ boots < MaxBoots
    /\ boots' = boots + 1
    /\ \E h \in Hosts : m' = Fresh("cgroup", h)
    /\ \E c \in StartCreds : creds' = [t \in Threads |-> c]
    /\ code' = "none"
    /\ UNCHANGED <<term, agent, loaderVars, caVars>>

\* The pod cgroup, resolved before the configuration is validated.
ResolveCgroup(gone) ==
    /\ m.pc = "cgroup"
    /\ \E r \in PodCgroup(m.host, gone) :
           m' = IF r.err # "none" THEN Failed("return")
                ELSE [m EXCEPT !.pc = "env",
                               !.target = [path |-> r.path, own |-> r.path = Dir(m.host.own)]]
    /\ Alone

\* The configuration, then the gates P1 to P8, before any kernel object.
EnvPreflight(env) ==
    /\ m.pc = "env"
    /\ IF RunEnvironmentPreflight(env, m.host, m.target.path) = "none"
       THEN m' = [m EXCEPT !.pc = "load", !.host = NoHost] /\ lpc' = "reserve"
       ELSE m' = [Failed("return") EXCEPT !.host = NoHost] /\ UNCHANGED lpc
    /\ UNCHANGED <<hostVars, creds, agent, buildVars, lossVars, caVars>>

\* The load cannot go on: cancelled, or a pin of an earlier process is there.
LoadStuck == term \/ (lpc = "pin" /\ pins # myPins)

\* LoadAndAttach on the main goroutine, with the daemon's context.
Load ==
    /\ m.pc = "load"
    /\ \/ LoadStep(term) /\ m' = m
       \/ LoadFails /\ (Faults \/ LoadStuck) /\ m' = m
       \/ lpc = "failed" /\ m' = Failed("return") /\ UNCHANGED loaderVars
       \/ lpc = "open" /\ m' = To("register") /\ UNCHANGED loaderVars
    /\ UNCHANGED <<hostVars, creds, agent, caVars>>

\* handle.OnAttachLoss(cancelServe), in its two halves.
Register ==
    /\ \/ m.pc = "register" /\ StoreCallback /\ m' = To("latch")
       \/ m.pc = "latch" /\ ClaimCallback
          /\ m' = [m EXCEPT !.pc = "gate", !.cancel = @ \/ DeliverLate]
    /\ UNCHANGED <<hostVars, creds, agent, caVars>>

\* productionPreflight: the attach is there and was not lost.
GatePreflight ==
    /\ m.pc = "gate"
    /\ m' = IF lost \/ links = 0 THEN Failed("return") ELSE To("ca")
    /\ capc' = IF lost \/ links = 0 THEN capc ELSE "stat"
    /\ UNCHANGED <<hostVars, creds, agent, loaderVars, disk, minted, held>>

ConstructCA ==
    /\ m.pc = "ca"
    /\ \/ CAStep /\ m' = m
       \/ Faults /\ CAFault /\ m' = m
       \/ capc = "failed" /\ m' = Failed("return") /\ UNCHANGED caVars
       \/ capc = "ready" /\ m' = To("policy") /\ UNCHANGED caVars
    /\ UNCHANGED <<hostVars, creds, agent, loaderVars>>

\* WaitFirstSnapshot: the snapshot, the timeout, or the serve context.
PolicyStartup ==
    /\ m.pc = "policy"
    /\ \/ m' = [m EXCEPT !.pc = "compose", !.snapshot = TRUE]
       \/ (Faults \/ Done) /\ m' = Failed("return")
    /\ Alone

\* The self test, the audit sink, assemble, and the context once more: a
\* cancelled start opens no socket.
Compose ==
    /\ m.pc = "compose"
    /\ \/ m' = IF Done THEN Failed("return") ELSE To("control")
       \/ Faults /\ m' = Failed("return")
    /\ Alone

StartControlPlane ==
    /\ m.pc = "control"
    /\ \/ m' = [m EXCEPT !.pc = "bind", !.cp = "up"]
       \/ Faults /\ m' = Failed("return")
    /\ Alone

\* The factory and Bind; from here on a failure drains.
Bind ==
    /\ m.pc = "bind"
    /\ \/ m' = [m EXCEPT !.pc = "probe", !.sock = "bound"]
       \/ Faults /\ m' = Failed("drain")
    /\ Alone

\* The first connection the socket gets within the deadline is taken and
\* closed; nothing in the process makes one.  The context is not consulted.
\* Without one, or when the accept fails, the start ends.
AcceptProbe ==
    /\ m.pc = "probe"
    /\ \/ agent /\ m' = To("drop") /\ agent' = FALSE
       \/ (Faults \/ ~agent) /\ m' = Failed("drain") /\ UNCHANGED agent
    /\ UNCHANGED <<hostVars, creds, loaderVars, caVars>>

\* DropPrivileges, one call at a time; the first that is refused ends the
\* start, and what was given up by then stays given up.
PrivDropStep ==
    /\ m.pc = "drop" /\ ~Aborts(creds, DropConfig, m.drop, m.at)
    /\ \/ /\ ~Refuses(creds, DropConfig, m.drop, m.at)
          /\ creds' = After(creds, DropConfig, m.drop, m.at)
          /\ m' = IF m.drop < DropLength THEN [m EXCEPT !.drop = @ + 1]
                  ELSE [m EXCEPT !.pc = "serve", !.ready = TRUE, !.srv = "on"]
       \/ /\ Faults \/ Refuses(creds, DropConfig, m.drop, m.at)
          /\ creds' = creds /\ m' = [Failed("drain") EXCEPT !.drop = 1]
    /\ UNCHANGED <<hostVars, agent, loaderVars, caVars>>

\* The Go scheduler moves the main goroutine: it is not locked to its thread.
\* Before the drop all threads are alike, and after it nothing is read.
Migrate ==
    /\ m.pc = "drop" /\ m.moves < MaxMoves
    /\ \E t \in Threads \ {m.at} : m' = [m EXCEPT !.at = t, !.moves = @ + 1]
    /\ Alone

\* The goroutine of Serve: it returns when its context is done or the
\* listener is shut down, or it fails with an error of its own.
ServeReturns ==
    /\ m.srv = "on" /\ (Done \/ m.sock = "closed")
    /\ m' = [m EXCEPT !.srv = "ended"]
    /\ Alone

ServeFails ==
    /\ Faults /\ m.srv = "on"
    /\ m' = [m EXCEPT !.srv = "failed"]
    /\ Alone

\* The select of serve: the context, or Serve's return.  An error counts only
\* while the context is live.
Serve ==
    /\ m.pc = "serve"
    /\ \/ Done /\ m' = [m EXCEPT !.pc = "drain", !.ready = FALSE]
       \/ m.srv = "failed" /\ m' = IF Done THEN [m EXCEPT !.pc = "drain", !.ready = FALSE]
                                   ELSE Failed("drain")
       \/ m.srv = "ended" /\ m' = [m EXCEPT !.pc = "drain", !.ready = FALSE]
    /\ Alone

\* Shutdown, in its order: the listener, whose drain may run into the
\* deadline, then the capture programs, then the control plane.
DrainListener ==
    /\ m.pc = "drain"
    /\ \E late \in {FALSE, Faults} :
          m' = [m EXCEPT !.pc = "drain2", !.ready = FALSE,
                         !.sock = IF @ = "bound" THEN "closed" ELSE @,
                         !.err = @ \/ late]
    /\ Alone

\* Mutant of DrainCapture: the control plane is stopped first.
DrainCaptureLast ==
    /\ m.pc = "drain2" /\ m' = [m EXCEPT !.pc = "drain3", !.cp = "down"]
    /\ UNCHANGED <<hostVars, creds, agent, loaderVars, caVars>>

DrainCapture ==
    /\ m.pc = "drain2" /\ m' = To("drain3")
    /\ HandleClose
    /\ UNCHANGED <<hostVars, creds, agent, caVars>>

DrainControlPlane ==
    /\ m.pc = "drain3" /\ m' = [m EXCEPT !.pc = "return", !.cp = "down"]
    /\ Alone

\* run() returns: the deferred cancelServe and Handle.Close, then the exit.
Return ==
    /\ m.pc = "return"
    /\ m' = [m EXCEPT !.pc = "exit", !.cancel = TRUE]
    /\ HandleClose
    /\ UNCHANGED <<hostVars, creds, agent, caVars>>

\* The kernel drops what the process held; files and pins stay.
ProcessGone ==
    /\ m' = Fresh("down", NoHost)
    /\ LoaderFresh
    /\ capc' = "off" /\ held' = NoCA
    /\ term' = FALSE /\ agent' = FALSE
    /\ UNCHANGED <<boots, creds, pins, disk, minted>>

Exit ==
    /\ m.pc = "exit"
    /\ code' = IF m.err THEN "failed" ELSE "clean"
    /\ ProcessGone

\* The threads answer an AllThreadsSyscall differently.
DropAborts ==
    /\ m.pc = "drop" /\ Aborts(creds, DropConfig, m.drop, m.at)
    /\ code' = "crash"
    /\ ProcessGone

MainStep ==
    \/ m.pc = "cgroup" /\ \E gone \in SUBSET Inner(m.host) : ResolveCgroup(gone)
    \/ \E env \in Envs : EnvPreflight(env)
    \/ Load \/ Register \/ GatePreflight \/ ConstructCA \/ PolicyStartup
    \/ Compose \/ StartControlPlane \/ Bind \/ AcceptProbe
    \/ PrivDropStep \/ DropAborts
    \/ Serve \/ DrainListener \/ DrainCapture \/ DrainControlPlane \/ Return \/ Exit

\* The health loop, and the callback it runs: cancelServe.
HealthStep ==
    \/ /\ \/ HealthStops(term)
          \/ \E verdict \in {"ok", "inconclusive", "lost"} :
                (verdict = "ok" \/ Faults \/ detached) /\ HealthTick(verdict)
       /\ m' = m
       /\ UNCHANGED <<hostVars, creds, agent, caVars>>
    \/ /\ health = "deliver" /\ health' = "ended"
       /\ m' = [m EXCEPT !.cancel = TRUE]
       /\ UNCHANGED <<hostVars, creds, agent, caVars, lpc, buildVars>>
       /\ UNCHANGED <<detached, inconclusive, lost, onLoss, fired>>

Detached == Detach /\ UNCHANGED <<hostVars, m, creds, agent, caVars>>

Terminate ==
    /\ m.pc # "down" /\ ~term /\ term' = TRUE
    /\ UNCHANGED <<boots, m, creds, agent, code, loaderVars, caVars>>

\* The agent's connection is redirected to the socket by the programs.
AgentConnects ==
    /\ m.sock = "bound" /\ ~agent /\ links = NumLinks /\ ~detached
    /\ agent' = TRUE
    /\ UNCHANGED <<hostVars, m, creds, loaderVars, caVars>>

\* The process dies at any point; the kernel drops what it held.
Crash ==
    /\ Faults /\ m.pc # "down"
    /\ code' = "crash"
    /\ ProcessGone

\* The bound on the starts is reached.
Over == m.pc = "down" /\ boots = MaxBoots /\ UNCHANGED vars

Next ==
    \/ Boot \/ MainStep \/ Migrate \/ HealthStep \/ ServeReturns \/ ServeFails
    \/ Detached \/ Terminate \/ AgentConnects \/ Crash \/ Over

Spec == Init /\ [][Next]_vars

\* The goroutines run, the kubelet starts the process again, and the health
\* check is repeated on every tick; a fault need never happen.
FairSpec ==
    /\ Spec
    /\ WF_vars(MainStep) /\ WF_vars(HealthStep) /\ WF_vars(ServeReturns) /\ WF_vars(Boot)
-----------------------------------------------------------------------------
TypeOK ==
    /\ CATypeOK
    /\ boots \in 0 .. MaxBoots
    /\ m.cp \in {"none", "up", "down"} /\ m.sock \in {"none", "bound", "closed"}
    /\ links \in 0 .. NumLinks /\ pins \in 0 .. NumLinks + 1 /\ myPins \in 0 .. pins
    /\ inconclusive \in 0 .. InconclusiveLimit

\* Every thread has the user, the group and the group list of the target.
IdentitiesDropped ==
    \A t \in Threads : Verified(creds[t], DropConfig, 10)

\* Connections are served only behind every gate of run() and Run: all the
\* programs attached with their two configuration maps frozen, the CA that
\* signs the one the agent was given, a policy snapshot and the control plane
\* up; every thread has the target's identities, and when the main goroutine
\* stayed on one thread during the drop, the whole of verifyDrop holds there.
ServingGuarded ==
    m.srv = "on" /\ m.sock = "bound" =>
        /\ lpc = "open" /\ links = NumLinks /\ config = "frozen" /\ bypass = "frozen"
        /\ held # NoCA /\ held = disk.pub
        /\ m.snapshot /\ m.cp = "up"
        /\ IdentitiesDropped
        /\ m.moves = 0 => VerifyDrop(creds[m.at], DropConfig)

\* privdrop_linux.go:77-80: a drop that "did not fully take" ends the start
\* "rather than continuing in a partially-dropped state", and :404-408: the probe
\* "detects any thread that could still return to UID 0".  Refuted: the
\* capabilities, the bounding set and no_new_privs are changed, and read, on one
\* thread, and the probe ends at the first refusal.
EveryThreadDropped ==
    m.srv = "on" => \A t \in Threads : VerifyDrop(creds[t], DropConfig)

\* The same for the way back to user 0 alone.
NoThreadReturns ==
    m.srv = "on" => \A t \in Threads : SetUID(creds[t], 0) = Refused

\* Programs are attached to the pod of the proxy itself, whatever the cgroup
\* namespace shows of it and whatever disappears during the search.
OwnPod == links > 0 => m.target.own

\* Why it holds: the target is chosen before the loader is entered, and only a
\* new process chooses again.
OwnInv ==
    /\ m.pc = "cgroup" => m.host \in Hosts
    /\ m.pc = "env" \/ lpc # "off" => m.target.own

\* Shutdown takes the parts down in the reverse order on every path: the
\* socket never outlives the programs that feed it, nor they the control plane.
ReverseTeardown ==
    /\ m.sock = "bound" => lpc = "open" /\ m.cp = "up"
    /\ m.cp = "down" => lpc = "closed"

\* However run() returns, it has released all that it made: the reservation,
\* the links, the collection, the pins, the socket and the control plane.  This is
\* the shutdown of S9b-production-wiring (:143, "idempotent detach/unpin"), which
\* the code follows; S1a-dataplane-capture says the opposite: see the next two.
CleanReturn ==
    m.pc = "exit" =>
        /\ ~reserved /\ ~coll /\ links = 0 /\ pins = m.stale
        /\ m.sock # "bound" /\ m.cp # "up"

\* S1a-dataplane-capture:1217, on SIGTERM: "Do NOT detach the BPF programs. Do NOT
\* unpin."  Refuted: the drain closes the handle.
AttachmentKept == [][term /\ lpc = "open" => lpc' # "closed"]_vars

\* S1a-dataplane-capture:1178-1190: a restart adopts the pin of an earlier process,
\* or removes it.  Refuted: pinning fails on it, and so does the start.
PinAdopted == [][m.pc = "load" /\ lpc = "pin" /\ pins # myPins /\ ~term => lpc' # "failed"]_vars

\* Over all crashes and restarts the pod has one CA: the published one never
\* changes, and a process signs with it or not at all.
OneCA ==
    [][/\ disk.pub # NoCA => disk'.pub = disk.pub
       /\ held' # NoCA => held' = disk'.pub /\ held' = disk'.key]_vars

\* The order of the steps fits the kernel's rules: from the credentials a
\* container starts with, and while the main goroutine stays on its thread, no
\* call of DropPrivileges is refused, no thread answers differently, and the
\* verification at the end succeeds.
DropWorks ==
    m.pc = "drop" /\ m.moves = 0 =>
        /\ ~Refuses(creds, DropConfig, m.drop, m.at)
        /\ ~Aborts(creds, DropConfig, m.drop, m.at)

\* The same whatever the scheduler does.  Refuted: KEEPCAPS is set on one thread
\* (privdrop_linux.go:83-84), so that from user 0 a goroutine that was moved
\* finds no capability left to raise (:104-107).
DropWorksAnywhere ==
    m.pc = "drop" =>
        /\ ~Refuses(creds, DropConfig, m.drop, m.at)
        /\ ~Aborts(creds, DropConfig, m.drop, m.at)

\* A SIGTERM, and the loss of the attachment, end the process, also when the
\* loss comes before the callback is registered.
StopEnds == (term \/ lost) ~> (m.pc = "down")

\* The proxy probes its own capture path: once the socket is bound, and unless
\* the process is told to stop or the programs are detached, it goes on to
\* serve, whatever the agent does.
StartupServes == (m.sock = "bound") ~> (m.srv = "on" \/ term \/ detached)

\* Why DropWorks holds: what the calls of DropPrivileges before the i-th have made
\* of the credentials of any thread,
IdStage(c, i) ==
    /\ c \in Credentials
    /\ i <= 4 => {"SETGID", "SETUID"} \subseteq c.effective
    /\ i > 2 => c.groups = DropConfig.groups
    /\ i > 3 => c.gid = DropConfig.gid
    /\ i > 4 => c.uid = DropConfig.uid

\* and of the one thread they were all made on, and what is left to the ones
\* that follow.
DropStage(c, i) ==
    /\ IdStage(c, i)
    /\ i > 1 /\ i <= 8 => c.keepcaps = TRUE
    /\ i <= 5 => WithSetpcap(DropConfig.keep) \subseteq c.permitted
    /\ i \in {6, 7} => c.effective = WithSetpcap(DropConfig.keep) /\ c.permitted = c.effective
    /\ i <= 6 => DropConfig.keep \subseteq c.bounding
    /\ i > 6 => c.bounding = DropConfig.keep
    /\ i > 7 => c.effective = DropConfig.keep /\ c.permitted = DropConfig.keep
    /\ i > 8 => c.keepcaps = FALSE
    /\ i > 9 => (DropConfig.nnp => c.nnp = TRUE)

\* The process starts with credentials of StartCreds on every thread and keeps
\* them up to the drop; what the drop made of them stays.
DropInv ==
    /\ m.at \in Threads /\ m.moves \in Nat
    /\ m.pc \in {"cgroup", "env", "load", "register", "latch", "gate", "ca", "policy", "compose",
                 "control", "bind", "probe"} =>
           m.drop = 1 /\ \E c \in StartCreds : creds = [t \in Threads |-> c]
    /\ m.pc = "drop" =>
           /\ m.drop \in 1 .. DropLength
           /\ \A t \in Threads : IdStage(creds[t], m.drop)
           /\ m.moves = 0 => DropStage(creds[m.at], m.drop)
    /\ m.srv # "off" =>
           /\ IdentitiesDropped
           /\ m.moves = 0 => VerifyDrop(creds[m.at], DropConfig)
=============================================================================
