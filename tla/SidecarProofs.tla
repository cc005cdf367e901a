---------------------------- MODULE SidecarProofs ----------------------------
(***************************************************************************)
(* Proofs about Sidecar, for every number of links, of starts and of CAs,  *)
(* every set of environments, and with or without faults: the pod has one  *)
(* CA, the parts are taken down in reverse order, a return leaves nothing  *)
(* behind, connections are served only behind every gate, no call of the   *)
(* privilege drop is refused, and the programs are on the proxy's own pod. *)
(***************************************************************************)
EXTENDS Sidecar, TLAPS

-----------------------------------------------------------------------------
(* The CA: the order of the three files makes any prefix of a write one    *)
(* that the next start refuses, or completes.                              *)

\* The public copy is the last file written; the provider signs with the CA
\* of all three; between two files what is there is the CA being written.
CAInv ==
    /\ minted \in Nat
    /\ disk \in [key : Nat \cup {NoCA}, cert : Nat \cup {NoCA}, pub : Nat \cup {NoCA}]
    /\ disk.pub # NoCA => disk.key # NoCA /\ disk.cert # NoCA
    /\ held # NoCA => held = disk.pub /\ held = disk.key
    /\ capc = "ready" => held # NoCA
    /\ capc = "load" => disk.key # NoCA /\ disk.cert # NoCA
    /\ capc \in {"generate", "key"} => disk.key = NoCA /\ disk.cert = NoCA
    /\ capc = "cert" => disk.key = minted /\ disk.cert = NoCA
    /\ capc = "pub" => disk.key = minted /\ disk.cert = minted /\ disk.pub = NoCA

\* What a step may do to the published CA and to the one that signs.
KeepsCA ==
    /\ disk.pub # NoCA => disk'.pub = disk.pub
    /\ held' # NoCA => held' = disk'.pub /\ held' = disk'.key

\* The process is gone, or the provider is asked for: no file changes.
CAReset == capc' = "off" /\ held' = NoCA /\ UNCHANGED <<disk, minted>>
CAStart == capc' = "stat" /\ UNCHANGED <<disk, minted, held>>

\* Each step of the provider, a fault, and a restart keep CAInv.
LEMMA CAStepKeeps ==
    ASSUME CAInv, CAStep \/ CAFault \/ CAReset \/ CAStart \/ UNCHANGED caVars
    PROVE  CAInv' /\ KeepsCA
<1>1. CASE NewPodCAProvider
  BY <1>1, Zenon DEF NewPodCAProvider, CAInv, KeepsCA
<1>2. CASE LoadCA
  BY <1>2, Zenon DEF LoadCA, VerifyPublicCopy, CAInv, KeepsCA
<1>3. CASE GenerateCA
  BY <1>3 DEF GenerateCA, CAInv, KeepsCA
<1>4. CASE PersistKey
  BY <1>4, NoCAAssumption, Zenon DEF PersistKey, AtomicWriteFile, CAInv, KeepsCA
<1>5. CASE PersistCert
  BY <1>5, NoCAAssumption, Zenon DEF PersistCert, AtomicWriteFile, CAInv, KeepsCA
<1>6. CASE PersistPublic
  BY <1>6, NoCAAssumption, Zenon DEF PersistPublic, AtomicWriteFile, CAInv, KeepsCA
<1>7. CASE CAFault
  BY <1>7, Zenon DEF CAFault, CAInv, KeepsCA
<1>8. CASE CAReset
  BY <1>8, Zenon DEF CAReset, CAInv, KeepsCA
<1>9. CASE CAStart
  BY <1>9, Zenon DEF CAStart, CAInv, KeepsCA
<1>10. CASE UNCHANGED caVars
  BY <1>10, Zenon DEF caVars, CAInv, KeepsCA
<1> QED
  BY <1>1, <1>2, <1>3, <1>4, <1>5, <1>6, <1>7, <1>8, <1>9, <1>10 DEF CAStep

\* Every step of the sidecar does one of these things to the CA.
LEMMA CAFrame ==
    ASSUME [Next]_vars
    PROVE  CAStep \/ CAFault \/ CAReset \/ CAStart \/ UNCHANGED caVars
<1> USE Zenon
<1>1. CASE GatePreflight
  <2>1. CASE lost \/ links = 0
    BY <1>1, <2>1, Zenon DEF GatePreflight, caVars
  <2>2. CASE ~(lost \/ links = 0)
    BY <1>1, <2>2, Zenon DEF GatePreflight, CAStart
  <2> QED BY <2>1, <2>2
<1>2. CASE ConstructCA
  BY <1>2, Zenon DEF ConstructCA
<1>3. CASE Exit \/ DropAborts \/ Crash
  BY <1>3, Zenon DEF Exit, DropAborts, Crash, ProcessGone, CAReset
<1>4. CASE \/ m.pc = "cgroup" /\ \E gone \in SUBSET Inner(m.host) : ResolveCgroup(gone)
           \/ \E env \in Envs : EnvPreflight(env)
  BY <1>4, Zenon DEF ResolveCgroup, EnvPreflight, Alone
<1>5. CASE \/ Load \/ Register \/ PolicyStartup \/ Compose \/ StartControlPlane \/ Bind
           \/ AcceptProbe \/ PrivDropStep \/ Serve \/ DrainListener \/ DrainCapture
           \/ DrainControlPlane \/ Return
  BY <1>5, Zenon DEF Load, Register, PolicyStartup, Compose, StartControlPlane, Bind, AcceptProbe,
              PrivDropStep, Serve, DrainListener, DrainCapture, DrainControlPlane, Return, Alone
<1>6. CASE Boot \/ Migrate \/ HealthStep \/ ServeReturns \/ ServeFails \/ Detached \/ Terminate \/ AgentConnects
  BY <1>6, Zenon DEF Boot, Migrate, HealthStep, ServeReturns, ServeFails, Detached, Terminate, AgentConnects, Alone
<1>7. CASE Over \/ UNCHANGED vars
  BY <1>7, Zenon DEF Over, vars
<1> QED
  BY <1>1, <1>2, <1>3, <1>4, <1>5, <1>6, <1>7, Zenon DEF Next, MainStep

\* The CA's files and the provider are consistent in every reachable state.
LEMMA CAInvariant == Spec => []CAInv
<1>1. Init => CAInv
  BY DEF Init, CAInit, CAInv
<1>2. CAInv /\ [Next]_vars => CAInv'
  BY CAFrame, CAStepKeeps, Zenon
<1> QED
  BY <1>1, <1>2, PTL DEF Spec

\* OneCA: over all crashes, faults and restarts, however many, the published
\* CA never changes and a process signs with it or not at all, by the order
\* in which generate of provider.go writes the key, the certificate and the
\* public copy, and the checks of load.
THEOREM OneCAHolds == Spec => OneCA
<1>1. CAInv /\ [Next]_vars => [KeepsCA]_vars
  BY CAFrame, CAStepKeeps, Zenon
<1>2. [KeepsCA]_vars <=> [/\ disk.pub # NoCA => disk'.pub = disk.pub
                          /\ held' # NoCA => held' = disk'.pub /\ held' = disk'.key]_vars
  BY Zenon DEF KeepsCA
<1> QED
  BY <1>1, <1>2, CAInvariant, PTL DEF Spec, OneCA

-----------------------------------------------------------------------------
(* The life of a process: what the place of the main goroutine says of the *)
(* loader, the socket, the control plane and the goroutine of Serve.       *)

\* m is a record of these fields.
MShape ==
    m \in [pc : {m.pc}, host : {m.host}, target : {m.target}, cancel : {m.cancel},
           snapshot : {m.snapshot}, cp : {m.cp}, sock : {m.sock}, srv : {m.srv},
           drop : {m.drop}, at : {m.at}, moves : {m.moves}, ready : {m.ready}, live : {m.live}, err : {m.err},
           stale : {m.stale}]

Unloaded == {"down", "cgroup", "env"}
Loading == {"reserve", "collection", "config", "bypass", "attach", "pin", "handle", "failed", "open"}
\* The main goroutine holds an open handle.
Holding == {"register", "latch", "gate", "ca", "policy", "compose", "control", "bind",
            "probe", "drop", "serve", "drain", "drain2"}

\* What the loader holds at each point: nothing outside a load, all of the
\* links behind frozen maps once the handle is there.
LoaderInv ==
    /\ links \in Nat /\ pins \in Nat /\ myPins \in Nat
    /\ lpc \in {"off", "reserve", "failed", "closed"} =>
           reserved = FALSE /\ coll = FALSE /\ links = 0 /\ myPins = 0
    /\ lpc \in {"collection", "config", "bypass"} => links = 0
    /\ lpc = "attach" => links < NumLinks
    /\ lpc \in {"pin", "handle", "open"} => links = NumLinks
    /\ lpc \in {"bypass", "attach", "pin", "handle", "open"} => config = "frozen"
    /\ lpc \in {"attach", "pin", "handle", "open"} => bypass = "frozen"

\* The pins of this process are on top of those it found.
PinInv == m.stale \in Nat /\ pins = m.stale + myPins

PhaseInv ==
    /\ m.pc \in Unloaded => lpc = "off"
    /\ m.pc = "load" => lpc \in Loading
    /\ m.pc \in Holding => lpc = "open"
    /\ m.pc = "drain3" => lpc = "closed"
    /\ m.pc = "return" => lpc \in {"off", "failed", "open", "closed"}
    /\ m.pc = "exit" => lpc \in {"off", "failed", "closed"}

\* The socket is bound, and the control plane up, on these stretches only.
PartsInv ==
    /\ m.sock = "bound" => m.pc \in {"probe", "drop", "serve", "drain"}
    /\ m.cp = "up" <=> m.pc \in {"bind", "probe", "drop", "serve", "drain", "drain2", "drain3"}
    /\ m.cp = "down" => m.pc \in {"return", "exit"} /\ lpc = "closed"

\* What was passed on the way to Serve.
GateInv ==
    /\ m.pc \in {"policy", "compose", "control", "bind", "probe", "drop", "serve", "drain"} =>
           capc = "ready"
    /\ m.pc \in {"compose", "control", "bind", "probe", "drop", "serve", "drain"} =>
           m.snapshot = TRUE
    /\ m.srv # "off" => m.pc \in {"serve", "drain", "drain2", "drain3", "return", "exit"}
    /\ m.drop \in 1 .. DropLength

LifeInv == MShape /\ LoaderInv /\ PinInv /\ PhaseInv /\ PartsInv /\ GateInv

\* A step that leaves the parts alone.
SameParts ==
    /\ m'.cp = m.cp /\ m'.sock = m.sock /\ m'.srv = m.srv
    /\ m'.snapshot = m.snapshot /\ m'.drop = m.drop /\ m'.stale = m.stale

\* The main goroutine only goes on to another step.
LEMMA ToMoves ==
    ASSUME MShape, NEW p, m' = To(p)
    PROVE  MShape' /\ m'.pc = p /\ SameParts
BY Zenon DEF MShape, To, SameParts

\* A failure changes its place, the probes and the error only.
LEMMA FailedMoves ==
    ASSUME MShape, NEW p, m' = Failed(p)
    PROVE  MShape' /\ m'.pc = p /\ SameParts
BY Zenon DEF MShape, Failed, SameParts

\* LoaderInv speaks of these variables only.
LEMMA LoaderFrame ==
    ASSUME LoaderInv, UNCHANGED <<lpc, buildVars>>
    PROVE  LoaderInv'
BY Zenon DEF LoaderInv, buildVars

LEMMA PinFrame ==
    ASSUME PinInv, UNCHANGED <<lpc, buildVars>>, m'.stale = m.stale
    PROVE  PinInv'
BY Zenon DEF PinInv, buildVars

\* A step that neither moves the main goroutine nor changes a part.
LEMMA StayPut ==
    ASSUME LifeInv, MShape', SameParts, m'.pc = m.pc, UNCHANGED <<lpc, buildVars>>,
           capc' = capc \/ m.pc = "ca"
    PROVE  LifeInv'
<1>1. LoaderInv' /\ PinInv'
  BY LoaderFrame, PinFrame, Zenon DEF LifeInv, SameParts
<1>2. PhaseInv' /\ PartsInv'
  BY Zenon DEF LifeInv, SameParts, PhaseInv, PartsInv
<1>3. GateInv'
  BY Zenon DEF LifeInv, SameParts, GateInv
<1> QED
  BY <1>1, <1>2, <1>3, Zenon DEF LifeInv

\* The ways from one step to the next, or to the drain or the return of a
\* failure, that change no part.
LEMMA PassOn ==
    ASSUME LifeInv, MShape', SameParts, UNCHANGED <<lpc, buildVars>>,
           capc' = capc,
           \/ m.pc = "cgroup" /\ m'.pc \in {"env", "return"}
           \/ m.pc \in {"gate", "ca", "policy", "control"} /\ m'.pc = "return"
           \/ m.pc = "compose" /\ m'.pc \in {"control", "return"}
           \/ m.pc \in {"bind", "probe", "drop", "serve"} /\ m'.pc = "drain"
           \/ m.pc = "probe" /\ m'.pc = "drop"
           \/ m.pc = "register" /\ m'.pc = "latch"
           \/ m.pc = "latch" /\ m'.pc = "gate"
           \/ m.pc = "ca" /\ m'.pc = "policy" /\ capc = "ready"
    PROVE  LifeInv'
<1>1. LoaderInv' /\ PinInv'
  BY LoaderFrame, PinFrame, Zenon DEF LifeInv, SameParts
<1>2. PhaseInv'
  BY Zenon DEF LifeInv, SameParts, PhaseInv, Unloaded, Holding
<1>3. PartsInv'
  BY Zenon DEF LifeInv, SameParts, PartsInv
<1>4. GateInv'
  <2>1. m.srv # "off" => m'.pc = "drain"
    BY Zenon DEF LifeInv, GateInv
  <2> QED
    BY <2>1, Zenon DEF LifeInv, SameParts, GateInv
<1> QED
  BY <1>1, <1>2, <1>3, <1>4, Zenon DEF LifeInv

\* One step of LoadAndAttach, or its failure, keeps what the loader holds.
LEMMA LoadKeeps ==
    ASSUME LoaderInv, PinInv, m' = m, LoadStep(term) \/ LoadFails
    PROVE  LoaderInv' /\ PinInv' /\ lpc' \in Loading
<1>1. CASE Reserve
  BY <1>1, Zenon DEF Reserve, LoaderInv, PinInv, Loading
<1>2. CASE NewCollection(term)
  BY <1>2, Zenon DEF NewCollection, LoaderInv, PinInv, Loading
<1>3. CASE WriteAndFreezeConfig(term)
  BY <1>3, Zenon DEF WriteAndFreezeConfig, LoaderInv, PinInv, Loading
<1>4. CASE WriteAndFreezeBypass
  BY <1>4, NumLinksAssumption DEF WriteAndFreezeBypass, LoaderInv, PinInv, Loading
<1>5. CASE Attach(term)
  <2>1. lpc' \in {"attach", "pin", "handle"} /\ (lpc' = "attach" => links + 1 < NumLinks)
        /\ (lpc' # "attach" => ~(links + 1 < NumLinks))
    BY <1>5, Zenon DEF Attach
  <2>2. links' = links + 1 /\ links < NumLinks /\ links' \in Nat
    BY <1>5 DEF Attach, LoaderInv
  <2>3. lpc' # "attach" => links' = NumLinks
    BY <2>1, <2>2, NumLinksAssumption DEF LoaderInv
  <2> QED
    BY <1>5, <2>1, <2>2, <2>3, Zenon DEF Attach, LoaderInv, PinInv, Loading
<1>6. CASE PinAll
  BY <1>6 DEF PinAll, LoaderInv, PinInv, Loading
<1>7. CASE NewHandle
  BY <1>7, Zenon DEF NewHandle, buildVars, LoaderInv, PinInv, Loading
<1>8. CASE LoadFails
  BY <1>8 DEF LoadFails, CloseAll, LoaderInv, PinInv, Loading
<1> QED
  BY <1>1, <1>2, <1>3, <1>4, <1>5, <1>6, <1>7, <1>8 DEF LoadStep

\* Handle.Close leaves nothing of this process behind, and can be repeated.
LEMMA CloseKeeps ==
    ASSUME LoaderInv, PinInv, m'.stale = m.stale, HandleClose
    PROVE  /\ LoaderInv' /\ PinInv'
           /\ lpc = "open" => lpc' = "closed"
           /\ lpc # "open" => lpc' = lpc
<1>1. CASE lpc = "open"
  BY <1>1 DEF HandleClose, CloseAll, LoaderInv, PinInv
<1>2. CASE lpc # "open"
  <2>1. UNCHANGED <<lpc, buildVars>>
    BY <1>2, Zenon DEF HandleClose, loaderVars, buildVars
  <2> QED
    BY <1>2, <2>1, LoaderFrame, PinFrame, Zenon
<1> QED
  BY Zenon, <1>1, <1>2

\* A start, an exit and a crash: the pins stay, all else is new.
LEMMA GoneKeeps ==
    ASSUME LifeInv, ProcessGone
    PROVE  LifeInv'
<1>1. /\ MShape' /\ m'.pc = "down" /\ m'.cp = "none" /\ m'.sock = "none" /\ m'.srv = "off"
      /\ m'.drop = 1 /\ m'.stale = pins
  BY Zenon DEF ProcessGone, Fresh, MShape
<1>2. LoaderInv' /\ PinInv' /\ lpc' = "off"
  BY <1>1 DEF ProcessGone, LoaderFresh, LifeInv, LoaderInv, PinInv
<1>3. PhaseInv' /\ PartsInv'
  BY <1>1, <1>2, Zenon DEF PhaseInv, PartsInv, Holding
<1>4. GateInv'
  BY <1>1 DEF GateInv, DropLength
<1> QED
  BY <1>1, <1>2, <1>3, <1>4, Zenon DEF LifeInv

LEMMA BootKeeps ==
    ASSUME LifeInv, Boot
    PROVE  LifeInv'
<1>1. /\ MShape' /\ m'.pc = "cgroup" /\ m'.cp = "none" /\ m'.sock = "none" /\ m'.srv = "off"
      /\ m'.drop = 1 /\ m'.stale = pins
  <2> PICK h \in Hosts : m' = Fresh("cgroup", h)
    BY Zenon DEF Boot
  <2> QED
    BY Zenon DEF Fresh, MShape
<1>2. UNCHANGED <<lpc, buildVars>> /\ lpc = "off"
  BY Zenon DEF Boot, loaderVars, buildVars, LifeInv, PhaseInv, Unloaded
<1>3. LoaderInv' /\ PinInv'
  BY <1>1, <1>2 DEF buildVars, LifeInv, LoaderInv, PinInv
<1>4. PhaseInv' /\ PartsInv'
  BY <1>1, <1>2, Zenon DEF PhaseInv, PartsInv, Holding
<1>5. GateInv'
  BY <1>1 DEF GateInv, DropLength
<1> QED
  BY <1>1, <1>3, <1>4, <1>5, Zenon DEF LifeInv

\* What leaves the loader and the CA alone.
LEMMA AloneFrame ==
    ASSUME Alone
    PROVE  UNCHANGED <<lpc, buildVars>> /\ capc' = capc
BY Zenon DEF Alone, loaderVars, caVars, buildVars

\* The steps before an object exists, and the load.
LEMMA EarlyKeeps ==
    ASSUME LifeInv,
           \/ \E gone \in SUBSET Inner(m.host) : ResolveCgroup(gone)
           \/ \E env \in Envs : EnvPreflight(env)
           \/ Load
    PROVE  LifeInv'
<1> MShape
  BY Zenon DEF LifeInv
<1>1. ASSUME NEW gone \in SUBSET Inner(m.host), ResolveCgroup(gone) PROVE LifeInv'
  <2>1. PICK r \in PodCgroup(m.host, gone) :
           m' = IF r.err # "none" THEN Failed("return")
                ELSE [m EXCEPT !.pc = "env",
                               !.target = [path |-> r.path, own |-> r.path = Dir(m.host.own)]]
    BY <1>1, Zenon DEF ResolveCgroup
  <2>2. PICK t : m' = Failed("return") \/ m' = [m EXCEPT !.pc = "env", !.target = t]
    BY <2>1, Zenon
  <2>3. MShape' /\ SameParts /\ m'.pc \in {"env", "return"}
    <3>1. CASE m' = Failed("return")
      BY <3>1, FailedMoves, Zenon
    <3>2. CASE m' = [m EXCEPT !.pc = "env", !.target = t]
      BY <3>2, Zenon DEF MShape, SameParts
    <3> QED
      BY Zenon, <2>2, <3>1, <3>2
  <2> QED
    BY <1>1, <2>3, AloneFrame, PassOn, Zenon DEF ResolveCgroup
<1>2. ASSUME NEW env \in Envs, EnvPreflight(env) PROVE LifeInv'
  <2>1. /\ UNCHANGED buildVars /\ creds' = creds /\ capc' = capc
        /\ m.pc = "env" /\ lpc = "off"
    BY <1>2, Zenon DEF EnvPreflight, caVars, LifeInv, PhaseInv, Unloaded
  <2>2. /\ MShape' /\ SameParts
        /\ \/ m'.pc = "load" /\ lpc' = "reserve"
           \/ m'.pc = "return" /\ lpc' = lpc
    <3>1. CASE m' = [m EXCEPT !.pc = "load", !.host = NoHost] /\ lpc' = "reserve"
      BY <3>1, Zenon DEF MShape, SameParts
    <3>2. CASE m' = [Failed("return") EXCEPT !.host = NoHost] /\ lpc' = lpc
      BY <3>2, Zenon DEF MShape, SameParts, Failed
    <3> QED
      BY <1>2, <3>1, <3>2, Zenon DEF EnvPreflight
  <2>3. LoaderInv' /\ PinInv'
    BY <2>1, <2>2, Zenon DEF LifeInv, SameParts, LoaderInv, PinInv, buildVars
  <2>4. PhaseInv' /\ PartsInv'
    BY <2>1, <2>2, Zenon DEF LifeInv, SameParts, PhaseInv, PartsInv, Unloaded, Holding, Loading
  <2>5. GateInv'
    BY <2>1, <2>2, Zenon DEF LifeInv, SameParts, GateInv
  <2> QED
    BY <2>2, <2>3, <2>4, <2>5, Zenon DEF LifeInv
<1>3. CASE Load
  <2>1. m.pc = "load" /\ creds' = creds /\ capc' = capc /\ LoaderInv /\ PinInv
    BY <1>3, Zenon DEF Load, caVars, LifeInv
  <2>2. CASE m' = m /\ (LoadStep(term) \/ LoadFails)
    <3>1. LoaderInv' /\ PinInv' /\ lpc' \in Loading
      BY <2>1, <2>2, LoadKeeps, Zenon
    <3>2. MShape' /\ PhaseInv' /\ PartsInv'
      BY <2>1, <2>2, <3>1, Zenon DEF LifeInv, MShape, PhaseInv, PartsInv, Unloaded, Holding, Loading
    <3>3. GateInv'
      BY <2>1, <2>2, Zenon DEF LifeInv, GateInv
    <3> QED
      BY <3>1, <3>2, <3>3, Zenon DEF LifeInv
  <2>3. CASE UNCHANGED loaderVars /\ \/ lpc = "failed" /\ m' = Failed("return")
                                     \/ lpc = "open" /\ m' = To("register")
    <3>1. UNCHANGED <<lpc, buildVars>>
      BY <2>3, Zenon DEF loaderVars, buildVars
    <3>2. /\ MShape' /\ SameParts
          /\ \/ m'.pc = "return" /\ lpc = "failed"
             \/ m'.pc = "register" /\ lpc = "open"
      BY <2>3, FailedMoves, ToMoves, Zenon
    <3>3. LoaderInv' /\ PinInv'
      BY <2>1, <3>1, <3>2, LoaderFrame, PinFrame, Zenon DEF SameParts
    <3>4. PhaseInv' /\ PartsInv'
      BY <2>1, <3>1, <3>2, Zenon DEF LifeInv, SameParts, PhaseInv, PartsInv, Unloaded, Holding
    <3>5. GateInv'
      BY <2>1, <3>2, Zenon DEF LifeInv, SameParts, GateInv
    <3> QED
      BY <3>2, <3>3, <3>4, <3>5, Zenon DEF LifeInv
  <2> QED
    BY <1>3, <2>2, <2>3, Zenon DEF Load
<1> QED
  BY <1>1, <1>2, <1>3, Zenon

\* From the registration of the callback to the composition.
LEMMA GatesKeep ==
    ASSUME LifeInv,
           Register \/ GatePreflight \/ ConstructCA \/ PolicyStartup \/ Compose
    PROVE  LifeInv'
<1> MShape
  BY Zenon DEF LifeInv
<1>1. CASE Register
  <2>1. UNCHANGED <<lpc, buildVars>> /\ capc' = capc
    BY <1>1, Zenon DEF Register, StoreCallback, ClaimCallback, caVars
  <2>2. /\ MShape' /\ SameParts
        /\ \/ m.pc = "register" /\ m'.pc = "latch"
           \/ m.pc = "latch" /\ m'.pc = "gate"
    <3>1. CASE m.pc = "register" /\ m' = To("latch")
      BY <3>1, ToMoves, Zenon
    <3>2. CASE m.pc = "latch" /\ m' = [m EXCEPT !.pc = "gate", !.cancel = @ \/ DeliverLate]
      <4> DEFINE c == m.cancel \/ DeliverLate
      <4>1. m' = [m EXCEPT !.pc = "gate", !.cancel = c]
        BY <3>2, Zenon
      <4> HIDE DEF c
      <4> QED
        BY <3>2, <4>1, Zenon DEF MShape, SameParts
    <3> QED
      BY <1>1, <3>1, <3>2, Zenon DEF Register
  <2> QED
    BY <2>1, <2>2, PassOn, Zenon
<1>2. CASE GatePreflight
  <2>1. m.pc = "gate" /\ UNCHANGED <<lpc, buildVars>>
    BY <1>2, Zenon DEF GatePreflight, loaderVars, buildVars
  <2>2. CASE m' = Failed("return") /\ capc' = capc
    BY <2>1, <2>2, FailedMoves, PassOn, Zenon
  <2>3. CASE m' = To("ca")
    <3>1. MShape' /\ SameParts /\ m'.pc = "ca"
      BY <2>3, ToMoves, Zenon
    <3>2. LoaderInv' /\ PinInv'
      BY <2>1, <3>1, LoaderFrame, PinFrame, Zenon DEF LifeInv, SameParts
    <3>3. PhaseInv' /\ PartsInv'
      BY <2>1, <3>1, Zenon DEF LifeInv, SameParts, PhaseInv, PartsInv, Unloaded, Holding
    <3>4. GateInv'
      BY <2>1, <3>1, Zenon DEF LifeInv, SameParts, GateInv
    <3> QED
      BY <3>1, <3>2, <3>3, <3>4, Zenon DEF LifeInv
  <2> QED
    BY <1>2, <2>2, <2>3, Zenon DEF GatePreflight
<1>3. CASE ConstructCA
  <2>1. m.pc = "ca" /\ UNCHANGED <<lpc, buildVars>>
    BY <1>3, Zenon DEF ConstructCA, loaderVars, buildVars
  <2>2. CASE m' = m
    <3>1. MShape' /\ SameParts /\ m'.pc = m.pc
      BY <2>2, Zenon DEF MShape, SameParts
    <3> QED
      BY <2>1, <3>1, StayPut, Zenon
  <2>3. CASE m' = Failed("return") /\ UNCHANGED caVars
    BY <2>1, <2>3, FailedMoves, PassOn, Zenon DEF caVars
  <2>4. CASE capc = "ready" /\ m' = To("policy") /\ UNCHANGED caVars
    BY <2>1, <2>4, ToMoves, PassOn, Zenon DEF caVars
  <2> QED
    BY <1>3, <2>2, <2>3, <2>4, Zenon DEF ConstructCA
<1>4. CASE PolicyStartup
  <2>1. m.pc = "policy" /\ UNCHANGED <<lpc, buildVars>> /\ capc' = capc
    BY <1>4, AloneFrame, Zenon DEF PolicyStartup
  <2>2. CASE m' = Failed("return")
    BY <2>1, <2>2, FailedMoves, PassOn, Zenon
  <2>3. CASE m' = [m EXCEPT !.pc = "compose", !.snapshot = TRUE]
    <3>1. /\ MShape' /\ m'.pc = "compose" /\ m'.snapshot = TRUE /\ m'.stale = m.stale
          /\ m'.cp = m.cp /\ m'.sock = m.sock /\ m'.srv = m.srv /\ m'.drop = m.drop
      BY <2>3, Zenon DEF MShape
    <3>2. LoaderInv' /\ PinInv'
      BY <2>1, <3>1, LoaderFrame, PinFrame, Zenon DEF LifeInv
    <3>3. PhaseInv' /\ PartsInv'
      BY <2>1, <3>1, Zenon DEF LifeInv, PhaseInv, PartsInv, Unloaded, Holding
    <3>4. GateInv'
      BY <2>1, <3>1, Zenon DEF LifeInv, GateInv
    <3> QED
      BY <3>1, <3>2, <3>3, <3>4, Zenon DEF LifeInv
  <2> QED
    BY <1>4, <2>2, <2>3, Zenon DEF PolicyStartup
<1>5. CASE Compose
  BY <1>5, AloneFrame, FailedMoves, ToMoves, PassOn, Zenon DEF Compose
<1> QED
  BY <1>1, <1>2, <1>3, <1>4, <1>5, Zenon

\* From the control plane to the drop of the privileges.
LEMMA StartKeeps ==
    ASSUME LifeInv,
           StartControlPlane \/ Bind \/ AcceptProbe \/ PrivDropStep
    PROVE  LifeInv'
<1> MShape
  BY Zenon DEF LifeInv
<1>1. CASE StartControlPlane
  <2>1. m.pc = "control" /\ UNCHANGED <<lpc, buildVars>> /\ capc' = capc
    BY <1>1, AloneFrame, Zenon DEF StartControlPlane
  <2>2. CASE m' = Failed("return")
    BY <2>1, <2>2, FailedMoves, PassOn, Zenon
  <2>3. CASE m' = [m EXCEPT !.pc = "bind", !.cp = "up"]
    <3>1. /\ MShape' /\ m'.pc = "bind" /\ m'.cp = "up" /\ m'.snapshot = m.snapshot
          /\ m'.stale = m.stale /\ m'.sock = m.sock /\ m'.srv = m.srv /\ m'.drop = m.drop
      BY <2>3, Zenon DEF MShape
    <3>2. LoaderInv' /\ PinInv'
      BY <2>1, <3>1, LoaderFrame, PinFrame, Zenon DEF LifeInv
    <3>3. PhaseInv' /\ PartsInv'
      BY <2>1, <3>1, Zenon DEF LifeInv, PhaseInv, PartsInv, Unloaded, Holding
    <3>4. GateInv'
      BY <2>1, <3>1, Zenon DEF LifeInv, GateInv
    <3> QED
      BY <3>1, <3>2, <3>3, <3>4, Zenon DEF LifeInv
  <2> QED
    BY <1>1, <2>2, <2>3, Zenon DEF StartControlPlane
<1>2. CASE Bind
  <2>1. m.pc = "bind" /\ UNCHANGED <<lpc, buildVars>> /\ capc' = capc
    BY <1>2, AloneFrame, Zenon DEF Bind
  <2>2. CASE m' = Failed("drain")
    BY <2>1, <2>2, FailedMoves, PassOn, Zenon
  <2>3. CASE m' = [m EXCEPT !.pc = "probe", !.sock = "bound"]
    <3>1. /\ MShape' /\ m'.pc = "probe" /\ m'.cp = m.cp /\ m'.snapshot = m.snapshot
          /\ m'.stale = m.stale /\ m'.srv = m.srv /\ m'.drop = m.drop
      BY <2>3, Zenon DEF MShape
    <3>2. LoaderInv' /\ PinInv'
      BY <2>1, <3>1, LoaderFrame, PinFrame, Zenon DEF LifeInv
    <3>3. PhaseInv' /\ PartsInv'
      BY <2>1, <3>1, Zenon DEF LifeInv, PhaseInv, PartsInv, Unloaded, Holding
    <3>4. GateInv'
      BY <2>1, <3>1, Zenon DEF LifeInv, GateInv
    <3> QED
      BY <3>1, <3>2, <3>3, <3>4, Zenon DEF LifeInv
  <2> QED
    BY <1>2, <2>2, <2>3, Zenon DEF Bind
<1>3. CASE AcceptProbe
  <2>1. UNCHANGED <<lpc, buildVars>> /\ capc' = capc
    BY <1>3, Zenon DEF AcceptProbe, loaderVars, buildVars, caVars
  <2> QED
    BY <1>3, <2>1, FailedMoves, ToMoves, PassOn, Zenon DEF AcceptProbe
<1>4. CASE PrivDropStep
  <2>1. m.pc = "drop" /\ UNCHANGED <<lpc, buildVars>> /\ capc' = capc
    BY <1>4, Zenon DEF PrivDropStep, loaderVars, buildVars, caVars
  <2>2. CASE m' = [Failed("drain") EXCEPT !.drop = 1]
    <3>1. /\ MShape' /\ m'.pc = "drain" /\ m'.cp = m.cp /\ m'.snapshot = m.snapshot
          /\ m'.stale = m.stale /\ m'.srv = m.srv /\ m'.sock = m.sock /\ m'.drop = 1
      BY <2>2, Zenon DEF MShape, Failed
    <3>2. LoaderInv' /\ PinInv'
      BY <2>1, <3>1, LoaderFrame, PinFrame, Zenon DEF LifeInv
    <3>3. PhaseInv' /\ PartsInv'
      BY <2>1, <3>1, Zenon DEF LifeInv, PhaseInv, PartsInv, Unloaded, Holding
    <3>4. 1 \in 1 .. DropLength
      BY DEF DropLength
    <3>5. GateInv'
      BY <2>1, <3>1, <3>4, Zenon DEF LifeInv, GateInv
    <3> QED
      BY <3>1, <3>2, <3>3, <3>5, Zenon DEF LifeInv
  <2>3. CASE m' = IF m.drop < DropLength THEN [m EXCEPT !.drop = @ + 1]
                  ELSE [m EXCEPT !.pc = "serve", !.ready = TRUE, !.srv = "on"]
    <3>1. m.srv = "off" /\ m.drop \in 1 .. DropLength
      BY <2>1, Zenon DEF LifeInv, GateInv
    <3>2. CASE m.drop < DropLength
      <4>1. m' = [m EXCEPT !.drop = m.drop + 1]
        BY <2>3, <3>2, Zenon
      <4>2. /\ MShape' /\ m'.pc = "drop" /\ m'.cp = m.cp /\ m'.snapshot = m.snapshot
            /\ m'.stale = m.stale /\ m'.srv = "off" /\ m'.sock = m.sock /\ m'.drop = m.drop + 1
        BY <2>1, <3>1, <4>1, Zenon DEF MShape
      <4>3. LoaderInv' /\ PinInv'
        BY <2>1, <4>2, LoaderFrame, PinFrame, Zenon DEF LifeInv
      <4>4. PhaseInv' /\ PartsInv'
        BY <2>1, <4>2, Zenon DEF LifeInv, PhaseInv, PartsInv
      <4>5. m'.drop \in 1 .. DropLength
        BY <3>1, <3>2, <4>2 DEF DropLength
      <4>6. GateInv'
        BY <2>1, <4>2, <4>5, Zenon DEF LifeInv, GateInv, DropLength
      <4> QED
        BY <4>2, <4>3, <4>4, <4>6, Zenon DEF LifeInv
    <3>3. CASE ~(m.drop < DropLength)
      <4>3. m' = [m EXCEPT !.pc = "serve", !.ready = TRUE, !.srv = "on"]
        BY <2>3, <3>3, Zenon
      <4>4. /\ MShape' /\ m'.pc = "serve" /\ m'.cp = m.cp /\ m'.snapshot = m.snapshot
            /\ m'.stale = m.stale /\ m'.sock = m.sock /\ m'.drop = m.drop
        BY <2>1, <4>3, Zenon DEF MShape
      <4>5. LoaderInv' /\ PinInv'
        BY <2>1, <4>4, LoaderFrame, PinFrame, Zenon DEF LifeInv
      <4>6. PhaseInv' /\ PartsInv'
        BY <2>1, <4>4, Zenon DEF LifeInv, PhaseInv, PartsInv, Unloaded, Holding
      <4>7. GateInv'
        BY <2>1, <3>1, <4>4, Zenon DEF LifeInv, GateInv
      <4> QED
        BY <4>4, <4>5, <4>6, <4>7, Zenon DEF LifeInv
    <3> QED
      BY Zenon, <3>2, <3>3
  <2> QED
    BY <1>4, <2>2, <2>3, Zenon DEF PrivDropStep
<1> QED
  BY <1>1, <1>2, <1>3, <1>4, Zenon

\* Serving and the shutdown.
LEMMA ShutdownKeeps ==
    ASSUME LifeInv,
           \/ ServeReturns \/ ServeFails \/ Serve
           \/ DrainListener \/ DrainCapture \/ DrainControlPlane \/ Return
    PROVE  LifeInv'
<1> MShape
  BY Zenon DEF LifeInv
<1>1. CASE ServeReturns \/ ServeFails
  <2>1. UNCHANGED <<lpc, buildVars>> /\ capc' = capc /\ m.srv = "on"
    BY <1>1, AloneFrame, Zenon DEF ServeReturns, ServeFails
  <2>2. /\ MShape' /\ m'.pc = m.pc /\ m'.cp = m.cp /\ m'.snapshot = m.snapshot
        /\ m'.stale = m.stale /\ m'.sock = m.sock /\ m'.drop = m.drop
    <3>1. PICK e : m' = [m EXCEPT !.srv = e]
      BY <1>1, Zenon DEF ServeReturns, ServeFails
    <3> QED
      BY <3>1, Zenon DEF MShape
  <2>3. LoaderInv' /\ PinInv'
    BY <2>1, <2>2, LoaderFrame, PinFrame, Zenon DEF LifeInv
  <2>4. PhaseInv' /\ PartsInv'
    BY <2>1, <2>2, Zenon DEF LifeInv, PhaseInv, PartsInv
  <2>5. m.srv # "off"
    BY Zenon, <2>1
  <2>6. GateInv'
    BY <2>1, <2>2, <2>5, Zenon DEF LifeInv, GateInv
  <2> QED
    BY <2>2, <2>3, <2>4, <2>6, Zenon DEF LifeInv
<1>2. CASE Serve
  <2>1. m.pc = "serve" /\ UNCHANGED <<lpc, buildVars>> /\ capc' = capc
    BY <1>2, AloneFrame, Zenon DEF Serve
  <2>2. m' = [m EXCEPT !.pc = "drain", !.ready = FALSE] \/ m' = Failed("drain")
    BY <1>2, Zenon DEF Serve
  <2>3. MShape' /\ SameParts /\ m'.pc = "drain"
    <3>1. CASE m' = Failed("drain")
      BY <3>1, FailedMoves, Zenon
    <3>2. CASE m' = [m EXCEPT !.pc = "drain", !.ready = FALSE]
      BY <3>2, Zenon DEF MShape, SameParts
    <3> QED
      BY Zenon, <2>2, <3>1, <3>2
  <2> QED
    BY <2>1, <2>3, PassOn, Zenon
<1>3. CASE DrainListener
  <2>1. m.pc = "drain" /\ UNCHANGED <<lpc, buildVars>> /\ capc' = capc
    BY <1>3, AloneFrame, Zenon DEF DrainListener
  <2>2. /\ MShape' /\ m'.pc = "drain2" /\ m'.cp = m.cp /\ m'.snapshot = m.snapshot
        /\ m'.stale = m.stale /\ m'.sock # "bound" /\ m'.srv = m.srv /\ m'.drop = m.drop
    <3> DEFINE k == IF m.sock = "bound" THEN "closed" ELSE m.sock
    <3>1. k # "bound"
      BY Zenon
    <3>2. PICK e : m' = [m EXCEPT !.pc = "drain2", !.ready = FALSE, !.sock = k, !.err = e]
      BY <1>3, Zenon DEF DrainListener
    <3> HIDE DEF k
    <3> QED
      BY <3>1, <3>2, Zenon DEF MShape
  <2>3. LoaderInv' /\ PinInv'
    BY <2>1, <2>2, LoaderFrame, PinFrame, Zenon DEF LifeInv
  <2>4. PhaseInv' /\ PartsInv'
    BY <2>1, <2>2, Zenon DEF LifeInv, PhaseInv, PartsInv, Unloaded, Holding
  <2>5. GateInv'
    BY <2>1, <2>2, Zenon DEF LifeInv, GateInv
  <2> QED
    BY <2>2, <2>3, <2>4, <2>5, Zenon DEF LifeInv
<1>4. CASE DrainCapture
  <2>1. m.pc = "drain2" /\ HandleClose /\ m' = To("drain3") /\ creds' = creds
    BY <1>4, Zenon DEF DrainCapture
  <2>2. MShape' /\ SameParts /\ m'.pc = "drain3"
    BY <2>1, ToMoves, Zenon
  <2>3. lpc = "open"
    BY <2>1, Zenon DEF LifeInv, PhaseInv, Holding
  <2>4. LoaderInv' /\ PinInv' /\ lpc' = "closed"
    BY <2>1, <2>2, <2>3, CloseKeeps, Zenon DEF LifeInv, SameParts
  <2>5. PhaseInv' /\ PartsInv'
    BY <2>1, <2>2, <2>4, Zenon DEF LifeInv, SameParts, PhaseInv, PartsInv, Unloaded, Holding
  <2>6. GateInv'
    BY <2>1, <2>2, Zenon DEF LifeInv, SameParts, GateInv
  <2> QED
    BY <2>2, <2>4, <2>5, <2>6, Zenon DEF LifeInv
<1>5. CASE DrainControlPlane
  <2>1. m.pc = "drain3" /\ UNCHANGED <<lpc, buildVars>> /\ capc' = capc /\ lpc = "closed"
    BY <1>5, AloneFrame, Zenon DEF DrainControlPlane, LifeInv, PhaseInv
  <2>2. /\ MShape' /\ m'.pc = "return" /\ m'.cp = "down" /\ m'.snapshot = m.snapshot
        /\ m'.stale = m.stale /\ m'.sock = m.sock /\ m'.srv = m.srv /\ m'.drop = m.drop
    BY <1>5, Zenon DEF DrainControlPlane, MShape
  <2>3. LoaderInv' /\ PinInv'
    BY <2>1, <2>2, LoaderFrame, PinFrame, Zenon DEF LifeInv
  <2>4. PhaseInv' /\ PartsInv'
    BY <2>1, <2>2, Zenon DEF LifeInv, PhaseInv, PartsInv, Unloaded, Holding
  <2>5. GateInv'
    BY <2>1, <2>2, Zenon DEF LifeInv, GateInv
  <2> QED
    BY <2>2, <2>3, <2>4, <2>5, Zenon DEF LifeInv
<1>6. CASE Return
  <2>1. m.pc = "return" /\ HandleClose /\ creds' = creds
    BY <1>6, Zenon DEF Return
  <2>2. MShape' /\ SameParts /\ m'.pc = "exit"
    BY <1>6, Zenon DEF Return, MShape, SameParts
  <2>3. lpc \in {"off", "failed", "open", "closed"}
    BY <2>1, Zenon DEF LifeInv, PhaseInv
  <2>4. /\ LoaderInv' /\ PinInv'
        /\ lpc = "open" => lpc' = "closed"
        /\ lpc # "open" => lpc' = lpc
    BY <2>1, <2>2, CloseKeeps, Zenon DEF LifeInv, SameParts
  <2>5. PhaseInv' /\ PartsInv'
    BY <2>1, <2>2, <2>3, <2>4, Zenon DEF LifeInv, SameParts, PhaseInv, PartsInv, Unloaded, Holding
  <2>6. GateInv'
    BY <2>1, <2>2, Zenon DEF LifeInv, SameParts, GateInv
  <2> QED
    BY <2>2, <2>4, <2>5, <2>6, Zenon DEF LifeInv
<1> QED
  BY <1>1, <1>2, <1>3, <1>4, <1>5, <1>6, Zenon

\* The scheduler, the health loop, the kernel, SIGTERM and the agent.
LEMMA OthersKeep ==
    ASSUME LifeInv,
           Migrate \/ HealthStep \/ Detached \/ Terminate \/ AgentConnects \/ UNCHANGED vars
    PROVE  LifeInv'
<1> MShape
  BY Zenon DEF LifeInv
<1>1. UNCHANGED <<lpc, buildVars>> /\ capc' = capc
  <2>1. CASE HealthStep
    BY <2>1, Zenon DEF HealthStep, HealthStops, HealthTick, caVars
  <2>2. CASE Detached
    BY <2>2, Zenon DEF Detached, Detach, caVars
  <2>3. CASE Migrate \/ Terminate \/ AgentConnects \/ UNCHANGED vars
    BY <2>3, Zenon DEF Migrate, Alone, Terminate, AgentConnects, vars, loaderVars, caVars, buildVars
  <2> QED
    BY <2>1, <2>2, <2>3, Zenon
<1>2. \/ m' = m \/ m' = [m EXCEPT !.cancel = TRUE]
      \/ \E t \in Threads : m' = [m EXCEPT !.at = t, !.moves = @ + 1]
  BY Zenon DEF Migrate, HealthStep, Detached, Terminate, AgentConnects, vars
<1>3. MShape' /\ SameParts /\ m'.pc = m.pc
  <2>1. CASE m' = m
    BY <2>1, Zenon DEF MShape, SameParts
  <2>2. CASE m' = [m EXCEPT !.cancel = TRUE]
    BY <2>2, Zenon DEF MShape, SameParts
  <2>3. ASSUME NEW t \in Threads, m' = [m EXCEPT !.at = t, !.moves = @ + 1]
        PROVE  MShape' /\ SameParts /\ m'.pc = m.pc
    BY <2>3, Zenon DEF MShape, SameParts
  <2> QED
    BY Zenon, <1>2, <2>1, <2>2, <2>3
<1> QED
  BY <1>1, <1>3, StayPut, Zenon

\* In every reachable state the place of the main goroutine says what exists.
LEMMA LifeInvariant == Spec => []LifeInv
<1>1. ASSUME Init PROVE LifeInv
  <2>1. /\ MShape /\ m.pc = "down" /\ m.cp = "none" /\ m.sock = "none" /\ m.srv = "off"
        /\ m.drop = 1 /\ m.stale = 0
    BY <1>1, Zenon DEF Init, Fresh, MShape, LoaderInit
  <2>2. LoaderInv /\ PinInv
    BY <1>1, <2>1 DEF Init, LoaderInit, LoaderInv, PinInv
  <2>3. PhaseInv /\ PartsInv
    BY <1>1, <2>1, Zenon DEF Init, LoaderInit, PhaseInv, PartsInv, Holding
  <2>4. GateInv
    BY <2>1 DEF GateInv, DropLength
  <2> QED
    BY <2>1, <2>2, <2>3, <2>4, Zenon DEF LifeInv
<1>2. ASSUME LifeInv, [Next]_vars PROVE LifeInv'
  <2>1. CASE Boot
    BY <1>2, <2>1, BootKeeps, Zenon
  <2>2. CASE MainStep
    <3>1. CASE Exit \/ DropAborts
      BY <1>2, <3>1, GoneKeeps, Zenon DEF Exit, DropAborts
    <3> QED
      BY <1>2, <2>2, <3>1, EarlyKeeps, GatesKeep, StartKeeps, ShutdownKeeps, Zenon DEF MainStep
  <2>3. CASE ServeReturns \/ ServeFails
    BY <1>2, <2>3, ShutdownKeeps, Zenon
  <2>4. CASE Crash
    BY <1>2, <2>4, GoneKeeps, Zenon DEF Crash
  <2>5. CASE Migrate \/ HealthStep \/ Detached \/ Terminate \/ AgentConnects \/ Over \/ UNCHANGED vars
    BY <1>2, <2>5, OthersKeep, Zenon DEF Over
  <2> QED
    BY <1>2, <2>1, <2>2, <2>3, <2>4, <2>5, Zenon DEF Next
<1> QED
  BY <1>1, <1>2, PTL DEF Spec

\* ReverseTeardown: on every path through run(), Run and Shutdown the socket
\* never outlives the programs that feed it, nor they the control plane.
THEOREM ReverseTeardownHolds == Spec => []ReverseTeardown
<1>1. LifeInv => ReverseTeardown
  BY Zenon DEF LifeInv, PhaseInv, PartsInv, Holding, ReverseTeardown
<1> QED
  BY <1>1, LifeInvariant, PTL

\* CleanReturn: however run() returns, it has released the reservation, the
\* links, the collection, its pins, the socket and the control plane.
THEOREM CleanReturnHolds == Spec => []CleanReturn
<1>1. LifeInv => CleanReturn
  <2> SUFFICES ASSUME LifeInv, m.pc = "exit"
               PROVE  /\ ~reserved /\ ~coll /\ links = 0 /\ pins = m.stale
                      /\ m.sock # "bound" /\ m.cp # "up"
    BY Zenon DEF CleanReturn
  <2>1. m.sock # "bound" /\ m.cp # "up"
    BY Zenon DEF LifeInv, PartsInv
  <2>2. lpc \in {"off", "failed", "closed"}
    BY Zenon DEF LifeInv, PhaseInv
  <2>3. reserved = FALSE /\ coll = FALSE /\ links = 0 /\ myPins = 0
    BY <2>2, Zenon DEF LifeInv, LoaderInv
  <2>4. pins = m.stale
    BY <2>3 DEF LifeInv, PinInv
  <2> QED
    BY <2>1, <2>3, <2>4, Zenon
<1> QED
  BY <1>1, LifeInvariant, PTL

-----------------------------------------------------------------------------
(* The privilege drop: each call of DropPrivileges finds the credentials   *)
(* that the kernel's rule for it wants.                                    *)

\* The i-th call is permitted by the kernel and leaves what the next one needs:
\* the order of the steps of privdrop_linux.go.
LEMMA DropStageStep ==
    ASSUME NEW c, NEW i \in 1 .. 9, DropStage(c, i)
    PROVE  /\ DropSteps(c, DropConfig, i) # Refused
           /\ DropStage(DropSteps(c, DropConfig, i), i + 1)
<1> DEFINE cfg == DropConfig
           d == DropSteps(c, cfg, i)
<1>0. /\ c \in Credentials /\ Refused \notin Credentials
      /\ cfg \in [uid : Nat, gid : Nat, groups : SUBSET Nat, keep : SUBSET STRING, nnp : BOOLEAN]
  BY DropAssumption DEF DropStage, IdStage
<1> SUFFICES d \in Credentials /\ DropStage(d, i + 1)
  BY <1>0
<1>1. CASE i = 1
  <2>1. d = [c EXCEPT !.keepcaps = TRUE]
    BY <1>1 DEF DropSteps, SetKeepCaps
  <2> HIDE DEF d
  <2>2. d \in Credentials /\ d.keepcaps = TRUE
    BY <1>0, <2>1 DEF Credentials
  <2>3. d.effective = c.effective /\ d.permitted = c.permitted /\ d.bounding = c.bounding
    BY <1>0, <2>1 DEF Credentials
  <2> QED
    BY <1>1, <2>2, <2>3 DEF DropStage, IdStage
<1>2. CASE i = 2
  <2>1. d = [c EXCEPT !.groups = cfg.groups]
    BY <1>2 DEF DropSteps, SetGroups, DropStage, IdStage
  <2> HIDE DEF d
  <2>2. d \in Credentials /\ d.groups = cfg.groups
    BY <1>0, <2>1 DEF Credentials
  <2>3. /\ d.effective = c.effective /\ d.permitted = c.permitted /\ d.bounding = c.bounding
        /\ d.keepcaps = c.keepcaps
    BY <1>0, <2>1 DEF Credentials
  <2> QED
    BY <1>2, <2>2, <2>3 DEF DropStage, IdStage
<1>3. CASE i = 3
  <2>1. d = [c EXCEPT !.gid = cfg.gid]
    BY <1>3 DEF DropSteps, SetGID, DropStage, IdStage
  <2> HIDE DEF d
  <2>2. d \in Credentials /\ d.gid = cfg.gid
    BY <1>0, <2>1 DEF Credentials
  <2>3. /\ d.effective = c.effective /\ d.permitted = c.permitted /\ d.bounding = c.bounding
        /\ d.keepcaps = c.keepcaps /\ d.groups = c.groups
    BY <1>0, <2>1 DEF Credentials
  <2> QED
    BY <1>3, <2>2, <2>3 DEF DropStage, IdStage
<1>4. CASE i = 4
  <2>1. PICK e \in SUBSET STRING : d = [c EXCEPT !.uid = cfg.uid, !.effective = e]
    <3>1. c.keepcaps = TRUE /\ "SETUID" \in c.effective /\ c.effective \in SUBSET STRING
      BY <1>0, <1>4 DEF DropStage, IdStage, Credentials
    <3>2. d = [c EXCEPT !.uid = cfg.uid,
                        !.effective = IF c.uid = 0 /\ cfg.uid # 0 THEN {} ELSE @,
                        !.permitted = IF (c.uid = 0 /\ cfg.uid # 0) /\ ~c.keepcaps THEN {} ELSE @]
      BY <1>4, <3>1 DEF DropSteps, SetUID
    <3>3. [c EXCEPT !.uid = cfg.uid,
                    !.effective = IF c.uid = 0 /\ cfg.uid # 0 THEN {} ELSE @,
                    !.permitted = IF (c.uid = 0 /\ cfg.uid # 0) /\ ~c.keepcaps THEN {} ELSE @]
          = [c EXCEPT !.uid = cfg.uid, !.effective = IF c.uid = 0 /\ cfg.uid # 0 THEN {} ELSE c.effective]
      BY <1>0, <3>1 DEF Credentials
    <3> HIDE DEF d
    <3>4. (IF c.uid = 0 /\ cfg.uid # 0 THEN {} ELSE c.effective) \in SUBSET STRING
      BY <3>1
    <3> QED
      BY <3>2, <3>3, <3>4
  <2> HIDE DEF d
  <2>2. d \in Credentials /\ d.uid = cfg.uid
    BY <1>0, <2>1 DEF Credentials
  <2>3. /\ d.permitted = c.permitted /\ d.bounding = c.bounding
        /\ d.keepcaps = c.keepcaps /\ d.groups = c.groups /\ d.gid = c.gid
    BY <1>0, <2>1 DEF Credentials
  <2> QED
    BY <1>4, <2>2, <2>3 DEF DropStage, IdStage
<1>5. CASE i = 5
  <2>1. d = [c EXCEPT !.permitted = WithSetpcap(cfg.keep), !.effective = WithSetpcap(cfg.keep)]
    BY <1>5 DEF DropSteps, SetCaps, DropStage
  <2> HIDE DEF d
  <2>2. d \in Credentials /\ d.permitted = WithSetpcap(cfg.keep) /\ d.effective = WithSetpcap(cfg.keep)
    <3>1. WithSetpcap(cfg.keep) \subseteq c.permitted /\ c.permitted \in SUBSET STRING
      BY <1>0, <1>5 DEF DropStage, Credentials
    <3>2. WithSetpcap(cfg.keep) \in SUBSET STRING
      BY <3>1, Zenon
    <3> QED
      BY <1>0, <2>1, <3>2 DEF Credentials
  <2>3. /\ d.bounding = c.bounding /\ d.uid = c.uid
        /\ d.keepcaps = c.keepcaps /\ d.groups = c.groups /\ d.gid = c.gid
    BY <1>0, <2>1 DEF Credentials
  <2> QED
    BY <1>5, <2>2, <2>3 DEF DropStage, IdStage
<1>6. CASE i = 6
  <2>1. d = IF c.bounding \subseteq cfg.keep THEN c
            ELSE [c EXCEPT !.bounding = c.bounding \cap cfg.keep]
    BY <1>6 DEF DropSteps, DropBoundingCaps, DropStage, WithSetpcap
  <2>2. cfg.keep \subseteq c.bounding
    BY <1>6 DEF DropStage, IdStage
  <2> HIDE DEF d
  <2>3. d \in Credentials /\ d.bounding = cfg.keep
    BY <1>0, <2>1, <2>2 DEF Credentials
  <2>4. /\ d.permitted = c.permitted /\ d.effective = c.effective /\ d.uid = c.uid
        /\ d.keepcaps = c.keepcaps /\ d.groups = c.groups /\ d.gid = c.gid
    BY <1>0, <2>1 DEF Credentials
  <2> QED
    BY <1>6, <2>3, <2>4 DEF DropStage, IdStage
<1>7. CASE i = 7
  <2>1. d = [c EXCEPT !.permitted = cfg.keep, !.effective = cfg.keep]
    BY <1>7 DEF DropSteps, SetCaps, DropStage, WithSetpcap
  <2> HIDE DEF d
  <2>2. d \in Credentials /\ d.permitted = cfg.keep /\ d.effective = cfg.keep
    BY <1>0, <2>1 DEF Credentials
  <2>3. /\ d.bounding = c.bounding /\ d.uid = c.uid
        /\ d.keepcaps = c.keepcaps /\ d.groups = c.groups /\ d.gid = c.gid
    BY <1>0, <2>1 DEF Credentials
  <2> QED
    BY <1>7, <2>2, <2>3 DEF DropStage, IdStage
<1>8. CASE i = 8
  <2>1. d = [c EXCEPT !.keepcaps = FALSE]
    BY <1>8 DEF DropSteps, SetKeepCaps
  <2> HIDE DEF d
  <2>2. d \in Credentials /\ d.keepcaps = FALSE
    BY <1>0, <2>1 DEF Credentials
  <2>3. /\ d.bounding = c.bounding /\ d.uid = c.uid /\ d.permitted = c.permitted
        /\ d.effective = c.effective /\ d.groups = c.groups /\ d.gid = c.gid
    BY <1>0, <2>1 DEF Credentials
  <2> QED
    BY <1>8, <2>2, <2>3 DEF DropStage, IdStage
<1>9. CASE i = 9
  <2>1. d = IF cfg.nnp THEN [c EXCEPT !.nnp = TRUE] ELSE c
    BY <1>9 DEF DropSteps, SetNoNewPrivs
  <2> HIDE DEF d
  <2>2. d \in Credentials /\ (cfg.nnp => d.nnp = TRUE)
    BY <1>0, <2>1 DEF Credentials
  <2>3. /\ d.bounding = c.bounding /\ d.uid = c.uid /\ d.permitted = c.permitted
        /\ d.effective = c.effective /\ d.groups = c.groups /\ d.gid = c.gid /\ d.keepcaps = c.keepcaps
    BY <1>0, <2>1 DEF Credentials
  <2> QED
    BY <1>9, <2>2, <2>3 DEF DropStage, IdStage
<1> QED
  BY <1>1, <1>2, <1>3, <1>4, <1>5, <1>6, <1>7, <1>8, <1>9

\* The reads of verifyDrop find the target, and user 0 out of reach.
LEMMA DropVerified ==
    ASSUME NEW c, NEW i \in 10 .. 15, DropStage(c, i)
    PROVE  VerifyDrop(c, DropConfig)
<1>1. SetUID(c, 0) = Refused
  BY DropAssumption DEF DropStage, IdStage, SetUID
<1>2. /\ c.uid = DropConfig.uid /\ c.gid = DropConfig.gid /\ c.groups = DropConfig.groups
      /\ c.effective = DropConfig.keep /\ c.bounding = DropConfig.keep /\ c.keepcaps = FALSE
  BY DEF DropStage, IdStage
<1>3. DropConfig.nnp => c.nnp
  BY DEF DropStage
<1> SUFFICES ASSUME NEW k \in 10 .. 15 PROVE Verified(c, DropConfig, k)
  BY Zenon DEF VerifyDrop, DropLength
<1>4. CASE k = 10
  BY <1>2, <1>4 DEF Verified
<1>5. CASE k = 11
  BY <1>2, <1>5 DEF Verified
<1>6. CASE k = 12
  BY <1>2, <1>6 DEF Verified
<1>7. CASE k = 13
  BY <1>2, <1>7 DEF Verified
<1>8. CASE k = 14
  BY <1>3, <1>8 DEF Verified
<1>9. CASE k = 15
  BY <1>1, <1>9 DEF Verified
<1> QED
  BY <1>4, <1>5, <1>6, <1>7, <1>8, <1>9

\* A read changes nothing.
LEMMA ReadStep ==
    ASSUME NEW c, NEW i \in 10 .. 15
    PROVE  DropSteps(c, DropConfig, i) = IF Verified(c, DropConfig, i) THEN c ELSE Refused
BY DEF DropSteps, DropLength

\* A thread on which all the calls so far were made is refused none.
LEMMA StageNotRefused ==
    ASSUME NEW c, NEW i \in 1 .. 15, DropStage(c, i)
    PROVE  DropSteps(c, DropConfig, i) # Refused
<1>1. CASE i \in 1 .. 9
  BY <1>1, DropStageStep
<1>2. CASE i \in 10 .. 15
  <2>1. Verified(c, DropConfig, i)
    BY <1>2, DropVerified, Zenon DEF VerifyDrop, DropLength
  <2>2. DropSteps(c, DropConfig, i) = c
    BY <1>2, <2>1, ReadStep, Zenon
  <2> QED
    BY <2>2, DropAssumption, Zenon DEF DropStage, IdStage
<1> QED
  BY <1>1, <1>2

\* What setuid does to a thread that may call it.
LEMMA SetUIDForm ==
    ASSUME NEW c \in Credentials, NEW uid \in Nat, "SETUID" \in c.effective \/ uid = c.uid
    PROVE  \E e \in SUBSET STRING, p \in SUBSET STRING :
              SetUID(c, uid) = [c EXCEPT !.uid = uid, !.effective = e, !.permitted = p]
<1> DEFINE leaves == c.uid = 0 /\ uid # 0
           e == IF leaves THEN {} ELSE c.effective
           p == IF leaves /\ ~c.keepcaps THEN {} ELSE c.permitted
<1>1. SetUID(c, uid) = [c EXCEPT !.uid = uid, !.effective = e, !.permitted = p]
  BY Zenon DEF SetUID
<1>2. e \in SUBSET STRING /\ p \in SUBSET STRING
  BY DEF Credentials
<1> QED
  BY <1>1, <1>2, Zenon

\* The calls that AllThreadsSyscall makes are permitted on every thread.
LEMMA IdNotRefused ==
    ASSUME NEW c, NEW i \in OnAllThreads, IdStage(c, i)
    PROVE  DropSteps(c, DropConfig, i) # Refused
<1>0. c \in Credentials /\ Refused \notin Credentials
  BY DropAssumption DEF IdStage
<1>1. DropSteps(c, DropConfig, i) \in Credentials
  <2>1. CASE i = 2
    BY <1>0, <2>1, DropAssumption DEF DropSteps, SetGroups, IdStage, Credentials
  <2>2. CASE i = 3
    BY <1>0, <2>2, DropAssumption DEF DropSteps, SetGID, IdStage, Credentials
  <2>3. CASE i = 4
    <3>1. "SETUID" \in c.effective /\ DropConfig.uid \in Nat
      BY <2>3, DropAssumption DEF IdStage
    <3>2. DropSteps(c, DropConfig, i) = SetUID(c, DropConfig.uid)
      BY <2>3 DEF DropSteps
    <3>3. PICK e \in SUBSET STRING, p \in SUBSET STRING :
             SetUID(c, DropConfig.uid) = [c EXCEPT !.uid = DropConfig.uid, !.effective = e, !.permitted = p]
      BY <1>0, <3>1, SetUIDForm
    <3>4. [c EXCEPT !.uid = DropConfig.uid, !.effective = e, !.permitted = p] \in Credentials
      BY <1>0, <3>1 DEF Credentials
    <3> QED
      BY <3>2, <3>3, <3>4
  <2> QED
    BY <2>1, <2>2, <2>3 DEF OnAllThreads
<1> QED
  BY <1>0, <1>1

\* A thread that the i-th call leaves alone has what the next one finds.
LEMMA IdKept ==
    ASSUME NEW c, NEW i \in 1 .. 15, i \notin OnAllThreads, IdStage(c, i)
    PROVE  IdStage(c, i + 1)
BY DEF IdStage, OnAllThreads

\* A thread on which the i-th call succeeds has its identities as far as it sets
\* them, whatever was done on it before.
LEMMA IdStep ==
    ASSUME NEW c, NEW i \in 1 .. 15, IdStage(c, i), DropSteps(c, DropConfig, i) # Refused
    PROVE  IdStage(DropSteps(c, DropConfig, i), i + 1)
<1> DEFINE cfg == DropConfig
           d == DropSteps(c, cfg, i)
<1>0. /\ c \in Credentials /\ d # Refused
      /\ cfg \in [uid : Nat, gid : Nat, groups : SUBSET Nat, keep : SUBSET STRING, nnp : BOOLEAN]
  BY DropAssumption DEF IdStage
<1> SUFFICES IdStage(d, i + 1)
  OBVIOUS
<1>1. CASE i = 1
  <2>1. d = [c EXCEPT !.keepcaps = TRUE]
    BY <1>1 DEF DropSteps, SetKeepCaps
  <2> HIDE DEF d
  <2>2. d \in Credentials /\ d.uid = c.uid /\ d.gid = c.gid /\ d.groups = c.groups /\ d.effective = c.effective
    BY <1>0, <2>1 DEF Credentials
  <2> QED
    BY <1>1, <2>2 DEF IdStage
<1>2. CASE i = 2
  <2>1. d = [c EXCEPT !.groups = cfg.groups]
    BY <1>0, <1>2 DEF DropSteps, SetGroups
  <2> HIDE DEF d
  <2>2. d \in Credentials /\ d.uid = c.uid /\ d.gid = c.gid /\ d.groups = cfg.groups /\ d.effective = c.effective
    BY <1>0, <2>1 DEF Credentials
  <2> QED
    BY <1>2, <2>2 DEF IdStage
<1>3. CASE i = 3
  <2>1. d = [c EXCEPT !.gid = cfg.gid]
    BY <1>0, <1>3 DEF DropSteps, SetGID
  <2> HIDE DEF d
  <2>2. d \in Credentials /\ d.uid = c.uid /\ d.gid = cfg.gid /\ d.groups = c.groups /\ d.effective = c.effective
    BY <1>0, <2>1 DEF Credentials
  <2> QED
    BY <1>3, <2>2 DEF IdStage
<1>4. CASE i = 4
  <2>1. d = SetUID(c, cfg.uid)
    BY <1>4 DEF DropSteps
  <2>2. "SETUID" \in c.effective /\ cfg.uid \in Nat
    BY <1>0, <1>4 DEF IdStage
  <2> HIDE DEF d
  <2>3. PICK e \in SUBSET STRING, p \in SUBSET STRING :
           SetUID(c, DropConfig.uid) = [c EXCEPT !.uid = DropConfig.uid, !.effective = e, !.permitted = p]
    BY <1>0, <2>2, SetUIDForm
  <2>4. d \in Credentials /\ d.uid = cfg.uid /\ d.gid = c.gid /\ d.groups = c.groups
    BY <1>0, <2>1, <2>2, <2>3 DEF Credentials
  <2> QED
    BY <1>4, <2>4 DEF IdStage
<1>5. CASE i \in {5, 7}
  <2>1. PICK k \in SUBSET STRING : d = [c EXCEPT !.permitted = k, !.effective = k]
    <3>1. CASE i = 5
      <4>1. d = SetCaps(c, WithSetpcap(cfg.keep))
        BY <3>1 DEF DropSteps
      <4> HIDE DEF d
      <4>2. c.permitted \in SUBSET STRING
        BY <1>0 DEF Credentials
      <4>3. WithSetpcap(cfg.keep) \subseteq c.permitted
        BY <1>0, <4>1, Zenon DEF SetCaps
      <4>4. WithSetpcap(cfg.keep) \in SUBSET STRING
        BY <4>2, <4>3, Zenon
      <4> QED
        BY <1>0, <4>1, <4>4, Zenon DEF SetCaps
    <3>2. CASE i = 7
      <4>1. d = SetCaps(c, cfg.keep) /\ cfg.keep \in SUBSET STRING
        BY <1>0, <3>2 DEF DropSteps
      <4> HIDE DEF d
      <4> QED
        BY <1>0, <4>1, Zenon DEF SetCaps
    <3> QED
      BY <1>5, <3>1, <3>2
  <2> HIDE DEF d
  <2>2. d \in Credentials /\ d.uid = c.uid /\ d.gid = c.gid /\ d.groups = c.groups
    BY <1>0, <2>1 DEF Credentials
  <2> QED
    BY <1>5, <2>2 DEF IdStage
<1>6. CASE i = 6
  <2>1. PICK k \in SUBSET STRING : d = [c EXCEPT !.bounding = k]
    <3>1. d = c \/ d = [c EXCEPT !.bounding = c.bounding \cap cfg.keep]
      BY <1>0, <1>6 DEF DropSteps, DropBoundingCaps
    <3>2. c = [c EXCEPT !.bounding = c.bounding] /\ c.bounding \in SUBSET STRING
          /\ c.bounding \cap cfg.keep \in SUBSET STRING
      BY <1>0 DEF Credentials
    <3> QED
      BY <3>1, <3>2, Zenon
  <2> HIDE DEF d
  <2>2. d \in Credentials /\ d.uid = c.uid /\ d.gid = c.gid /\ d.groups = c.groups
    BY <1>0, <2>1 DEF Credentials
  <2> QED
    BY <1>6, <2>2 DEF IdStage
<1>7. CASE i = 8
  <2>1. d = [c EXCEPT !.keepcaps = FALSE]
    BY <1>7 DEF DropSteps, SetKeepCaps
  <2> HIDE DEF d
  <2>2. d \in Credentials /\ d.uid = c.uid /\ d.gid = c.gid /\ d.groups = c.groups
    BY <1>0, <2>1 DEF Credentials
  <2> QED
    BY <1>7, <2>2 DEF IdStage
<1>8. CASE i = 9
  <2>1. d = IF cfg.nnp THEN [c EXCEPT !.nnp = TRUE] ELSE c
    BY <1>8 DEF DropSteps, SetNoNewPrivs
  <2> HIDE DEF d
  <2>2. d \in Credentials /\ d.uid = c.uid /\ d.gid = c.gid /\ d.groups = c.groups
    BY <1>0, <2>1 DEF Credentials
  <2> QED
    BY <1>8, <2>2 DEF IdStage
<1>9. CASE i \in 10 .. 15
  <2>1. d = c
    BY <1>0, <1>9, ReadStep
  <2> HIDE DEF d
  <2> QED
    BY <1>9, <2>1, IdKept DEF OnAllThreads
<1> QED
  BY <1>1, <1>2, <1>3, <1>4, <1>5, <1>6, <1>7, <1>8, <1>9

\* The places of the main goroutine before the drop.
Before == {"cgroup", "env", "load", "register", "latch", "gate", "ca", "policy", "compose",
           "control", "bind", "probe"}

\* A step that leaves the credentials and the threads, comes to the drop from
\* before it only and does not start Serve.
Undropped ==
    /\ creds' = creds /\ m'.drop = m.drop /\ m'.at = m.at /\ m'.moves = m.moves
    /\ m'.pc \in Before => m.pc \in Before
    /\ m'.pc = "drop" => m.pc \in Before \cup {"drop"}
    /\ m'.srv # "off" => m.srv # "off"

\* Only a start and a call of DropPrivileges touch the credentials.
LEMMA UndroppedSteps ==
    ASSUME LifeInv,
           \/ \E gone \in SUBSET Inner(m.host) : ResolveCgroup(gone)
           \/ \E env \in Envs : EnvPreflight(env)
           \/ Load \/ Register \/ GatePreflight \/ ConstructCA \/ PolicyStartup
           \/ Compose \/ StartControlPlane \/ Bind \/ AcceptProbe
           \/ ServeReturns \/ ServeFails \/ Serve \/ DrainListener \/ DrainCapture
           \/ DrainControlPlane \/ Return
           \/ HealthStep \/ Detached \/ Terminate \/ AgentConnects \/ UNCHANGED vars
    PROVE  Undropped
<1> MShape
  BY Zenon DEF LifeInv
<1> DEFINE Same == /\ m'.drop = m.drop /\ m'.at = m.at /\ m'.moves = m.moves
                   /\ m'.srv # "off" => m.srv # "off"
           On(p) == m'.pc = p /\ Same
<1>0. /\ \A p : m' = To(p) => On(p)
      /\ \A p : m' = Failed(p) => On(p)
  BY Zenon DEF MShape, To, Failed
<1>1. ASSUME NEW gone \in SUBSET Inner(m.host), ResolveCgroup(gone) PROVE Undropped
  <2>1. m.pc = "cgroup" /\ creds' = creds
    BY <1>1, Zenon DEF ResolveCgroup, Alone
  <2>2. PICK t : m' = Failed("return") \/ m' = [m EXCEPT !.pc = "env", !.target = t]
    BY <1>1, Zenon DEF ResolveCgroup
  <2>3. On("return") \/ On("env")
    BY <1>0, <2>2, Zenon DEF MShape
  <2> QED
    BY <2>1, <2>3, Zenon DEF Undropped, Before
<1>2. ASSUME NEW env \in Envs, EnvPreflight(env) PROVE Undropped
  <2>1. m.pc = "env" /\ creds' = creds
    BY <1>2, Zenon DEF EnvPreflight
  <2>2. m' = [Failed("return") EXCEPT !.host = NoHost] \/ m' = [m EXCEPT !.pc = "load", !.host = NoHost]
    BY <1>2, Zenon DEF EnvPreflight
  <2>3. On("return") \/ On("load")
    BY <2>2, Zenon DEF MShape, Failed
  <2> QED
    BY <2>1, <2>3, Zenon DEF Undropped, Before
<1>3. CASE Load
  <2>1. m.pc = "load" /\ creds' = creds /\ (m' = m \/ m' = Failed("return") \/ m' = To("register"))
    BY <1>3, Zenon DEF Load
  <2> QED
    BY <1>0, <2>1, Zenon DEF Undropped, Before
<1>4. CASE Register
  <2>1. /\ creds' = creds
        /\ \/ m.pc = "register" /\ m' = To("latch")
           \/ m.pc = "latch" /\ m' = [m EXCEPT !.pc = "gate", !.cancel = @ \/ DeliverLate]
    BY <1>4, Zenon DEF Register
  <2>2. m.pc \in Before /\ (On("latch") \/ On("gate"))
    BY <1>0, <2>1, Zenon DEF MShape, Before
  <2> QED
    BY <2>1, <2>2, Zenon DEF Undropped, Before
<1>5. CASE GatePreflight \/ ConstructCA \/ Compose
  <2>1. /\ creds' = creds /\ m.pc \in {"gate", "ca", "compose"}
        /\ m' = m \/ m' = Failed("return") \/ m' = To("ca") \/ m' = To("policy") \/ m' = To("control")
    BY <1>5, Zenon DEF GatePreflight, ConstructCA, Compose, Alone
  <2> QED
    BY <1>0, <2>1, Zenon DEF Undropped, Before
<1>6. CASE PolicyStartup \/ StartControlPlane \/ Bind
  <2>1. /\ creds' = creds /\ m.pc \in {"policy", "control", "bind"}
        /\ \/ m' = Failed("return") \/ m' = Failed("drain")
           \/ m' = [m EXCEPT !.pc = "compose", !.snapshot = TRUE]
           \/ m' = [m EXCEPT !.pc = "bind", !.cp = "up"]
           \/ m' = [m EXCEPT !.pc = "probe", !.sock = "bound"]
    BY <1>6, Zenon DEF PolicyStartup, StartControlPlane, Bind, Alone
  <2>2. On("return") \/ On("drain") \/ On("compose") \/ On("bind") \/ On("probe")
    BY <1>0, <2>1, Zenon DEF MShape
  <2> QED
    BY <2>1, <2>2, Zenon DEF Undropped, Before
<1>7. CASE AcceptProbe
  <2>1. creds' = creds /\ m.pc = "probe" /\ (m' = Failed("drain") \/ m' = To("drop"))
    BY <1>7, Zenon DEF AcceptProbe
  <2> QED
    BY <1>0, <2>1, Zenon DEF Undropped, Before
<1>8. CASE ServeReturns \/ ServeFails \/ HealthStep \/ Detached \/ Terminate \/ AgentConnects \/ UNCHANGED vars
  <2>1. creds' = creds
    BY <1>8, Zenon DEF ServeReturns, ServeFails, HealthStep, Detached, Terminate, AgentConnects, vars, Alone
  <2>2. \/ m' = m \/ m' = [m EXCEPT !.cancel = TRUE]
        \/ m.srv = "on" /\ (m' = [m EXCEPT !.srv = "ended"] \/ m' = [m EXCEPT !.srv = "failed"])
    BY <1>8, Zenon DEF ServeReturns, ServeFails, HealthStep, Detached, Terminate, AgentConnects, vars
  <2>3. On(m.pc)
    BY <2>2, Zenon DEF MShape
  <2> QED
    BY <2>1, <2>3, Zenon DEF Undropped
<1>9. CASE Serve \/ DrainListener \/ DrainCapture \/ DrainControlPlane \/ Return
  <2>1. creds' = creds
    BY <1>9, Zenon DEF Serve, DrainListener, DrainCapture, DrainControlPlane, Return, Alone
  <2>2. \/ m' = [m EXCEPT !.pc = "drain", !.ready = FALSE] \/ m' = Failed("drain") \/ m' = To("drain3")
        \/ \E late \in {FALSE, Faults} :
              m' = [m EXCEPT !.pc = "drain2", !.ready = FALSE,
                             !.sock = IF @ = "bound" THEN "closed" ELSE @, !.err = @ \/ late]
        \/ m' = [m EXCEPT !.pc = "return", !.cp = "down"]
        \/ m' = [m EXCEPT !.pc = "exit", !.cancel = TRUE]
    BY <1>9, Zenon DEF Serve, DrainListener, DrainCapture, DrainControlPlane, Return
  <2>3. On("drain") \/ On("drain2") \/ On("drain3") \/ On("return") \/ On("exit")
    BY <1>0, <2>2, Zenon DEF MShape
  <2> QED
    BY <2>1, <2>3, Zenon DEF Undropped, Before
<1> QED
  BY <1>1, <1>2, <1>3, <1>4, <1>5, <1>6, <1>7, <1>8, <1>9, Zenon

\* The first call finds credentials that a container may start with.
LEMMA StartStage ==
    ASSUME NEW c \in StartCreds
    PROVE  DropStage(c, 1)
  BY DropAssumption DEF DropStage, IdStage

LEMMA MainThreadExists == MainThread \in Threads
  BY DropAssumption, Zenon DEF MainThread

\* A new process: nothing is dropped, and it is on its first thread.
LEMMA FreshDrop ==
    ASSUME NEW p, NEW h, m' = Fresh(p, h)
    PROVE  /\ m'.pc = p /\ m'.drop = 1 /\ m'.srv = "off"
           /\ m'.at \in Threads /\ m'.moves = 0 /\ m'.moves \in Nat
  BY MainThreadExists DEF Fresh

\* One successful call: every thread's identities are as far as the calls set
\* them, and a goroutine that stayed put finds its thread at the next stage.
LEMMA CallKeeps ==
    ASSUME NEW i \in 1 .. 15, NEW t \in Threads,
           \A u \in Threads : IdStage(creds[u], i),
           ~Refuses(creds, DropConfig, i, t), ~Aborts(creds, DropConfig, i, t),
           creds' = After(creds, DropConfig, i, t)
    PROVE  /\ \A u \in Threads : IdStage(creds'[u], i + 1)
           /\ creds'[t] = DropSteps(creds[t], DropConfig, i)
<1>1. \A u \in Threads :
         creds'[u] = IF u = t \/ i \in OnAllThreads THEN DropSteps(creds[u], DropConfig, i) ELSE creds[u]
  BY Zenon DEF After
<1>2. ASSUME NEW u \in Threads PROVE IdStage(creds'[u], i + 1)
  <2>1. CASE u = t \/ i \in OnAllThreads
    <3>1. DropSteps(creds[u], DropConfig, i) # Refused
      BY <2>1, Zenon DEF Refuses, Aborts
    <3>2. creds'[u] = DropSteps(creds[u], DropConfig, i)
      BY <1>1, <2>1, Zenon
    <3> QED
      BY <3>1, <3>2, IdStep, Zenon
  <2>2. CASE ~(u = t \/ i \in OnAllThreads)
    <3>1. creds'[u] = creds[u] /\ i \notin OnAllThreads
      BY <1>1, <2>2, Zenon
    <3> QED
      BY <3>1, IdKept, Zenon
  <2> QED
    BY <2>1, <2>2, Zenon
<1> QED
  BY <1>1, <1>2, Zenon

\* A call of DropPrivileges, refused or not.
LEMMA DropStepKeeps ==
    ASSUME LifeInv, DropInv, PrivDropStep
    PROVE  DropInv'
<1> MShape
  BY Zenon DEF LifeInv
<1>1. /\ m.pc = "drop" /\ m.srv = "off" /\ m.at \in Threads /\ m.moves \in Nat
      /\ m.drop \in 1 .. 15
      /\ \A t \in Threads : IdStage(creds[t], m.drop)
      /\ m.moves = 0 => DropStage(creds[m.at], m.drop)
      /\ ~Aborts(creds, DropConfig, m.drop, m.at)
  BY Zenon DEF PrivDropStep, DropInv, DropLength, LifeInv, GateInv
<1>2. CASE m' = [Failed("drain") EXCEPT !.drop = 1]
  <2>1. m'.pc = "drain" /\ m'.srv = "off" /\ m'.at = m.at /\ m'.moves = m.moves
    BY <1>1, <1>2, Zenon DEF MShape, Failed
  <2> QED
    BY <1>1, <2>1, Zenon DEF DropInv
<1>3. CASE /\ ~Refuses(creds, DropConfig, m.drop, m.at)
           /\ creds' = After(creds, DropConfig, m.drop, m.at)
           /\ m' = IF m.drop < DropLength THEN [m EXCEPT !.drop = @ + 1]
                   ELSE [m EXCEPT !.pc = "serve", !.ready = TRUE, !.srv = "on"]
  <2>1. /\ \A u \in Threads : IdStage(creds'[u], m.drop + 1)
        /\ creds'[m.at] = DropSteps(creds[m.at], DropConfig, m.drop)
    BY <1>1, <1>3, CallKeeps, Zenon
  <2>2. CASE m.drop < DropLength
    <3>1. /\ m'.pc = "drop" /\ m'.drop = m.drop + 1 /\ m'.srv = "off"
          /\ m'.at = m.at /\ m'.moves = m.moves
      BY <1>1, <1>3, <2>2, Zenon DEF MShape
    <3>2. m'.drop \in 1 .. DropLength
      BY <1>1, <2>2, <3>1 DEF DropLength
    <3>3. m.moves = 0 => DropStage(creds'[m.at], m.drop + 1)
      <4>1. CASE m.drop \in 1 .. 9
        BY <1>1, <2>1, <4>1, DropStageStep, Zenon
      <4>2. CASE m.drop \in 10 .. 15
        <5>1. creds'[m.at] = creds[m.at]
          BY <1>3, <2>1, <4>2, ReadStep, Zenon DEF Refuses
        <5>2. m.moves = 0 => DropStage(creds[m.at], m.drop + 1)
          BY <1>1, <4>2 DEF DropStage, IdStage
        <5> QED
          BY <5>1, <5>2, Zenon
      <4> QED
        BY <1>1, <4>1, <4>2
    <3> QED
      BY <1>1, <2>1, <3>1, <3>2, <3>3, Zenon DEF DropInv
  <2>3. CASE ~(m.drop < DropLength)
    <3>1. m.drop = 15
      BY <1>1, <2>3 DEF DropLength
    <3>2. m'.pc = "serve" /\ m'.at = m.at /\ m'.moves = m.moves
      BY <1>1, <1>3, <2>3, Zenon DEF MShape
    <3>3. 15 \in 10 .. 15
      OBVIOUS
    <3>4. creds'[m.at] = creds[m.at]
      BY <1>3, <2>1, <3>1, <3>3, ReadStep, Zenon DEF Refuses
    <3>5. m.moves = 0 => VerifyDrop(creds[m.at], DropConfig)
      BY <1>1, <3>1, <3>3, DropVerified, Zenon
    <3>6. IdentitiesDropped'
      <4> SUFFICES ASSUME NEW u \in Threads PROVE Verified(creds'[u], DropConfig, 10)
        BY Zenon DEF IdentitiesDropped
      <4>1. IdStage(creds'[u], 16)
        BY <2>1, <3>1
      <4> QED
        BY <4>1 DEF IdStage, Verified
    <3> QED
      BY <1>1, <3>2, <3>4, <3>5, <3>6, Zenon DEF DropInv
  <2> QED
    BY <2>2, <2>3, Zenon
<1> QED
  BY <1>2, <1>3, Zenon DEF PrivDropStep

\* The scheduler moves the goroutine: it has moved once more.
LEMMA MigrateKeeps ==
    ASSUME LifeInv, DropInv, Migrate
    PROVE  DropInv'
<1> MShape
  BY Zenon DEF LifeInv
<1>1. PICK t \in Threads : m' = [m EXCEPT !.at = t, !.moves = m.moves + 1]
  BY Zenon DEF Migrate
<1>2. /\ m'.pc = "drop" /\ m'.at \in Threads /\ m'.moves = m.moves + 1
      /\ m'.drop = m.drop /\ m'.srv = "off"
  BY <1>1, Zenon DEF Migrate, MShape, LifeInv, GateInv
<1>3. m'.moves \in Nat /\ m'.moves # 0
  BY <1>2 DEF DropInv
<1>4. creds' = creds
  BY Zenon DEF Migrate, Alone
<1> QED
  BY <1>2, <1>3, <1>4, Zenon DEF DropInv, Migrate

\* Up to the drop the credentials are those of the start; during it they are what
\* the calls so far have made of them.
LEMMA DropInvariant == Spec => []DropInv
<1>1. ASSUME Init PROVE DropInv
  <2>1. m.pc = "down" /\ m.srv = "off" /\ m.at \in Threads /\ m.moves = 0
    BY <1>1, MainThreadExists, Zenon DEF Init, Fresh
  <2>2. m.moves \in Nat
    BY <2>1
  <2> QED
    BY <2>1, <2>2, Zenon DEF DropInv
<1>2. ASSUME LifeInv, DropInv, [Next]_vars PROVE DropInv'
  <2>1. CASE Boot
    <3>1. PICK h \in Hosts : m' = Fresh("cgroup", h)
      BY <2>1, Zenon DEF Boot
    <3>2. \E c \in StartCreds : creds' = [t \in Threads |-> c]
      BY <2>1, Zenon DEF Boot
    <3>3. /\ m'.pc = "cgroup" /\ m'.drop = 1 /\ m'.srv = "off"
          /\ m'.at \in Threads /\ m'.moves \in Nat
      BY <3>1, FreshDrop
    <3> QED
      BY <3>2, <3>3, Zenon DEF DropInv
  <2>2. CASE Exit \/ DropAborts \/ Crash
    <3>1. m' = Fresh("down", NoHost)
      BY <2>2, Zenon DEF Exit, DropAborts, Crash, ProcessGone
    <3>2. m'.pc = "down" /\ m'.srv = "off" /\ m'.at \in Threads /\ m'.moves \in Nat
      BY <3>1, FreshDrop
    <3> QED
      BY <3>2, Zenon DEF DropInv
  <2>3. CASE PrivDropStep
    BY <1>2, <2>3, DropStepKeeps, Zenon
  <2>4. CASE Migrate
    BY <1>2, <2>4, MigrateKeeps, Zenon
  <2>5. CASE Undropped
    <3>1. m'.at \in Threads /\ m'.moves \in Nat
      BY <1>2, <2>5, Zenon DEF Undropped, DropInv
    <3>2. m'.pc \in Before => m'.drop = 1 /\ \E c \in StartCreds : creds' = [t \in Threads |-> c]
      BY <1>2, <2>5, Zenon DEF Undropped, DropInv, Before
    <3>3. m'.pc = "drop" => /\ m'.drop \in 1 .. DropLength
                            /\ \A t \in Threads : IdStage(creds'[t], m'.drop)
                            /\ m'.moves = 0 => DropStage(creds'[m'.at], m'.drop)
      <4>1. CASE m.pc \in Before
        <5>1. m'.drop = 1 /\ m'.at \in Threads
          BY <1>2, <2>5, <4>1, Zenon DEF Undropped, DropInv, Before
        <5>2. PICK c \in StartCreds : creds' = [t \in Threads |-> c]
          BY <1>2, <2>5, <4>1, Zenon DEF Undropped, DropInv, Before
        <5>3. DropStage(c, 1) /\ IdStage(c, 1)
          BY StartStage, Zenon DEF DropStage
        <5>4. \A t \in Threads : creds'[t] = c
          BY <5>2, Zenon
        <5>5. 1 \in 1 .. DropLength
          BY DEF DropLength
        <5> QED
          BY <5>1, <5>3, <5>4, <5>5, Zenon
      <4>2. CASE m.pc = "drop"
        BY <1>2, <2>5, <4>2, Zenon DEF Undropped, DropInv
      <4> QED
        BY <2>5, <4>1, <4>2, Zenon DEF Undropped
    <3>4. m'.srv # "off" => /\ IdentitiesDropped'
                            /\ m'.moves = 0 => VerifyDrop(creds'[m'.at], DropConfig)
      BY <1>2, <2>5, Zenon DEF Undropped, DropInv, IdentitiesDropped
    <3> QED
      BY <3>1, <3>2, <3>3, <3>4, Zenon DEF DropInv, Before
  <2> QED
    BY <1>2, <2>1, <2>2, <2>3, <2>4, <2>5, UndroppedSteps, Zenon DEF Next, MainStep, Over
<1> QED
  BY <1>1, <1>2, LifeInvariant, PTL DEF Spec

\* From the credentials a container starts with, and as long as the goroutine stays
\* on its thread, the kernel refuses no call of DropPrivileges in the order of
\* privdrop_linux.go on that thread, nor the all-threads calls on another, and the
\* verification at its end succeeds, for every target that does not keep SETUID.
THEOREM DropWorksHolds == Spec => []DropWorks
<1>1. DropInv => DropWorks
  <2> SUFFICES ASSUME DropInv, m.pc = "drop", m.moves = 0
               PROVE  /\ ~Refuses(creds, DropConfig, m.drop, m.at)
                      /\ ~Aborts(creds, DropConfig, m.drop, m.at)
    BY Zenon DEF DropWorks
  <2>1. /\ m.drop \in 1 .. 15 /\ DropStage(creds[m.at], m.drop)
        /\ \A t \in Threads : IdStage(creds[t], m.drop)
    BY Zenon DEF DropInv, DropLength
  <2>2. ~Refuses(creds, DropConfig, m.drop, m.at)
    BY <2>1, StageNotRefused, Zenon DEF Refuses
  <2>3. m.drop \in OnAllThreads => \A u \in Threads : ~Refuses(creds, DropConfig, m.drop, u)
    BY <2>1, IdNotRefused, Zenon DEF Refuses
  <2> QED
    BY <2>2, <2>3, Zenon DEF Aborts
<1> QED
  BY <1>1, DropInvariant, PTL

\* ServingGuarded: while Serve runs on a bound socket, every program is
\* attached behind frozen maps, the CA that signs is the published one, a
\* snapshot is there, the control plane is up, every thread has the identities of
\* the target, and verifyDrop holds of the thread that made the whole drop.
THEOREM ServingGuardedHolds == Spec => []ServingGuarded
<1>1. LifeInv /\ CAInv /\ DropInv => ServingGuarded
  <2> SUFFICES ASSUME LifeInv, CAInv, DropInv, m.srv = "on", m.sock = "bound"
               PROVE  /\ lpc = "open" /\ links = NumLinks /\ config = "frozen" /\ bypass = "frozen"
                      /\ held # NoCA /\ held = disk.pub
                      /\ m.snapshot /\ m.cp = "up"
                      /\ IdentitiesDropped
                      /\ m.moves = 0 => VerifyDrop(creds[m.at], DropConfig)
    BY Zenon DEF ServingGuarded
  <2>1. m.srv # "off"
    BY Zenon
  <2>2. m.pc \in {"serve", "drain"}
    BY <2>1, Zenon DEF LifeInv, PartsInv, GateInv
  <2>3. lpc = "open" /\ m.cp = "up"
    BY <2>2, Zenon DEF LifeInv, PhaseInv, PartsInv, Holding
  <2>4. links = NumLinks /\ config = "frozen" /\ bypass = "frozen"
    BY <2>3, Zenon DEF LifeInv, LoaderInv
  <2>5. capc = "ready" /\ m.snapshot = TRUE
    BY <2>2, Zenon DEF LifeInv, GateInv
  <2>6. held # NoCA /\ held = disk.pub
    BY <2>5, Zenon DEF CAInv
  <2>7. IdentitiesDropped /\ (m.moves = 0 => VerifyDrop(creds[m.at], DropConfig))
    BY <2>1, Zenon DEF DropInv
  <2> QED
    BY <2>3, <2>4, <2>5, <2>6, <2>7, Zenon
<1> QED
  BY <1>1, LifeInvariant, CAInvariant, DropInvariant, PTL
-----------------------------------------------------------------------------
(* The pod cgroup: whichever way it is resolved, it is the proxy's own.    *)

\* A directory that V1 to V6 accept right above the shallowest container is the
\* parent of the proxy's cgroup.
LEMMA AcceptedIsParent ==
    ASSUME MinPodCgroupDepth \in Nat, NEW own \in Seq(STRING), NEW p \in Seq(STRING),
           Len(own) <= MinPodCgroupDepth + 1, Len(p) >= MinPodCgroupDepth,
           IsBelow(p, own)
    PROVE  p = Dir(own)
<1>1. Len(p) \in Nat /\ Len(own) \in Nat /\ Len(p) < Len(own) /\ SubSeq(own, 1, Len(p)) = p
  BY DEF IsBelow
<1>2. Len(p) = Len(own) - 1
  BY <1>1
<1> QED
  BY <1>1, <1>2 DEF Dir

\* What ResolvePodCgroup returns without an error is the path it was given, and
\* the proxy runs below it.
LEMMA ResolvePasses ==
    ASSUME NEW h, NEW p, NEW r \in ResolvePodCgroup(h, p), r.err = "none"
    PROVE  /\ r.path = p /\ p \in h.dirs /\ Len(p) >= MinPodCgroupDepth
           /\ h.own \in h.dirs /\ IsBelow(p, h.own)
<1>1. ValidateScope(h, p)
  BY DEF ResolvePodCgroup, Error
<1>2. PICK v6 \in ValidateProxyPresence(h, p) : r = IF v6 # "none" THEN Error(v6) ELSE Found(p)
  BY <1>1, Zenon DEF ResolvePodCgroup
<1>3. v6 = "none" /\ r = Found(p)
  BY <1>2 DEF Error
<1>4. h.own \in Below(h, p)
  BY <1>2, <1>3 DEF ValidateProxyPresence
<1> QED
  BY <1>1, <1>3, <1>4 DEF ValidateScope, Below, Found

\* The search by inode finds a directory with the inode of the proxy's.
LEMMA FoundByInode ==
    ASSUME NEW h, NEW gone, DiscoverByInode(h, gone).err = "none"
    PROVE  \E d \in h.dirs : h.ino[d] = h.ino[h.own] /\ DiscoverByInode(h, gone).path = d
<1> DEFINE target == h.ino[h.own]
           walk == WalkForInode(h, gone, target)
<1>1. /\ walk.err = "none" /\ walk.matches # {}
      /\ DiscoverByInode(h, gone) = Found(CHOOSE d \in walk.matches : TRUE)
  BY DEF DiscoverByInode, Error
<1>2. walk.matches = {d \in WalkMeets(h, gone) : h.ino[d] = target}
  BY <1>1 DEF WalkForInode
<1>3. (CHOOSE d \in walk.matches : TRUE) \in walk.matches
  BY <1>1, Zenon
<1>4. PICK e \in walk.matches : DiscoverByInode(h, gone) = Found(e)
  BY <1>1, <1>3, Zenon
<1>5. e \in h.dirs /\ h.ino[e] = target
  BY <1>2, <1>4, Zenon DEF WalkMeets, Below
<1>6. Found(e).path = e
  BY DEF Found
<1> QED
  BY <1>4, <1>5, <1>6, Zenon

\* The resolution of run() answers with the parent of the proxy's own cgroup, or
\* with an error, whatever cannot be read during the search.
LEMMA ResolvedIsOwn ==
    ASSUME NEW h \in Hosts, NEW gone, NEW r \in PodCgroup(h, gone), r.err = "none"
    PROVE  r.path = Dir(h.own)
<1>1. /\ MinPodCgroupDepth \in Nat /\ h.dirs \subseteq Seq(STRING) /\ h.own \in h.dirs
      /\ \/ Len(h.own) <= MinPodCgroupDepth + 1
         \/ /\ h.seen \in {<<>>, h.own}
            /\ \A d \in h.dirs : h.ino[d] = h.ino[h.own] => d = h.own
  BY HostAssumption, Zenon
<1>2. \/ r \in ResolvePodCgroup(h, Dir(h.seen)) /\ h.seen # <<>>
      \/ /\ h.seen = <<>> /\ DiscoverByInode(h, gone).err = "none"
         /\ r \in ResolvePodCgroup(h, Dir(DiscoverByInode(h, gone).path))
  <2> DEFINE cand == DerivePodCgroupCandidate(h)
  <2>1. CASE cand.err = "none" /\ r \in ResolvePodCgroup(h, cand.path)
    <3>0. Error("no v2 hierarchy").err # "none" /\ Error("no pod parent").err # "none"
      BY DEF Error
    <3>1. ~(Len(h.seen) < 2) /\ cand = Found(Dir(h.seen))
      BY <2>1, <3>0, Zenon DEF DerivePodCgroupCandidate, UnifiedRelPath
    <3>2. Len(<<>>) < 2
      OBVIOUS
    <3>3. Found(Dir(h.seen)).path = Dir(h.seen)
      BY DEF Found
    <3> QED
      BY <2>1, <3>1, <3>2, <3>3, Zenon
  <2>2. CASE r \in DiscoverPodCgroup(h, gone)
    <3>0. r \notin {Error("E_NO_CGROUP2")}
      BY DEF Error
    <3>1. CASE h.seen # <<>>
      <4>1. Found(h.seen).err = "none" /\ Found(h.seen).path = h.seen
        BY DEF Found
      <4> QED
        BY <2>2, <3>0, <3>1, <4>1, Zenon DEF DiscoverPodCgroup, UnifiedRelPath
    <3>2. CASE h.seen = <<>>
      BY <2>2, <3>0, <3>2, Zenon DEF DiscoverPodCgroup, UnifiedRelPath
    <3> QED
      BY <3>1, <3>2
  <2>3. CASE r = cand /\ cand.err # "none"
    BY <2>3
  <2> QED
    BY <2>1, <2>2, <2>3, Zenon DEF PodCgroup
<1>3. CASE Len(h.own) <= MinPodCgroupDepth + 1
  <2>1. PICK p : r \in ResolvePodCgroup(h, p)
    BY <1>2, Zenon
  <2>2. r.path = p /\ p \in h.dirs /\ Len(p) >= MinPodCgroupDepth /\ IsBelow(p, h.own)
    BY <2>1, ResolvePasses, Zenon
  <2>3. p \in Seq(STRING) /\ h.own \in Seq(STRING)
    BY <1>1, <2>2, Zenon
  <2> QED
    BY <1>1, <1>3, <2>2, <2>3, AcceptedIsParent, Zenon
<1>4. CASE /\ h.seen \in {<<>>, h.own}
           /\ \A d \in h.dirs : h.ino[d] = h.ino[h.own] => d = h.own
  <2>1. r \in ResolvePodCgroup(h, Dir(h.own))
    BY <1>2, <1>4, FoundByInode, Zenon
  <2> QED
    BY <2>1, ResolvePasses, Zenon
<1> QED
  BY <1>1, <1>3, <1>4, Zenon

\* A step that keeps the target, chooses no host, and enters the loader only
\* from the gate that follows the choice.
TargetKept ==
    /\ m'.target = m.target
    /\ m'.pc = "cgroup" => m.pc = "cgroup" /\ m'.host = m.host
    /\ m'.pc = "env" => m.pc = "env"
    /\ lpc' # "off" => lpc # "off" \/ m.pc = "env"

\* Only the start of a process and ResolveCgroup choose.
LEMMA TargetKeptSteps ==
    ASSUME LifeInv,
           \/ \E env \in Envs : EnvPreflight(env)
           \/ Load \/ Register \/ GatePreflight \/ ConstructCA \/ PolicyStartup
           \/ Compose \/ StartControlPlane \/ Bind \/ AcceptProbe \/ PrivDropStep
           \/ Migrate \/ ServeReturns \/ ServeFails \/ Serve \/ DrainListener \/ DrainCapture
           \/ DrainControlPlane \/ Return
           \/ HealthStep \/ Detached \/ Terminate \/ AgentConnects \/ UNCHANGED vars
    PROVE  TargetKept
<1> MShape
  BY Zenon DEF LifeInv
<1> DEFINE On(p) == m'.pc = p /\ m'.target = m.target
<1>0. /\ \A p : m' = To(p) => On(p)
      /\ \A p : m' = Failed(p) => On(p)
  BY Zenon DEF MShape, To, Failed
<1>1. ASSUME NEW env \in Envs, EnvPreflight(env) PROVE TargetKept
  <2>1. m.pc = "env"
    BY <1>1, Zenon DEF EnvPreflight
  <2>2. m' = [Failed("return") EXCEPT !.host = NoHost] \/ m' = [m EXCEPT !.pc = "load", !.host = NoHost]
    BY <1>1, Zenon DEF EnvPreflight
  <2>3. On("return") \/ On("load")
    BY <2>2, Zenon DEF MShape, Failed
  <2> QED
    BY <2>1, <2>3, Zenon DEF TargetKept
<1>2. CASE Load
  <2>1. m.pc = "load" /\ (m' = m \/ m' = Failed("return") \/ m' = To("register"))
    BY <1>2, Zenon DEF Load
  <2>2. lpc # "off"
    BY <2>1, Zenon DEF LifeInv, PhaseInv, Loading
  <2>3. m'.target = m.target /\ m'.pc \in {"load", "return", "register"}
    <3>1. CASE m' = m
      BY <2>1, <3>1, Zenon
    <3>2. CASE m' = Failed("return") \/ m' = To("register")
      BY <1>0, <3>2, Zenon
    <3> QED
      BY <2>1, <3>1, <3>2, Zenon
  <2> QED
    BY <2>2, <2>3, Zenon DEF TargetKept
<1>3. CASE GatePreflight \/ ConstructCA \/ PolicyStartup \/ Compose \/ StartControlPlane \/ Bind
           \/ AcceptProbe \/ PrivDropStep
  <2>1. lpc' = lpc
    BY <1>3, Zenon DEF GatePreflight, ConstructCA, PolicyStartup, Compose, StartControlPlane, Bind,
                       AcceptProbe, PrivDropStep, Alone, loaderVars
  <2>2. /\ m.pc \notin {"cgroup", "env"}
        /\ \/ m' = m \/ (\E p \in {"return", "drain"} : m' = Failed(p))
           \/ \E p \in {"ca", "policy", "control", "drop"} : m' = To(p)
           \/ m' = [m EXCEPT !.pc = "compose", !.snapshot = TRUE]
           \/ m' = [m EXCEPT !.pc = "bind", !.cp = "up"]
           \/ m' = [m EXCEPT !.pc = "probe", !.sock = "bound"]
           \/ m' = [m EXCEPT !.drop = @ + 1] \/ m' = [Failed("drain") EXCEPT !.drop = 1]
           \/ m' = [m EXCEPT !.pc = "serve", !.ready = TRUE, !.srv = "on"]
    BY <1>3, Zenon DEF GatePreflight, ConstructCA, PolicyStartup, Compose, StartControlPlane, Bind,
                       AcceptProbe, PrivDropStep
  <2>3. \/ m'.target = m.target /\ m'.pc = m.pc
        \/ \E p \in {"return", "drain", "ca", "policy", "control", "drop", "compose", "bind", "probe", "serve"} : On(p)
    <3>1. CASE \/ (\E p \in {"return", "drain"} : m' = Failed(p))
               \/ \E p \in {"ca", "policy", "control", "drop"} : m' = To(p)
      BY <1>0, <3>1, Zenon
    <3>2. CASE m' = m \/ m' = [m EXCEPT !.drop = @ + 1]
      BY <3>2, Zenon DEF MShape
    <3>3. m' = [m EXCEPT !.pc = "compose", !.snapshot = TRUE] => On("compose")
      BY Zenon DEF MShape
    <3>4. m' = [m EXCEPT !.pc = "bind", !.cp = "up"] => On("bind")
      BY Zenon DEF MShape
    <3>5. m' = [m EXCEPT !.pc = "probe", !.sock = "bound"] => On("probe")
      BY Zenon DEF MShape
    <3>6. m' = [m EXCEPT !.pc = "serve", !.ready = TRUE, !.srv = "on"] => On("serve")
      BY Zenon DEF MShape
    <3>7. m' = [Failed("drain") EXCEPT !.drop = 1] => On("drain")
      BY Zenon DEF MShape, Failed
    <3> HIDE DEF On
    <3> QED
      BY <2>2, <3>1, <3>2, <3>3, <3>4, <3>5, <3>6, <3>7, Zenon
  <2> QED
    BY <2>1, <2>2, <2>3, Zenon DEF TargetKept
<1>4. CASE Register \/ HealthStep
  <2>1. lpc' = lpc
    BY <1>4, Zenon DEF Register, StoreCallback, ClaimCallback, HealthStep, HealthStops, HealthTick
  <2>2. \/ m' = m \/ m' = To("latch") \/ m' = [m EXCEPT !.cancel = TRUE]
        \/ m' = [m EXCEPT !.pc = "gate", !.cancel = @ \/ DeliverLate]
    BY <1>4, Zenon DEF Register, HealthStep
  <2>3. m'.target = m.target /\ m'.host = m.host /\ m'.pc \in {m.pc, "latch", "gate"}
    BY <2>2, Zenon DEF MShape, To
  <2> QED
    BY <2>1, <2>3, Zenon DEF TargetKept
<1>5. CASE Migrate \/ ServeReturns \/ ServeFails \/ Detached \/ Terminate \/ AgentConnects \/ UNCHANGED vars
  <2>1. lpc' = lpc
    BY <1>5, Zenon DEF Migrate, ServeReturns, ServeFails, Detached, Detach, Terminate, AgentConnects, vars, Alone, loaderVars
  <2>2. \/ m' = m \/ m' = [m EXCEPT !.srv = "ended"] \/ m' = [m EXCEPT !.srv = "failed"]
        \/ \E t \in Threads : m' = [m EXCEPT !.at = t, !.moves = @ + 1]
    BY <1>5, Zenon DEF Migrate, ServeReturns, ServeFails, Detached, Terminate, AgentConnects, vars
  <2>3. m'.target = m.target /\ m'.host = m.host /\ m'.pc = m.pc
    BY <2>2, Zenon DEF MShape
  <2> QED
    BY <2>1, <2>3, Zenon DEF TargetKept
<1>6. CASE Serve \/ DrainListener \/ DrainCapture \/ DrainControlPlane \/ Return
  <2>1. lpc' # "off" => lpc # "off"
    BY <1>6, Zenon DEF Serve, DrainListener, DrainCapture, DrainControlPlane, Return, Alone,
                       HandleClose, loaderVars
  <2>2. \/ m' = [m EXCEPT !.pc = "drain", !.ready = FALSE] \/ m' = Failed("drain") \/ m' = To("drain3")
        \/ \E late \in {FALSE, Faults} :
              m' = [m EXCEPT !.pc = "drain2", !.ready = FALSE,
                             !.sock = IF @ = "bound" THEN "closed" ELSE @, !.err = @ \/ late]
        \/ m' = [m EXCEPT !.pc = "return", !.cp = "down"]
        \/ m' = [m EXCEPT !.pc = "exit", !.cancel = TRUE]
    BY <1>6, Zenon DEF Serve, DrainListener, DrainCapture, DrainControlPlane, Return
  <2>3. m'.target = m.target /\ m'.pc \in {"drain", "drain2", "drain3", "return", "exit"}
    BY <1>0, <2>2, Zenon DEF MShape
  <2> QED
    BY <2>1, <2>3, Zenon DEF TargetKept
<1> QED
  BY <1>1, <1>2, <1>3, <1>4, <1>5, <1>6, Zenon

\* Programs are attached to the pod of the proxy itself (ResolvePodCgroup,
\* DiscoverPodCgroup and the order of run()), for every set of hosts that
\* HostAssumption admits, whatever disappears during the search.
THEOREM OwnPodHolds == Spec => []OwnPod
<1>1. ASSUME Init PROVE OwnInv
  <2>1. m.pc = "down" /\ lpc = "off"
    BY <1>1, Zenon DEF Init, LoaderInit, Fresh
  <2> QED
    BY <2>1, Zenon DEF OwnInv
<1>2. ASSUME LifeInv, OwnInv, [Next]_vars PROVE OwnInv'
  <2> MShape
    BY <1>2, Zenon DEF LifeInv
  <2>1. CASE Boot
    <3>1. PICK h \in Hosts : m' = Fresh("cgroup", h)
      BY <2>1, Zenon DEF Boot
    <3>2. m'.pc = "cgroup" /\ m'.host = h
      BY <3>1, Zenon DEF Fresh
    <3>3. lpc' = "off"
      BY <1>2, <2>1, Zenon DEF Boot, loaderVars, LifeInv, PhaseInv, Unloaded
    <3> QED
      BY <3>2, <3>3, Zenon DEF OwnInv
  <2>2. CASE Exit \/ DropAborts \/ Crash
    <3>1. m' = Fresh("down", NoHost) /\ lpc' = "off"
      BY <2>2, Zenon DEF Exit, DropAborts, Crash, ProcessGone, LoaderFresh
    <3>2. m'.pc = "down"
      BY <3>1, Zenon DEF Fresh
    <3> QED
      BY <3>1, <3>2, Zenon DEF OwnInv
  <2>3. ASSUME NEW gone \in SUBSET Inner(m.host), ResolveCgroup(gone) PROVE OwnInv'
    <3>1. m.pc = "cgroup" /\ lpc' = lpc
      BY <2>3, Zenon DEF ResolveCgroup, Alone, loaderVars
    <3>2. m.host \in Hosts /\ lpc = "off"
      BY <1>2, <3>1, Zenon DEF OwnInv, LifeInv, PhaseInv, Unloaded
    <3>3. PICK r \in PodCgroup(m.host, gone) :
             m' = IF r.err # "none" THEN Failed("return")
                  ELSE [m EXCEPT !.pc = "env",
                                 !.target = [path |-> r.path, own |-> r.path = Dir(m.host.own)]]
      BY <2>3, Zenon DEF ResolveCgroup
    <3>4. CASE r.err # "none"
      <4>1. m'.pc = "return"
        BY <3>3, <3>4, FailedMoves, Zenon
      <4> QED
        BY <3>1, <3>2, <4>1, Zenon DEF OwnInv
    <3>5. CASE r.err = "none"
      <4>1. r.path = Dir(m.host.own)
        BY <3>2, <3>5, ResolvedIsOwn, Zenon
      <4>2. m' = [m EXCEPT !.pc = "env", !.target = [path |-> r.path, own |-> r.path = Dir(m.host.own)]]
        BY <3>3, <3>5, Zenon
      <4>3. m'.pc = "env" /\ m'.target = [path |-> r.path, own |-> r.path = Dir(m.host.own)]
        BY <4>2, Zenon DEF MShape
      <4>4. m'.target.own
        <5>1. ASSUME NEW a, NEW b, a = b PROVE [path |-> a, own |-> a = b].own
          BY <5>1
        <5> QED
          BY <4>1, <4>3, <5>1, Zenon
      <4> QED
        BY <4>3, <4>4, Zenon DEF OwnInv
    <3> QED
      BY <3>4, <3>5, Zenon
  <2>4. CASE TargetKept
    BY <1>2, <2>4, Zenon DEF TargetKept, OwnInv
  <2> QED
    BY <1>2, <2>1, <2>2, <2>3, <2>4, TargetKeptSteps, Zenon DEF Next, MainStep, Over
<1>3. LifeInv /\ OwnInv => OwnPod
  <2>1. LifeInv /\ lpc = "off" => links = 0
    BY Zenon DEF LifeInv, LoaderInv
  <2>2. ~(0 > 0)
    OBVIOUS
  <2> QED
    BY <2>1, <2>2, Zenon DEF OwnInv, OwnPod
<1> QED
  BY <1>1, <1>2, <1>3, LifeInvariant, PTL DEF Spec
=============================================================================
