--------------------------- MODULE InjectorProofs ---------------------------
(***************************************************************************)
(* Proofs about the admission of pods (Injector), for every pod, every     *)
(* number of replicas and every state of their CA bundles.  A running pod  *)
(* is one that Validate let through; that Patch and Validate agree needs   *)
(* the inductive invariant AdmissionInv, which ties a request to the pod   *)
(* it was submitted with, and what Patch makes of a pod.                   *)
(***************************************************************************)
EXTENDS Injector, TLAPS

\* Validate says "ok" only when none of its checks objects.
LEMMA ValidGuarded ==
    ASSUME NEW pod, Validate(pod) = "ok"
    PROVE  /\ IsCanonicalAkshShape(pod) /\ ValidatePodLevel(pod) /\ ValidateIstioCoexistence(pod)
           /\ ValidateContainerSecurity(pod) /\ ValidateMountLeakage(pod)
           /\ CanonicalVolumeSourcesPresent(pod)
  BY DEF Validate, ValidateVolumeSources

\* Only handleValidate lets a pod run, and only one that Validate says "ok" of.
LEMMA RunningValid ==
    ASSUME running # None => Validate(running) = "ok", [Next]_vars
    PROVE  running' # None => Validate(running') = "ok"
<1>1. running' = running \/ Validate(running') = "ok"
  <2>1. CASE UNCHANGED vars
    BY <2>1 DEF vars
  <2>2. CASE HandleValidate
    BY <2>2 DEF HandleValidate
  <2>3. ASSUME NEW r \in Replicas, BootstrapPKI(r) \/ Stop(r) \/ Expire(r) \/ Reconcile(r) \/ Tick(r)
                           \/ ReadyMutating(r) \/ ReadyValidating(r)
        PROVE  running' = running
    BY <2>3 DEF BootstrapPKI, Stop, Expire, Reconcile, Tick, ReadyMutating, ReadyValidating,
                ReconcileGet, ReconcileUpdate, ReconcileConflict, ReconcileFails
  <2>4. CASE Admission
    BY <2>2, <2>4, Zenon DEF Admission, Submit, Resubmit, HandleMutate, OtherWebhooks, HookFails,
                      Denied, AddDebugContainer
  <2>5. CASE Outage \/ Recover \/ (\E c \in Configurations : Reapply(c)) \/ Over
    BY <2>1, <2>5 DEF Outage, Recover, Reapply, Over
  <2> QED
    BY <2>1, <2>3, <2>4, <2>5 DEF Next
<1> QED
  BY <1>1

\* No pod runs in an injected namespace but with the sidecar first, once and
\* without a drift in what Validate compares, and no other container whose
\* manifest asks for its user or one of its capabilities by name, or mounts its
\* private volumes or its token, whatever pods are submitted, whatever other
\* webhooks make of them after Patch, whatever the API server fills in and
\* whatever debug containers are added: nothing is assumed of any of them.
THEOREM RunningGuardedHolds == Spec => []RunningGuarded
<1> DEFINE V == running # None => Validate(running) = "ok"
<1>1. Init => V
  BY DEF Init
<1>2. V /\ [Next]_vars => V'
  BY RunningValid
<1>3. V => RunningGuarded
  <2> SUFFICES ASSUME running # None, Validate(running) = "ok"
               PROVE  RunningGuarded
    BY DEF RunningGuarded
  <2>1. /\ IsCanonicalAkshShape(running) /\ ValidatePodLevel(running)
        /\ ValidateContainerSecurity(running) /\ ValidateMountLeakage(running)
        /\ CanonicalVolumeSourcesPresent(running)
    BY ValidGuarded, Zenon
  <2>2. /\ running.containers[1].name = "aksh" /\ running.containers[1].drift \cap comparedParts = {}
        /\ \A i \in 2 .. Len(running.containers) : running.containers[i].name # "aksh"
    BY <2>1 DEF IsCanonicalAkshShape
  <2>3. \A n \in canonicalVolumes : running.volumes[n].content = n
    BY <2>1, Zenon DEF CanonicalVolumeSourcesPresent, VolumeSourceEquivalent
  <2>4. ~running.hostNetwork /\ ~running.shareProcess
    BY <2>1, Zenon DEF ValidatePodLevel
  <2>5. ASSUME NEW c \in Others(running)
        PROVE  /\ c.uid # reservedID /\ c.caps \cap canonicalCapabilities = {}
               /\ \A m \in c.mounts :
                    /\ m.vol \notin {"ca-priv", "hostcgroup"}
                    /\ m.vol \in DOMAIN running.volumes => running.volumes[m.vol].content \notin akshTokens
    <3>1. ValidateReservedIdentityAndCapabilities(c)
      BY <2>1, <2>5 DEF ValidateContainerSecurity, Others
    <3>2. c.uid # reservedID /\ c.caps \cap canonicalCapabilities = {}
      BY <3>1 DEF ValidateReservedIdentityAndCapabilities, deniedNonAkshCapabilities
    <3>3. CheckContainerMountLeakage(running, c)
      BY <2>1, <2>5 DEF ValidateMountLeakage, Others
    <3> QED
      BY <3>2, <3>3 DEF CheckContainerMountLeakage, IsAkshProjectedToken
  <2> QED
    BY <2>2, <2>3, <2>4, <2>5 DEF RunningGuarded
<1> QED
  BY <1>1, <1>2, <1>3, PTL DEF Spec

\* What the injector makes of a pod that it does not refuse (Patch): the author's
\* containers, flags and volumes, with what is the sidecar's in front of them.
LEMMA PatchedPod ==
    ASSUME NEW pod, WellFormed(pod), Patch(pod) # Refused
    PROVE  LET new == Patch(pod) IN
           /\ WellFormed(new) /\ new.hostPID = TRUE
           /\ new.init = pod.init /\ new.ephemeral = pod.ephemeral
           /\ new.hostNetwork = pod.hostNetwork /\ new.shareProcess = pod.shareProcess
           /\ new.automount = pod.automount /\ new.istioStatus = pod.istioStatus
           /\ IsCanonicalAkshPod(new)
           /\ Apps(new) = Apps(pod)
           /\ "istio-proxy" \in Names(new) => "istio-proxy" \in Names(pod)
           /\ \A n \in DOMAIN new.volumes :
                IF n \in DOMAIN pod.volumes THEN new.volumes[n] = pod.volumes[n]
                ELSE n \in canonicalVolumes /\ new.volumes[n] = Volume(n)
<1> DEFINE new == Patch(pod)
<1> DEFINE fresh ==
        [pod EXCEPT
            !.volumes = [n \in DOMAIN pod.volumes \cup canonicalVolumes |->
                            IF n \in DOMAIN pod.volumes THEN pod.volumes[n] ELSE Volume(n)],
            !.hostPID = TRUE, !.fsGroup = reservedID, !.marker = Version,
            !.containers = <<canonicalContainer>> \o @]
<1>0. HasFields(pod)
  BY DEF WellFormed
<1>1. CASE IsCanonicalAkshPod(pod)
  <2>1. new = [pod EXCEPT !.hostPID = TRUE]
    BY <1>1 DEF Patch
  <2>2. /\ DOMAIN new = DOMAIN pod /\ new.hostPID = TRUE
        /\ new.containers = pod.containers /\ new.volumes = pod.volumes
        /\ new.marker = pod.marker /\ new.fsGroup = pod.fsGroup
        /\ new.init = pod.init /\ new.ephemeral = pod.ephemeral
        /\ new.hostNetwork = pod.hostNetwork /\ new.shareProcess = pod.shareProcess
        /\ new.automount = pod.automount /\ new.istioStatus = pod.istioStatus
    BY <1>0, <2>1 DEF HasFields
  <2>0. new = [f \in DOMAIN new |-> new[f]]
    BY <2>1, Zenon
  <2> HIDE DEF new
  <2>3. WellFormed(new) /\ Apps(new) = Apps(pod) /\ Names(new) = Names(pod)
    <3>1. HasFields(new)
      BY <1>0, <2>2 DEF HasFields
    <3>2. Apps(new) = Apps(pod)
      BY <2>2 DEF Apps
    <3>3. Names(new) = Names(pod)
      BY <2>2 DEF Names
    <3> QED
      BY <2>0, <3>1, <3>2, <3>3, Zenon DEF WellFormed
  <2>4. IsCanonicalAkshPod(new)
    BY <1>1, <2>2 DEF IsCanonicalAkshPod, IsCanonicalAkshShape, CanonicalVolumeSourcesPresent
  <2> QED
    BY <2>2, <2>3, <2>4 DEF new
<1>2. CASE ~IsCanonicalAkshPod(pod)
  <2>1. /\ new = fresh /\ "aksh" \notin Names(pod) /\ pod.containers # <<>>
        /\ \A n \in canonicalVolumes \cap DOMAIN pod.volumes : pod.volumes[n] = Volume(n)
    BY <1>2 DEF Patch
  <2>2. /\ DOMAIN new = DOMAIN pod /\ new.hostPID = TRUE
        /\ new.marker = Version /\ new.fsGroup = reservedID
        /\ new.init = pod.init /\ new.ephemeral = pod.ephemeral
        /\ new.hostNetwork = pod.hostNetwork /\ new.shareProcess = pod.shareProcess
        /\ new.automount = pod.automount /\ new.istioStatus = pod.istioStatus
    BY <1>0, <2>1 DEF HasFields
  <2>3. new.volumes = [n \in DOMAIN pod.volumes \cup canonicalVolumes |->
                        IF n \in DOMAIN pod.volumes THEN pod.volumes[n] ELSE Volume(n)]
    BY <1>0, <2>1 DEF HasFields
  <2>4. new.containers = <<canonicalContainer>> \o pod.containers
    BY <1>0, <2>1 DEF HasFields
  <2>0. new = [f \in DOMAIN new |-> new[f]]
    BY <2>1, Zenon
  <2> DEFINE cs == pod.containers
  <2> DEFINE ds == new.containers
  <2> DEFINE C == {cs[i] : i \in DOMAIN cs} \cup {canonicalContainer}
  <2> HIDE DEF new
  <2>5. cs \in Seq(C) /\ Len(cs) \in Nat /\ DOMAIN cs = 1 .. Len(cs)
    <3>1. cs \in Seq({cs[i] : i \in DOMAIN cs})
      BY <1>0 DEF HasFields
    <3> QED
      BY <3>1
  <2>6. /\ ds \in Seq(C) /\ Len(ds) = Len(cs) + 1 /\ DOMAIN ds = 1 .. Len(cs) + 1
        /\ ds[1] = canonicalContainer
        /\ \A i \in 2 .. Len(cs) + 1 : ds[i] = cs[i - 1]
        /\ \A i \in 1 .. Len(cs) : ds[i + 1] = cs[i]
    BY <2>4, <2>5
  <2>7. \A i \in 1 .. Len(cs) : cs[i].name # "aksh"
    BY <2>1, <2>5 DEF Names
  <2>8. canonicalContainer.name = "aksh"
    BY DEF canonicalContainer
  <2> HIDE DEF cs, ds, C
  <2>9. Apps(new) = Apps(pod)
    <3>1. \A x : x \in Apps(new) <=> \E i \in DOMAIN ds : ds[i].name # "aksh" /\ x = ds[i]
      BY DEF Apps, ds
    <3>2. \A x : x \in Apps(pod) <=> \E i \in DOMAIN cs : cs[i].name # "aksh" /\ x = cs[i]
      BY DEF Apps, cs
    <3>3. \A x : (\E i \in DOMAIN ds : ds[i].name # "aksh" /\ x = ds[i])
                 => \E i \in DOMAIN cs : cs[i].name # "aksh" /\ x = cs[i]
      <4> SUFFICES ASSUME NEW i \in DOMAIN ds, ds[i].name # "aksh"
                   PROVE  \E j \in DOMAIN cs : cs[j].name # "aksh" /\ ds[i] = cs[j]
        OBVIOUS
      <4>1. i # 1
        BY <2>6, <2>8
      <4>2. i - 1 \in DOMAIN cs /\ ds[i] = cs[i - 1]
        BY <4>1, <2>5, <2>6
      <4> QED
        BY <4>2
    <3>4. \A x : (\E i \in DOMAIN cs : cs[i].name # "aksh" /\ x = cs[i])
                 => \E i \in DOMAIN ds : ds[i].name # "aksh" /\ x = ds[i]
      <4> SUFFICES ASSUME NEW i \in DOMAIN cs, cs[i].name # "aksh"
                   PROVE  \E j \in DOMAIN ds : ds[j].name # "aksh" /\ cs[i] = ds[j]
        OBVIOUS
      <4>1. i + 1 \in DOMAIN ds /\ ds[i + 1] = cs[i]
        BY <2>5, <2>6
      <4> QED
        BY <4>1
    <3> QED
      BY <3>1, <3>2, <3>3, <3>4, Zenon
  <2>10. "istio-proxy" \in Names(new) => "istio-proxy" \in Names(pod)
    <3> SUFFICES ASSUME NEW i \in DOMAIN ds, ds[i].name = "istio-proxy"
                 PROVE  \E j \in DOMAIN cs : cs[j].name = "istio-proxy"
      BY DEF Names, cs, ds
    <3>1. i # 1
      BY <2>6, <2>8
    <3>2. i - 1 \in DOMAIN cs /\ ds[i] = cs[i - 1]
      BY <3>1, <2>5, <2>6
    <3> QED
      BY <3>2
  <2>11. CanonicalVolumeSourcesPresent(new)
    <3> SUFFICES ASSUME NEW n \in canonicalVolumes
                 PROVE  /\ n \in DOMAIN new.volumes /\ new.volumes[n].content = n
                        /\ new.volumes[n].filled \subseteq toleratedDefaults
      BY DEF CanonicalVolumeSourcesPresent, VolumeSourceEquivalent
    <3>1. n \in DOMAIN new.volumes /\ new.volumes[n] = Volume(n)
      BY <2>1, <2>3
    <3> QED
      BY <3>1 DEF Volume
  <2>12. IsCanonicalAkshShape(new)
    <3>1. /\ ds # <<>> /\ ds[1].name = "aksh" /\ ds[1].uid = reservedID
          /\ ds[1].caps = canonicalCapabilities
          /\ ds[1].drift \cap comparedParts = {} /\ canonicalContainer.mounts \subseteq ds[1].mounts
      BY <2>5, <2>6 DEF canonicalContainer
    <3>2. \A i \in 2 .. Len(ds) : ds[i].name # "aksh"
      BY <2>5, <2>6, <2>7
    <3> QED
      BY <2>2, <3>1, <3>2 DEF IsCanonicalAkshShape, ds
  <2>13. WellFormed(new)
    <3>1. ds \in Seq({ds[i] : i \in DOMAIN ds})
      <4> DEFINE D == {ds[i] : i \in DOMAIN ds}
      <4>1. Len(ds) \in Nat /\ DOMAIN ds = 1 .. Len(ds)
        BY <2>5, <2>6
      <4>2. \A i \in 1 .. Len(ds) : ds[i] \in D
        BY <4>1, Zenon
      <4> HIDE DEF D
      <4>3. ds \in Seq(D)
        BY <2>6, <4>1, <4>2
      <4> QED
        BY <4>3, Zenon DEF D
    <3>2. new.volumes = [n \in DOMAIN new.volumes |-> new.volumes[n]]
      BY <2>3
    <3>3. \A n \in DOMAIN new.volumes : DOMAIN new.volumes[n] = {"content", "filled"}
      BY <1>0, <2>3 DEF HasFields, Volume
    <3>4. HasFields(new)
      BY <1>0, <2>2, <3>1, <3>2, <3>3 DEF HasFields, ds
    <3> QED
      BY <2>0, <3>4, Zenon DEF WellFormed
  <2>14. \A n \in DOMAIN new.volumes :
            IF n \in DOMAIN pod.volumes THEN new.volumes[n] = pod.volumes[n]
            ELSE n \in canonicalVolumes /\ new.volumes[n] = Volume(n)
    BY <2>3
  <2> QED
    BY <2>2, <2>9, <2>10, <2>11, <2>12, <2>13, <2>14 DEF new, IsCanonicalAkshPod
<1> QED
  BY <1>1, <1>2, Zenon

\* The API server's defaults fill in fields of volumes, all that it knows, and
\* change nothing else.
LEMMA DefaultedPod ==
    ASSUME NEW pod, WellFormed(pod)
    PROVE  LET new == Defaulted(pod, server) IN
           /\ WellFormed(new) /\ Complete(new, server) /\ new.hostPID = pod.hostPID
           /\ new.init = pod.init /\ new.ephemeral = pod.ephemeral
           /\ new.hostNetwork = pod.hostNetwork /\ new.shareProcess = pod.shareProcess
           /\ new.automount = pod.automount /\ new.istioStatus = pod.istioStatus
           /\ new.containers = pod.containers /\ new.marker = pod.marker /\ new.fsGroup = pod.fsGroup
           /\ DOMAIN new.volumes = DOMAIN pod.volumes
           /\ \A n \in DOMAIN pod.volumes :
                /\ new.volumes[n].content = pod.volumes[n].content
                /\ new.volumes[n].filled \subseteq pod.volumes[n].filled \cup server
<1> DEFINE new == Defaulted(pod, server)
<1>0. HasFields(pod)
  BY DEF WellFormed
<1>1. /\ DOMAIN new = DOMAIN pod /\ new.hostPID = pod.hostPID
      /\ new.init = pod.init /\ new.ephemeral = pod.ephemeral
      /\ new.hostNetwork = pod.hostNetwork /\ new.shareProcess = pod.shareProcess
      /\ new.automount = pod.automount /\ new.istioStatus = pod.istioStatus
      /\ new.containers = pod.containers /\ new.marker = pod.marker /\ new.fsGroup = pod.fsGroup
  BY <1>0 DEF HasFields, Defaulted
<1>2. new.volumes = [n \in DOMAIN pod.volumes |-> Completed(pod.volumes[n], server)]
  BY <1>0 DEF HasFields, Defaulted
<1>6. new = [f \in DOMAIN new |-> new[f]]
  BY DEF Defaulted
<1> HIDE DEF new
<1>3. ASSUME NEW n \in DOMAIN pod.volumes
      PROVE  /\ DOMAIN new.volumes[n] = {"content", "filled"}
             /\ new.volumes[n].content = pod.volumes[n].content
             /\ new.volumes[n].filled = pod.volumes[n].filled \cup (Fillable(pod.volumes[n].content) \cap server)
  BY <1>0, <1>2 DEF HasFields, Completed
<1>4. DOMAIN new.volumes = DOMAIN pod.volumes /\ new.volumes = [n \in DOMAIN new.volumes |-> new.volumes[n]]
  BY <1>2
<1>5. WellFormed(new)
  <2>1. HasFields(new)
    BY <1>0, <1>1, <1>3, <1>4 DEF HasFields
  <2> QED
    BY <1>6, <2>1, Zenon DEF WellFormed
<1>7. Complete(new, server)
  BY <1>3, <1>4 DEF Complete
<1> QED
  BY <1>1, <1>3, <1>4, <1>5, <1>7 DEF new

\* Whatever the validating webhook refuses in a pod that it gets as the mutating
\* one left it and the API server completed it, it would have refused in the pod
\* as submitted, if the API server fills in only what is not compared.
LEMMA PatchedRefused ==
    ASSUME NEW pod, WellFormed(pod), Patch(pod) # Refused, server \subseteq toleratedDefaults,
           Validate(Defaulted(Patch(pod), server)) # "ok"
    PROVE  OwnFault(pod)
<1> DEFINE new == Patch(pod)
<1> DEFINE set == Defaulted(new, server)
<1>1. /\ WellFormed(new) /\ IsCanonicalAkshPod(new) /\ Apps(new) = Apps(pod)
      /\ new.init = pod.init /\ new.ephemeral = pod.ephemeral
      /\ new.hostNetwork = pod.hostNetwork /\ new.shareProcess = pod.shareProcess
      /\ new.automount = pod.automount /\ new.istioStatus = pod.istioStatus
      /\ "istio-proxy" \in Names(new) => "istio-proxy" \in Names(pod)
      /\ \A n \in DOMAIN new.volumes :
            IF n \in DOMAIN pod.volumes THEN new.volumes[n] = pod.volumes[n]
            ELSE n \in canonicalVolumes /\ new.volumes[n] = Volume(n)
  BY PatchedPod, Zenon
<1>2. /\ set.init = new.init /\ set.ephemeral = new.ephemeral
      /\ set.hostNetwork = new.hostNetwork /\ set.shareProcess = new.shareProcess
      /\ set.automount = new.automount /\ set.istioStatus = new.istioStatus
      /\ set.containers = new.containers /\ set.marker = new.marker /\ set.fsGroup = new.fsGroup
      /\ DOMAIN set.volumes = DOMAIN new.volumes
      /\ \A n \in DOMAIN new.volumes :
            /\ set.volumes[n].content = new.volumes[n].content
            /\ set.volumes[n].filled \subseteq new.volumes[n].filled \cup server
  BY <1>1, DefaultedPod, Zenon
<1>3. Validate(set) # "ok"
  OBVIOUS
<1> HIDE DEF new, set
<1>4. IsCanonicalAkshShape(set)
  BY <1>1, <1>2, Zenon DEF IsCanonicalAkshPod, IsCanonicalAkshShape
<1>5. CanonicalVolumeSourcesPresent(set)
  <2> SUFFICES ASSUME NEW n \in canonicalVolumes
               PROVE  /\ n \in DOMAIN set.volumes /\ set.volumes[n].content = n
                      /\ set.volumes[n].filled \subseteq toleratedDefaults
    BY DEF CanonicalVolumeSourcesPresent, VolumeSourceEquivalent
  <2>1. /\ n \in DOMAIN new.volumes /\ new.volumes[n].content = n
        /\ new.volumes[n].filled \subseteq toleratedDefaults
    BY <1>1, Zenon DEF IsCanonicalAkshPod, CanonicalVolumeSourcesPresent, VolumeSourceEquivalent
  <2> QED
    BY <1>2, <2>1
<1>6. Apps(set) = Apps(pod) /\ Names(set) = Names(new)
  <2>1. Apps(set) = Apps(new)
    BY <1>2 DEF Apps
  <2>2. Names(set) = Names(new)
    BY <1>2 DEF Names
  <2> QED
    BY <1>1, <2>1, <2>2
<1>7. \/ ~ValidatePodLevel(set) \/ ~ValidateIstioCoexistence(set)
      \/ ~ValidateContainerSecurity(set) \/ ~ValidateMountLeakage(set)
  BY <1>3, <1>4, <1>5 DEF Validate, ValidateVolumeSources
<1>8. CASE ~ValidatePodLevel(set)
  BY <1>1, <1>2, <1>8, Zenon DEF ValidatePodLevel, OwnFault
<1>9. CASE ~ValidateIstioCoexistence(set)
  BY <1>1, <1>2, <1>6, <1>9, Zenon DEF ValidateIstioCoexistence, OwnFault
<1>10. CASE ~ValidateContainerSecurity(set)
  <2>1. ~ValidateContainerSecurity(pod)
    BY <1>1, <1>2, <1>6, <1>10 DEF ValidateContainerSecurity
  <2> QED
    BY <2>1, Zenon DEF OwnFault
<1>11. CASE ~ValidateMountLeakage(set)
  <2>1. PICK c \in Apps(pod) \cup pod.init \cup pod.ephemeral : ~CheckContainerMountLeakage(set, c)
    BY <1>1, <1>2, <1>6, <1>11 DEF ValidateMountLeakage
  <2>2. ASSUME NEW n, IsAkshProjectedToken(set, n), n # "entra-token"
        PROVE  IsAkshProjectedToken(pod, n)
    <3>1. n \in DOMAIN new.volumes /\ new.volumes[n].content \in akshTokens
      BY <1>2, <2>2 DEF IsAkshProjectedToken
    <3>2. n \in DOMAIN pod.volumes
      <4> SUFFICES ASSUME n \in canonicalVolumes, new.volumes[n] = Volume(n) PROVE FALSE
        BY <1>1, <3>1, Zenon
      <4>1. n \in akshTokens
        BY <3>1 DEF Volume
      <4> QED
        BY <2>2, <4>1 DEF akshTokens, canonicalVolumes
    <3>3. new.volumes[n] = pod.volumes[n]
      BY <1>1, <3>1, <3>2, Zenon
    <3> QED
      BY <3>1, <3>2, <3>3 DEF IsAkshProjectedToken
  <2>3. ~CheckContainerMountLeakage(pod, c)
    BY <2>1, <2>2, Zenon DEF CheckContainerMountLeakage
  <2>4. ~ValidateMountLeakage(pod)
    BY <2>1, <2>3, Zenon DEF ValidateMountLeakage
  <2> QED
    BY <2>4, Zenon DEF OwnFault
<1> QED
  BY <1>7, <1>8, <1>9, <1>10, <1>11, Zenon

\* A pod that passed the validating webhook, and has its hostPID, is left as it is.
LEMMA PatchedAgain ==
    ASSUME NEW pod, WellFormed(pod), pod.hostPID = TRUE, Validate(pod) = "ok"
    PROVE  Patch(pod) = pod
<1>1. IsCanonicalAkshPod(pod) /\ pod.containers # <<>>
  <2>1. IsCanonicalAkshShape(pod) /\ CanonicalVolumeSourcesPresent(pod)
    BY ValidGuarded, Zenon
  <2> QED
    BY <2>1 DEF IsCanonicalAkshPod, IsCanonicalAkshShape
<1>2. Patch(pod) = [pod EXCEPT !.hostPID = TRUE]
  BY <1>1 DEF Patch
<1>3. pod = [f \in DOMAIN pod |-> pod[f]] /\ "hostPID" \in DOMAIN pod
  BY DEF WellFormed, HasFields
<1> QED
  BY <1>2, <1>3

\* What the other webhooks of the cluster are taken to do: pods stay pods, and
\* the hostPID that the injector set stays set.
OthersKeepHostPID ==
    \A p, q : WellFormed(p) /\ q \in Changes(p) => WellFormed(q) /\ q.hostPID = p.hostPID

\* Every step of an admission keeps AdmissionInv.
LEMMA AdmissionStep ==
    ASSUME OthersKeepHostPID, AdmissionInv, Admission
    PROVE  AdmissionInv'
<1> DEFINE Req(s, p, o, t, a) ==
        /\ DOMAIN req' = {"stage", "pod", "orig", "touched", "again"}
        /\ req'.stage = s /\ req'.pod = p /\ req'.orig = o /\ req'.touched = t /\ req'.again = a
<1>0. server' = server
  <2> USE DEF hooks
  <2>1. ASSUME NEW pod \in Pods, Submit(pod) PROVE server' = server
    BY <2>1 DEF Submit
  <2>2. ASSUME NEW c \in Debug, AddDebugContainer(c) PROVE server' = server
    BY <2>2 DEF AddDebugContainer
  <2>3. CASE Resubmit \/ HandleMutate \/ OtherWebhooks \/ HandleValidate \/ HookFails \/ Denied
    BY <2>3, Zenon DEF Resubmit, HandleMutate, OtherWebhooks, HandleValidate, HookFails, Denied
  <2> QED
    BY <2>1, <2>2, <2>3, Zenon DEF Admission
<1> USE <1>0 DEF AdmissionInv
<1>1. ASSUME NEW pod \in Pods, Submit(pod) PROVE AdmissionInv'
  <2> DEFINE new == Defaulted(pod, server)
  <2>1. /\ req' = [stage |-> "mutate", pod |-> new, orig |-> new, touched |-> FALSE, again |-> FALSE]
        /\ running' = running
    BY <1>1 DEF Submit
  <2>2. WellFormed(new)
    BY InjectorAssumption, DefaultedPod, Zenon
  <2> HIDE DEF new
  <2>3. Req("mutate", new, new, FALSE, FALSE)
    BY <2>1
  <2> QED
    BY <2>1, <2>2, <2>3
<1>2. CASE Resubmit
  <2>1. /\ req' = [stage |-> "mutate", pod |-> running, orig |-> running, touched |-> FALSE, again |-> TRUE]
        /\ running' = running /\ running # None
    BY <1>2 DEF Resubmit
  <2>2. Req("mutate", running, running, FALSE, TRUE)
    BY <2>1
  <2> QED
    BY <2>1, <2>2
<1>3. ASSUME req' = Idle, running' = running PROVE AdmissionInv'
  <2>1. Req("idle", None, None, FALSE, FALSE)
    BY <1>3 DEF Idle
  <2> QED
    BY <1>3, <2>1
<1>4. CASE HookFails \/ Denied
  BY <1>3, <1>4, Zenon DEF HookFails, Denied
<1>5. CASE HandleMutate
  <2>1. CASE Patch(req.pod) = Refused
    BY <1>3, <1>5, <2>1, Zenon DEF HandleMutate
  <2>2. CASE Patch(req.pod) # Refused
    <3>1. /\ req.stage = "mutate" /\ req' = [req EXCEPT !.stage = "patched", !.pod = Patch(req.pod)]
          /\ running' = running
      BY <1>5, <2>2 DEF HandleMutate
    <3>2. Req("patched", Patch(req.orig), req.orig, req.touched, req.again)
      BY <3>1
    <3>3. WellFormed(req.orig) /\ Patch(req.orig) # Refused
      BY <2>2, <3>1
    <3>4. WellFormed(Patch(req.orig)) /\ Patch(req.orig).hostPID = TRUE
      BY <3>3, PatchedPod, Zenon
    <3> QED
      BY <3>1, <3>2, <3>3, <3>4
  <2> QED
    BY <2>1, <2>2, Zenon
<1>6. CASE OtherWebhooks
  <2>1. PICK pod \in {req.pod} \cup Changes(req.pod) :
            /\ req' = [req EXCEPT !.stage = "validate", !.pod = Defaulted(pod, server), !.touched = pod # req.pod]
            /\ req.stage = "patched" /\ running' = running
    BY <1>6, Zenon DEF OtherWebhooks
  <2>2. Req("validate", Defaulted(pod, server), req.orig, pod # req.pod, req.again)
    BY <2>1
  <2>3. WellFormed(pod) /\ pod.hostPID = TRUE
    BY <2>1 DEF OthersKeepHostPID
  <2>4. /\ WellFormed(Defaulted(pod, server)) /\ Complete(Defaulted(pod, server), server)
        /\ Defaulted(pod, server).hostPID = TRUE
    BY <2>3, DefaultedPod, Zenon
  <2> QED
    BY <2>1, <2>2, <2>4, Zenon
<1>7. ASSUME NEW c \in Debug, AddDebugContainer(c) PROVE AdmissionInv'
  <2> DEFINE new == [running EXCEPT !.ephemeral = {c}]
  <2>1. /\ req' = [stage |-> "update", pod |-> new, orig |-> running, touched |-> TRUE, again |-> FALSE]
        /\ running' = running /\ running # None
    BY <1>7 DEF AddDebugContainer
  <2>2. Req("update", new, running, TRUE, FALSE)
    BY <2>1
  <2>3. WellFormed(new) /\ Complete(new, server) /\ new.hostPID = TRUE
    <3>1. HasFields(running) /\ Complete(running, server) /\ running.hostPID = TRUE
      BY <2>1 DEF WellFormed
    <3>2. new = [f \in DOMAIN new |-> new[f]]
      OBVIOUS
    <3>3. HasFields(new) /\ new.hostPID = TRUE /\ new.volumes = running.volumes
      BY <3>1 DEF HasFields
    <3>4. Complete(new, server)
      BY <3>1, <3>3, Zenon DEF Complete
    <3> QED
      BY <3>2, <3>3, <3>4, Zenon DEF WellFormed
  <2> QED
    BY <2>1, <2>2, <2>3, Zenon
<1>8. CASE HandleValidate
  <2>1. CASE Validate(req.pod) = "ok"
    <3>1. /\ req.stage \in {"validate", "update"} /\ req' = Idle /\ running' = req.pod
      BY <1>8, <2>1 DEF HandleValidate
    <3>2. Req("idle", None, None, FALSE, FALSE)
      BY <3>1 DEF Idle
    <3> QED
      BY <2>1, <3>1, <3>2
  <2>2. CASE Validate(req.pod) # "ok"
    <3>1. /\ req.stage \in {"validate", "update"} /\ running' = running
          /\ req' = [req EXCEPT !.stage = "denied"]
      BY <1>8, <2>2 DEF HandleValidate
    <3>2. Req("denied", req.pod, req.orig, req.touched, req.again)
      BY <3>1
    <3> QED
      BY <2>2, <3>1, <3>2
  <2> QED
    BY <2>1, <2>2, Zenon
<1> QED
  BY <1>1, <1>2, <1>4, <1>5, <1>6, <1>7, <1>8, Zenon DEF Admission

\* The admission of every pod goes as AdmissionInv says; the replicas, their CA
\* bundles and their readiness touch neither a request nor the pod that runs.
LEMMA AdmissionInvariance ==
    ASSUME OthersKeepHostPID
    PROVE  Spec => []AdmissionInv
<1>1. Init => AdmissionInv
  BY DEF Init, Idle, AdmissionInv
<1>2. ASSUME AdmissionInv, [Next]_vars PROVE AdmissionInv'
  <2>1. CASE Admission
    BY <1>2, <2>1, AdmissionStep, Zenon
  <2>2. CASE UNCHANGED <<server, req, running>>
    BY <1>2, <2>2, Zenon DEF AdmissionInv
  <2>3. ASSUME NEW r \in Replicas, BootstrapPKI(r) \/ Stop(r) \/ Expire(r) \/ Reconcile(r) \/ Tick(r)
                           \/ ReadyMutating(r) \/ ReadyValidating(r)
        PROVE  UNCHANGED <<server, req, running>>
    BY <2>3 DEF BootstrapPKI, Stop, Expire, Reconcile, Tick, ReadyMutating, ReadyValidating,
                ReconcileGet, ReconcileUpdate, ReconcileConflict, ReconcileFails, hooks
  <2>4. CASE Outage \/ Recover \/ (\E c \in Configurations : Reapply(c)) \/ Over \/ UNCHANGED vars
    BY <2>2, <2>4 DEF Outage, Recover, Reapply, Over, vars, hooks
  <2> QED
    BY <1>2, <2>1, <2>2, <2>3, <2>4, Zenon DEF Next
<1> QED
  BY <1>1, <1>2, PTL DEF Spec

\* Patch and Validate agree about every pod, whichever replicas serve the two
\* webhooks: what the one made and nobody else changed the other refuses only for
\* what it would have refused in the pod as submitted, if the API server fills in
\* only fields that volumeSourceEquivalent passes over; if it fills in the
\* apiVersion of podinfo's item too, no pod runs at all; and a pod that was
\* admitted is left as it is when it is submitted again, provided the other
\* webhooks left it its hostPID (Validate does not look at it).
THEOREM WebhooksAgreeHolds ==
    ASSUME OthersKeepHostPID
    PROVE  Spec => []WebhooksAgree
<1>1. AdmissionInv => WebhooksAgree
  <2> SUFFICES ASSUME AdmissionInv PROVE WebhooksAgree
    OBVIOUS
  <2>1. ASSUME req.stage = "denied", ~req.touched, server \subseteq toleratedDefaults
        PROVE  OwnFault(req.orig)
    <3>1. /\ WellFormed(req.orig) /\ Patch(req.orig) # Refused
          /\ Validate(Defaulted(Patch(req.orig), server)) # "ok"
      BY <2>1 DEF AdmissionInv
    <3> QED
      BY <2>1, <3>1, PatchedRefused, Zenon
  <2>2. ASSUME req.stage = "patched", req.again PROVE req.pod = req.orig
    <3>1. /\ WellFormed(req.orig) /\ req.orig.hostPID = TRUE /\ Validate(req.orig) = "ok"
          /\ req.pod = Patch(req.orig)
      BY <2>2 DEF AdmissionInv
    <3> QED
      BY <3>1, PatchedAgain, Zenon
  <2>3. ASSUME running # None PROVE server \subseteq toleratedDefaults
    <3>1. Complete(running, server) /\ CanonicalVolumeSourcesPresent(running)
      BY <2>3, ValidGuarded, Zenon DEF AdmissionInv
    <3>2. "podinfo" \in canonicalVolumes
      BY DEF canonicalVolumes
    <3>3. /\ "podinfo" \in DOMAIN running.volumes /\ running.volumes["podinfo"].content = "podinfo"
          /\ running.volumes["podinfo"].filled \subseteq toleratedDefaults
      BY <3>1, <3>2, Zenon DEF CanonicalVolumeSourcesPresent, VolumeSourceEquivalent
    <3>4. Fillable("podinfo") \cap server \subseteq toleratedDefaults
      BY <3>1, <3>3 DEF Complete
    <3>5. Fillable("podinfo") = {"mode", "apiVersion"}
      BY DEF Fillable, akshTokens
    <3>6. server \subseteq {"type", "mode", "apiVersion"}
      BY InjectorAssumption, Zenon DEF AdmissionInv
    <3> QED
      BY <3>4, <3>5, <3>6 DEF toleratedDefaults
  <2> QED
    BY <2>1, <2>2, <2>3, Zenon DEF WebhooksAgree
<1> QED
  BY <1>1, AdmissionInvariance, PTL
=============================================================================
