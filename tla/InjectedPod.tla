----------------------------- MODULE InjectedPod -----------------------------
(***************************************************************************)
(* What the injector's two webhooks do to a pod: Patch                     *)
(* (sidecar_injector.go, canonical.go) and Validate (validate.go) of       *)
(* internal/injector, and what the API server does in between.             *)
(*                                                                         *)
(* A pod is a record of what its manifest says.  A container has a name,   *)
(* the runAsUser and the names in capabilities.add of its own              *)
(* securityContext, the hardening flags it gives up there ("weak":         *)
(* privileged, escalation, root), its mounts [vol, ro], and, for the       *)
(* sidecar, the parts in which it differs from what the injector writes    *)
(* ("drift").  None of this is what a container has when it runs: the user *)
(* of the pod or of the image, the name ALL, and all that a privileged     *)
(* container can do are not looked at by the code.  A volume has its       *)
(* content, named after the aksh volume it is the source of, and the       *)
(* fields that its author left out and the API server filled in.           *)
(***************************************************************************)
EXTENDS Integers, Sequences

CONSTANTS Version, Refused

reservedID == 1774
canonicalVolumes == {"hostcgroup", "ca-priv", "ca-pub", "entra-token", "upstream-ca", "podinfo"}
canonicalCapabilities ==
    {"BPF", "NET_ADMIN", "NET_RAW", "SYS_ADMIN", "SYS_RESOURCE", "PERFMON", "SETGID", "SETUID", "SETPCAP"}
deniedNonAkshCapabilities == canonicalCapabilities \cup {"SYS_PTRACE"}

Volume(n) == [content |-> n, filled |-> {}]

\* A corev1.Pod has these fields, a list of containers, and volumes that have a
\* source.
HasFields(pod) ==
    /\ DOMAIN pod = {"containers", "init", "ephemeral", "volumes", "hostPID", "hostNetwork",
                     "shareProcess", "automount", "istioStatus", "marker", "fsGroup"}
    /\ pod.containers \in Seq({pod.containers[i] : i \in DOMAIN pod.containers})
    /\ pod.volumes = [n \in DOMAIN pod.volumes |-> pod.volumes[n]]
    /\ \A n \in DOMAIN pod.volumes : DOMAIN pod.volumes[n] = {"content", "filled"}

WellFormed(pod) == pod = [f \in DOMAIN pod |-> pod[f]] /\ HasFields(pod)

\* The parts of the sidecar that are compared: a canonical variable whose value
\* is another (env) or one of the two that must not be there (forbiddenEnv).
\* Parts that are not: the configSourcedEnv, other variables, envFrom, dropped
\* capabilities, probes, lifecycle, the pull policy.
comparedParts == {"image", "command", "args", "runAsGroup", "env", "forbiddenEnv", "mountPath"}

canonicalContainer ==
    [name |-> "aksh", uid |-> reservedID, caps |-> canonicalCapabilities, weak |-> {},
     mounts |-> {[vol |-> n, ro |-> n \notin {"hostcgroup", "ca-priv", "ca-pub"}] : n \in canonicalVolumes},
     drift |-> {}]

\* Mutant of VolumeSourceEquivalent: the sources are compared as they are.
VolumeSourceEquivalentExact(v, n) == v = Volume(n)

\* What the comparison of two sources passes over: hostPath.type and defaultMode.
toleratedDefaults == {"type", "mode"}

\* Equal but for that: the items of a downwardAPI volume are compared whole.
VolumeSourceEquivalent(v, n) == v.content = n /\ v.filled \subseteq toleratedDefaults

CanonicalVolumeSourcesPresent(pod) ==
    \A n \in canonicalVolumes : n \in DOMAIN pod.volumes /\ VolumeSourceEquivalent(pod.volumes[n], n)

\* The marker, the group, one sidecar, first, without a drift in what is
\* compared.  (Of the sidecar's mounts of one volume the last counts.)
IsCanonicalAkshShape(pod) ==
    /\ pod.marker = Version /\ pod.fsGroup = reservedID
    /\ pod.containers # <<>> /\ pod.containers[1].name = "aksh"
    /\ \A i \in 2 .. Len(pod.containers) : pod.containers[i].name # "aksh"
    /\ LET c == pod.containers[1]
       IN  c.uid = reservedID /\ c.caps = canonicalCapabilities
           /\ c.drift \cap comparedParts = {} /\ canonicalContainer.mounts \subseteq c.mounts

IsCanonicalAkshPod(pod) == IsCanonicalAkshShape(pod) /\ CanonicalVolumeSourcesPresent(pod)

Names(pod) == {pod.containers[i].name : i \in DOMAIN pod.containers}

\* An injected pod only gets its hostPID back; a container of that name or a
\* volume that differs is a conflict; otherwise the volumes that are missing,
\* hostPID, the group, the marker and the sidecar, in front.
Patch(pod) ==
    IF pod.containers = <<>> THEN Refused
    ELSE IF IsCanonicalAkshPod(pod) THEN [pod EXCEPT !.hostPID = TRUE]
    ELSE IF "aksh" \in Names(pod) THEN Refused
    ELSE IF \E n \in canonicalVolumes \cap DOMAIN pod.volumes : pod.volumes[n] # Volume(n) THEN Refused
    ELSE [pod EXCEPT
            !.volumes = [n \in DOMAIN pod.volumes \cup canonicalVolumes |->
                            IF n \in DOMAIN pod.volumes THEN pod.volumes[n] ELSE Volume(n)],
            !.hostPID = TRUE, !.fsGroup = reservedID, !.marker = Version,
            !.containers = <<canonicalContainer>> \o @]

-----------------------------------------------------------------------------
(* Validate: "ok" or the first thing it objects to.                        *)

Apps(pod) == {pod.containers[i] : i \in {j \in DOMAIN pod.containers : pod.containers[j].name # "aksh"}}

ValidatePodLevel(pod) == ~pod.hostNetwork /\ ~pod.shareProcess /\ ~pod.automount

ValidateIstioCoexistence(pod) == ~pod.istioStatus /\ "istio-proxy" \notin Names(pod)

\* The user and the capabilities that the container itself names.
ValidateReservedIdentityAndCapabilities(c) ==
    c.uid # reservedID /\ c.caps \cap deniedNonAkshCapabilities = {}

\* Mutant of ValidateContainerSecurity: debug containers are not looked at.
ValidateContainerSecurityNoDebug(pod) ==
    /\ \A c \in Apps(pod) : ValidateReservedIdentityAndCapabilities(c) /\ c.weak = {}
    /\ \A c \in pod.init : ValidateReservedIdentityAndCapabilities(c)

ValidateContainerSecurity(pod) ==
    /\ \A c \in Apps(pod) : ValidateReservedIdentityAndCapabilities(c) /\ c.weak = {}
    /\ \A c \in pod.init \cup pod.ephemeral : ValidateReservedIdentityAndCapabilities(c)

\* The projected volumes with a token of the sidecar's audience: its own, and one
\* that differs from it in something else.
akshTokens == {"entra-token", "otherToken"}

IsAkshProjectedToken(pod, n) == n \in DOMAIN pod.volumes /\ pod.volumes[n].content \in akshTokens

CheckContainerMountLeakage(pod, c) ==
    \A m \in c.mounts :
        /\ m.vol # "entra-token" /\ ~IsAkshProjectedToken(pod, m.vol)
        /\ m.vol \notin {"ca-priv", "hostcgroup", "upstream-ca"}
        /\ m.vol = "ca-pub" => m.ro

ValidateMountLeakage(pod) ==
    \A c \in Apps(pod) \cup pod.init \cup pod.ephemeral : CheckContainerMountLeakage(pod, c)

ValidateVolumeSources(pod) == CanonicalVolumeSourcesPresent(pod)

Validate(pod) ==
    IF ~IsCanonicalAkshShape(pod) THEN "shape"
    ELSE IF ~ValidatePodLevel(pod) THEN "pod"
    ELSE IF ~ValidateIstioCoexistence(pod) THEN "istio"
    ELSE IF ~ValidateContainerSecurity(pod) THEN "security"
    ELSE IF ~ValidateMountLeakage(pod) THEN "mounts"
    ELSE IF ~ValidateVolumeSources(pod) THEN "volumes"
    ELSE "ok"

-----------------------------------------------------------------------------
(* The API server.                                                         *)

\* The fields that the API server may fill in: the type of a hostPath, the
\* default mode of a projected, configMap or downwardAPI volume, and the
\* apiVersion of a downwardAPI item's fieldRef.
Fillable(content) ==
    CASE content = "hostcgroup" -> {"type"}
      [] content \in akshTokens \cup {"upstream-ca"} -> {"mode"}
      [] content = "podinfo" -> {"mode", "apiVersion"}
      [] OTHER -> {}

\* Of these it fills in those that it knows, in every volume.
Completed(v, fields) == [v EXCEPT !.filled = v.filled \cup (Fillable(v.content) \cap fields)]
Defaulted(pod, fields) ==
    [pod EXCEPT !.volumes = [n \in DOMAIN pod.volumes |-> Completed(pod.volumes[n], fields)]]
=============================================================================
