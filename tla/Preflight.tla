------------------------------ MODULE Preflight ------------------------------
(***************************************************************************)
(* The environment gates P1 to P8 (internal/dataplane/capture/             *)
(* preflight.go), run before any kernel object exists.  An environment is  *)
(* a record of what the probes answer; a gate answers its code or "none".  *)
(***************************************************************************)
EXTENDS PodCgroup

RequiredCapabilities == {"BPF", "NET_ADMIN"}

GateP1(env) == IF env.cgo THEN "E_CGO_ENABLED" ELSE "none"

GateP2(env) == IF env.kernel >= env.floor THEN "none" ELSE "E_KERNEL_TOO_OLD"

GateP3P4(host) == IF host.local2 /\ host.host2 THEN "none" ELSE "E_NO_CGROUP2"

\* The scope assertions again, on the path the options name.
GateP5(host, pod) == IF Found(pod) \in ResolvePodCgroup(host, pod) THEN "none" ELSE "E_CGROUP_SCOPE"

\* A missing bpffs is mounted only when the deployment opted in.
GateP6(env) ==
    IF env.bpffs \/ (env.mountBPFFS /\ env.mountWorks) THEN "none" ELSE "E_NO_BPFFS"

GateP7(env) == IF RequiredCapabilities \subseteq env.caps THEN "none" ELSE "E_MISSING_CAPS"

GateP8(env) == IF env.memlock THEN "none" ELSE "E_MEMLOCK"

\* The gates in order; the first that fails is the answer.
RunEnvironmentPreflight(env, host, pod) ==
    LET gates == <<GateP1(env), GateP2(env), GateP3P4(host), GateP5(host, pod),
                   GateP6(env), GateP7(env), GateP8(env)>>
        bad   == {i \in DOMAIN gates : gates[i] # "none"}
    IN  IF bad = {} THEN "none" ELSE gates[CHOOSE i \in bad : \A j \in bad : i <= j]
=============================================================================
