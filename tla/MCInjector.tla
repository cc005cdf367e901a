----------------------------- MODULE MCInjector -----------------------------
EXTENDS Injector

\* A container that says nothing of its user, like most, and one that does.
C(name) == [name |-> name, uid |-> None, caps |-> {}, weak |-> {}, mounts |-> {}, drift |-> {}]
App == [C("app") EXCEPT !.uid = 1000, !.mounts = {[vol |-> "ca-pub", ro |-> TRUE]}]
Base ==
    [containers |-> <<App, C("helper")>>, init |-> {}, ephemeral |-> {}, volumes |-> <<>>, hostPID |-> FALSE,
     hostNetwork |-> FALSE, shareProcess |-> FALSE, automount |-> FALSE, istioStatus |-> FALSE,
     marker |-> None, fsGroup |-> 0]

MCPods ==
    {Base, [Base EXCEPT !.containers = <<>>], [Base EXCEPT !.containers = <<App, C("aksh")>>],
     [Base EXCEPT !.volumes = [n \in {"ca-pub"} |-> Volume("ca-pub")],
                  !.init = {[C("setup") EXCEPT !.weak = {"privileged"}]}],
     [Base EXCEPT !.volumes = [n \in {"ca-pub"} |-> Volume("other")]],
     [Base EXCEPT !.volumes = [n \in {"upstream-ca"} |-> Volume("upstream-ca")]],
     [Base EXCEPT !.hostNetwork = TRUE],
     [Base EXCEPT !.volumes = [n \in {"mine"} |-> Volume("otherToken")],
                  !.init = {[C("setup") EXCEPT !.mounts = {[vol |-> "mine", ro |-> TRUE]}]}],
     [Base EXCEPT !.containers = <<[App EXCEPT !.weak = {"privileged"}]>>]}

MCChanges(pod) ==
    {[pod EXCEPT !.containers = Append(@, C("istio-proxy"))],
     [pod EXCEPT !.containers = <<C("logger")>> \o @],
     [pod EXCEPT !.containers[1].drift = {"env"}],
     [pod EXCEPT !.containers[1].drift = {"configSourcedEnv", "extraEnv"}],
     [pod EXCEPT !.volumes = [n \in DOMAIN @ |-> IF n = "ca-priv" THEN Volume("other") ELSE @[n]]]}

MCDebug ==
    {C("debug"), [C("debug") EXCEPT !.uid = 1774], [C("debug") EXCEPT !.caps = {"SYS_PTRACE"}],
     [C("debug") EXCEPT !.mounts = {[vol |-> "entra-token", ro |-> TRUE]}]}

\* The API server that the repository's tests imitate, and Kubernetes.
Imitated == {"type", "mode"}
MCServers == {Imitated, Imitated \cup {"apiVersion"}}

\* Replicas that replace one another; two replicas, an outage and a reapplied
\* manifest; two, and a certificate that expires; a pod whose webhooks are
\* served by different replicas; one during whose admission the certificate
\* expires.  And, for both servers, three admissions in a row.
MCBudgets(fields) ==
    {[starts |-> 1, expiries |-> 0, outages |-> 0, edits |-> 0, pods |-> 3]} \cup
    IF fields # Imitated THEN {}
    ELSE {[starts |-> 3, expiries |-> 0, outages |-> 0, edits |-> 0, pods |-> 0],
          [starts |-> 2, expiries |-> 0, outages |-> 1, edits |-> 1, pods |-> 0],
          [starts |-> 2, expiries |-> 1, outages |-> 0, edits |-> 0, pods |-> 0],
          [starts |-> 2, expiries |-> 0, outages |-> 0, edits |-> 0, pods |-> 1],
          [starts |-> 1, expiries |-> 1, outages |-> 0, edits |-> 0, pods |-> 1]}
=============================================================================
