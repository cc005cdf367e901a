------------------------------ MODULE Injector ------------------------------
(***************************************************************************)
(* The admission webhook (cmd/aksh-injector, internal/injector): the life  *)
(* of its replicas, each with a CA of its own, the reconciliation of the   *)
(* caBundle of the two webhook configurations, the readiness probe, and    *)
(* the admission of a pod through both webhooks.                           *)
(*                                                                         *)
(* A webhook configuration is its caBundle; a replica remembers whether    *)
(* the copy it read is still the current one, which is what the resource   *)
(* version tells an Update.  CA 0 is the operator's, in the certificate    *)
(* directory; a replica that makes its own takes a number of its own.      *)
(***************************************************************************)
EXTENDS InjectedPod

CONSTANTS
    Replicas, None,
    CertDirs,       \* what the certificate directory may hold
    Servers,        \* the fields of a volume that an API server may fill in
    Pods,           \* the pods submitted
    Changes(_),     \* what other webhooks may make of a pod
    Debug,          \* the debug containers added to a running pod
    MaxTries,       \* the attempts of RetryOnConflict
    Budgets(_)      \* how many starts, expiries, outages, reapplied manifests and pods

ASSUME InjectorAssumption ==
    /\ \A pod \in Pods : WellFormed(pod)
    /\ \A fields \in Servers : fields \subseteq {"type", "mode", "apiVersion"}

VARIABLES certDir, replica, bundle, ready, probe, api, server, left, req, running

hooks == <<bundle, api, server, certDir>>
vars == <<hooks, replica, ready, probe, left, req, running>>

Configurations == {"mutating", "validating"}
Down ==
    [pc |-> "down", ca |-> None, expired |-> FALSE, cfg |-> "mutating", current |-> FALSE, tries |-> 0,
     first |-> TRUE]
Idle == [stage |-> "idle", pod |-> None, orig |-> None, touched |-> FALSE, again |-> FALSE]

Init ==
    /\ certDir \in CertDirs
    /\ replica = [r \in Replicas |-> Down]
    /\ bundle = [c \in Configurations |-> None]
    /\ ready = {} /\ probe = [r \in Replicas |-> FALSE]
    /\ api = TRUE /\ server \in Servers
    /\ left \in Budgets(server)
    /\ req = Idle /\ running = None

Spend(what) == left[what] > 0 /\ left' = [left EXCEPT ![what] = @ - 1]
Serving(r) == replica[r].pc # "down" /\ ~replica[r].first
Set(r, new) == replica' = [replica EXCEPT ![r] = new]

-----------------------------------------------------------------------------
(* The process.                                                            *)

\* The operator's CA, once the serving certificate was verified against it.
LoadPKI(r) == Set(r, [Down EXCEPT !.pc = "get", !.ca = 0])

\* A CA that no other start of a replica has.
GeneratePKI(r) == Set(r, [Down EXCEPT !.pc = "get", !.ca = left.starts])

\* main: the PKI comes from the certificate directory if it is complete and
\* valid, is generated if the directory is empty, and otherwise the process
\* ends.
BootstrapPKI(r) ==
    /\ replica[r].pc = "down" /\ Spend("starts")
    /\ \/ certDir = "good" /\ LoadPKI(r)
       \/ certDir = "empty" /\ GeneratePKI(r)
       \/ certDir \in {"partial", "invalid"} /\ UNCHANGED replica
    /\ UNCHANGED <<hooks, ready, probe, req, running>>

\* A signal, a crash or the end of the node: nothing of the replica is left.
Ends(r) ==
    /\ Set(r, Down) /\ ready' = ready \ {r} /\ probe' = [probe EXCEPT ![r] = FALSE]

Stop(r) == replica[r].pc # "down" /\ Ends(r) /\ UNCHANGED <<hooks, left, req, running>>

\* The serving certificate of a replica comes to its end, for all replicas that
\* serve the operator's at once; no code renews it, and loadPKI refuses it.
Expire(r) ==
    /\ replica[r].pc # "down" /\ ~replica[r].expired /\ Spend("expiries")
    /\ replica' = [q \in Replicas |->
                     IF q = r \/ (replica[q].ca = 0 /\ replica[r].ca = 0)
                     THEN [replica[q] EXCEPT !.expired = TRUE] ELSE replica[q]]
    /\ certDir' = IF replica[r].ca = 0 THEN "invalid" ELSE certDir
    /\ UNCHANGED <<bundle, api, server, ready, probe, req, running>>

\* The next configuration, or the end of reconcile: after main's first call the
\* replica serves, and RunCABundleReconciliation starts with one of its own.
Reconciled(r) ==
    IF replica[r].cfg = "mutating"
    THEN [replica[r] EXCEPT !.pc = "get", !.cfg = "validating", !.current = FALSE, !.tries = 0]
    ELSE [replica[r] EXCEPT !.pc = IF replica[r].first THEN "get" ELSE "idle", !.cfg = "mutating",
                            !.current = FALSE, !.tries = 0, !.first = FALSE]

\* Get, and compare.
ReconcileGet(r) ==
    /\ replica[r].pc = "get" /\ api
    /\ IF bundle[replica[r].cfg] = replica[r].ca THEN Set(r, Reconciled(r))
       ELSE Set(r, [replica[r] EXCEPT !.pc = "update", !.current = TRUE])
    /\ UNCHANGED <<hooks, ready, probe, left, req, running>>

\* A write to a configuration makes every copy of it out of date.
Outdated(c, reps) ==
    [r \in Replicas |-> IF reps[r].cfg = c THEN [reps[r] EXCEPT !.current = FALSE] ELSE reps[r]]

\* An error of the API server or one conflict too many: fatal before serving,
\* logged and left to the next tick after.
ReconcileError(r) ==
    IF replica[r].first THEN Ends(r)
    ELSE /\ Set(r, [replica[r] EXCEPT !.pc = "idle", !.cfg = "mutating", !.current = FALSE, !.tries = 0])
         /\ UNCHANGED <<ready, probe>>

ReconcileUpdate(r) ==
    /\ replica[r].pc = "update" /\ api /\ replica[r].current
    /\ bundle' = [bundle EXCEPT ![replica[r].cfg] = replica[r].ca]
    /\ replica' = [Outdated(replica[r].cfg, replica) EXCEPT ![r] = Reconciled(r)]
    /\ UNCHANGED <<api, server, certDir, ready, probe, left, req, running>>

ReconcileConflict(r) ==
    /\ replica[r].pc = "update" /\ api /\ ~replica[r].current
    /\ IF replica[r].tries + 1 < MaxTries
       THEN /\ Set(r, [replica[r] EXCEPT !.pc = "get", !.tries = @ + 1])
            /\ UNCHANGED <<ready, probe>>
       ELSE ReconcileError(r)
    /\ UNCHANGED <<hooks, left, req, running>>

ReconcileFails(r) ==
    /\ replica[r].pc \in {"get", "update"} /\ ~api
    /\ ReconcileError(r)
    /\ UNCHANGED <<hooks, left, req, running>>

\* Mutant of Tick: only a replica that is ready reconciles again.
TickIfReady(r) ==
    /\ replica[r].pc = "idle" /\ r \in ready
    /\ Set(r, [replica[r] EXCEPT !.pc = "get"])
    /\ UNCHANGED <<hooks, ready, probe, left, req, running>>

Tick(r) ==
    /\ replica[r].pc = "idle"
    /\ Set(r, [replica[r] EXCEPT !.pc = "get"])
    /\ UNCHANGED <<hooks, ready, probe, left, req, running>>

\* /readyz: first the certificate and the mutating configuration, then the
\* validating one.
ReadyMutating(r) ==
    /\ Serving(r) /\ ~probe[r]
    /\ IF ~replica[r].expired /\ api /\ bundle["mutating"] = replica[r].ca
       THEN probe' = [probe EXCEPT ![r] = TRUE] /\ UNCHANGED ready
       ELSE ready' = ready \ {r} /\ UNCHANGED probe
    /\ UNCHANGED <<hooks, replica, left, req, running>>

ReadyValidating(r) ==
    /\ Serving(r) /\ probe[r]
    /\ probe' = [probe EXCEPT ![r] = FALSE]
    /\ ready' = IF api /\ bundle["validating"] = replica[r].ca THEN ready \cup {r} ELSE ready \ {r}
    /\ UNCHANGED <<hooks, replica, left, req, running>>

-----------------------------------------------------------------------------
(* The API server and its operators.                                       *)

Outage ==
    /\ api /\ Spend("outages")
    /\ api' = FALSE
    /\ UNCHANGED <<bundle, server, certDir, replica, ready, probe, req, running>>

Recover ==
    /\ ~api
    /\ api' = TRUE
    /\ UNCHANGED <<bundle, server, certDir, replica, ready, probe, left, req, running>>

\* The manifests are applied again, without a caBundle.
Reapply(c) ==
    /\ api /\ Spend("edits")
    /\ bundle' = [bundle EXCEPT ![c] = None]
    /\ replica' = Outdated(c, replica)
    /\ UNCHANGED <<api, server, certDir, ready, probe, req, running>>

-----------------------------------------------------------------------------
(* Admission: the mutating webhook, the others, and the validating one.    *)

\* The API server fills in its defaults before the webhooks see the pod.
Submit(pod) ==
    /\ req.stage = "idle" /\ api /\ Spend("pods")
    /\ LET new == Defaulted(pod, server)
       IN  req' = [stage |-> "mutate", pod |-> new, orig |-> new, touched |-> FALSE, again |-> FALSE]
    /\ UNCHANGED <<hooks, replica, ready, probe, running>>

\* A pod created again from what the API server stored, defaults included.
Resubmit ==
    /\ req.stage = "idle" /\ running # None /\ api /\ Spend("pods")
    /\ req' = [stage |-> "mutate", pod |-> running, orig |-> running, touched |-> FALSE, again |-> TRUE]
    /\ UNCHANGED <<hooks, replica, ready, probe, running>>

\* The connection the API server makes to a ready replica is trusted.
Trusted(c) == \E r \in ready : bundle[c] = replica[r].ca /\ ~replica[r].expired

\* No replica, one that is not trusted, or a fault in the handler: both
\* configurations say failurePolicy Fail.
HookFails ==
    /\ req.stage \in {"mutate", "validate", "update"}
    /\ req' = Idle
    /\ UNCHANGED <<hooks, replica, ready, probe, left, running>>

HandleMutate ==
    /\ req.stage = "mutate" /\ Trusted("mutating")
    /\ req' = IF Patch(req.pod) = Refused THEN Idle
              ELSE [req EXCEPT !.stage = "patched", !.pod = Patch(req.pod)]
    /\ UNCHANGED <<hooks, replica, ready, probe, left, running>>

\* The other mutating webhooks, and the defaults.
OtherWebhooks ==
    /\ req.stage = "patched"
    /\ \E pod \in {req.pod} \cup Changes(req.pod) :
        req' = [req EXCEPT !.stage = "validate", !.pod = Defaulted(pod, server), !.touched = pod # req.pod]
    /\ UNCHANGED <<hooks, replica, ready, probe, left, running>>

AddDebugContainer(c) ==
    /\ req.stage = "idle" /\ running # None /\ running.ephemeral = {} /\ Spend("pods")
    /\ req' = [stage |-> "update", pod |-> [running EXCEPT !.ephemeral = {c}], orig |-> running,
               touched |-> TRUE, again |-> FALSE]
    /\ UNCHANGED <<hooks, replica, ready, probe, running>>

HandleValidate ==
    /\ req.stage \in {"validate", "update"} /\ Trusted("validating")
    /\ IF Validate(req.pod) = "ok" THEN running' = req.pod /\ req' = Idle
       ELSE UNCHANGED running /\ req' = [req EXCEPT !.stage = "denied"]
    /\ UNCHANGED <<hooks, replica, ready, probe, left>>

Denied ==
    /\ req.stage = "denied"
    /\ req' = Idle
    /\ UNCHANGED <<hooks, replica, ready, probe, left, running>>

-----------------------------------------------------------------------------
Reconcile(r) ==
    ReconcileGet(r) \/ ReconcileUpdate(r) \/ ReconcileConflict(r) \/ ReconcileFails(r)

Admission ==
    \/ \E pod \in Pods : Submit(pod)
    \/ Resubmit
    \/ HandleMutate \/ OtherWebhooks \/ HandleValidate \/ HookFails \/ Denied
    \/ \E c \in Debug : AddDebugContainer(c)

\* Every replica is down for good.
Over ==
    /\ left.starts = 0 /\ \A r \in Replicas : replica[r].pc = "down"
    /\ UNCHANGED vars

Next ==
    \/ \E r \in Replicas : BootstrapPKI(r) \/ Stop(r) \/ Expire(r) \/ Reconcile(r) \/ Tick(r)
                           \/ ReadyMutating(r) \/ ReadyValidating(r)
    \/ Outage \/ Recover
    \/ \E c \in Configurations : Reapply(c)
    \/ Admission
    \/ Over

Spec == Init /\ [][Next]_vars

\* A replica runs, its ticker ticks and its probe is called; the API server
\* comes back.
FairSpec ==
    /\ Spec
    /\ WF_vars(Recover)
    /\ \A r \in Replicas : WF_vars(Reconcile(r)) /\ WF_vars(Tick(r))
                          /\ WF_vars(ReadyMutating(r)) /\ WF_vars(ReadyValidating(r))

-----------------------------------------------------------------------------
(* Properties.                                                             *)

Others(pod) == Apps(pod) \cup pod.init \cup pod.ephemeral

\* Every pod that runs in an injected namespace, whatever other webhooks did
\* after the injector's patch and whatever debug containers were added since:
\* the sidecar is there once, first, and in all that Validate compares as the
\* injector writes it, with its volumes; no other container, of any of the
\* three lists, asks for its user or names one of its capabilities, mounts one
\* of its private volumes, or mounts a token of its audience under any name.
\* This is about what the manifest says and not about what a container can do:
\* see UserDeclared, NothingAdded and ShapeExact.
RunningGuarded ==
    running # None =>
        /\ running.containers[1].name = "aksh" /\ running.containers[1].drift \cap comparedParts = {}
        /\ \A i \in 2 .. Len(running.containers) : running.containers[i].name # "aksh"
        /\ \A n \in canonicalVolumes : running.volumes[n].content = n
        /\ ~running.hostNetwork /\ ~running.shareProcess
        /\ \A c \in Others(running) :
            /\ c.uid # reservedID /\ c.caps \cap canonicalCapabilities = {}
            /\ \A m \in c.mounts :
                /\ m.vol \notin {"ca-priv", "hostcgroup"}
                /\ m.vol \in DOMAIN running.volumes => running.volumes[m.vol].content \notin akshTokens

\* Statement of docs/design/S5-injection-pki (:192, "Every non-Aksh container
\* declares an explicit `runAsUser`"; :159) that does not hold: Patch sets no
\* user and Validate does not ask for one, so that the pod's or the image's is
\* what counts.
UserDeclared == running # None => \A c \in Others(running) : c.uid # None

\* Statement of S5 (:195, every other container sets `privileged: false` "and an
\* empty `capabilities.add`") that does not hold: only names of a list are
\* refused, and a privileged container only among the containers proper.
NothingAdded == running # None => \A c \in Others(running) : c.caps = {} /\ "privileged" \notin c.weak

\* Statement of S5 (:194, "match the canonical shape exactly") that does not
\* hold: parts of the sidecar are not compared, its further variables with them.
ShapeExact == running # None => running.containers[1].drift \subseteq {"configSourcedEnv"}

\* What Validate objects to in the pod as its author submitted it, the sidecar
\* left aside.
OwnFault(pod) ==
    \/ ~ValidatePodLevel(pod) \/ ~ValidateIstioCoexistence(pod)
    \/ ~ValidateContainerSecurity(pod) \/ ~ValidateMountLeakage(pod)

\* The two webhooks agree: when the API server fills in no more than
\* volumeSourceEquivalent passes over, a pod that the injector patched and no
\* one else changed is denied only for what its author wrote; when it fills in
\* more, no pod ever runs; and a pod that was admitted once is left as it is
\* when it is submitted again.
WebhooksAgree ==
    /\ (req.stage = "denied" /\ ~req.touched /\ server \subseteq toleratedDefaults) => OwnFault(req.orig)
    /\ ~(server \subseteq toleratedDefaults) => running = None
    /\ (req.stage = "patched" /\ req.again) => req.pod = req.orig

\* Statement of internal/injector/canonical_defaulting_test.go (:38-39, "the
\* validating webhook accepts a pod the mutating webhook produced once the API
\* server has defaulted its volume sources") that does not hold of a server that
\* also fills in the apiVersion of the fieldRef in podinfo, as Kubernetes does:
\* the items of a downwardAPI volume are compared whole (canonical.go:96).
DefaultsAccepted == (req.stage = "denied" /\ ~req.touched) => OwnFault(req.orig)

\* Nothing that the API server fills in is missing.
Complete(pod, fields) ==
    \A n \in DOMAIN pod.volumes : Fillable(pod.volumes[n].content) \cap fields \subseteq pod.volumes[n].filled

\* Why: a pod that runs passed the validating webhook with its defaults, and a
\* request that is under way is what the injector made of the pod submitted.
AdmissionInv ==
    /\ DOMAIN req = {"stage", "pod", "orig", "touched", "again"}
    /\ server \in Servers
    /\ running # None =>
          WellFormed(running) /\ Complete(running, server) /\ running.hostPID = TRUE /\ Validate(running) = "ok"
    /\ req.stage # "idle" => WellFormed(req.orig) /\ WellFormed(req.pod)
    /\ req.stage = "mutate" => req.pod = req.orig /\ ~req.touched
    /\ req.stage \in {"mutate", "patched"} /\ req.again =>
          req.orig.hostPID = TRUE /\ Validate(req.orig) = "ok"
    /\ req.stage = "patched" => req.pod = Patch(req.orig) /\ req.pod # Refused
    /\ req.stage \in {"patched", "validate", "update"} => req.pod.hostPID = TRUE
    /\ req.stage \in {"validate", "update"} => Complete(req.pod, server)
    /\ req.stage \in {"validate", "denied"} /\ ~req.touched =>
          Patch(req.orig) # Refused /\ req.pod = Defaulted(Patch(req.orig), server)
    /\ req.stage = "denied" => Validate(req.pod) # "ok"
    /\ req.stage = "update" => req.touched

Alone(r) == Serving(r) /\ \A q \in Replicas \ {r} : replica[q].pc = "down"

\* Once a single replica stays, both webhook configurations come to carry its
\* CA for good, whatever other replicas with other CAs wrote before they
\* stopped, and whatever conflicts, outages and reapplied manifests its
\* reconciliation met; and it is ready for good, or, once its certificate has
\* expired, for good not ready.
BundlesSettle ==
    \A r \in Replicas :
        <>[]Alone(r) =>
            <>[](/\ \A c \in Configurations : bundle[c] = replica[r].ca
                 /\ r \in ready <=> ~replica[r].expired)
=============================================================================
