----------------------------- MODULE Enforcement -----------------------------
(***************************************************************************)
(* What the enforcement pipeline promises for each request, without its    *)
(* stages: one verdict is entered in the audit trail; only an allow that   *)
(* is already there lets a credential onto the request; the caller is told *)
(* allow only for such a verdict.                                          *)
(***************************************************************************)
CONSTANTS Requests, Creds, None

VARIABLES
    verdict,  \* the verdict of the request in the audit trail
    carried,  \* the credential of the proxy on the request
    outcome   \* what Execute returned

vars == <<verdict, carried, outcome>>

Init ==
    /\ verdict = [r \in Requests |-> "none"]
    /\ carried = [r \in Requests |-> None]
    /\ outcome = [r \in Requests |-> "none"]

\* An allow is entered in the audit trail before anything follows from it.
Admit(r) ==
    /\ verdict[r] = "none" /\ outcome[r] = "none"
    /\ verdict' = [verdict EXCEPT ![r] = "allow"]
    /\ UNCHANGED <<carried, outcome>>

\* The request is refused: with its denial in the trail, or without any entry
\* when the trail cannot be written.
Refuse(r) ==
    /\ verdict[r] = "none" /\ outcome[r] = "none"
    /\ outcome' = [outcome EXCEPT ![r] = "deny"]
    /\ \/ verdict' = [verdict EXCEPT ![r] = "deny"]
       \/ UNCHANGED verdict
    /\ UNCHANGED carried

\* An admitted request leaves the pipeline, with a credential or without one.
\* It may still be refused, if what follows the record fails.
Release(r, c, o) ==
    /\ verdict[r] = "allow" /\ outcome[r] = "none"
    /\ carried' = [carried EXCEPT ![r] = c]
    /\ outcome' = [outcome EXCEPT ![r] = o]
    /\ UNCHANGED verdict

Next ==
    \E r \in Requests :
        \/ Admit(r)
        \/ Refuse(r)
        \/ \E c \in Creds \cup {None}, o \in {"allow", "deny"} : Release(r, c, o)

Spec == Init /\ [][Next]_vars
=============================================================================
