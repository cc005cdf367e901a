--------------------------- MODULE TokenAcquirer ---------------------------
(***************************************************************************)
(* runtimeTokenAcquirer.Acquire (internal/runtime/token_acquirer.go): the  *)
(* identity provider behind the negative cache and the breaker, as the     *)
(* runtime composes them (internal/runtime/assembly.go: one breaker and    *)
(* one negative cache for all credentials).                                *)
(*                                                                         *)
(* A task is a goroutine that may call Acquire.  acq[t] is its call, as    *)
(* in TokenCache: "called" until the result is there.  gate[t] is the step *)
(* the call is at; each step is one critical section of the breaker or of  *)
(* the negative cache, or the exchange itself (internal/token/entra), whose*)
(* answer is any token or an error of any class.                           *)
(***************************************************************************)
EXTENDS Breaker, NegativeCache, FiniteSets

CONSTANTS Tasks, None

VARIABLES
    acq,      \* the call of each task: state, credential, result
    gate,     \* the step of Acquire each task is at
    answer,   \* the base acquirer's answer: an error class or "ok", and a token
    probing,  \* history: tasks the open breaker admitted and not yet recorded
    blamed    \* history: credentials with a transient failure recorded since
              \* the last success

gateVars == <<gate, answer, probing, blamed, breakerVars, negativeVars>>

NoAnswer == [class |-> "none", tok |-> None]

GateInit ==
    /\ BreakerInit
    /\ NegativeInit
    /\ gate = [t \in Tasks |-> "idle"]
    /\ answer = [t \in Tasks |-> NoAnswer]
    /\ probing = {}
    /\ blamed = {}
-----------------------------------------------------------------------------
\* Every error Acquire can return.
Failed == [failed |-> "acquire"]

\* Acquire returns to the task.
Return(t, tok) ==
    acq' = [acq EXCEPT ![t] = [state |-> "returned", cred |-> acq[t].cred, tok |-> tok]]

\* Negative.Get: a cached permanent failure denies before the breaker is asked.
ConsultNegative(t) ==
    LET c == acq[t].cred IN
    /\ acq[t].state = "called" /\ gate[t] = "idle"
    /\ NegativeGet(c)
    /\ \/ NegativeHit(c) /\ Return(t, Failed) /\ UNCHANGED gate
       \/ ~NegativeHit(c) /\ gate' = [gate EXCEPT ![t] = "breaker"] /\ UNCHANGED acq
    /\ UNCHANGED <<answer, probing, blamed, breakerVars>>

\* Breaker.AllowRequest: a closed breaker admits, an open one its probe; a
\* denial is not recorded.
ConsultBreaker(t) ==
    /\ gate[t] = "breaker"
    /\ \/ /\ AllowRequest
          /\ probing' = IF open THEN probing \cup {t} ELSE probing
          /\ gate' = [gate EXCEPT ![t] = "base"]
          /\ UNCHANGED acq
       \/ /\ ~Admits
          /\ gate' = [gate EXCEPT ![t] = "idle"]
          /\ Return(t, Failed)
          /\ UNCHANGED <<probing, breakerVars>>
    /\ UNCHANGED <<answer, blamed, negativeVars>>

\* The base acquirer answers with an error of some class, or with tok.
BaseAnswers(t, class, tok) ==
    /\ gate[t] = "base"
    /\ gate' = [gate EXCEPT ![t] = "record"]
    /\ answer' = [answer EXCEPT ![t] = [class |-> class,
                                       tok |-> IF class = "ok" THEN tok ELSE Failed]]
    /\ UNCHANGED <<acq, probing, blamed, breakerVars, negativeVars>>

\* Breaker.RecordSuccess or RecordFailure; only a permanent failure goes on to
\* the negative cache.
RecordAnswer(t) ==
    LET class == answer[t].class IN
    /\ gate[t] = "record"
    /\ probing' = probing \ {t}
    /\ \/ class = "ok" /\ RecordSuccess /\ blamed' = {}
       \/ /\ class # "ok"
          /\ RecordFailure(class)
          /\ blamed' = IF class = "transient" THEN blamed \cup {acq[t].cred} ELSE blamed
    /\ \/ class = "permanent" /\ gate' = [gate EXCEPT ![t] = "put"] /\ UNCHANGED <<acq, answer>>
       \/ /\ class # "permanent"
          /\ gate' = [gate EXCEPT ![t] = "idle"]
          /\ answer' = [answer EXCEPT ![t] = NoAnswer]
          /\ Return(t, answer[t].tok)
    /\ UNCHANGED negativeVars

\* Mutant of RecordNegative: the error is shadowed and the zero token returned.
RecordNegativeShadowed(t) ==
    /\ gate[t] = "put"
    /\ NegativePut(acq[t].cred)
    /\ gate' = [gate EXCEPT ![t] = "idle"]
    /\ answer' = [answer EXCEPT ![t] = NoAnswer]
    /\ Return(t, None)
    /\ UNCHANGED <<probing, blamed, breakerVars>>

\* Negative.Put, before the call returns to the cache and its waiters.
RecordNegative(t) ==
    /\ gate[t] = "put"
    /\ NegativePut(acq[t].cred)
    /\ gate' = [gate EXCEPT ![t] = "idle"]
    /\ answer' = [answer EXCEPT ![t] = NoAnswer]
    /\ Return(t, Failed)
    /\ UNCHANGED <<probing, blamed, breakerVars>>

GateTick == BreakerTick /\ NegativeTick /\ UNCHANGED <<gate, answer, probing, blamed>>

\* The steps of one call; Tokens(c) are the tokens the provider may issue for c.
AcquireStep(t, Tokens(_)) ==
    \/ ConsultNegative(t)
    \/ ConsultBreaker(t)
    \/ \E class \in Classes, tok \in {Failed} : BaseAnswers(t, class, tok)
    \/ \E tok \in Tokens(acq[t].cred) : BaseAnswers(t, "ok", tok)
    \/ RecordAnswer(t)
    \/ RecordNegative(t)
-----------------------------------------------------------------------------
(***************************************************************************)
(* The acquirer on its own: any task may call it for any credential.       *)
(***************************************************************************)
vars == <<acq, gateVars>>

Init == GateInit /\ acq = [t \in Tasks |-> [state |-> "idle", cred |-> None, tok |-> None]]

Call(t, c) ==
    /\ acq[t].state = "idle"
    /\ acq' = [acq EXCEPT ![t] = [state |-> "called", cred |-> c, tok |-> None]]
    /\ UNCHANGED gateVars

Collect(t) ==
    /\ acq[t].state = "returned"
    /\ acq' = [acq EXCEPT ![t] = [state |-> "idle", cred |-> None, tok |-> None]]
    /\ UNCHANGED gateVars

\* On its own the acquirer does not look into a token.
IssuedFor(c) == {[cred |-> c]}

Result == [cred : Creds] \cup {Failed, None}

Next ==
    \/ \E t \in Tasks, c \in Creds : Call(t, c)
    \/ \E t \in Tasks : AcquireStep(t, IssuedFor) \/ Collect(t)
    \/ GateTick /\ UNCHANGED acq

Spec == Init /\ [][Next]_vars

\* The code runs, the exchange answers or times out (entra's HTTP client has a
\* timeout), the clock advances.  Nobody has to call.
FairSpec ==
    /\ Spec
    /\ \A t \in Tasks : WF_vars(AcquireStep(t, IssuedFor)) /\ WF_vars(Collect(t))
    /\ WF_vars(GateTick /\ UNCHANGED acq)
-----------------------------------------------------------------------------
TypeOK ==
    /\ BreakerType
    /\ NegativeType
    /\ acq \in [Tasks -> [state : {"idle", "called", "returned"},
                          cred : Creds \cup {None}, tok : Result]]
    /\ gate \in [Tasks -> {"idle", "breaker", "base", "record", "put"}]
    /\ answer \in [Tasks -> [class : Classes \cup {"ok", "none"}, tok : Result]]
    /\ probing \subseteq Tasks
    /\ blamed \subseteq Creds

\* The probe reservation is never leaked: while it is held, a probe admitted by
\* the open breaker is still on its way to RecordSuccess or RecordFailure.
\* Otherwise AllowRequest would refuse every call from then on.
ProbeOut == probeInFlight => open /\ probing # {}

\* The breaker describes the provider's health only: it is open only after a
\* transient failure of some credential, never because of permanent or local
\* errors, cached ones, or its own denials.
OnlyTransientOpens == open => blamed # {}

\* The negative cache stays within its bound, with one element per credential
\* (Put's eviction, removeElement).
NegativeBounded == Distinct(negOrder) /\ Len(negOrder) <= NegMaxEntries

\* A call inside the gates is still pending, for one of the credentials.
GateInv ==
    /\ \A t \in Tasks : gate[t] # "idle" => acq[t].state = "called"
    /\ \A t \in Tasks : acq[t].state = "called" => acq[t].cred \in Creds
    /\ \A t \in Tasks : gate[t] = "record" => answer[t].class # "none"

\* The inductive invariant of the gates.
IInv == TypeOK /\ GateInv /\ NegativeBounded /\ ProbeOut /\ OnlyTransientOpens

\* A cached permanent failure lapses although callers keep asking for it: a
\* hit refreshes the entry's recency but not its expiry, so a fix of the
\* configuration is eventually tried again.
NegativeLapses ==
    NegTTL > 0 => \A c \in Creds : NegativeHit(c) ~> ~NegativeHit(c)

\* The breaker lets the proxy recover: once the provider answers every
\* exchange, and callers keep reaching the breaker, it closes for good,
\* whatever happened before.
BreakerRecovers ==
    /\ <>[](\A t \in Tasks : answer[t].class \in {"ok", "none"})
    /\ []<>(\E t \in Tasks : gate[t] = "breaker")
    => <>[]~open

\* docs/design/S3-token-broker.md, section 5.1: while open, "a single probe is
\* allowed every 30 s".  It does not hold: any completed attempt, also one
\* admitted before the breaker opened, releases the reservation.
SingleProbe == Cardinality(probing) <= 1

\* docs/design/S3-token-broker.md, section 5: "Denial is per-credential, never
\* global. An outage affecting one resource must not deny requests to another."
\* It does not hold: the runtime shares one breaker between all credentials.
DenialPerCredential ==
    \A t \in Tasks : gate[t] = "breaker" /\ ~Admits => acq[t].cred \in blamed
=============================================================================
