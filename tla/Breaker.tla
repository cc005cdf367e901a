------------------------------ MODULE Breaker ------------------------------
(***************************************************************************)
(* The acquisition circuit breaker (internal/token/breaker.go).  Each      *)
(* operation holds the breaker's mutex throughout, so it is one action.    *)
(*                                                                         *)
(* Two fields are kept only as far as the code can tell them apart:        *)
(* failures counts up to Threshold, and lastFailure is the age of the last *)
(* transient failure, up to ProbeInterval.                                 *)
(***************************************************************************)
EXTENDS Naturals

CONSTANTS
    Threshold,     \* consecutive transient failures that open the breaker
    ProbeInterval  \* clock units between a failure and the next probe

\* NewBreaker raises a threshold below 1 to 1 and a negative interval to 0.
ASSUME BreakerAssumption == Threshold \in Nat \ {0} /\ ProbeInterval \in Nat

VARIABLES failures, open, sinceFailure, probeInFlight

breakerVars == <<failures, open, sinceFailure, probeInFlight>>

Classes == {"transient", "permanent", "local"}

BreakerType ==
    /\ failures \in 0 .. Threshold
    /\ open \in BOOLEAN
    /\ sinceFailure \in 0 .. ProbeInterval
    /\ probeInFlight \in BOOLEAN

BreakerInit ==
    /\ failures = 0
    /\ open = FALSE
    /\ sinceFailure = ProbeInterval
    /\ probeInFlight = FALSE

\* What AllowRequest returns.
Admits == ~open \/ (~probeInFlight /\ sinceFailure >= ProbeInterval)

\* AllowRequest returning true; while open it reserves the probe.
AllowRequest ==
    /\ Admits
    /\ probeInFlight' = (probeInFlight \/ open)
    /\ UNCHANGED <<failures, open, sinceFailure>>

\* Mutant of RecordFailure: a probe that fails for a reason other than the
\* provider's health keeps its reservation.
RecordFailureHolding(class) ==
    IF class # "transient" THEN UNCHANGED breakerVars
    ELSE /\ failures' = IF failures < Threshold THEN failures + 1 ELSE failures
         /\ open' = (open \/ failures' >= Threshold)
         /\ sinceFailure' = 0
         /\ probeInFlight' = FALSE

\* Mutant of RecordFailure: every class counts towards opening.
RecordFailureAnyClass(class) ==
    /\ failures' = IF failures < Threshold THEN failures + 1 ELSE failures
    /\ open' = (open \/ failures' >= Threshold)
    /\ sinceFailure' = 0
    /\ probeInFlight' = FALSE

\* RecordFailure: any completed attempt releases the probe, a transient one
\* counts.
RecordFailure(class) ==
    /\ probeInFlight' = FALSE
    /\ \/ class # "transient" /\ UNCHANGED <<failures, open, sinceFailure>>
       \/ /\ class = "transient"
          /\ failures' = IF failures < Threshold THEN failures + 1 ELSE failures
          /\ open' = (open \/ failures' >= Threshold)
          /\ sinceFailure' = 0

\* Mutant of RecordSuccess: a success takes one failure off the count.
RecordSuccessDecrementing ==
    /\ failures' = failures - 1
    /\ open' = FALSE
    /\ sinceFailure' = ProbeInterval
    /\ probeInFlight' = FALSE

\* RecordSuccess: back to the initial state.
RecordSuccess ==
    /\ failures' = 0
    /\ open' = FALSE
    /\ sinceFailure' = ProbeInterval
    /\ probeInFlight' = FALSE

\* Time passes.
BreakerTick ==
    /\ sinceFailure' = IF sinceFailure < ProbeInterval THEN sinceFailure + 1 ELSE sinceFailure
    /\ UNCHANGED <<failures, open, probeInFlight>>
=============================================================================
