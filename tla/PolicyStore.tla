----------------------------- MODULE PolicyStore -----------------------------
(***************************************************************************)
(* watch.Store (internal/policy/watch/store.go): the current policy        *)
(* snapshot and its publication time, published together as one cell.      *)
(* Readers take both with one atomic load.  A snapshot is its version; the *)
(* publication time is kept as an age that saturates at the staleness      *)
(* bound.  Go's clock reading is monotonic, so an age is never negative.   *)
(***************************************************************************)
EXTENDS Integers

CONSTANTS
    Versions,      \* the snapshots the watcher may publish
    MaxStaleness,  \* the age at which a snapshot denies everything
    None

ASSUME StalenessAssumption == MaxStaleness \in Nat \ {0}

VARIABLES snap, age

storeVars == <<snap, age>>

StoreInit == snap = None /\ age = 0

\* Swap publishes a snapshot and its time in one store.
Swap(v) == snap' = v /\ age' = 0

\* Mutant of StoreTick: the age is not bounded.
StoreTickUnbounded == age' = age + 1 /\ UNCHANGED snap

\* Time passes for the published cell.
StoreTick ==
    /\ age' = IF snap = None \/ age = MaxStaleness THEN age ELSE age + 1
    /\ UNCHANGED snap

\* The gate of Fresh and of MatchStage: the bound itself is stale.
Stale == age < 0 \/ age >= MaxStaleness

StoreType == snap \in Versions \cup {None} /\ age \in 0 .. MaxStaleness
=============================================================================
