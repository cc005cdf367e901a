---------------------------- MODULE CaptureLoader ----------------------------
(***************************************************************************)
(* Loading and attaching the capture programs (loader_linux.go) and the    *)
(* handle that owns them (handle_linux.go), in internal/dataplane/capture. *)
(* LoadAndAttach runs on the goroutine of run(); the health loop is a      *)
(* goroutine of its own.  What the process holds dies with it; a pin in    *)
(* the BPF filesystem does not.                                            *)
(***************************************************************************)
EXTENDS Naturals

CONSTANTS
    NumLinks,          \* the programs of attachSpecs
    InconclusiveLimit  \* consecutive inconclusive checks that count as a loss

ASSUME NumLinksAssumption == NumLinks \in Nat \ {0}

VARIABLES
    pinLinks,    \* Options.PinLinks, fixed for the pod
    lpc,         \* where LoadAndAttach is
    reserved,    \* loadedSet holds these options
    coll,        \* the collection of maps and programs is open
    config,      \* the map aksh_config: "empty", "written", "frozen"
    bypass,      \* the map bypass_cidr4
    links,       \* how many links the process holds
    pins,        \* how many objects are pinned in the BPF filesystem
    myPins,      \* how many of them this process pinned (l.pinPaths)
    detached,    \* the kernel no longer runs the programs
    health,      \* the health loop: "off", "on", "deliver" (callback due), "ended"
    inconclusive,
    lost,        \* the loss latch
    onLoss,      \* a callback is registered
    fired        \* callbackFired

loaderVars == <<pinLinks, lpc, reserved, coll, config, bypass, links, pins, myPins,
                detached, health, inconclusive, lost, onLoss, fired>>
lossVars == <<detached, health, inconclusive, lost, onLoss, fired>>
buildVars == <<pinLinks, reserved, coll, config, bypass, links, pins, myPins>>

\* What a process starts with; the pins of an earlier one are still there.
LoaderFresh ==
    /\ pinLinks' = pinLinks
    /\ lpc' = "off" /\ reserved' = FALSE /\ coll' = FALSE
    /\ config' = "empty" /\ bypass' = "empty"
    /\ links' = 0 /\ myPins' = 0
    /\ detached' = FALSE /\ health' = "off" /\ inconclusive' = 0
    /\ lost' = FALSE /\ onLoss' = FALSE /\ fired' = FALSE

LoaderInit ==
    /\ pinLinks \in BOOLEAN
    /\ lpc = "off" /\ reserved = FALSE /\ coll = FALSE
    /\ config = "empty" /\ bypass = "empty"
    /\ links = 0 /\ pins = 0 /\ myPins = 0
    /\ detached = FALSE /\ health = "off" /\ inconclusive = 0
    /\ lost = FALSE /\ onLoss = FALSE /\ fired = FALSE

\* Mutant of CloseAll: the pins stay when the links are closed.
CloseAllKeepsPins ==
    /\ reserved' = FALSE /\ coll' = FALSE
    /\ links' = 0 /\ pins' = pins /\ myPins' = 0
    /\ UNCHANGED <<pinLinks, config, bypass>>

\* Every retained object is released: the reservation, the links with their
\* pins, the collection.
CloseAll ==
    /\ reserved' = FALSE /\ coll' = FALSE
    /\ links' = 0 /\ pins' = pins - myPins /\ myPins' = 0
    /\ UNCHANGED <<pinLinks, config, bypass>>

\* The kernel floor is the only failure before an object exists: closeAll has
\* then nothing but the reservation to release, as the deferred unwind does.
LoadFails ==
    /\ lpc \in {"collection", "config", "bypass", "attach", "pin"}
    /\ lpc' = "failed"
    /\ CloseAll
    /\ UNCHANGED lossVars

Reserve ==
    /\ lpc = "reserve" /\ ~reserved
    /\ reserved' = TRUE
    /\ lpc' = "collection"
    /\ UNCHANGED <<pinLinks, coll, config, bypass, links, pins, myPins, lossVars>>

NewCollection(cancelled) ==
    /\ lpc = "collection" /\ ~cancelled
    /\ coll' = TRUE
    /\ lpc' = "config"
    /\ UNCHANGED <<pinLinks, reserved, config, bypass, links, pins, myPins, lossVars>>

\* The image is written, read back, then frozen; a failed freeze is a failed
\* load.
WriteAndFreezeConfig(cancelled) ==
    /\ lpc = "config"
    /\ \/ config = "empty" /\ ~cancelled /\ config' = "written" /\ lpc' = lpc
       \/ config = "written" /\ config' = "frozen" /\ lpc' = "bypass"
    /\ UNCHANGED <<pinLinks, reserved, coll, bypass, links, pins, myPins, lossVars>>

\* Mutant of WriteAndFreezeBypass: an empty list is left unfrozen.
WriteAndFreezeBypassIfAny ==
    /\ lpc = "bypass"
    /\ \E any \in BOOLEAN : bypass' = IF any THEN "frozen" ELSE "empty"
    /\ lpc' = "attach"
    /\ UNCHANGED <<pinLinks, reserved, coll, config, links, pins, myPins, lossVars>>

\* The prefixes, if there are any, then the freeze in every case.
WriteAndFreezeBypass ==
    /\ lpc = "bypass"
    /\ bypass' = "frozen"
    /\ lpc' = "attach"
    /\ UNCHANGED <<pinLinks, reserved, coll, config, links, pins, myPins, lossVars>>

\* One link at a time; a link whose program id cannot be read is closed again
\* and the load fails.
Attach(cancelled) ==
    /\ lpc = "attach"
    /\ links = 0 => ~cancelled
    /\ links' = links + 1
    /\ lpc' = IF links + 1 < NumLinks THEN "attach" ELSE IF pinLinks THEN "pin" ELSE "handle"
    /\ UNCHANGED <<pinLinks, reserved, coll, config, bypass, pins, myPins, lossVars>>

\* Each link and then the pair map; a pin another process left is in the way.
PinAll ==
    /\ lpc = "pin" /\ pins = myPins
    /\ pins' = pins + 1 /\ myPins' = myPins + 1
    /\ lpc' = IF myPins < NumLinks THEN "pin" ELSE "handle"
    /\ UNCHANGED <<pinLinks, reserved, coll, config, bypass, links, lossVars>>

\* The handle exists and the health loop runs.
NewHandle ==
    /\ lpc = "handle"
    /\ lpc' = "open" /\ health' = "on"
    /\ UNCHANGED <<buildVars, detached, inconclusive, lost, onLoss, fired>>

LoadStep(cancelled) ==
    \/ Reserve \/ NewCollection(cancelled) \/ WriteAndFreezeConfig(cancelled)
    \/ WriteAndFreezeBypass \/ Attach(cancelled) \/ PinAll \/ NewHandle

\* Handle.Close, once: closeAll, which also cancels the health loop.
HandleClose ==
    IF lpc = "open"
    THEN lpc' = "closed" /\ CloseAll /\ UNCHANGED lossVars
    ELSE UNCHANGED loaderVars

\* The loop's context: the daemon's, or cancelled by closeAll.
HealthStops(cancelled) ==
    /\ health = "on" /\ (cancelled \/ lpc = "closed")
    /\ health' = "ended"
    /\ UNCHANGED <<lpc, buildVars, detached, inconclusive, lost, onLoss, fired>>

\* Mutant of SignalAttachLoss: the callback is taken for fired when none was
\* registered.
SignalAttachLossEarly ==
    /\ lost' = TRUE
    /\ fired' = TRUE
    /\ health' = "ended"
    /\ UNCHANGED onLoss

\* Under lossMu: latch the loss and claim the callback if one is registered.
SignalAttachLoss ==
    /\ lost' = TRUE
    /\ LET deliver == onLoss /\ ~fired
       IN  fired' = (fired \/ deliver) /\ health' = IF deliver THEN "deliver" ELSE "ended"
    /\ UNCHANGED onLoss

\* One tick: a good check starts the count again, an inconclusive one below
\* the limit is passed over, anything else is a loss.  A tick that races Close
\* finds the links closed.
HealthTick(verdict) ==
    /\ health = "on" /\ lpc \in {"open", "closed"}
    /\ verdict = "ok" => lpc = "open"
    /\ inconclusive' = IF verdict = "inconclusive" THEN inconclusive + 1 ELSE 0
    /\ IF verdict = "lost" \/ inconclusive' = InconclusiveLimit
       THEN SignalAttachLoss
       ELSE UNCHANGED <<health, lost, onLoss, fired>>
    /\ UNCHANGED <<lpc, buildVars, detached>>

\* External: the kernel or another program detaches the links.
Detach ==
    /\ lpc = "open" /\ ~detached
    /\ detached' = TRUE
    /\ UNCHANGED <<lpc, buildVars, health, inconclusive, lost, onLoss, fired>>

\* OnAttachLoss stores the callback, then, under lossMu, finds out whether the
\* loss was there before it.
StoreCallback ==
    /\ onLoss' = TRUE
    /\ UNCHANGED <<lpc, buildVars, detached, health, inconclusive, lost, fired>>

DeliverLate == lost /\ ~fired

ClaimCallback ==
    /\ fired' = (fired \/ DeliverLate)
    /\ UNCHANGED <<lpc, buildVars, detached, health, inconclusive, lost, onLoss>>
=============================================================================
