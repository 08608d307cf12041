------------------------------ MODULE Presence ------------------------------
(***************************************************************************)
(* derive_presence (report/presence.py): the pure function every surface   *)
(* (CLI status, MCP, care brief) applies to the daemon's meta and to the   *)
(* newest `idle` fact.  Dates are abstracted to the age of meta.last_tick, *)
(* a payload to its `idle` flag and `source`; threshold_s and idle_since   *)
(* are copied through by the code and left out.                            *)
(***************************************************************************)
EXTENDS Integers

CONSTANT OfflineThreshold  \* offline_threshold_s

ASSUME PresenceAssumption == OfflineThreshold \in Nat

NoTick == -1  \* last_tick is absent or unparsable: age_seconds returns None

\* Values of meta.idle_watch the daemon writes; an absent key reads as "n/a".
WatchStatus == {"n/a", "restarting", "ready", "dead"}

\* The payload of the newest idle fact.  "none": no fact, or its flag is not a boolean.
IdleFlag    == {"true", "false", "none"}
IdleSource  == {"wayland-idle", "logind", "unknown"}
IdlePayload == [idle : IdleFlag, source : IdleSource]
NoPayload   == [idle |-> "none", source |-> "unknown"]

PresenceState == {"active", "idle", "offline"}
Authority     == IdleSource \cup {"daemon", "degraded", "input"}
Confidence    == {"high", "low", "inferred"}
Reason        == {"none", "idle_watch_dead", "idle_watch_restarting", "logind_idle", "no_display"}
PresenceType  == [state : PresenceState, authority : Authority, confidence : Confidence,
                  degraded : BOOLEAN, reason : Reason]

-----------------------------------------------------------------------------

\* Mutant: the threshold itself counts as stale.
StaleAtThreshold(age) == age = NoTick \/ age >= OfflineThreshold

Stale(age) == age = NoTick \/ age > OfflineThreshold

WatchDegraded(watch) == watch \in {"dead", "restarting"}

\* Mutant: a restarting watch is given no reason of its own.
DeadOnlyReason(bound, watch, source, flag) ==
    IF watch = "dead" THEN "idle_watch_dead"
    ELSE IF flag = "true" /\ source = "logind" THEN "logind_idle"
    ELSE IF ~bound THEN "no_display" ELSE "none"

\* _degraded_reason: the watch outranks the logind source, which outranks the display.
DegradedReason(bound, watch, source, flag) ==
    IF watch = "dead" THEN "idle_watch_dead"
    ELSE IF watch = "restarting" THEN "idle_watch_restarting"
    ELSE IF flag = "true" /\ source = "logind" THEN "logind_idle"
    ELSE IF ~bound THEN "no_display" ELSE "none"

ReasonIf(degraded, reason) == IF degraded THEN reason ELSE "none"

OfflinePresence(age, watch, bound) ==
    LET degraded == WatchDegraded(watch) \/ ~bound
    IN  [state |-> "offline", authority |-> "daemon",
         confidence |-> IF age = NoTick THEN "inferred" ELSE "high",
         degraded |-> degraded,
         reason |-> ReasonIf(degraded, DegradedReason(bound, watch, "unknown", "none"))]

IdlePresence(watch, payload, bound) ==
    LET degraded == WatchDegraded(watch) \/ ~bound \/ payload.source = "logind"
    IN  [state |-> "idle", authority |-> payload.source,
         confidence |-> IF payload.source = "wayland-idle" /\ watch = "ready"
                        THEN "high" ELSE "low",
         degraded |-> degraded,
         reason |-> ReasonIf(degraded,
                             DegradedReason(bound, watch, payload.source, payload.idle))]

\* Mutant: the display is not asked for.
UnboundActivePresence(watch, payload, bound) ==
    LET degraded == WatchDegraded(watch) \/ ~bound
    IN  [state |-> "active",
         authority |-> IF watch = "ready" THEN "input" ELSE payload.source,
         confidence |-> IF watch \in {"ready", "n/a"} THEN "high" ELSE "low",
         degraded |-> degraded,
         reason |-> ReasonIf(degraded,
                             DegradedReason(bound, watch, payload.source, payload.idle))]

ActivePresence(watch, payload, bound) ==
    LET degraded == WatchDegraded(watch) \/ ~bound
    IN  [state |-> "active",
         authority |-> IF watch = "ready" \/ payload.source = "unknown"
                       THEN "input" ELSE payload.source,
         confidence |-> IF watch \in {"ready", "n/a"} /\ bound THEN "high" ELSE "low",
         degraded |-> degraded,
         reason |-> ReasonIf(degraded,
                             DegradedReason(bound, watch, payload.source, payload.idle))]

\* Mutant: without its watch the daemon is reported offline.
DeadWatchOffline ==
    [state |-> "offline", authority |-> "daemon", confidence |-> "high",
     degraded |-> TRUE, reason |-> "idle_watch_dead"]

\* Watch death must not look like confident active.
DeadWatchPresence ==
    [state |-> "active", authority |-> "degraded", confidence |-> "low",
     degraded |-> TRUE, reason |-> "idle_watch_dead"]

derive_presence(age, watch, payload, bound) ==
    IF Stale(age) THEN OfflinePresence(age, watch, bound)
    ELSE IF payload.idle = "true" THEN IdlePresence(watch, payload, bound)
    ELSE IF watch = "dead" THEN DeadWatchPresence
    ELSE ActivePresence(watch, payload, bound)
=============================================================================
