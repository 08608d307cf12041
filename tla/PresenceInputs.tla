--------------------------- MODULE PresenceInputs ---------------------------
(***************************************************************************)
(* Every input of derive_presence, changed one at a time: the clock ages   *)
(* last_tick, the daemon refreshes it, the watch meta, the newest idle     *)
(* fact or the display changes.  MaxAge bounds the age of last_tick.       *)
(***************************************************************************)
EXTENDS Presence

CONSTANT MaxAge

ASSUME MaxAgeAssumption == MaxAge \in Nat

VARIABLES age, watch, payload, bound

inputs == <<age, watch, payload, bound>>

presence == derive_presence(age, watch, payload, bound)

PresenceInit == /\ age = NoTick
                /\ watch \in WatchStatus
                /\ payload \in IdlePayload
                /\ bound \in BOOLEAN

ClockAges == /\ age \in 0 .. MaxAge - 1
             /\ age' = age + 1
             /\ UNCHANGED <<watch, payload, bound>>

DaemonTicks == /\ age' = 0
               /\ bound' \in BOOLEAN
               /\ UNCHANGED <<watch, payload>>

WatchChanges == /\ watch' \in WatchStatus
                /\ UNCHANGED <<age, payload, bound>>

IdleFactAppended == /\ payload' \in IdlePayload
                    /\ UNCHANGED <<age, watch, bound>>

PresenceNext == ClockAges \/ DaemonTicks \/ WatchChanges \/ IdleFactAppended

PresenceSpec == PresenceInit /\ [][PresenceNext]_inputs

-----------------------------------------------------------------------------
(* The record handed to every surface is well formed. *)
PresenceTypeOK == age \in (0 .. MaxAge) \cup {NoTick} /\ presence \in PresenceType

(* A degraded presence always carries its degraded_reason, and a presence   *)
(* that is not degraded never carries one: the CLI and the MCP show the     *)
(* reason as the explanation of the flag (_degraded_reason is called by     *)
(* four branches, each with other arguments).                               *)
DegradedIsExplained == presence.degraded <=> presence.reason # "none"

(* "Watch death must not look like confident active" (presence.py), and     *)
(* neither may a watch that is restarting, nor one that is still alive      *)
(* after the display is gone: high confidence in a live user's activity     *)
(* needs a healthy input path.                                              *)
ConfidentActiveIsHealthy ==
    presence.state = "active" /\ presence.confidence = "high" => ~presence.degraded

(* The passing of time alone never changes what is said of the user: it can *)
(* only take the daemon offline, and only a tick brings it back.            *)
TimeOnlyTakesOffline ==
    [][ClockAges => IF presence'.state = "offline" THEN age' > OfflineThreshold
                    ELSE presence' = presence]_inputs

(* Losing the watch never changes the state that is reported, and never     *)
(* makes the report more confident.                                         *)
LosingTheWatchNeverReassures ==
    [][WatchChanges /\ WatchDegraded(watch') =>
          /\ presence'.state = presence.state
          /\ presence'.confidence = "high" => presence.confidence = "high"]_inputs

=============================================================================
