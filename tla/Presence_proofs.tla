--------------------------- MODULE Presence_proofs ---------------------------
(***************************************************************************)
(* The presence report for every threshold and every bound: its record is  *)
(* well formed, a degraded report is explained, a confident active one is  *)
(* healthy, time only takes the daemon offline, and losing the watch never *)
(* reassures.                                                              *)
(***************************************************************************)
EXTENDS PresenceInputs, TLAPS

Explained(r) == r.degraded <=> r.reason # "none"
Healthy(r)   == r.state = "active" /\ r.confidence = "high" => ~r.degraded

(* What the record of each branch of derive_presence is: the branches       *)
(* overlap in their conditions and differ in the arguments they hand to     *)
(* _degraded_reason.                                                        *)
LEMMA DeriveType ==
    ASSUME NEW a, NEW w \in WatchStatus, NEW p \in IdlePayload, NEW b \in BOOLEAN
    PROVE  /\ derive_presence(a, w, p, b) \in PresenceType
           /\ Explained(derive_presence(a, w, p, b))
           /\ Healthy(derive_presence(a, w, p, b))
<1> USE DEF WatchStatus, IdlePayload, IdleFlag
<1>1. CASE Stale(a)
  <2>1. derive_presence(a, w, p, b) = OfflinePresence(a, w, b)
    BY <1>1 DEF derive_presence
  <2>2. OfflinePresence(a, w, b) \in PresenceType
    BY <1>1 DEF OfflinePresence, PresenceType, PresenceState, Authority, Confidence, Reason,
               IdleSource, WatchDegraded, ReasonIf, DegradedReason
  <2>3. Explained(OfflinePresence(a, w, b))
    BY <1>1 DEF Explained, OfflinePresence, WatchDegraded, ReasonIf, DegradedReason, IdleSource
  <2>4. Healthy(OfflinePresence(a, w, b))
    BY <1>1 DEF Healthy, OfflinePresence, WatchDegraded, IdleSource
  <2> QED
    BY <2>1, <2>2, <2>3, <2>4
<1>2. CASE ~Stale(a) /\ p.idle = "true"
  <2>1. derive_presence(a, w, p, b) = IdlePresence(w, p, b)
    BY <1>2 DEF derive_presence
  <2>2. IdlePresence(w, p, b) \in PresenceType
    BY <1>2 DEF IdlePresence, PresenceType, PresenceState, Authority, Confidence, Reason,
               IdleSource, WatchDegraded, ReasonIf, DegradedReason
  <2>3. Explained(IdlePresence(w, p, b))
    BY <1>2 DEF Explained, IdlePresence, WatchDegraded, ReasonIf, DegradedReason, IdleSource
  <2>4. Healthy(IdlePresence(w, p, b))
    BY <1>2 DEF Healthy, IdlePresence, WatchDegraded, IdleSource
  <2> QED
    BY <2>1, <2>2, <2>3, <2>4
<1>3. CASE ~Stale(a) /\ p.idle # "true" /\ w = "dead"
  <2>1. derive_presence(a, w, p, b) = DeadWatchPresence
    BY <1>3 DEF derive_presence
  <2>2. DeadWatchPresence \in PresenceType
    BY <1>3 DEF DeadWatchPresence, PresenceType, PresenceState, Authority, Confidence, Reason,
               IdleSource, WatchDegraded, ReasonIf, DegradedReason
  <2>3. Explained(DeadWatchPresence)
    BY <1>3 DEF Explained, DeadWatchPresence, WatchDegraded, ReasonIf, DegradedReason, IdleSource
  <2>4. Healthy(DeadWatchPresence)
    BY <1>3 DEF Healthy, DeadWatchPresence, WatchDegraded, IdleSource
  <2> QED
    BY <2>1, <2>2, <2>3, <2>4
<1>4. CASE ~Stale(a) /\ p.idle # "true" /\ w # "dead"
  <2>1. derive_presence(a, w, p, b) = ActivePresence(w, p, b)
    BY <1>4 DEF derive_presence
  <2>2. ActivePresence(w, p, b) \in PresenceType
    BY <1>4 DEF ActivePresence, PresenceType, PresenceState, Authority, Confidence, Reason,
               IdleSource, WatchDegraded, ReasonIf, DegradedReason
  <2>3. Explained(ActivePresence(w, p, b))
    BY <1>4 DEF Explained, ActivePresence, WatchDegraded, ReasonIf, DegradedReason, IdleSource
  <2>4. Healthy(ActivePresence(w, p, b))
    BY <1>4 DEF Healthy, ActivePresence, WatchDegraded, IdleSource
  <2> QED
    BY <2>1, <2>2, <2>3, <2>4
<1> QED
  BY <1>1, <1>2, <1>3, <1>4

-----------------------------------------------------------------------------
(* The inputs stay what the daemon and the store can hold.                  *)
InputsOK ==
    /\ age \in (0 .. MaxAge) \cup {NoTick}
    /\ watch \in WatchStatus
    /\ payload \in IdlePayload
    /\ bound \in BOOLEAN

LEMMA InputsInvariant == PresenceSpec => []InputsOK
<1>1. PresenceInit => InputsOK
  BY DEF PresenceInit, InputsOK
<1>2. InputsOK /\ [PresenceNext]_inputs => InputsOK'
  <2> SUFFICES ASSUME InputsOK, [PresenceNext]_inputs
               PROVE  InputsOK'
    OBVIOUS
  <2> USE MaxAgeAssumption DEF InputsOK, NoTick
  <2>1. CASE ClockAges
    BY <2>1 DEF ClockAges
  <2>2. CASE DaemonTicks
    BY <2>2 DEF DaemonTicks
  <2>3. CASE WatchChanges
    BY <2>3 DEF WatchChanges
  <2>4. CASE IdleFactAppended
    BY <2>4 DEF IdleFactAppended
  <2>5. CASE UNCHANGED inputs
    BY <2>5 DEF inputs
  <2> QED
    BY <2>1, <2>2, <2>3, <2>4, <2>5 DEF PresenceNext
<1> QED
  BY <1>1, <1>2, PTL DEF PresenceSpec

(* Every reachable report has a well-formed record.                         *)
THEOREM ReportsAreWellFormed == PresenceSpec => []PresenceTypeOK
<1>1. InputsOK => PresenceTypeOK
  BY DeriveType DEF InputsOK, PresenceTypeOK, presence
<1> QED
  BY <1>1, InputsInvariant, PTL

(* A degraded report carries its reason, and no other report carries one.   *)
THEOREM EveryDegradationIsExplained == PresenceSpec => []DegradedIsExplained
<1>1. InputsOK => DegradedIsExplained
  BY DeriveType DEF InputsOK, DegradedIsExplained, presence, Explained
<1> QED
  BY <1>1, InputsInvariant, PTL

(* Watch death, a restarting watch or a lost display never look like a      *)
(* confident active.                                                        *)
THEOREM ConfidenceNeedsHealth == PresenceSpec => []ConfidentActiveIsHealthy
<1>1. InputsOK => ConfidentActiveIsHealthy
  BY DeriveType DEF InputsOK, ConfidentActiveIsHealthy, presence, Healthy
<1> QED
  BY <1>1, InputsInvariant, PTL

-----------------------------------------------------------------------------
(* What derive_presence says depends on the age by its staleness alone,     *)
(* unless it says offline.                                                  *)
LEMMA FreshAgesAgree ==
    ASSUME NEW a, NEW b, NEW w, NEW p, NEW d, ~Stale(a), ~Stale(b)
    PROVE  derive_presence(a, w, p, d) = derive_presence(b, w, p, d)
BY DEF derive_presence

LEMMA OfflineIsStale ==
    ASSUME NEW a, NEW w, NEW p, NEW d
    PROVE  (derive_presence(a, w, p, d).state = "offline") <=> Stale(a)
BY DEF derive_presence, OfflinePresence, IdlePresence, DeadWatchPresence, ActivePresence

(* Time alone only takes the daemon offline, and only beyond the threshold. *)
THEOREM TimeNeverReassures == PresenceSpec => TimeOnlyTakesOffline
<1> DEFINE Step == ClockAges => IF presence'.state = "offline" THEN age' > OfflineThreshold
                                ELSE presence' = presence
<1>1. InputsOK /\ [PresenceNext]_inputs => [Step]_inputs
  <2> SUFFICES ASSUME InputsOK, ClockAges
               PROVE  IF presence'.state = "offline" THEN age' > OfflineThreshold
                      ELSE presence' = presence
    OBVIOUS
  <2>1. age \in Int /\ age' = age + 1 /\ age' # NoTick /\ age # NoTick
    BY MaxAgeAssumption DEF InputsOK, ClockAges, NoTick
  <2>2. presence = derive_presence(age, watch, payload, bound)
        /\ presence' = derive_presence(age', watch, payload, bound)
    BY DEF presence, ClockAges
  <2>3. CASE Stale(age')
    <3>1. age' > OfflineThreshold
      BY <2>1, <2>3 DEF Stale
    <3>2. presence'.state = "offline"
      BY <2>2, <2>3, OfflineIsStale
    <3> QED
      BY <3>1, <3>2
  <2>4. CASE ~Stale(age')
    <3>1. ~Stale(age)
      BY <2>1, <2>4, PresenceAssumption DEF Stale
    <3>2. presence' = presence
      BY <2>2, <2>4, <3>1, FreshAgesAgree
    <3>3. presence'.state # "offline"
      BY <2>2, <2>4, OfflineIsStale
    <3> QED
      BY <3>2, <3>3
  <2> QED
    BY <2>3, <2>4
<1> QED
  BY <1>1, InputsInvariant, PTL DEF PresenceSpec, TimeOnlyTakesOffline

(* The state reported does not depend on the watch, and a watch that is     *)
(* lost is never the more confident one.                                    *)
LEMMA LossNeverReassures ==
    ASSUME NEW a, NEW w \in WatchStatus, NEW v \in WatchStatus, NEW p \in IdlePayload,
           NEW d \in BOOLEAN, WatchDegraded(v)
    PROVE  LET before == derive_presence(a, w, p, d)
               after  == derive_presence(a, v, p, d)
           IN  /\ after.state = before.state
               /\ after.confidence = "high" => before.confidence = "high"
<1>1. CASE Stale(a)
  BY <1>1 DEF derive_presence, OfflinePresence
<1>2. CASE ~Stale(a) /\ p.idle = "true"
  BY <1>2 DEF derive_presence, IdlePresence, WatchDegraded
<1>3. CASE ~Stale(a) /\ p.idle # "true"
  BY <1>3 DEF derive_presence, DeadWatchPresence, ActivePresence, WatchDegraded
<1> QED
  BY <1>1, <1>2, <1>3

(* Losing the watch never changes the state nor adds confidence.            *)
THEOREM LossOfWatchNeverReassures == PresenceSpec => LosingTheWatchNeverReassures
<1> DEFINE Step == WatchChanges /\ WatchDegraded(watch') =>
                      /\ presence'.state = presence.state
                      /\ presence'.confidence = "high" => presence.confidence = "high"
<1>1. InputsOK /\ InputsOK' /\ [PresenceNext]_inputs => [Step]_inputs
  <2> SUFFICES ASSUME InputsOK, WatchChanges, WatchDegraded(watch')
               PROVE  /\ presence'.state = presence.state
                      /\ presence'.confidence = "high" => presence.confidence = "high"
    OBVIOUS
  <2>1. watch' \in WatchStatus
    BY DEF WatchChanges
  <2>2. presence = derive_presence(age, watch, payload, bound)
        /\ presence' = derive_presence(age, watch', payload, bound)
    BY DEF presence, WatchChanges
  <2> QED
    BY <2>1, <2>2, LossNeverReassures DEF InputsOK
<1> QED
  BY <1>1, InputsInvariant, PTL DEF PresenceSpec, LosingTheWatchNeverReassures
=============================================================================
