-------------------------- MODULE FocusChain_proofs --------------------------
(***************************************************************************)
(* For every order of the focus sources, every configuration, every set of *)
(* faults and every bound: the types of FocusChain, that events drive the  *)
(* focus path only from a living agent with a backup deadline, and that    *)
(* every step of the chain is a step of Supervisor, or none of it.         *)
(***************************************************************************)
EXTENDS FocusChain, SequenceTheorems, WellFoundedInduction, TLAPS

\* A respawn is pending only where no worker runs.
RespawnOnlyOfTheGone == respawnIn # Disarmed => agent \in {"none", "dead"}

\* Before the loop runs there is no agent, no respawn is due, and no event mode.
NothingBeforeStart == pc \in {"down", "start agent"} =>
                          agent = "none" /\ respawnIn = Disarmed /\ eventsOn = FALSE

IInv == /\ TypeOK
        /\ EventModeIsLive
        /\ RespawnOnlyOfTheGone
        /\ NothingBeforeStart

-----------------------------------------------------------------------------
(* Choosing a source *)

\* A set of candidates that contains the last one of Preferred has a first one in Preferred.
LEMMA FirstExists ==
    ASSUME NEW S, "noop" \in S
    PROVE  \E i \in 1 .. Len(Preferred) :
              Preferred[i] \in S /\ \A j \in 1 .. i - 1 : Preferred[j] \notin S
  <1> DEFINE Places == {i \in 1 .. Len(Preferred) : Preferred[i] \in S}
  <1>1. Len(Preferred) \in Places
    BY FocusChainAssumption
  <1>2. Places \subseteq Nat
    OBVIOUS
  <1>3. PICK i \in Places : \A j \in Places : ~ (<<j, i>> \in OpToRel(<, Nat))
    <2> HIDE DEF Places
    <2> QED
      BY <1>1, <1>2, NatLessThanWellFounded, WFMin
  <1>4. \A j \in Places : ~(j < i)
    BY <1>2, <1>3 DEF OpToRel
  <1>5. \A j \in 1 .. i - 1 : Preferred[j] \notin S
    BY <1>4, FocusChainAssumption
  <1> QED
    BY <1>5

\* The first of Preferred in such a set is in the set, and is a source.
LEMMA FirstOfType ==
    ASSUME NEW S, "noop" \in S
    PROVE  FirstOf(S) \in S /\ FirstOf(S) \in Source
  <1> DEFINE First(i) == Preferred[i] \in S /\ \A j \in 1 .. i - 1 : Preferred[j] \notin S
             Place    == CHOOSE i \in 1 .. Len(Preferred) : First(i)
  <1>1. Place \in 1 .. Len(Preferred) /\ First(Place)
    BY FirstExists
  <1>2. FirstOf(S) = Preferred[Place]
    BY DEF FirstOf
  <1>3. \A i \in 1 .. Len(Preferred) : Preferred[i] \in Source
    BY FocusChainAssumption
  <1> HIDE DEF Place
  <1> QED
    BY <1>1, <1>2, <1>3

\* The demotion never chooses AT-SPI again.
LEMMA FallbackType == Fallback \in Source \ {"atspi"}
  <1>1. "noop" \in HealthySet
    BY DEF HealthySet, Healthy, Source
  <1> QED
    BY <1>1, FirstOfType DEF Fallback, HealthySet

LEMMA ActivateType ==
    ASSUME NEW src \in Source, Activate(src)
    PROVE  active' \in Source /\ focusMeta' \in [backend : Source, status : Status]
  <1>1. StatusFor(src) \in Status
    BY DEF StatusFor, Status
  <1> QED
    BY <1>1 DEF Activate

LEMMA MarkUnhealthyType ==
    ASSUME TypeOK, MarkUnhealthy
    PROVE  /\ active' \in Source /\ active' # "atspi"
           /\ focusMeta' \in [backend : Source, status : Status]
  <1>1. CASE active = "atspi"
    BY <1>1, FallbackType, ActivateType DEF MarkUnhealthy, Activate
  <1>2. CASE active # "atspi"
    BY <1>2 DEF MarkUnhealthy, rtVars, TypeOK
  <1> QED
    BY <1>1, <1>2

LEMMA MarkReadyType ==
    ASSUME TypeOK, MarkReady
    PROVE  active' \in Source /\ focusMeta' \in [backend : Source, status : Status]
  <1>1. "atspi" \in Source
    BY DEF Source
  <1> QED
    BY <1>1, ActivateType DEF MarkReady, rtVars, TypeOK

\* The loop's copy of the mode is on only with an agent that runs under AT-SPI.
LEMMA SyncModeType ==
    ASSUME SyncMode
    PROVE  /\ eventsOn' \in BOOLEAN /\ focusOnPoll' \in BOOLEAN
           /\ eventsOn' => active' = "atspi" /\ agent' \in {"starting", "serving"}
  BY DEF SyncMode

-----------------------------------------------------------------------------
(* Type correctness *)

LEMMA DoubledType ==
    ASSUME NEW b \in BackoffBase .. BackoffMax
    PROVE  Doubled(b) \in BackoffBase .. BackoffMax
  BY FocusChainAssumption DEF Doubled

LEMMA StartAgentType ==
    ASSUME StartAgent
    PROVE  /\ agent' \in {"none", "starting", "dead"} /\ agentMeta' \in {"starting", "dead"}
           /\ pipe' = <<>> /\ asked' = FALSE /\ seen' = NoWindow
  BY DEF StartAgent

LEMMA StoreType ==
    ASSUME TypeOK, NEW w \in Windows \cup {NoWindow}, Store(w) \/ StoreLosesRow(w)
    PROVE  lastKey' \in Windows \cup {NoWindow} /\ newest' \in Windows \cup {NoWindow}
  BY DEF TypeOK, Store, StoreLosesRow, rowVars

LEMMA FocusTickType ==
    ASSUME TypeOK, FocusTick
    PROVE  lastKey' \in Windows \cup {NoWindow} /\ newest' \in Windows \cup {NoWindow}
  <1>1. PICK w \in Windows \cup {NoWindow} : Store(w) \/ StoreLosesRow(w)
    BY DEF FocusTick, TypeOK
  <1> QED
    BY <1>1, StoreType DEF TypeOK

LEMMA EmitType ==
    ASSUME TypeOK, NEW m \in Message, Emit(m)
    PROVE  pipe' \in Seq(Message)
  BY DEF TypeOK, Emit

\* The head of a batch is a message, and one that is not `ready` tells a window or none.
LEMMA HeadType ==
    ASSUME TypeOK, HandleNext
    PROVE  /\ batch' \in Seq(Message)
           /\ Head(batch) # "ready" => Head(batch) \in Windows \cup {NoWindow}
  BY DEF TypeOK, HandleNext, Message

\* What a daemon that is down starts from.
LEMMA FreshType ==
    /\ <<>> \in Seq(Message) /\ BackoffBase \in BackoffBase .. BackoffMax
    /\ PollEvery \in 0 .. PollEvery /\ BackupEvery \in 0 .. BackupEvery
  BY FocusChainAssumption

LEMMA InitType == Init => TypeOK
  <1> SUFFICES ASSUME Init
               PROVE  TypeOK
    OBVIOUS
  <1>1. pc \in Pc /\ agent \in Agent /\ active \in Source /\ newest \in Windows \cup {NoWindow}
    BY FreshType DEF Init, Pc, Agent, Source
  <1>2. focusMeta \in [backend : Source, status : Status]
    BY DEF Init, Source, Status
  <1> QED
    BY <1>1, <1>2, FreshType DEF Init, TypeOK

\* Every step keeps the types.
LEMMA NextType == TypeOK /\ [Next]_vars => TypeOK'
  <1> SUFFICES ASSUME TypeOK, [Next]_vars
               PROVE  TypeOK'
    OBVIOUS
  <1> USE DEF TypeOK, agentVars, rtVars, modeVars, timeVars, rowVars, envVars
  <1>1. CASE SelectInitial
    <2>1. PICK cold \in BOOLEAN :
             Activate(IF Preferred[1] = "atspi" THEN "atspi"
                      ELSE FirstOf(HealthySet \cup (IF cold THEN {"atspi"} ELSE {})))
      BY <1>1 DEF SelectInitial
    <2>2. "noop" \in HealthySet \cup (IF cold THEN {"atspi"} ELSE {}) /\ "atspi" \in Source
      BY DEF HealthySet, Healthy, Source
    <2>3. active' \in Source /\ focusMeta' \in [backend : Source, status : Status]
      BY <2>1, <2>2, FirstOfType, ActivateType
    <2> QED
      BY <1>1, <2>3 DEF SelectInitial, Pc
  <1>2. CASE BootAgent
    <2>1. CASE WantsAgent
      BY <1>2, <2>1, StartAgentType, MarkUnhealthyType, SyncModeType, FreshType
      DEF BootAgent, Pc, Agent
    <2>2. CASE ~WantsAgent
      BY <1>2, <2>2, SyncModeType, FreshType DEF BootAgent, Pc
    <2> QED
      BY <2>1, <2>2
  <1>3. CASE BootTick
    BY <1>3, FocusTickType DEF BootTick, Pc, LoopPc
  <1>4. CASE Wake
    BY <1>4, FreshType DEF Wake, Pc, LoopPc
  <1>5. CASE HandleReady
    <2>1. active' \in Source /\ focusMeta' \in [backend : Source, status : Status]
      BY <1>5, MarkReadyType DEF HandleReady
    <2>2. eventsOn' \in BOOLEAN /\ focusOnPoll' \in BOOLEAN /\ batch' \in Seq(Message)
      BY <1>5, SyncModeType, HeadType DEF HandleReady
    <2> QED
      BY <1>5, <2>1, <2>2, FreshType DEF HandleReady
  <1>6. CASE HandleResult
    <2>1. batch' \in Seq(Message)
      BY <1>6, HeadType DEF HandleResult
    <2>2. lastKey' \in Windows \cup {NoWindow} /\ newest' \in Windows \cup {NoWindow}
      BY <1>6, HeadType, StoreType DEF HandleResult
    <2> QED
      BY <1>6, <2>1, <2>2 DEF HandleResult
  <1>7. CASE HandleDone
    BY <1>7 DEF HandleDone, Pc, LoopPc
  <1>8. CASE CheckAgent
    <2>1. CASE FocusEvents /\ AgentIsLost
      <3>1. active' \in Source /\ focusMeta' \in [backend : Source, status : Status]
        BY <1>8, <2>1, MarkUnhealthyType DEF CheckAgent
      <3>2. eventsOn' \in BOOLEAN /\ focusOnPoll' \in BOOLEAN
        BY <1>8, <2>1, SyncModeType DEF CheckAgent
      <3>3. backoff' \in BackoffBase .. BackoffMax /\ respawnIn' \in 0 .. BackoffMax
        BY <1>8, <2>1, DoubledType, FocusChainAssumption DEF CheckAgent
      <3> QED
        BY <1>8, <2>1, <3>1, <3>2, <3>3, FreshType DEF CheckAgent, NoAgent, Pc, LoopPc, Agent
    <2>2. CASE ~(FocusEvents /\ AgentIsLost)
      BY <1>8, <2>2 DEF CheckAgent, Pc, LoopPc
    <2> QED
      BY <2>1, <2>2
  <1>9. CASE Respawn
    <2>1. CASE respawnIn = 0
      <3>1. active' \in Source /\ focusMeta' \in [backend : Source, status : Status]
        BY <1>9, <2>1, MarkUnhealthyType DEF Respawn
      <3>2. eventsOn' \in BOOLEAN /\ focusOnPoll' \in BOOLEAN
        BY <1>9, <2>1, SyncModeType DEF Respawn
      <3>3. /\ backoff' \in BackoffBase .. BackoffMax
            /\ respawnIn' \in 0 .. BackoffMax \cup {Disarmed}
        <4>1. CASE agent' = "starting"
          BY <1>9, <2>1, <4>1 DEF Respawn
        <4>2. CASE agent' # "starting"
          BY <1>9, <2>1, <4>2, DoubledType, FocusChainAssumption DEF Respawn
        <4> QED
          BY <4>1, <4>2
      <3>4. /\ agent' \in Agent /\ agentMeta' \in {"starting", "dead"} /\ pipe' \in Seq(Message)
            /\ asked' \in BOOLEAN /\ seen' \in Windows \cup {NoWindow}
        BY <1>9, <2>1, StartAgentType, FreshType DEF Respawn, Agent
      <3> QED
        BY <1>9, <2>1, <3>1, <3>2, <3>3, <3>4 DEF Respawn, Pc, LoopPc
    <2>2. CASE respawnIn # 0
      BY <1>9, <2>2 DEF Respawn, Pc, LoopPc
    <2> QED
      BY <2>1, <2>2
  <1>10. CASE Poll
    BY <1>10, FocusTickType, FreshType DEF Poll, Pc, LoopPc
  <1>11. CASE Backup
    BY <1>11, FreshType DEF Backup, Pc, LoopPc
  <1>12. CASE AgentReady
    BY <1>12, EmitType DEF AgentReady, Agent, Message
  <1>13. CASE AgentTells
    BY <1>13, EmitType DEF AgentTells, Message
  <1>14. CASE AgentAnswers
    <2>1. PICK w \in Windows \cup {NoWindow} : Emit(w)
      BY <1>14 DEF AgentAnswers
    <2>2. pipe' \in Seq(Message)
      BY <2>1, EmitType DEF Message
    <2> QED
      BY <1>14, <2>2 DEF AgentAnswers
  <1>15. CASE AgentStrays
    BY <1>15, EmitType DEF AgentStrays, Message
  <1>16. CASE AgentDies
    BY <1>16 DEF AgentDies, Agent
  <1>17. CASE ReaderMoves
    BY <1>17 DEF ReaderMoves
  <1>18. CASE Tick
    BY <1>18, FocusChainAssumption DEF Tick, Elapsed, Disarmed
  <1>19. CASE FocusMoves \/ DisplayChanges \/ NoiseChanges
    BY <1>19 DEF FocusMoves, DisplayChanges, NoiseChanges
  <1>20. CASE GoesDown
    BY <1>20, FreshType DEF GoesDown, NoAgent, Pc, Agent, Source
  <1>21. CASE UNCHANGED vars
    BY <1>21 DEF vars
  <1> QED
    BY <1>1, <1>2, <1>3, <1>4, <1>5, <1>6, <1>7, <1>8, <1>9, <1>10, <1>11, <1>12, <1>13,
       <1>14, <1>15, <1>16, <1>17, <1>18, <1>19, <1>20, <1>21 DEF Next, Loop, AgentSteps, Env

(* Whatever goes wrong, the deadlines stay within their delays, the respawn *)
(* delay never exceeds its cap, and a reader of the metas and rows finds a  *)
(* source that exists, although the demotion chooses it by a search.        *)
THEOREM TypeCorrect == Spec => []TypeOK
  BY InitType, NextType, PTL DEF Spec

-----------------------------------------------------------------------------
(* The mode and the respawn *)

\* Where the mode is computed again, it is on only with an agent; where it is not, neither
\* the source nor the agent is let go of.
LEMMA NextMode == IInv /\ [Next]_vars => EventModeIsLive'
  <1> SUFFICES ASSUME IInv, [Next]_vars
               PROVE  EventModeIsLive'
    OBVIOUS
  <1> USE DEF IInv, EventModeIsLive, agentVars, rtVars, modeVars, timeVars
  <1>1. CASE SelectInitial
    BY <1>1 DEF SelectInitial, NothingBeforeStart
  <1>2. CASE BootAgent
    <2>1. eventsOn' => active' = "atspi" /\ agent' \in {"starting", "serving"}
      BY <1>2, SyncModeType DEF BootAgent
    <2>2. backupIn' = IF eventsOn' THEN BackupEvery ELSE Disarmed
      BY <1>2 DEF BootAgent
    <2>3. eventsOn' => backupIn' # Disarmed
      BY <2>2, FocusChainAssumption DEF Disarmed
    <2> QED
      BY <2>1, <2>3
  <1>3. CASE BootTick \/ Wake \/ HandleResult \/ HandleDone \/ Poll
    BY <1>3 DEF BootTick, Wake, HandleResult, HandleDone, Poll
  <1>4. CASE HandleReady
    BY <1>4, SyncModeType, FocusChainAssumption DEF HandleReady, Disarmed
  <1>5. CASE CheckAgent
    BY <1>5, SyncModeType DEF CheckAgent, NoAgent
  <1>6. CASE Respawn
    BY <1>6, MarkUnhealthyType, SyncModeType DEF Respawn
  <1>7. CASE Backup
    BY <1>7, FocusChainAssumption DEF Backup, Disarmed
  <1>8. CASE AgentSteps
    BY <1>8 DEF AgentSteps, AgentReady, AgentTells, AgentAnswers, AgentStrays, AgentDies,
                ReaderMoves, Running
  <1>9. CASE Tick
    BY <1>9 DEF Tick, Elapsed, Disarmed, TypeOK
  <1>10. CASE FocusMoves \/ DisplayChanges \/ NoiseChanges
    BY <1>10 DEF FocusMoves, DisplayChanges, NoiseChanges
  <1>11. CASE GoesDown
    BY <1>11 DEF GoesDown
  <1>12. CASE UNCHANGED vars
    BY <1>12 DEF vars
  <1> QED
    BY <1>1, <1>2, <1>3, <1>4, <1>5, <1>6, <1>7, <1>8, <1>9, <1>10, <1>11, <1>12
    DEF Next, Loop, Env

LEMMA NextRespawn ==
    IInv /\ [Next]_vars => RespawnOnlyOfTheGone' /\ NothingBeforeStart'
  <1> SUFFICES ASSUME IInv, [Next]_vars
               PROVE  RespawnOnlyOfTheGone' /\ NothingBeforeStart'
    OBVIOUS
  <1> USE DEF IInv, RespawnOnlyOfTheGone, NothingBeforeStart, agentVars, modeVars, timeVars
  <1>1. CASE SelectInitial \/ BootTick \/ Wake \/ HandleReady \/ HandleResult \/ HandleDone
             \/ Poll \/ Backup
    BY <1>1 DEF SelectInitial, BootTick, Wake, HandleReady, HandleNext, HandleResult,
                HandleDone, Poll, Backup
  <1>2. CASE BootAgent
    BY <1>2 DEF BootAgent
  <1>3. CASE CheckAgent
    BY <1>3 DEF CheckAgent, NoAgent
  <1>4. CASE Respawn
    BY <1>4, StartAgentType DEF Respawn
  <1>5. CASE AgentSteps
    BY <1>5 DEF AgentSteps, AgentReady, AgentTells, AgentAnswers, AgentStrays, AgentDies,
                ReaderMoves, Running
  <1>6. CASE Tick
    BY <1>6 DEF Tick, Elapsed, Disarmed, TypeOK
  <1>7. CASE FocusMoves \/ DisplayChanges \/ NoiseChanges
    BY <1>7 DEF FocusMoves, DisplayChanges, NoiseChanges
  <1>8. CASE GoesDown
    BY <1>8 DEF GoesDown, NoAgent
  <1>9. CASE UNCHANGED vars
    BY <1>9 DEF vars
  <1> QED
    BY <1>1, <1>2, <1>3, <1>4, <1>5, <1>6, <1>7, <1>8, <1>9 DEF Next, Loop, Env

\* The strengthened invariant is inductive.
LEMMA IInvHolds == Spec => []IInv
  <1>1. Init => IInv
    BY InitType DEF Init, IInv, EventModeIsLive, RespawnOnlyOfTheGone, NothingBeforeStart
  <1>2. IInv /\ [Next]_vars => IInv'
    BY NextType, NextMode, NextRespawn DEF IInv
  <1> QED
    BY <1>1, <1>2, PTL DEF Spec

(* Demotions, recoveries, respawns and the exits of agents in any order     *)
(* never leave the loop in event mode without AT-SPI, an agent and a backup *)
(* deadline (_sync_focus_mode and its callers in daemon_loop.py).           *)
THEOREM EventModeAlwaysLive == Spec => []EventModeIsLive
  <1>1. IInv => EventModeIsLive
    BY DEF IInv
  <1> QED
    BY <1>1, IInvHolds, PTL

-----------------------------------------------------------------------------
(* The refinement of Supervisor *)

LEMMA RefinesInit == Init => Supervision!Init
  BY DEF Init, Supervision!Init, Supervision!NotDue, Child, Running, Disarmed

LEMMA RefinesNext ==
    IInv /\ [Next]_vars => [Supervision!Next]_(Supervision!vars)
  <1> SUFFICES ASSUME IInv, [Next]_vars
               PROVE  Supervision!Next \/ UNCHANGED <<Child, respawnIn, backoff>>
    BY DEF Supervision!vars
  <1> USE DEF agentVars, modeVars, timeVars
  <1>1. CASE SelectInitial \/ BootTick \/ Wake \/ HandleResult \/ HandleDone \/ Poll \/ Backup
    BY <1>1 DEF SelectInitial, BootTick, Wake, HandleResult, HandleDone, Poll, Backup, Child,
                Running
  <1>2. CASE BootAgent
    <2>1. Child = "none" /\ respawnIn = Disarmed /\ UNCHANGED <<respawnIn, backoff>>
      BY <1>2 DEF BootAgent, IInv, NothingBeforeStart, Child, Running
    <2>2. Child' \in {"up", "dead", "none"}
      BY <1>2, <2>1, StartAgentType DEF BootAgent, Child, Running, IInv, NothingBeforeStart
    <2> QED
      BY <2>1, <2>2 DEF Supervision!Next, Supervision!FirstStart, Supervision!NotDue, Disarmed
  \* A `ready` that does not bring the events back leaves the delay as it is.
  <1>3. CASE HandleReady
    BY <1>3 DEF HandleReady, Supervision!Next, Supervision!Ready, Child, Running
  <1>4. CASE CheckAgent
    <2>1. CASE FocusEvents /\ AgentIsLost
      BY <1>4, <2>1 DEF CheckAgent, AgentIsLost, NoAgent, Supervision!Next, Supervision!Notice,
                        Supervision!Arm, Supervision!Longer, Supervision!NotDue, Doubled,
                        Child, Running, Disarmed
    <2>2. CASE ~(FocusEvents /\ AgentIsLost)
      BY <1>4, <2>2 DEF CheckAgent, Child, Running
    <2> QED
      BY <2>1, <2>2
  \* A start that fails, or a worker that exits at once, is tried again.
  <1>5. CASE Respawn
    <2>1. CASE respawnIn = 0
      <3>1. Child # "up"
        BY <2>1 DEF IInv, RespawnOnlyOfTheGone, Child, Running, Disarmed
      <3>2. CASE agent' = "starting"
        BY <1>5, <2>1, <3>1, <3>2 DEF Respawn, Child, Running, Supervision!Next,
           Supervision!Respawn, Supervision!NotDue, Disarmed
      <3>3. CASE agent' # "starting"
        <4>1. Child' \in {"none", "dead"}
          BY <1>5, <2>1, <3>3, StartAgentType DEF Respawn, Child, Running
        <4>2. respawnIn' = backoff /\ backoff' = Doubled(backoff)
          BY <1>5, <2>1, <3>3 DEF Respawn
        <4> QED
          BY <2>1, <3>1, <4>1, <4>2 DEF Supervision!Next, Supervision!Respawn,
             Supervision!Arm, Supervision!Longer, Doubled
      <3> QED
        BY <3>2, <3>3
    <2>2. CASE respawnIn # 0
      BY <1>5, <2>2 DEF Respawn, Child, Running
    <2> QED
      BY <2>1, <2>2
  <1>6. CASE AgentReady \/ AgentTells \/ AgentAnswers \/ AgentStrays \/ ReaderMoves
    BY <1>6 DEF AgentReady, AgentTells, AgentAnswers, AgentStrays, ReaderMoves, Child, Running
  <1>7. CASE AgentDies
    BY <1>7 DEF AgentDies, Supervision!Next, Supervision!Exit, Child, Running
  <1>8. CASE Tick
    <2>1. respawnIn \in 0 .. BackoffMax \cup {-1} /\ BackoffMax \in Nat
      BY FocusChainAssumption DEF IInv, TypeOK, Disarmed
    <2>2. respawnIn' = Elapsed(respawnIn) /\ UNCHANGED <<Child, backoff>>
      BY <1>8 DEF Tick, Child, Running
    <2> QED
      BY <2>1, <2>2 DEF Elapsed, Supervision!Next, Supervision!Elapse
  <1>9. CASE FocusMoves \/ DisplayChanges \/ NoiseChanges
    BY <1>9 DEF FocusMoves, DisplayChanges, NoiseChanges, Child, Running
  <1>10. CASE GoesDown
    BY <1>10 DEF GoesDown, NoAgent, Supervision!Next, Supervision!Down, Supervision!NotDue,
                 Child, Running, Disarmed
  <1>11. CASE UNCHANGED vars
    BY <1>11 DEF vars, Child, Running
  <1> QED
    BY <1>1, <1>2, <1>3, <1>4, <1>5, <1>6, <1>7, <1>8, <1>9, <1>10, <1>11
    DEF Next, Loop, AgentSteps, Env

(* The focus chain implements the safety of Supervisor with retries, for    *)
(* every order of sources, fault set and bound: never a second worker       *)
(* beside a living one, one attempt for each deadline, delays that double   *)
(* up to the cap, and none without a reason.                                *)
THEOREM SupervisedSteps == Spec => Supervision!SafeSpec
  BY RefinesInit, RefinesNext, IInvHolds, PTL DEF Spec, Supervision!SafeSpec
=============================================================================
