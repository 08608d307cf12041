-------------------------- MODULE IdleChain_proofs --------------------------
(***************************************************************************)
(* For every configuration, every set of faults and every bound: the types *)
(* of IdleChain, that the store never shows a ready watch beside a polled  *)
(* logind, that the backend meta names the polled writer, that an idle     *)
(* user under a living listener is shown idle, and that every step of the  *)
(* chain is a step of Supervisor, or none of it.                           *)
(***************************************************************************)
EXTENDS IdleChain, SequenceTheorems, TLAPS

\* A respawn is pending only for a listener that has exited.
RespawnOnlyOfTheDead == respawnIn # Disarmed => proc = "dead"

\* What the three invariants need of the others: without the Wayland backend there is
\* never a listener to hear from, and before the watch is started there is none.
NoWatchUnlessWanted == ~UseWl => proc = "none" /\ pipe = <<>> /\ queue = <<>>
NoWatchBeforeStart  == pc \in {"down", "start watch"} => proc = "none"

\* run_daemon writes the meta a second time of the collectors it built before.
CollectorsOfBoot == pc = "start watch" => logindPolled = WantLogind(FALSE)

IInv == /\ TypeOK
        /\ SingleWriter
        /\ BackendMetaHonest
        /\ RespawnOnlyOfTheDead
        /\ NoWatchUnlessWanted
        /\ NoWatchBeforeStart
        /\ CollectorsOfBoot

\* The sets the type invariant is built from.
LEMMA Sets ==
    /\ "ready" \in Message /\ "error" \in Message
    /\ "idled" \in Message /\ "resumed" \in Message
    /\ NoSession \in Key /\ Unread \in Key /\ NoRow \in Row
  BY DEF Message, Key, NoSession, Unread, Row, NoRow

\* What resolve_idle_chain returns is a value of the meta, and it names logind exactly
\* when logind is polled, if polling was decided by want_logind_idle.
LEMMA ResolveType ==
    ASSUME NEW healthy \in BOOLEAN, NEW polled \in BOOLEAN
    PROVE  ResolveIdleChain(healthy, polled) \in IdleMeta
  BY IdleChainAssumption DEF ResolveIdleChain, IdleMeta

LEMMA ResolveNamesLogind ==
    ASSUME NEW healthy \in BOOLEAN
    PROVE  ResolveIdleChain(healthy, WantLogind(healthy)).backend = "logind"
              <=> WantLogind(healthy)
  <1>1. CASE Backend = "off"
    BY <1>1 DEF ResolveIdleChain, WantLogind
  <1>2. CASE Backend = "logind"
    BY <1>2 DEF ResolveIdleChain, WantLogind
  <1>3. CASE Backend = "wayland"
    BY <1>3 DEF ResolveIdleChain, WantLogind
  <1>4. CASE Backend = "auto" /\ healthy
    BY <1>4 DEF ResolveIdleChain, WantLogind
  <1>5. CASE Backend = "auto" /\ ~healthy
    BY <1>5 DEF ResolveIdleChain, WantLogind
  <1> QED
    BY <1>1, <1>2, <1>3, <1>4, <1>5, IdleChainAssumption

\* want_logind_idle is a Boolean, and a healthy watch of a Wayland backend excludes logind.
LEMMA WantLogindType ==
    ASSUME NEW healthy \in BOOLEAN
    PROVE  /\ WantLogind(healthy) \in BOOLEAN
           /\ UseWl => ~WantLogind(TRUE)
  BY DEF WantLogind, UseWl

\* Whatever loginctl answers is a key of the collector.
LEMMA ReadingType ==
    ASSUME hint \in Hints
    PROVE  Reading \subseteq Key
  <1>1. hint \in [idle : {"yes", "no"}, locked : {"yes", "no"}]
    BY IdleChainAssumption
  <1>2. /\ [hint EXCEPT !.idle = "no"] \in [idle : {"yes", "no"}, locked : {"yes", "no"}]
        /\ [hint EXCEPT !.locked = "no"] \in [idle : {"yes", "no"}, locked : {"yes", "no"}]
    BY <1>1
  <1> QED
    BY <1>1, <1>2, Sets DEF Reading, Key

-----------------------------------------------------------------------------
(* Type correctness *)

LEMMA DoubledType ==
    ASSUME NEW b \in BackoffBase .. BackoffMax
    PROVE  Doubled(b) \in BackoffBase .. BackoffMax
  BY IdleChainAssumption DEF Doubled

\* Rebuilding the collectors and writing the backend meta keep their types.
LEMMA RebuildType ==
    ASSUME NEW healthy \in BOOLEAN, NEW polled \in BOOLEAN,
           Rebuild(polled) /\ WriteIdleMeta(healthy, polled)
    PROVE  logindPolled' \in BOOLEAN /\ lastKey' \in Key /\ idleMeta' \in IdleMeta
  BY ResolveType, Sets DEF Rebuild, WriteIdleMeta

LEMMA LogindTickType ==
    ASSUME TypeOK, LogindTick
    PROVE  lastKey' \in Key /\ newest' \in Row
  <1>1. CASE ~logindPolled
    BY <1>1 DEF LogindTick, TypeOK
  <1>2. CASE logindPolled
    <2>1. PICK key \in Reading :
            /\ lastKey' = key
            /\ IF key = lastKey \/ key = NoSession
               THEN UNCHANGED newest
               ELSE \/ AppendIdle(IF key.idle = "yes" THEN "true" ELSE "false", "logind")
                    \/ "append" \in Faults /\ UNCHANGED newest
      BY <1>2 DEF LogindTick
    <2>2. key \in Key
      BY ReadingType DEF TypeOK
    <2>3. \A flag \in {"true", "false"} : [idle |-> flag, source |-> "logind"] \in Row
      BY DEF Row
    <2> QED
      BY <2>1, <2>2, <2>3 DEF TypeOK, AppendIdle
  <1> QED
    BY <1>1, <1>2

LEMMA StartIdleWatchType ==
    ASSUME StartIdleWatch
    PROVE  /\ proc' \in Proc /\ told' \in {"idled", "resumed"} /\ pipe' \in Seq(Message)
           /\ watchMeta' \in WatchStatus /\ watchMeta' # "ready"
  BY DEF StartIdleWatch, Proc, WatchStatus

LEMMA EmitType ==
    ASSUME TypeOK, NEW m \in Message, Emit(m)
    PROVE  pipe' \in Seq(Message)
  BY DEF TypeOK, Emit

\* What a daemon that is down starts from.
LEMMA FreshType ==
    /\ <<>> \in Seq(Message)
    /\ BackoffBase \in BackoffBase .. BackoffMax
    /\ PollEvery \in 0 .. PollEvery
  BY IdleChainAssumption

LEMMA InitType == Init => TypeOK
  <1> SUFFICES ASSUME Init
               PROVE  TypeOK
    OBVIOUS
  <1>1. pc \in Pc /\ proc \in Proc /\ told \in {"idled", "resumed"}
    BY DEF Init, Pc, Proc
  <1>2. watchMeta \in WatchStatus /\ idleMeta \in IdleMeta /\ newest \in Row /\ lastKey \in Key
    BY Sets DEF Init, WatchStatus, IdleMeta
  <1> QED
    BY <1>1, <1>2, FreshType DEF Init, TypeOK

\* Every step keeps the types.
LEMMA NextType == TypeOK /\ [Next]_vars => TypeOK'
  <1> SUFFICES ASSUME TypeOK, [Next]_vars
               PROVE  TypeOK'
    OBVIOUS
  <1> USE DEF TypeOK, loopVars, colVars, storeVars, watchVars, envVars
  <1>1. CASE Boot
    <2>1. logindPolled' \in BOOLEAN /\ lastKey' \in Key /\ idleMeta' \in IdleMeta
      BY <1>1, RebuildType, WantLogindType DEF Boot
    <2> QED
      BY <1>1, <2>1 DEF Boot, Pc, WatchStatus
  <1>2. CASE BootWatch
    <2>1. CASE UseWl
      BY <1>2, <2>1, StartIdleWatchType DEF BootWatch, Pc
    <2>2. CASE ~UseWl
      <3>1. idleMeta' \in IdleMeta
        BY <1>2, <2>2, ResolveType, WantLogindType DEF BootWatch, WriteIdleMeta
      <3> QED
        BY <1>2, <2>2, <3>1 DEF BootWatch, Pc
    <2> QED
      BY <2>1, <2>2
  <1>3. CASE BootTick
    BY <1>3, LogindTickType DEF BootTick, Pc, LoopPc
  <1>4. CASE Wake
    BY <1>4 DEF Wake, Pc, LoopPc
  <1>5. CASE DrainReady
    <2>1. idleMeta' \in IdleMeta
      BY <1>5, ResolveType DEF DrainReady, WriteIdleMeta
    <2>2. logindPolled' \in BOOLEAN /\ lastKey' \in Key
      BY <1>5, WantLogindType, Sets DEF DrainReady, Rebuild
    <2>3. queue' \in Seq(Message)
      BY <1>5 DEF DrainReady, NextMessage
    <2> QED
      BY <1>5, <2>1, <2>2, <2>3, IdleChainAssumption DEF DrainReady, WatchStatus
  <1>6. CASE DrainError
    <2>1. logindPolled' \in BOOLEAN /\ lastKey' \in Key /\ idleMeta' \in IdleMeta
      BY <1>6, RebuildType, WantLogindType DEF DrainError
    <2>2. queue' \in Seq(Message)
      BY <1>6 DEF DrainError, NextMessage
    <2> QED
      BY <1>6, <2>1, <2>2 DEF DrainError, WatchStatus
  <1>7. CASE DrainIdle
    <2>1. queue' \in Seq(Message)
      BY <1>7 DEF DrainIdle, NextMessage
    <2>2. newest' \in Row
      BY <1>7 DEF DrainIdle, AppendIdle, Row
    <2> QED
      BY <1>7, <2>1, <2>2 DEF DrainIdle
  <1>8. CASE DrainDone
    BY <1>8 DEF DrainDone, Pc, LoopPc
  <1>9. CASE CheckWatch
    <2>1. CASE WatchIsLost
      <3>1. logindPolled' \in BOOLEAN /\ lastKey' \in Key /\ idleMeta' \in IdleMeta
        BY <1>9, <2>1, RebuildType, WantLogindType DEF CheckWatch
      <3>2. backoff' \in BackoffBase .. BackoffMax /\ respawnIn' \in 0 .. BackoffMax
        BY <1>9, <2>1, DoubledType, IdleChainAssumption DEF CheckWatch
      <3> QED
        BY <1>9, <2>1, <3>1, <3>2 DEF CheckWatch, Pc, LoopPc, WatchStatus
    <2>2. CASE ~WatchIsLost
      BY <1>9, <2>2 DEF CheckWatch, Pc, LoopPc
    <2> QED
      BY <2>1, <2>2
  <1>10. CASE Respawn
    BY <1>10, StartIdleWatchType DEF Respawn, Pc, LoopPc, Disarmed
  <1>11. CASE Poll
    BY <1>11, LogindTickType, IdleChainAssumption DEF Poll, Pc, LoopPc
  <1>12. CASE Close \/ Crash
    BY <1>12, Sets, FreshType DEF Close, Crash, NoDaemon, Pc, Proc
  <1>13. CASE ListenerReady
    BY <1>13, EmitType, Sets DEF ListenerReady, Proc
  <1>14. CASE ListenerTells
    BY <1>14, EmitType, Sets DEF ListenerTells
  <1>15. CASE ListenerFails
    BY <1>15, EmitType, Sets DEF ListenerFails, Proc
  <1>16. CASE ListenerExits
    BY <1>16 DEF ListenerExits, Proc
  <1>17. CASE ReaderMoves
    BY <1>17 DEF ReaderMoves
  <1>18. CASE Tick
    BY <1>18, IdleChainAssumption DEF Tick, Elapsed, Disarmed
  <1>19. CASE UserChanges \/ HintChanges \/ Signal
    BY <1>19 DEF UserChanges, HintChanges, Signal
  <1>20. CASE UNCHANGED vars
    BY <1>20 DEF vars
  <1> QED
    BY <1>1, <1>2, <1>3, <1>4, <1>5, <1>6, <1>7, <1>8, <1>9, <1>10, <1>11, <1>12, <1>13,
       <1>14, <1>15, <1>16, <1>17, <1>18, <1>19, <1>20 DEF Next, Loop, Watch, Env

(* Whatever goes wrong, the loop's state, the store's and the listener's    *)
(* keep their types: the delay of a respawn never exceeds the cap.          *)
THEOREM TypeCorrect == Spec => []TypeOK
  BY InitType, NextType, PTL DEF Spec

-----------------------------------------------------------------------------
(* The one writer, its meta and the respawn *)

\* A message in the queue, or a listener that can be lost, needs a Wayland backend.
LEMMA OnlyWithWayland ==
    ASSUME IInv
    PROVE  /\ NextMessage => UseWl
           /\ proc # "none" => UseWl
  BY DEF IInv, NoWatchUnlessWanted, NextMessage

LEMMA NextWithoutWatch ==
    IInv /\ [Next]_vars => NoWatchUnlessWanted' /\ NoWatchBeforeStart'
  <1> SUFFICES ASSUME IInv, [Next]_vars
               PROVE  NoWatchUnlessWanted' /\ NoWatchBeforeStart'
    OBVIOUS
  <1> USE DEF IInv, NoWatchUnlessWanted, NoWatchBeforeStart, UseWl, loopVars, colVars,
              storeVars, watchVars, envVars
  <1>1. CASE Boot
    BY <1>1 DEF Boot
  <1>2. CASE BootWatch
    BY <1>2 DEF BootWatch
  <1>3. CASE BootTick \/ Wake \/ DrainDone \/ CheckWatch \/ Poll
    BY <1>3 DEF BootTick, Wake, DrainDone, CheckWatch, Poll
  <1>4. CASE DrainReady \/ DrainError \/ DrainIdle
    BY <1>4, OnlyWithWayland DEF DrainReady, DrainError, DrainIdle, NextMessage
  <1>5. CASE Respawn
    BY <1>5 DEF Respawn
  <1>6. CASE Close \/ Crash
    BY <1>6 DEF Close, Crash, NoDaemon
  <1>7. CASE ListenerReady \/ ListenerTells \/ ListenerFails \/ ListenerExits
    BY <1>7, OnlyWithWayland DEF ListenerReady, ListenerTells, ListenerFails, ListenerExits
  <1>8. CASE ReaderMoves
    BY <1>8 DEF ReaderMoves
  <1>9. CASE Tick \/ UserChanges \/ HintChanges \/ Signal
    BY <1>9 DEF Tick, UserChanges, HintChanges, Signal
  <1>10. CASE UNCHANGED vars
    BY <1>10 DEF vars
  <1> QED
    BY <1>1, <1>2, <1>3, <1>4, <1>5, <1>6, <1>7, <1>8, <1>9, <1>10 DEF Next, Loop, Watch, Env

LEMMA NextCollectorsOfBoot == IInv /\ [Next]_vars => CollectorsOfBoot'
  <1> SUFFICES ASSUME IInv, [Next]_vars
               PROVE  CollectorsOfBoot'
    OBVIOUS
  <1> USE DEF CollectorsOfBoot, WantLogind, loopVars, colVars, storeVars, watchVars, envVars
  <1>1. CASE Boot
    BY <1>1 DEF Boot, Rebuild
  <1>2. CASE BootWatch \/ BootTick \/ Wake \/ DrainDone \/ CheckWatch \/ Respawn \/ Poll
    BY <1>2 DEF BootWatch, BootTick, Wake, DrainDone, CheckWatch, Respawn, Poll
  <1>3. CASE DrainReady \/ DrainError \/ DrainIdle
    BY <1>3 DEF DrainReady, DrainError, DrainIdle, NextMessage
  <1>4. CASE Close \/ Crash
    BY <1>4 DEF Close, Crash, NoDaemon
  <1>5. CASE Watch
    BY <1>5 DEF Watch, ListenerReady, ListenerTells, ListenerFails, ListenerExits, ReaderMoves,
                IInv
  <1>6. CASE Tick \/ UserChanges \/ HintChanges \/ Signal
    BY <1>6 DEF Tick, UserChanges, HintChanges, Signal, IInv
  <1>7. CASE UNCHANGED vars
    BY <1>7 DEF vars, IInv
  <1> QED
    BY <1>1, <1>2, <1>3, <1>4, <1>5, <1>6, <1>7 DEF Next, Loop, Env

LEMMA NextSingleWriter == IInv /\ [Next]_vars => SingleWriter'
  <1> SUFFICES ASSUME IInv, [Next]_vars
               PROVE  SingleWriter'
    OBVIOUS
  <1> USE DEF SingleWriter, loopVars, colVars, storeVars, watchVars, envVars
  <1>1. CASE Boot
    BY <1>1 DEF Boot
  <1>2. CASE BootWatch
    BY <1>2, StartIdleWatchType DEF BootWatch, IInv
  <1>3. CASE BootTick \/ Wake \/ DrainIdle \/ DrainDone \/ Poll
    BY <1>3 DEF BootTick, Wake, DrainIdle, DrainDone, Poll, IInv
  \* The message of a watch: the backend is a Wayland one, and a ready watch unseats logind.
  <1>4. CASE DrainReady
    <2>1. ~WantLogind(TRUE)
      BY <1>4, OnlyWithWayland, WantLogindType DEF DrainReady
    <2> QED
      BY <1>4, <2>1 DEF DrainReady, Rebuild
  <1>5. CASE DrainError
    BY <1>5 DEF DrainError
  <1>6. CASE CheckWatch
    BY <1>6 DEF CheckWatch, IInv
  <1>7. CASE Respawn
    BY <1>7, StartIdleWatchType DEF Respawn, IInv
  <1>8. CASE Close \/ Crash
    BY <1>8 DEF Close, Crash, NoDaemon
  <1>9. CASE Watch
    BY <1>9 DEF Watch, ListenerReady, ListenerTells, ListenerFails, ListenerExits, ReaderMoves,
                IInv
  <1>10. CASE Tick \/ UserChanges \/ HintChanges \/ Signal
    BY <1>10 DEF Tick, UserChanges, HintChanges, Signal, IInv
  <1>11. CASE UNCHANGED vars
    BY <1>11 DEF vars, IInv
  <1> QED
    BY <1>1, <1>2, <1>3, <1>4, <1>5, <1>6, <1>7, <1>8, <1>9, <1>10, <1>11 DEF Next, Loop, Env

\* Rebuilding and writing with what want_logind_idle says leaves the meta honest.
LEMMA RebuildIsHonest ==
    ASSUME NEW healthy \in BOOLEAN,
           Rebuild(WantLogind(healthy)), WriteIdleMeta(healthy, WantLogind(healthy))
    PROVE  BackendMetaHonest'
  BY ResolveNamesLogind DEF Rebuild, WriteIdleMeta, BackendMetaHonest

LEMMA NextHonest == IInv /\ [Next]_vars => BackendMetaHonest'
  <1> SUFFICES ASSUME IInv, [Next]_vars
               PROVE  BackendMetaHonest'
    OBVIOUS
  <1> USE DEF loopVars, colVars, storeVars, watchVars, envVars
  <1>1. CASE Boot
    BY <1>1, RebuildIsHonest DEF Boot
  <1>2. CASE BootWatch
    <2>1. CASE UseWl
      BY <1>2, <2>1 DEF BootWatch, IInv, BackendMetaHonest
    \* Without a watch the meta is written a second time, of the collectors of Boot.
    <2>2. CASE ~UseWl
      <3>1. idleMeta'.backend = "logind" <=> WantLogind(FALSE)
        BY <1>2, <2>2, ResolveNamesLogind DEF BootWatch, WriteIdleMeta
      <3>2. logindPolled = WantLogind(FALSE)
        BY <1>2 DEF BootWatch, IInv, CollectorsOfBoot
      <3> QED
        BY <1>2, <3>1, <3>2 DEF BootWatch, BackendMetaHonest
    <2> QED
      BY <2>1, <2>2
  <1>3. CASE BootTick \/ Wake \/ DrainIdle \/ DrainDone \/ Respawn \/ Poll
    BY <1>3 DEF BootTick, Wake, DrainIdle, DrainDone, Respawn, Poll, IInv, BackendMetaHonest
  \* A ready watch writes its meta with active = FALSE, which is what it rebuilt with.
  <1>4. CASE DrainReady
    <2>1. WantLogind(TRUE) = FALSE
      BY <1>4, OnlyWithWayland, WantLogindType DEF DrainReady
    <2> QED
      BY <1>4, <2>1, RebuildIsHonest DEF DrainReady
  <1>5. CASE DrainError
    BY <1>5, RebuildIsHonest DEF DrainError
  <1>6. CASE CheckWatch
    <2>1. CASE WatchIsLost
      BY <1>6, <2>1, RebuildIsHonest DEF CheckWatch
    <2>2. CASE ~WatchIsLost
      BY <1>6, <2>2 DEF CheckWatch, IInv, BackendMetaHonest
    <2> QED
      BY <2>1, <2>2
  <1>7. CASE Close \/ Crash
    BY <1>7 DEF Close, Crash, NoDaemon, BackendMetaHonest
  <1>8. CASE Watch
    BY <1>8 DEF Watch, ListenerReady, ListenerTells, ListenerFails, ListenerExits, ReaderMoves,
                IInv, BackendMetaHonest
  <1>9. CASE Tick \/ UserChanges \/ HintChanges \/ Signal
    BY <1>9 DEF Tick, UserChanges, HintChanges, Signal, IInv, BackendMetaHonest
  <1>10. CASE UNCHANGED vars
    BY <1>10 DEF vars, IInv, BackendMetaHonest
  <1> QED
    BY <1>1, <1>2, <1>3, <1>4, <1>5, <1>6, <1>7, <1>8, <1>9, <1>10 DEF Next, Loop, Env

LEMMA NextRespawn == IInv /\ [Next]_vars => RespawnOnlyOfTheDead'
  <1> SUFFICES ASSUME IInv, [Next]_vars
               PROVE  RespawnOnlyOfTheDead'
    OBVIOUS
  <1> USE DEF RespawnOnlyOfTheDead, loopVars, colVars, storeVars, watchVars, envVars
  <1>1. CASE Boot \/ BootTick \/ Wake \/ DrainReady \/ DrainError \/ DrainIdle \/ DrainDone
             \/ Poll
    BY <1>1 DEF Boot, BootTick, Wake, DrainReady, DrainError, DrainIdle, DrainDone, Poll, IInv
  \* The watch is started only where no listener was, and none is awaited.
  <1>2. CASE BootWatch
    <2>1. respawnIn = Disarmed
      BY <1>2 DEF BootWatch, IInv, NoWatchBeforeStart
    <2> QED
      BY <1>2, <2>1 DEF BootWatch
  <1>3. CASE CheckWatch
    BY <1>3 DEF CheckWatch, WatchIsLost, IInv
  <1>4. CASE Respawn
    BY <1>4 DEF Respawn, IInv
  <1>5. CASE Close \/ Crash
    BY <1>5 DEF Close, Crash, NoDaemon
  <1>6. CASE Watch
    BY <1>6 DEF Watch, ListenerReady, ListenerTells, ListenerFails, ListenerExits, ReaderMoves,
                IInv
  <1>7. CASE Tick
    BY <1>7 DEF Tick, Elapsed, Disarmed, IInv
  <1>8. CASE UserChanges \/ HintChanges \/ Signal
    BY <1>8 DEF UserChanges, HintChanges, Signal, IInv
  <1>9. CASE UNCHANGED vars
    BY <1>9 DEF vars, IInv
  <1> QED
    BY <1>1, <1>2, <1>3, <1>4, <1>5, <1>6, <1>7, <1>8, <1>9 DEF Next, Loop, Env

\* The strengthened invariant is inductive.
LEMMA IInvHolds == Spec => []IInv
  <1>1. Init => IInv
    BY InitType DEF Init, IInv, SingleWriter, BackendMetaHonest, RespawnOnlyOfTheDead,
                    NoWatchUnlessWanted, NoWatchBeforeStart, CollectorsOfBoot
  <1>2. IInv /\ [Next]_vars => IInv'
    BY NextType, NextWithoutWatch, NextCollectorsOfBoot, NextSingleWriter, NextHonest,
       NextRespawn DEF IInv
  <1> QED
    BY <1>1, <1>2, PTL DEF Spec

(* ADR-002 rule 2 for every backend and every order of faults: while the    *)
(* daemon is up, meta.idle_watch = ready is never seen beside a polled      *)
(* logind (daemon_loop.py: the `ready` branch and the branches that         *)
(* degrade).                                                                *)
THEOREM SingleWriterAlways == Spec => []SingleWriter
  <1>1. IInv => SingleWriter
    BY DEF IInv
  <1> QED
    BY <1>1, IInvHolds, PTL

(* meta.idle_backend names logind exactly when logind is polled, whichever  *)
(* of the places that rebuild the collectors or write the meta ran last.    *)
THEOREM BackendMetaAlwaysHonest == Spec => []BackendMetaHonest
  <1>1. IInv => BackendMetaHonest
    BY DEF IInv
  <1> QED
    BY <1>1, IInvHolds, PTL

-----------------------------------------------------------------------------
(* What the living listener told *)

\* The lines that were told and are not handled yet, in the order they will be.
Lines   == Len(queue) + Len(pipe)
Line(i) == IF i <= Len(queue) THEN queue[i] ELSE pipe[i - Len(queue)]

\* Once k of them are handled the watch is ready, and no `error` takes it back; once i of
\* them are handled the user is idle, and no `resumed` takes it back.
ReadyAfter(k) == /\ k \in 0 .. Lines
                 /\ IF k = 0 THEN watchMeta = "ready" ELSE Line(k) = "ready"
                 /\ \A j \in k + 1 .. Lines : Line(j) # "error"
IdleAfter(i)  == /\ i \in 0 .. Lines
                 /\ IF i = 0 THEN newest.idle = "true" ELSE Line(i) = "idled"
                 /\ \A j \in i + 1 .. Lines : Line(j) # "resumed"

\* What a living listener told comes after its own `ready`, whatever lines of earlier
\* listeners are before it: by then logind writes no more.
WordIsKept(k) == ReadyAfter(k) /\ (told = "idled" => \E i \in k .. Lines : IdleAfter(i))

ListenerIsHeard == proc = "listening" => \E k \in 0 .. Lines : WordIsKept(k)

LEMMA LinesType ==
    ASSUME TypeOK
    PROVE  Lines \in Nat /\ Len(queue) \in Nat /\ Len(pipe) \in Nat
  BY DEF TypeOK, Lines

\* A step that leaves the lines and what they act on alone keeps the word.
LEMMA SameLinesKeep ==
    ASSUME TypeOK, ListenerIsHeard, Lines' = Lines,
           \A i \in 1 .. Lines : Line(i)' = Line(i),
           proc' = "listening" => proc = "listening" /\ told' = told,
           watchMeta' = watchMeta,
           watchMeta = "ready" => newest' = newest
    PROVE  ListenerIsHeard'
  <1> SUFFICES ASSUME proc' = "listening"
               PROVE  \E k \in 0 .. Lines : WordIsKept(k)'
    BY DEF ListenerIsHeard
  <1>1. PICK k \in 0 .. Lines : WordIsKept(k)
    BY DEF ListenerIsHeard
  <1>2. ReadyAfter(k)'
    BY <1>1, LinesType DEF WordIsKept, ReadyAfter
  <1>3. ASSUME told' = "idled"
        PROVE  \E i \in k .. Lines' : IdleAfter(i)'
    <2>1. PICK i \in k .. Lines : IdleAfter(i)
      BY <1>1, <1>3 DEF WordIsKept
    <2>2. i = 0 => watchMeta = "ready"
      BY <1>1, LinesType DEF WordIsKept, ReadyAfter
    <2>3. IdleAfter(i)'
      BY <2>1, <2>2, LinesType DEF IdleAfter
    <2> QED
      BY <2>1, <2>3
  <1> QED
    BY <1>2, <1>3 DEF WordIsKept

\* The loop takes the first line.
LEMMA PoppedLines ==
    ASSUME TypeOK, NextMessage, pipe' = pipe
    PROVE  /\ Lines \in Nat \ {0} /\ Lines' = Lines - 1 /\ Line(1) = Head(queue)
           /\ \A i \in 1 .. Lines' : Line(i)' = Line(i + 1)
  <1>1. /\ queue \in Seq(Message) /\ pipe \in Seq(Message) /\ queue # <<>>
        /\ queue' = Tail(queue)
    BY DEF TypeOK, NextMessage
  <1>2. /\ Len(queue) \in Nat \ {0} /\ Len(pipe) \in Nat /\ Len(queue') = Len(queue) - 1
        /\ \A i \in 1 .. Len(queue') : queue'[i] = queue[i + 1]
        /\ Head(queue) = queue[1]
    BY <1>1
  <1> QED
    BY <1>1, <1>2 DEF Lines, Line

LEMMA DrainKeeps ==
    ASSUME TypeOK, ListenerIsHeard, NextMessage, UNCHANGED watchVars,
           Head(queue) = "ready" => watchMeta' = "ready" /\ newest' = newest,
           Head(queue) = "idled" => newest'.idle = "true",
           Head(queue) \in {"idled", "resumed"} => watchMeta' = watchMeta,
           Head(queue) = "error" => newest' = newest
    PROVE  ListenerIsHeard'
  <1> SUFFICES ASSUME proc' = "listening"
               PROVE  \E k \in 0 .. Lines' : WordIsKept(k)'
    BY DEF ListenerIsHeard
  <1> USE PoppedLines
  <1> pipe' = pipe /\ proc = "listening" /\ told' = told
    BY DEF watchVars
  <1>0. Line(1) \in {"ready", "error", "idled", "resumed"}
    BY DEF TypeOK, NextMessage, Message
  <1>1. PICK k \in 0 .. Lines : WordIsKept(k)
    BY DEF ListenerIsHeard
  <1> DEFINE Less(n) == IF n = 0 THEN 0 ELSE n - 1
  <1>2. Less(k) \in 0 .. Lines' /\ ReadyAfter(Less(k))'
    <2>1. CASE k = 0
      BY <1>0, <1>1, <2>1 DEF WordIsKept, ReadyAfter
    <2>2. CASE k = 1
      BY <1>0, <1>1, <2>2 DEF WordIsKept, ReadyAfter
    <2>3. CASE k > 1
      BY <1>1, <2>3 DEF WordIsKept, ReadyAfter
    <2> QED
      BY <2>1, <2>2, <2>3
  <1>3. ASSUME told' = "idled"
        PROVE  \E i \in Less(k) .. Lines' : IdleAfter(i)'
    <2>1. PICK i \in k .. Lines : IdleAfter(i)
      BY <1>1, <1>3 DEF WordIsKept
    <2>2. i = 0 => watchMeta = "ready" /\ Line(1) \notin {"error", "resumed"}
      BY <1>1, <2>1 DEF WordIsKept, ReadyAfter, IdleAfter
    <2>3. IdleAfter(Less(i))'
      <3>1. CASE i = 0
        BY <1>0, <2>1, <2>2, <3>1 DEF IdleAfter
      <3>2. CASE i = 1
        BY <1>0, <2>1, <3>2 DEF IdleAfter
      <3>3. CASE i > 1
        BY <2>1, <3>3 DEF IdleAfter
      <3> QED
        BY <2>1, <3>1, <3>2, <3>3
    <2> QED
      BY <2>1, <2>3
  <1> QED
    BY <1>2, <1>3 DEF WordIsKept

\* The listener adds a line at the end.
LEMMA EmittedLine ==
    ASSUME TypeOK, NEW m \in Message, Emit(m), queue' = queue
    PROVE  /\ Lines' = Lines + 1 /\ Line(Lines)' = m
           /\ \A i \in 1 .. Lines : Line(i)' = Line(i)
  <1>1. pipe \in Seq(Message) /\ queue \in Seq(Message) /\ pipe' = Append(pipe, m)
    BY DEF TypeOK, Emit
  <1>2. /\ Len(queue) \in Nat /\ Len(pipe) \in Nat /\ Len(pipe') = Len(pipe) + 1
        /\ pipe'[Len(pipe) + 1] = m
        /\ \A i \in 1 .. Len(pipe) : pipe'[i] = pipe[i]
    BY <1>1
  <1> QED
    BY <1>1, <1>2 DEF Lines, Line

\* The reader thread moves a line and changes none.
LEMMA MovedLines ==
    ASSUME TypeOK, ReaderMoves
    PROVE  Lines' = Lines /\ \A i \in 1 .. Lines : Line(i)' = Line(i)
  <1>1. /\ pipe \in Seq(Message) /\ queue \in Seq(Message) /\ pipe # <<>>
        /\ pipe' = Tail(pipe) /\ queue' = Append(queue, Head(pipe))
    BY DEF TypeOK, ReaderMoves
  <1>2. /\ Len(queue) \in Nat /\ Len(pipe) \in Nat \ {0}
        /\ Len(pipe') = Len(pipe) - 1 /\ Len(queue') = Len(queue) + 1
        /\ \A i \in 1 .. Len(pipe') : pipe'[i] = pipe[i + 1]
        /\ \A i \in 1 .. Len(queue) : queue'[i] = queue[i]
        /\ queue'[Len(queue) + 1] = pipe[1]
    BY <1>1
  <1> QED
    BY <1>1, <1>2 DEF Lines, Line

LEMMA TellsKeeps ==
    ASSUME TypeOK, ListenerIsHeard, ListenerTells
    PROVE  ListenerIsHeard'
  <1>1. told' \in {"idled", "resumed"} /\ Emit(told') /\ queue' = queue /\ proc = "listening"
        /\ watchMeta' = watchMeta
    BY DEF ListenerTells, storeVars
  <1> PICK n \in Nat : n = Lines + 1
    BY LinesType
  <1>2. /\ Lines' = n /\ Line(n)' = told'
        /\ \A i \in 1 .. Lines : Line(i)' = Line(i)
    BY <1>1, EmittedLine DEF Message
  <1>3. PICK k \in 0 .. Lines : WordIsKept(k)
    BY <1>1 DEF ListenerIsHeard
  <1>4. ReadyAfter(k)'
    BY <1>1, <1>2, <1>3, LinesType DEF WordIsKept, ReadyAfter
  <1>5. told' = "idled" => IdleAfter(n)'
    BY <1>2, LinesType DEF IdleAfter
  <1> QED
    BY <1>2, <1>4, <1>5, LinesType DEF ListenerIsHeard, WordIsKept

LEMMA ReadyKeeps ==
    ASSUME TypeOK, ListenerReady
    PROVE  ListenerIsHeard'
  <1> PICK n \in Nat : n = Lines + 1
    BY LinesType
  <1>1. Lines' = n /\ Line(n)' = "ready" /\ told' = "resumed"
    BY EmittedLine DEF ListenerReady, Message
  <1>2. ReadyAfter(n)'
    BY <1>1, LinesType DEF ReadyAfter
  <1> QED
    BY <1>1, <1>2, LinesType DEF ListenerIsHeard, WordIsKept

LEMMA NextHeard == IInv /\ ListenerIsHeard /\ [Next]_vars => ListenerIsHeard'
  <1> SUFFICES ASSUME IInv, ListenerIsHeard, [Next]_vars
               PROVE  ListenerIsHeard'
    OBVIOUS
  <1> TypeOK
    BY DEF IInv
  <1> USE DEF loopVars, colVars, storeVars, watchVars, envVars
  <1> DEFINE Untouched == UNCHANGED <<proc, told, pipe, queue, watchMeta>>
  <1>0. ASSUME Untouched, watchMeta = "ready" => newest' = newest
        PROVE  ListenerIsHeard'
    <2>1. Lines' = Lines /\ \A i \in 1 .. Lines : Line(i)' = Line(i)
      BY <1>0 DEF Lines, Line
    <2> QED
      BY <1>0, <2>1, SameLinesKeep
  \* A tick of logind changes a row only where the watch is not ready.
  <1>1. CASE BootTick \/ Poll
    <2>1. Untouched /\ (newest' = newest \/ logindPolled)
      BY <1>1 DEF BootTick, Poll, LogindTick
    <2>2. watchMeta = "ready" => ~logindPolled
      BY <1>1 DEF IInv, SingleWriter, BootTick, Poll
    <2> QED
      BY <1>0, <2>1, <2>2
  <1>2. CASE Boot \/ BootWatch
    <2>1. proc' # "listening"
      BY <1>2 DEF Boot, BootWatch, StartIdleWatch, IInv, NoWatchBeforeStart
    <2> QED
      BY <2>1 DEF ListenerIsHeard
  <1>3. CASE DrainReady \/ DrainError \/ DrainIdle
    <2>1. CASE DrainReady
      BY <2>1, DrainKeeps DEF DrainReady
    <2>2. CASE DrainError
      BY <2>2, DrainKeeps DEF DrainError
    <2>3. CASE DrainIdle
      BY <2>3, DrainKeeps DEF DrainIdle, AppendIdle
    <2> QED
      BY <1>3, <2>1, <2>2, <2>3
  <1>4. CASE CheckWatch
    <2>1. CASE WatchIsLost
      BY <1>4, <2>1 DEF CheckWatch, WatchIsLost, ListenerIsHeard
    <2>2. CASE ~WatchIsLost
      BY <1>0, <1>4, <2>2 DEF CheckWatch
    <2> QED
      BY <2>1, <2>2
  <1>5. CASE Respawn
    <2>1. CASE UseWl /\ respawnIn = 0
      BY <1>5, <2>1 DEF Respawn, StartIdleWatch, ListenerIsHeard
    <2>2. CASE ~(UseWl /\ respawnIn = 0)
      BY <1>0, <1>5, <2>2 DEF Respawn
    <2> QED
      BY <2>1, <2>2
  <1>6. CASE Close \/ Crash
    BY <1>6 DEF Close, Crash, NoDaemon, ListenerIsHeard
  <1>7. CASE Wake \/ DrainDone \/ Tick \/ UserChanges \/ HintChanges \/ Signal
    BY <1>0, <1>7 DEF Wake, DrainDone, Tick, UserChanges, HintChanges, Signal
  <1>8. CASE ListenerReady
    BY <1>8, ReadyKeeps
  <1>9. CASE ListenerTells
    BY <1>9, TellsKeeps
  <1>10. CASE ListenerFails \/ ListenerExits
    BY <1>10 DEF ListenerFails, ListenerExits, ListenerIsHeard
  <1>11. CASE ReaderMoves
    <2>1. UNCHANGED <<proc, told, watchMeta, newest>>
      BY <1>11 DEF ReaderMoves
    <2> QED
      BY <1>11, <2>1, MovedLines, SameLinesKeep
  <1>12. CASE UNCHANGED vars
    BY <1>0, <1>12 DEF vars
  <1> QED
    BY <1>1, <1>2, <1>3, <1>4, <1>5, <1>6, <1>7, <1>8, <1>9, <1>10, <1>11, <1>12
       DEF Next, Loop, Watch, Env

(* An idle user under a living listener is shown idle once its lines are    *)
(* through, whatever lines of earlier listeners, readings of logind,        *)
(* respawns and restarts came before (idle_watch.py, the drain of idle_q in *)
(* daemon_loop.py, and derive_presence over what they stored).              *)
THEOREM IdleIsShown == Spec => []IdleIsNeverMissed
  <1>1. IInv /\ ListenerIsHeard => IdleIsNeverMissed
    <2> SUFFICES ASSUME TypeOK, ListenerIsHeard, Settled, user = "idle"
                 PROVE  ShownPresence.state = "idle"
      BY DEF IInv, IdleIsNeverMissed
    <2>1. Lines = 0 /\ proc = "listening" /\ told = "idled"
      BY DEF Settled, Lines
    <2>2. newest.idle = "true"
      BY <2>1 DEF ListenerIsHeard, WordIsKept, IdleAfter
    <2>3. ~Stale(0)
      BY PresenceAssumption DEF Stale, NoTick
    <2>4. ShownPresence = IdlePresence(watchMeta, newest, TRUE)
      BY <2>2, <2>3 DEF ShownPresence, derive_presence
    <2> QED
      BY <2>4 DEF IdlePresence
  <1>2. Init => ListenerIsHeard
    BY DEF Init, ListenerIsHeard
  <1> QED
    BY <1>1, <1>2, NextHeard, IInvHolds, PTL DEF Spec

-----------------------------------------------------------------------------
(* The refinement of Supervisor *)

LEMMA RefinesInit == Init => Supervision!Init
  BY DEF Init, Supervision!Init, Supervision!NotDue, Child, Running, Disarmed

\* A daemon that goes down takes the listener, the deadline and the delay along.
LEMMA RefinesDown ==
    ASSUME NoDaemon
    PROVE  Supervision!Down
  BY DEF NoDaemon, Supervision!Down, Supervision!NotDue, Child, Running, Disarmed

\* A start makes a listener that runs, or none.
LEMMA StartedChild ==
    ASSUME StartIdleWatch
    PROVE  Child' \in {"up", "none"}
  BY DEF StartIdleWatch, Child, Running

LEMMA RefinesNext ==
    IInv /\ [Next]_vars => [Supervision!Next]_(Supervision!vars)
  <1> SUFFICES ASSUME IInv, [Next]_vars
               PROVE  Supervision!Next \/ UNCHANGED <<Child, respawnIn, backoff>>
    BY DEF Supervision!vars
  <1> USE DEF loopVars, colVars, storeVars, watchVars, envVars
  <1>1. CASE Boot \/ BootTick \/ Wake \/ DrainError \/ DrainIdle \/ DrainDone \/ Poll
    BY <1>1 DEF Boot, BootTick, Wake, DrainError, DrainIdle, DrainDone, Poll, Child, Running
  <1>2. CASE BootWatch
    <2>1. proc = "none" /\ respawnIn = Disarmed /\ Child = "none"
      BY <1>2 DEF BootWatch, IInv, NoWatchBeforeStart, RespawnOnlyOfTheDead, Child, Running
    <2>2. UNCHANGED <<respawnIn, backoff>>
      BY <1>2 DEF BootWatch
    <2>3. Child' = Child \/ Child' \in {"up", "none"}
      BY <1>2, StartedChild DEF BootWatch, Child, Running
    <2> QED
      BY <2>1, <2>2, <2>3 DEF Supervision!Next, Supervision!FirstStart, Supervision!NotDue,
                              Disarmed
  <1>3. CASE DrainReady
    BY <1>3 DEF DrainReady, Supervision!Next, Supervision!Ready, Child, Running
  \* The listener that is lost is kept until its respawn.
  <1>4. CASE CheckWatch
    <2>1. CASE WatchIsLost
      BY <1>4, <2>1 DEF CheckWatch, WatchIsLost, Supervision!Next, Supervision!Notice,
                        Supervision!Arm, Supervision!Longer, Supervision!NotDue, Doubled,
                        Child, Running, Disarmed
    <2>2. CASE ~WatchIsLost
      BY <1>4, <2>2 DEF CheckWatch, Child, Running
    <2> QED
      BY <2>1, <2>2
  \* A respawn is due of a listener that has exited only; a start that fails is final.
  <1>5. CASE Respawn
    <2>1. CASE UseWl /\ respawnIn = 0
      <3>1. Child = "dead"
        BY <2>1 DEF IInv, RespawnOnlyOfTheDead, Child, Running, Disarmed
      <3>2. Child' \in {"up", "none"} /\ respawnIn' = Disarmed /\ UNCHANGED backoff
        BY <1>5, <2>1, StartedChild DEF Respawn
      <3> QED
        BY <2>1, <3>1, <3>2 DEF Supervision!Next, Supervision!Respawn, Supervision!NotDue,
                                Disarmed
    <2>2. CASE ~(UseWl /\ respawnIn = 0)
      BY <1>5, <2>2 DEF Respawn, Child, Running
    <2> QED
      BY <2>1, <2>2
  <1>6. CASE Close \/ Crash
    BY <1>6, RefinesDown DEF Close, Crash, Supervision!Next
  <1>7. CASE ListenerReady \/ ListenerTells \/ ListenerFails \/ ReaderMoves
    BY <1>7 DEF ListenerReady, ListenerTells, ListenerFails, ReaderMoves, Child, Running
  <1>8. CASE ListenerExits
    BY <1>8 DEF ListenerExits, Supervision!Next, Supervision!Exit, Child, Running
  <1>9. CASE Tick
    <2>1. respawnIn \in 0 .. BackoffMax \cup {-1} /\ BackoffMax \in Nat
      BY IdleChainAssumption DEF IInv, TypeOK, Disarmed
    <2>2. respawnIn' = Elapsed(respawnIn) /\ UNCHANGED <<Child, backoff>>
      BY <1>9 DEF Tick, Child, Running
    <2> QED
      BY <2>1, <2>2 DEF Elapsed, Supervision!Next, Supervision!Elapse
  <1>10. CASE UserChanges \/ HintChanges \/ Signal
    BY <1>10 DEF UserChanges, HintChanges, Signal, Child, Running
  <1>11. CASE UNCHANGED vars
    BY <1>11 DEF vars, Child, Running
  <1> QED
    BY <1>1, <1>2, <1>3, <1>4, <1>5, <1>6, <1>7, <1>8, <1>9, <1>10, <1>11
    DEF Next, Loop, Watch, Env

(* The idle chain implements the safety of Supervisor for every backend,    *)
(* fault set and bound: run_main_loop never starts a listener beside a      *)
(* living one, makes one attempt for each exit, and never waits longer than *)
(* its cap.                                                                 *)
THEOREM SupervisedSteps == Spec => Supervision!SafeSpec
  BY RefinesInit, RefinesNext, IInvHolds, PTL DEF Spec, Supervision!SafeSpec
=============================================================================
