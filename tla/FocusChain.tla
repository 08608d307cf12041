----------------------------- MODULE FocusChain -----------------------------
(***************************************************************************)
(* The focus path of the daemon: the long-lived AT-SPI agent               *)
(* (atspi/agent.py, atspi/agent_worker.py) whose stdout a reader thread    *)
(* moves to atspi_q, the FocusRuntime that demotes to a polled probe when  *)
(* the agent dies and recovers on its `ready` (collectors/focus/runtime.py),*)
(* the collector that stores a `focus` row when the focused window changed *)
(* (collectors/focus/collector.py), and the main loop that batches the     *)
(* messages, respawns the agent and asks it for a desktop backup.          *)
(*                                                                         *)
(* cfg.focus is TRUE.  A probe_result is abstracted to its active window.  *)
(* Time passes while the loop is blocked in atspi_q.get, as in IdleChain.  *)
(***************************************************************************)
EXTENDS Integers, Sequences

CONSTANTS Windows,      \* what may have the focus
          Preferred,    \* FocusRuntime.preferred: candidate_sources(session)
          FocusEvents,  \* cfg.focus_events
          BackoffBase,  \* _ATSPI_RESPAWN_BASE_S
          BackoffMax,   \* _ATSPI_RESPAWN_MAX_S
          PollEvery,    \* cfg.poll_seconds
          BackupEvery,  \* cfg.focus_backup_seconds
          Faults,       \* what may go wrong
          MaxPipe,      \* bound: lines in the agent's stdout
          MaxQueue      \* bound: messages in atspi_q

Polled == {"x11", "wlr"}  \* the probes that can be healthy, besides AT-SPI and noop
Source == Polled \cup {"kde", "atspi", "noop"}  \* kde is a stub: its probe() is false

ASSUME FocusChainAssumption ==
    /\ "none" \notin Windows /\ "ready" \notin Windows
    /\ Preferred \in Seq(Source) /\ Preferred # <<>> /\ Preferred[Len(Preferred)] = "noop"
    /\ FocusEvents \in BOOLEAN
    /\ BackoffBase \in Nat \ {0} /\ BackoffMax \in Nat /\ BackoffBase <= BackoffMax
    /\ PollEvery \in Nat \ {0} /\ BackupEvery \in Nat \ {0}
    /\ Faults \subseteq {"kill", "spawn", "crash", "noise", "display", "append"}
    /\ MaxPipe \in Nat /\ MaxQueue \in Nat

VARIABLES
    pc,          \* where the main thread is
    agent,       \* the agent of the loop; "none": agent is None
    seen,        \* the window the last event of this agent was about
    asked,       \* a desktop probe command is in its stdin
    pipe,        \* lines in its stdout the reader thread has not taken
    queue,       \* atspi_q
    batch,       \* the messages the loop took and has not handled
    active,      \* FocusRuntime.active.source
    eventsOn,    \* events_enabled
    focusOnPoll, \* focus_on_poll
    respawnIn,   \* atspi_respawn_at - now, or Disarmed
    backoff,     \* atspi_backoff
    pollIn,      \* next_poll - now
    backupIn,    \* next_desktop - now, or Disarmed for infinity
    agentMeta,   \* meta.atspi_agent
    focusMeta,   \* meta.focus_backend and meta.focus_status
    lastKey,     \* FocusCollector._last_focus_key
    newest,      \* the window of the newest `focus` row of the store
    window,      \* the window that has the focus
    usable,      \* the probes whose probe() is true
    noisy        \* walks and appends fail, and windows without the focus change their titles

modeVars  == <<eventsOn, focusOnPoll>>
timeVars  == <<respawnIn, backoff, pollIn, backupIn>>
agentVars == <<agent, seen, asked, pipe>>
rtVars    == <<active, focusMeta>>
rowVars   == <<lastKey, newest>>
envVars   == <<window, usable, noisy>>
vars == <<pc, agent, seen, asked, pipe, queue, batch, active, eventsOn, focusOnPoll, respawnIn,
          backoff, pollIn, backupIn, agentMeta, focusMeta, lastKey, newest, window, usable,
          noisy>>

-----------------------------------------------------------------------------
Disarmed == -1
NoWindow == "none"

Message == Windows \cup {"ready", NoWindow}  \* NoWindow: a probe_result without a window
LoopPc  == {"wait", "handle", "check", "respawn", "poll", "backup"}
Pc      == LoopPc \cup {"down", "select", "start agent", "boot tick"}
Agent   == {"none", "starting", "serving", "dead"}
Running == agent \in {"starting", "serving"}  \* FocusAtspiAgent.running
Status  == {"available", "degraded", "unavailable", "unset"}

\* The polled probes this session may choose: what the others say is never asked.
Candidates == {src \in Polled : \E i \in DOMAIN Preferred : Preferred[i] = src}

WantsAgent == FocusEvents /\ Preferred[1] = "atspi"

\* probe() of a candidate other than AT-SPI.
Healthy(src) == src = "noop" \/ src \in usable

StatusFor(src) == IF src = "noop" THEN "unavailable"
                  ELSE IF src # Preferred[1] THEN "degraded" ELSE "available"

\* The first candidate of Preferred in a set of them.
FirstOf(S) == Preferred[CHOOSE i \in 1 .. Len(Preferred) :
                 Preferred[i] \in S /\ \A j \in 1 .. i - 1 : Preferred[j] \notin S]

HealthySet == {src \in Source \ {"atspi"} : Healthy(src)}

\* FocusRuntime.demote: the first healthy candidate that is not AT-SPI.
Fallback == FirstOf(HealthySet)

\* Mutant: the backoff is not capped.
DoubledUncapped(b) == 2 * b

Doubled(b) == IF 2 * b < BackoffMax THEN 2 * b ELSE BackoffMax

-----------------------------------------------------------------------------
(* Building blocks of the actions *)

\* FocusRuntime._activate
Activate(src) == /\ active' = src
                 /\ focusMeta' = [backend |-> src, status |-> StatusFor(src)]

\* FocusRuntime.mark_atspi
MarkReady == IF Preferred[1] = "atspi" /\ active # "atspi" THEN Activate("atspi")
             ELSE UNCHANGED rtVars
MarkUnhealthy == IF active = "atspi" THEN Activate(Fallback) ELSE UNCHANGED rtVars

\* _sync_focus_mode, after active' and agent' are known
SyncMode == LET live == active' = "atspi" /\ FocusEvents /\ agent' \in {"starting", "serving"}
            IN  eventsOn' = live /\ focusOnPoll' = ~live

\* FocusCollector._maybe_write_focus: the key moves, then the row is appended.
Store(w) == IF w = NoWindow \/ w = lastKey THEN UNCHANGED rowVars
                 ELSE lastKey' = w /\ newest' = w

\* The append fails after the key has moved: no row, and none will follow for this key.
StoreLosesRow(w) == /\ "append" \in Faults /\ noisy
                    /\ w \notin {NoWindow, lastKey}
                    /\ lastKey' = w /\ UNCHANGED newest

\* FocusCollector.tick under tick_all: one-shot inventory of the active probe; a probe that
\* fails softly finds no window.  tick_all swallows what a tick raises: a write that fails
\* before the key has moved does what a walk does that finds nothing.
FocusTick ==
    \E w \in (IF active = "noop" \/ (active \in Polled /\ active \notin usable) THEN {NoWindow}
              ELSE IF noisy THEN {window, NoWindow} ELSE {window}) :
        Store(w) \/ StoreLosesRow(w)

\* start_atspi_agent: a new worker, which may exit at once, or none when Popen fails.
StartAgent ==
    /\ pipe' = <<>> /\ asked' = FALSE /\ seen' = NoWindow
    /\ \/ agent' = "starting" /\ agentMeta' = "starting"
       \/ "kill" \in Faults /\ agent' = "dead" /\ agentMeta' = "starting"
       \/ "spawn" \in Faults /\ agent' = "none" /\ agentMeta' = "dead"

NoAgent == agent' = "none" /\ pipe' = <<>> /\ asked' = FALSE /\ seen' = NoWindow

-----------------------------------------------------------------------------
(* The daemon's main thread *)

Init == /\ pc = "down"
        /\ agent = "none" /\ seen = NoWindow /\ asked = FALSE /\ pipe = <<>>
        /\ queue = <<>> /\ batch = <<>>
        /\ active = "noop" /\ eventsOn = FALSE /\ focusOnPoll = FALSE
        /\ respawnIn = Disarmed /\ backoff = BackoffBase
        /\ pollIn = PollEvery /\ backupIn = Disarmed
        /\ agentMeta = "n/a" /\ focusMeta = [backend |-> "noop", status |-> "unset"]
        /\ lastKey = NoWindow /\ newest = NoWindow
        /\ window \in Windows /\ usable \in SUBSET Candidates /\ noisy = FALSE

\* select_initial: AT-SPI is chosen unprobed when it comes first, else after a cold probe.
SelectInitial ==
    /\ pc = "down"
    /\ pc' = "start agent"
    /\ agentMeta' = "n/a"
    /\ \E cold \in BOOLEAN :
          Activate(IF Preferred[1] = "atspi" THEN "atspi"
                   ELSE FirstOf(HealthySet \cup (IF cold THEN {"atspi"} ELSE {})))
    /\ UNCHANGED <<agentVars, queue, batch, modeVars, timeVars, rowVars, envVars>>

\* _start_atspi of run_daemon, then the first lines of run_main_loop.
BootAgent ==
    /\ pc = "start agent"
    /\ pc' = "boot tick"
    /\ IF WantsAgent THEN StartAgent /\ MarkUnhealthy
       ELSE UNCHANGED <<agentVars, agentMeta, rtVars>>
    /\ SyncMode
    /\ backupIn' = IF eventsOn' THEN BackupEvery ELSE Disarmed
    /\ UNCHANGED <<queue, batch, respawnIn, backoff, pollIn, rowVars, envVars>>

BootTick ==
    /\ pc = "boot tick"
    /\ pc' = "wait"
    /\ FocusTick
    /\ UNCHANGED <<agentVars, queue, batch, rtVars, modeVars, timeVars, agentMeta, envVars>>

\* atspi_q.get returns and the queue is drained into a batch; or the timeout is over.
Wake ==
    /\ pc = "wait"
    /\ pc' = "handle"
    /\ batch' = queue /\ queue' = <<>>
    /\ UNCHANGED <<agentVars, rtVars, modeVars, timeVars, agentMeta, rowVars, envVars>>

HandleNext == pc = "handle" /\ batch # <<>> /\ batch' = Tail(batch)

\* next_desktop counts from the head of this turn of the loop, one wait earlier.
HandleReady ==
    /\ HandleNext /\ Head(batch) = "ready"
    /\ MarkReady
    /\ agent' = agent /\ SyncMode
    /\ IF eventsOn' THEN backupIn' = BackupEvery /\ backoff' = BackoffBase
       ELSE UNCHANGED <<backupIn, backoff>>
    /\ agentMeta' = "ready"
    /\ UNCHANGED <<pc, seen, asked, pipe, queue, respawnIn, pollIn, rowVars, envVars>>

\* Mutant: results count whatever the source is.
HandleResultLate ==
    /\ HandleNext /\ Head(batch) # "ready"
    /\ Store(Head(batch))
    /\ UNCHANGED <<pc, agentVars, queue, rtVars, modeVars, timeVars, agentMeta, envVars>>

\* A probe_result; late results are ignored when the collector is no longer on AT-SPI.
\* Nothing catches an append that fails here: the batch is rolled back, and the daemon
\* GoesDown.
HandleResult ==
    /\ HandleNext /\ Head(batch) # "ready"
    /\ IF active = "atspi" THEN Store(Head(batch)) ELSE UNCHANGED rowVars
    /\ UNCHANGED <<pc, agentVars, queue, rtVars, modeVars, timeVars, agentMeta, envVars>>

HandleDone ==
    /\ pc = "handle" /\ batch = <<>>
    /\ pc' = "check"
    /\ UNCHANGED <<agentVars, queue, batch, rtVars, modeVars, timeVars, agentMeta, rowVars,
                   envVars>>

AgentIsLost == agent = "dead" /\ respawnIn = Disarmed

\* Mutant: the loop does not compute its mode again after the demotion.
CheckAgentNoSync ==
    /\ pc = "check"
    /\ pc' = "respawn"
    /\ IF FocusEvents /\ AgentIsLost
       THEN /\ agentMeta' = "dead"
            /\ NoAgent /\ MarkUnhealthy
            /\ respawnIn' = backoff /\ backoff' = Doubled(backoff)
       ELSE UNCHANGED <<agentMeta, agentVars, rtVars, respawnIn, backoff>>
    /\ UNCHANGED <<queue, batch, modeVars, pollIn, backupIn, rowVars, envVars>>

\* The exit of the agent is noticed: stop it, demote, and arm the respawn.
CheckAgent ==
    /\ pc = "check"
    /\ pc' = "respawn"
    /\ IF FocusEvents /\ AgentIsLost
       THEN /\ agentMeta' = "dead"
            /\ NoAgent
            /\ MarkUnhealthy
            /\ SyncMode
            /\ backupIn' = Disarmed
            /\ respawnIn' = backoff
            /\ backoff' = Doubled(backoff)
       ELSE UNCHANGED <<agentMeta, agentVars, rtVars, modeVars, backupIn, respawnIn, backoff>>
    /\ UNCHANGED <<queue, batch, pollIn, rowVars, envVars>>

\* Mutant: a start that fails is not tried again.
RespawnOnce ==
    /\ pc = "respawn"
    /\ pc' = "poll"
    /\ IF respawnIn = 0
       THEN /\ StartAgent /\ MarkUnhealthy /\ SyncMode
            /\ respawnIn' = Disarmed
       ELSE UNCHANGED <<agentVars, agentMeta, rtVars, modeVars, respawnIn>>
    /\ UNCHANGED <<queue, batch, backoff, pollIn, backupIn, rowVars, envVars>>

Respawn ==
    /\ pc = "respawn"
    /\ pc' = "poll"
    /\ IF respawnIn = 0
       THEN /\ StartAgent /\ MarkUnhealthy /\ SyncMode
            /\ IF agent' = "starting" THEN respawnIn' = Disarmed /\ UNCHANGED backoff
               ELSE respawnIn' = backoff /\ backoff' = Doubled(backoff)
       ELSE UNCHANGED <<agentVars, agentMeta, rtVars, modeVars, respawnIn, backoff>>
    /\ UNCHANGED <<queue, batch, pollIn, backupIn, rowVars, envVars>>

Poll ==
    /\ pc = "poll"
    /\ pc' = "backup"
    /\ IF pollIn = 0
       THEN /\ pollIn' = PollEvery
            /\ IF focusOnPoll THEN FocusTick ELSE UNCHANGED rowVars
       ELSE UNCHANGED <<pollIn, rowVars>>
    /\ UNCHANGED <<agentVars, queue, batch, rtVars, modeVars, respawnIn, backoff, backupIn,
                   agentMeta, envVars>>

\* Mutant: the deadline is moved but the command is not sent.
BackupNotAsked ==
    /\ pc = "backup"
    /\ pc' = "wait"
    /\ backupIn' = IF eventsOn /\ backupIn = 0 THEN BackupEvery ELSE backupIn
    /\ UNCHANGED <<agentVars, queue, batch, rtVars, modeVars, respawnIn, backoff, pollIn,
                   agentMeta, rowVars, envVars>>

\* agent.request_probe("desktop"); a command to an agent that has exited is dropped.
Backup ==
    /\ pc = "backup"
    /\ pc' = "wait"
    /\ IF eventsOn /\ agent # "none" /\ backupIn = 0
       THEN backupIn' = BackupEvery /\ asked' = (asked \/ Running)
       ELSE UNCHANGED <<backupIn, asked>>
    /\ UNCHANGED <<agent, seen, pipe, queue, batch, rtVars, modeVars, respawnIn, backoff, pollIn,
                   agentMeta, rowVars, envVars>>

Loop == \/ SelectInitial \/ BootAgent \/ BootTick \/ Wake \/ HandleReady \/ HandleResult
        \/ HandleDone \/ CheckAgent \/ Respawn \/ Poll \/ Backup

-----------------------------------------------------------------------------
(* The agent's worker process and the reader thread *)

Emit(m) == Len(pipe) < MaxPipe /\ pipe' = Append(pipe, m)

\* The worker's main registers the listeners and says ready; it probes nothing.
AgentReady == /\ agent = "starting"
              /\ agent' = "serving" /\ seen' = window
              /\ Emit("ready")
              /\ UNCHANGED <<pc, asked, queue, batch, rtVars, modeVars, timeVars, agentMeta,
                             rowVars, envVars>>

\* An event of the newly focused window, coalesced and throttled.
AgentTells == /\ agent = "serving" /\ seen # window
              /\ seen' = window
              /\ Emit(window)
              /\ UNCHANGED <<pc, agent, asked, queue, batch, rtVars, modeVars, timeVars,
                             agentMeta, rowVars, envVars>>

\* do_probe("desktop"): a walk that fails finds nothing.
AgentAnswers == /\ agent = "serving" /\ asked
                /\ asked' = FALSE
                /\ \E w \in {window} \cup (IF noisy THEN {NoWindow} ELSE {}) : Emit(w)
                /\ UNCHANGED <<pc, agent, seen, queue, batch, rtVars, modeVars, timeVars,
                               agentMeta, rowVars, envVars>>

\* A result about a window without the focus: the title change of a background window
\* is told as a focus result too (AgentWorker).
AgentStrays == /\ noisy /\ agent = "serving"
               /\ \E w \in Windows : Emit(w)
               /\ UNCHANGED <<pc, agent, seen, asked, queue, batch, rtVars, modeVars, timeVars,
                              agentMeta, rowVars, envVars>>

AgentDies == /\ "kill" \in Faults /\ Running
             /\ agent' = "dead"
             /\ UNCHANGED <<pc, seen, asked, pipe, queue, batch, rtVars, modeVars, timeVars,
                            agentMeta, rowVars, envVars>>

\* FocusAtspiAgent._read_loop hands one line to atspi_q.put.
ReaderMoves == /\ pipe # <<>> /\ Len(queue) < MaxQueue
               /\ pipe' = Tail(pipe) /\ queue' = Append(queue, Head(pipe))
               /\ UNCHANGED <<pc, agent, seen, asked, batch, rtVars, modeVars, timeVars,
                              agentMeta, rowVars, envVars>>

-----------------------------------------------------------------------------
(* The environment *)

Elapsed(t) == IF t > 0 THEN t - 1 ELSE t

Tick == /\ pc = "wait" /\ (pollIn > 0 \/ respawnIn > 0 \/ backupIn > 0)
        /\ pollIn' = Elapsed(pollIn) /\ respawnIn' = Elapsed(respawnIn)
        /\ backupIn' = Elapsed(backupIn)
        /\ UNCHANGED <<pc, agentVars, queue, batch, rtVars, modeVars, backoff, agentMeta,
                       rowVars, envVars>>

FocusMoves == /\ window' \in Windows \ {window}
              /\ UNCHANGED <<pc, agentVars, queue, batch, rtVars, modeVars, timeVars, agentMeta,
                             rowVars, usable, noisy>>

\* An X display or a compositor command comes or goes.
DisplayChanges == /\ "display" \in Faults
                  /\ usable' \in SUBSET Candidates \ {usable}
                  /\ UNCHANGED <<pc, agentVars, queue, batch, rtVars, modeVars, timeVars,
                                 agentMeta, rowVars, window, noisy>>

\* The desktop becomes noisy, or quiet again.
NoiseChanges == /\ "noise" \in Faults
                /\ noisy' = ~noisy
                /\ UNCHANGED <<pc, agentVars, queue, batch, rtVars, modeVars, timeVars,
                               agentMeta, rowVars, window, usable>>

\* The daemon goes down, with its agent; the store stays.
GoesDown == /\ "crash" \in Faults /\ pc # "down"
            /\ pc' = "down" /\ NoAgent /\ queue' = <<>> /\ batch' = <<>>
            /\ active' = "noop" /\ eventsOn' = FALSE /\ focusOnPoll' = FALSE
            /\ respawnIn' = Disarmed /\ backoff' = BackoffBase
            /\ pollIn' = PollEvery /\ backupIn' = Disarmed
            /\ lastKey' = NoWindow
            /\ UNCHANGED <<agentMeta, focusMeta, newest, envVars>>

AgentSteps == AgentReady \/ AgentTells \/ AgentAnswers \/ AgentStrays \/ AgentDies \/ ReaderMoves
Env        == Tick \/ FocusMoves \/ DisplayChanges \/ NoiseChanges \/ GoesDown

Next == Loop \/ AgentSteps \/ Env

Spec == Init /\ [][Next]_vars

\* As in IdleChain: the loop, the reader and the worker are scheduled, and time diverges.
Fairness == /\ WF_vars(Loop) /\ SF_vars(Tick) /\ WF_vars(ReaderMoves)
            /\ WF_vars(AgentReady) /\ WF_vars(AgentTells) /\ WF_vars(AgentAnswers)

LiveSpec == Spec /\ Fairness

-----------------------------------------------------------------------------
(* Types *)

(* The deadlines of run_main_loop stay within their delays and the respawn  *)
(* delay never exceeds its cap; metas and rows have values a reader knows.  *)
TypeOK ==
    /\ pc \in Pc /\ agent \in Agent
    /\ seen \in Windows \cup {NoWindow} /\ asked \in BOOLEAN
    /\ pipe \in Seq(Message) /\ queue \in Seq(Message) /\ batch \in Seq(Message)
    /\ active \in Source /\ eventsOn \in BOOLEAN /\ focusOnPoll \in BOOLEAN
    /\ respawnIn \in 0 .. BackoffMax \cup {Disarmed}
    /\ backoff \in BackoffBase .. BackoffMax
    /\ pollIn \in 0 .. PollEvery /\ backupIn \in 0 .. BackupEvery \cup {Disarmed}
    /\ agentMeta \in {"n/a", "starting", "ready", "dead"}
    /\ focusMeta \in [backend : Source, status : Status]
    /\ lastKey \in Windows \cup {NoWindow} /\ newest \in Windows \cup {NoWindow}
    /\ window \in Windows /\ usable \in SUBSET Candidates /\ noisy \in BOOLEAN

(* Events drive the focus path only while FocusRuntime is on AT-SPI and the *)
(* loop holds an agent: demote, recover, respawn and the loop's own copy of *)
(* the mode (events_enabled) never drift apart.  And while they do, a       *)
(* deadline for the desktop backup is set: it is what repairs a focus fact  *)
(* no event announced.                                                      *)
EventModeIsLive == eventsOn => active = "atspi" /\ agent # "none" /\ backupIn # Disarmed

(* While the runtime is demoted, what is stored, and the key the next tick  *)
(* is compared with, is the window in focus at that moment: a result that   *)
(* the dead agent left in its pipe, in atspi_q or in the batch neither      *)
(* writes over what the polled probe said nor makes its next tick a         *)
(* duplicate.                                                               *)
PolledRowsAreCurrent ==
    [][active # "atspi" => /\ newest' # newest => newest' = window
                           /\ lastKey' \notin {lastKey, NoWindow} => lastKey' = window]_vars

Child == IF Running THEN "up" ELSE agent

Supervision == INSTANCE Supervisor WITH
    Base <- BackoffBase, Cap <- BackoffMax, Retries <- TRUE,
    child <- Child, dueIn <- respawnIn, delay <- backoff

(* The focus chain implements Supervisor, with retries: no second worker is *)
(* started beside a living one, the delays double until a `ready` that      *)
(* brings the events back, and an agent that once ran is never given up:    *)
(* an exit, or a start that fails, comes to its next attempt.               *)
Supervised == Supervision!Spec

(* The row of w is the one whose append failed after the key had moved.     *)
RowIsLost(w) == lastKey = w /\ newest # w

(* On a desktop that became quiet, the newest focus row comes to be the     *)
(* window that keeps the focus, and stays so: under an agent that serves,   *)
(* even when no event announced it and whatever stray rows came before; and *)
(* under a healthy polled probe, after whatever demotions.  The one row     *)
(* that may be missing is that of an append that failed for this very       *)
(* window: the key says it is stored, and until the focus moves, the agent  *)
(* sends a stray or the daemon restarts, no tick writes it.                 *)
FocusConverges ==
    \A w \in Windows :
        /\ <>[](window = w /\ agent = "serving" /\ ~noisy) => <>[](newest = w \/ RowIsLost(w))
        /\ <>[](window = w /\ active \in usable /\ ~noisy) => <>[](newest = w \/ RowIsLost(w))

=============================================================================
