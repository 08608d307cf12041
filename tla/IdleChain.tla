----------------------------- MODULE IdleChain ------------------------------
(***************************************************************************)
(* The idle writers of the daemon (ADR-002): the main loop                 *)
(* (daemon.py, daemon_loop.py), the Wayland idle watch it respawns (a      *)
(* listener subprocess whose stdout a reader thread moves to idle_q:       *)
(* collectors/idle_watch.py), and the logind collector it polls when the   *)
(* watch is not healthy (collectors/idle.py).  The store survives the      *)
(* daemon; everything else is lost when it goes down.                      *)
(*                                                                         *)
(* Time is counted in units; it passes only while the loop is blocked in   *)
(* atspi_q.get, because every deadline is relative to the `now` read once  *)
(* after it.  The bounds MaxPipe and MaxQueue stop the listener and the    *)
(* reader, never the loop.                                                 *)
(***************************************************************************)
EXTENDS Integers, Sequences, Presence

CONSTANTS Backend,      \* cfg.idle_backend; "off" also stands for cfg.idle = false
          BackoffBase,  \* _IDLE_RESPAWN_BASE_S
          BackoffMax,   \* _IDLE_RESPAWN_MAX_S
          PollEvery,    \* cfg.poll_seconds
          Hints,        \* the logind readings the session may give
          Faults,       \* what may go wrong
          MaxPipe,      \* bound: lines in the listener's stdout
          MaxQueue      \* bound: messages in idle_q

ASSUME IdleChainAssumption ==
    /\ Backend \in {"auto", "wayland", "logind", "off"}
    /\ BackoffBase \in Nat \ {0} /\ BackoffMax \in Nat /\ BackoffBase <= BackoffMax
    /\ PollEvery \in Nat \ {0}
    /\ Hints \subseteq [idle : {"yes", "no"}, locked : {"yes", "no"}]
    /\ Faults \subseteq {"kill", "error", "spawn", "crash", "session", "append"}
    /\ MaxPipe \in Nat /\ MaxQueue \in Nat

VARIABLES
    pc,           \* where the main thread is
    stop,         \* the flag of the signal handler
    proc,         \* the listener process of idle_watch; "none": idle_watch is None
    told,         \* the last of idled / resumed the compositor told this listener
    pipe,         \* lines in its stdout the reader thread has not taken
    queue,        \* idle_q
    respawnIn,    \* idle_respawn_at - now, or Disarmed
    backoff,      \* idle_backoff
    pollIn,       \* next_poll - now
    logindPolled, \* an IdleCollector is in poll_collectors
    lastKey,      \* its _last
    watchMeta,    \* meta.idle_watch
    idleMeta,     \* meta.idle_backend and meta.idle_status
    newest,       \* the newest `idle` row of the store (None: no row)
    user,         \* "idle": no input for the threshold
    hint          \* what loginctl says of the session

loopVars  == <<respawnIn, backoff, pollIn>>
colVars   == <<logindPolled, lastKey>>
storeVars == <<watchMeta, idleMeta, newest>>
watchVars == <<proc, told, pipe>>
envVars   == <<user, hint>>
vars == <<pc, stop, proc, told, pipe, queue, respawnIn, backoff, pollIn, logindPolled,
          lastKey, watchMeta, idleMeta, newest, user, hint>>

-----------------------------------------------------------------------------
Disarmed  == -1
NoSession == [idle |-> "none", locked |-> "none"]  \* no active session was found
Unread    == [idle |-> "unread", locked |-> "unread"]  \* _last is None
NoRow     == [idle |-> "none", source |-> "unknown"]

Message  == {"ready", "error", "idled", "resumed"}
LoopPc   == {"wait", "drain", "check", "respawn", "poll"}
Pc       == LoopPc \cup {"down", "start watch", "boot tick", "closing"}
Proc     == {"none", "setup", "listening", "failing", "dead"}
Key      == [idle : {"yes", "no"}, locked : {"yes", "no"}] \cup {NoSession, Unread}
Row      == [idle : {"true", "false"}, source : {"wayland-idle", "logind"}] \cup {NoRow}
IdleMeta == [backend : {"wayland-idle", "logind", "noop", "off", "unset"},
             status : {"available", "degraded", "unavailable", "unset"}]

Running == proc \in {"setup", "listening", "failing"}  \* IdleWatch.running
UseWl   == Backend \in {"auto", "wayland"}             \* want_wayland_idle

\* Mutant: in auto mode logind is always polled.
AlwaysLogind(healthy) == Backend \in {"auto", "logind"}

WantLogind(healthy) == Backend = "logind" \/ (Backend = "auto" /\ ~healthy)

\* resolve_idle_chain; the reason is a rewording of the other two.
ResolveIdleChain(healthy, active) ==
    CASE Backend = "off"     -> [backend |-> "off", status |-> "unavailable"]
      [] Backend = "logind"  -> [backend |-> "logind",
                                 status |-> IF active THEN "available" ELSE "degraded"]
      [] Backend = "wayland" -> IF healthy
                                THEN [backend |-> "wayland-idle", status |-> "available"]
                                ELSE [backend |-> "noop", status |-> "unavailable"]
      [] Backend = "auto"    -> IF healthy
                                THEN [backend |-> "wayland-idle", status |-> "available"]
                                ELSE IF active
                                THEN [backend |-> "logind", status |-> "degraded"]
                                ELSE [backend |-> "noop", status |-> "unavailable"]

\* Mutant: the backoff is not capped.
DoubledUncapped(b) == 2 * b

Doubled(b) == IF 2 * b < BackoffMax THEN 2 * b ELSE BackoffMax

-----------------------------------------------------------------------------
(* Building blocks of the actions *)

\* poll_collectors[:] = build_poll_collectors(cfg, logind_idle=...): every collector is new.
Rebuild(logind) == logindPolled' = logind /\ lastKey' = Unread

WriteIdleMeta(healthy, active) == idleMeta' = ResolveIdleChain(healthy, active)

\* append_idle_transition
AppendIdle(flag, src) == newest' = [idle |-> flag, source |-> src]

\* IdleCollector._read at this tick: no active session may be found, and a property that
\* cannot be read counts as "no".
Reading ==
    {hint} \cup (IF "session" \in Faults
                 THEN {NoSession, [hint EXCEPT !.idle = "no"], [hint EXCEPT !.locked = "no"]}
                 ELSE {})

\* IdleCollector.tick: _last is set before the row is appended, and tick_all swallows
\* an append that fails.
LogindTick ==
    IF ~logindPolled THEN UNCHANGED <<lastKey, newest>>
    ELSE \E key \in Reading :
            /\ lastKey' = key
            /\ IF key = lastKey \/ key = NoSession
               THEN UNCHANGED newest
               ELSE \/ AppendIdle(IF key.idle = "yes" THEN "true" ELSE "false", "logind")
                    \/ "append" \in Faults /\ UNCHANGED newest

\* _start_idle_watch: the old watch is stopped (its unread lines are lost), a new one
\* is started; Popen may fail.
StartIdleWatch ==
    /\ pipe' = <<>> /\ told' = "resumed"
    /\ \/ proc' = "setup" /\ watchMeta' = "restarting"
       \/ "spawn" \in Faults /\ proc' = "none" /\ watchMeta' = "dead"

\* Nothing of the daemon is left: the process is gone and so is its listener.
NoDaemon == /\ pc' = "down" /\ stop' = FALSE
            /\ proc' = "none" /\ told' = "resumed" /\ pipe' = <<>> /\ queue' = <<>>
            /\ respawnIn' = Disarmed /\ backoff' = BackoffBase /\ pollIn' = PollEvery
            /\ logindPolled' = FALSE /\ lastKey' = Unread

-----------------------------------------------------------------------------
(* The daemon's main thread *)

Init == /\ pc = "down" /\ stop = FALSE
        /\ proc = "none" /\ told = "resumed" /\ pipe = <<>> /\ queue = <<>>
        /\ respawnIn = Disarmed /\ backoff = BackoffBase /\ pollIn = PollEvery
        /\ logindPolled = FALSE /\ lastKey = Unread
        /\ watchMeta = "n/a" /\ idleMeta = [backend |-> "unset", status |-> "unset"]
        /\ newest = NoRow
        /\ user = "active" /\ hint \in Hints

\* run_daemon up to the start of the watch.
Boot == /\ pc = "down"
        /\ pc' = "start watch"
        /\ watchMeta' = "n/a"
        /\ Rebuild(WantLogind(FALSE))
        /\ WriteIdleMeta(FALSE, WantLogind(FALSE))
        /\ UNCHANGED <<stop, watchVars, queue, loopVars, newest, envVars>>

BootWatch == /\ pc = "start watch"
             /\ pc' = "boot tick"
             /\ IF UseWl THEN StartIdleWatch /\ UNCHANGED idleMeta
                ELSE WriteIdleMeta(FALSE, WantLogind(FALSE)) /\ UNCHANGED <<watchVars, watchMeta>>
             /\ UNCHANGED <<stop, queue, loopVars, colVars, newest, envVars>>

\* The prologue of run_main_loop: the boot tick.  The `while` then looks at stop.
BootTick == /\ pc = "boot tick"
            /\ pc' = IF stop THEN "closing" ELSE "wait"
            /\ LogindTick
            /\ UNCHANGED <<stop, watchVars, queue, loopVars, logindPolled, watchMeta, idleMeta,
                           envVars>>

\* atspi_q.get(timeout=wait) returns: a message, or a deadline of this or another part.
Wake == /\ pc = "wait"
        /\ pc' = "drain"
        /\ UNCHANGED <<stop, watchVars, queue, loopVars, colVars, storeVars, envVars>>

NextMessage == /\ pc = "drain" /\ queue # <<>>
               /\ queue' = Tail(queue)

DrainReady ==
    /\ NextMessage /\ Head(queue) = "ready"
    /\ backoff' = BackoffBase
    /\ Rebuild(WantLogind(TRUE))
    /\ watchMeta' = "ready"
    /\ WriteIdleMeta(TRUE, FALSE)
    /\ UNCHANGED <<pc, stop, watchVars, respawnIn, pollIn, newest, envVars>>

\* Mutant: the meta is degraded, the collectors are left as they are.
DrainErrorMetaOnly ==
    /\ NextMessage /\ Head(queue) = "error"
    /\ watchMeta' = "dead"
    /\ WriteIdleMeta(FALSE, WantLogind(FALSE))
    /\ UNCHANGED <<pc, stop, watchVars, loopVars, colVars, newest, envVars>>

DrainError ==
    /\ NextMessage /\ Head(queue) = "error"
    /\ Rebuild(WantLogind(FALSE))
    /\ watchMeta' = "dead"
    /\ WriteIdleMeta(FALSE, WantLogind(FALSE))
    /\ UNCHANGED <<pc, stop, watchVars, loopVars, newest, envVars>>

\* Mutant: only the enter transitions are stored.
DrainIdleEnterOnly ==
    /\ NextMessage /\ Head(queue) \in {"idled", "resumed"}
    /\ IF Head(queue) = "idled" THEN AppendIdle("true", "wayland-idle")
       ELSE UNCHANGED newest
    /\ UNCHANGED <<pc, stop, watchVars, loopVars, colVars, watchMeta, idleMeta, envVars>>

DrainIdle ==
    /\ NextMessage /\ Head(queue) \in {"idled", "resumed"}
    /\ AppendIdle(IF Head(queue) = "idled" THEN "true" ELSE "false", "wayland-idle")
    /\ UNCHANGED <<pc, stop, watchVars, loopVars, colVars, watchMeta, idleMeta, envVars>>

\* idle_q is empty; stop is looked at before the timed work.
DrainDone == /\ pc = "drain" /\ queue = <<>>
             /\ pc' = IF stop THEN "closing" ELSE "check"
             /\ UNCHANGED <<stop, watchVars, queue, loopVars, colVars, storeVars, envVars>>

\* Mutant: readiness is tested in the place of the process.
WatchNotReady == UseWl /\ watchMeta # "ready" /\ respawnIn = Disarmed

WatchIsLost == UseWl /\ proc = "dead" /\ respawnIn = Disarmed

\* The exit of the listener is noticed: degrade, and arm the respawn.
CheckWatch ==
    /\ pc = "check"
    /\ pc' = "respawn"
    /\ IF WatchIsLost
       THEN /\ watchMeta' = "dead"
            /\ Rebuild(WantLogind(FALSE))
            /\ WriteIdleMeta(FALSE, WantLogind(FALSE))
            /\ respawnIn' = backoff
            /\ backoff' = Doubled(backoff)
       ELSE UNCHANGED <<watchMeta, colVars, idleMeta, respawnIn, backoff>>
    /\ UNCHANGED <<stop, watchVars, queue, pollIn, newest, envVars>>

Respawn ==
    /\ pc = "respawn"
    /\ pc' = "poll"
    /\ IF UseWl /\ respawnIn = 0
       THEN respawnIn' = Disarmed /\ StartIdleWatch
       ELSE UNCHANGED <<respawnIn, watchVars, watchMeta>>
    /\ UNCHANGED <<stop, queue, backoff, pollIn, colVars, idleMeta, newest, envVars>>

\* The poll tick, then the head of the `while`.
Poll ==
    /\ pc = "poll"
    /\ pc' = IF stop THEN "closing" ELSE "wait"
    /\ IF pollIn = 0
       THEN pollIn' = PollEvery /\ LogindTick
       ELSE UNCHANGED <<pollIn, lastKey, newest>>
    /\ UNCHANGED <<stop, watchVars, queue, respawnIn, backoff, logindPolled, watchMeta, idleMeta,
                   envVars>>

\* The `finally` of run_daemon: the watch is stopped, the store closed.
Close == /\ pc = "closing"
         /\ NoDaemon
         /\ UNCHANGED <<storeVars, envVars>>

Loop == \/ Boot \/ BootWatch \/ BootTick \/ Wake \/ DrainReady \/ DrainError \/ DrainIdle
        \/ DrainDone \/ CheckWatch \/ Respawn \/ Poll \/ Close

-----------------------------------------------------------------------------
(* The listener subprocess (_LISTENER_SCRIPT) and the reader thread *)

Emit(m) == Len(pipe) < MaxPipe /\ pipe' = Append(pipe, m)

\* The notification object exists from here on: a new object owes no `resumed`.
ListenerReady == /\ proc = "setup"
                 /\ proc' = "listening" /\ told' = "resumed"
                 /\ Emit("ready")
                 /\ UNCHANGED <<pc, stop, queue, loopVars, colVars, storeVars, envVars>>

ListenerTells == /\ proc = "listening"
                 /\ \/ user = "idle" /\ told = "resumed" /\ told' = "idled"
                    \/ user = "active" /\ told = "idled" /\ told' = "resumed"
                 /\ Emit(told')
                 /\ UNCHANGED <<pc, stop, proc, queue, loopVars, colVars, storeVars, envVars>>

\* An error line at set-up or out of display.dispatch, then sys.exit.
ListenerFails == /\ "error" \in Faults
                 /\ proc \in {"setup", "listening"}
                 /\ proc' = "failing"
                 /\ Emit("error")
                 /\ UNCHANGED <<pc, stop, told, queue, loopVars, colVars, storeVars, envVars>>

ListenerExits == /\ \/ proc = "failing"
                    \/ proc \in {"setup", "listening"} /\ "kill" \in Faults
                 /\ proc' = "dead"
                 /\ UNCHANGED <<pc, stop, told, pipe, queue, loopVars, colVars, storeVars,
                                envVars>>

\* IdleWatch._read_loop hands one line to idle_q.put.
ReaderMoves == /\ pipe # <<>> /\ Len(queue) < MaxQueue
               /\ pipe' = Tail(pipe) /\ queue' = Append(queue, Head(pipe))
               /\ UNCHANGED <<pc, stop, proc, told, loopVars, colVars, storeVars, envVars>>

-----------------------------------------------------------------------------
(* The environment *)

Elapsed(t) == IF t > 0 THEN t - 1 ELSE t

Tick == /\ pc = "wait" /\ (pollIn > 0 \/ respawnIn > 0)
        /\ pollIn' = Elapsed(pollIn) /\ respawnIn' = Elapsed(respawnIn)
        /\ UNCHANGED <<pc, stop, watchVars, queue, backoff, colVars, storeVars, envVars>>

UserChanges == /\ user' = IF user = "active" THEN "idle" ELSE "active"
               /\ UNCHANGED <<pc, stop, watchVars, queue, loopVars, colVars, storeVars, hint>>

HintChanges == /\ hint' \in Hints \ {hint}
               /\ UNCHANGED <<pc, stop, watchVars, queue, loopVars, colVars, storeVars, user>>

\* SIGTERM or SIGINT.
Signal == /\ pc # "down" /\ ~stop /\ "crash" \in Faults
          /\ stop' = TRUE
          /\ UNCHANGED <<pc, watchVars, queue, loopVars, colVars, storeVars, envVars>>

\* SIGKILL, or an exception no handler catches (a store write of the loop itself).
Crash == /\ pc # "down" /\ "crash" \in Faults
         /\ NoDaemon
         /\ UNCHANGED <<storeVars, envVars>>

Watch == ListenerReady \/ ListenerTells \/ ListenerFails \/ ListenerExits \/ ReaderMoves
Env   == Tick \/ UserChanges \/ HintChanges \/ Signal \/ Crash

Next == Loop \/ Watch \/ Env

Spec == Init /\ [][Next]_vars

\* The loop is one thread that is never blocked for longer than a deadline; the reader
\* and the listener are scheduled by the operating system; and time diverges: the loop
\* cannot go round for ever between two units of it.  The user, the session and the
\* faults owe nothing.
Fairness == /\ WF_vars(Loop) /\ SF_vars(Tick)
            /\ WF_vars(ReaderMoves) /\ WF_vars(ListenerReady) /\ WF_vars(ListenerTells)
            /\ WF_vars(proc = "failing" /\ ListenerExits)

LiveSpec == Spec /\ Fairness

-----------------------------------------------------------------------------
(* Types *)

(* The deadlines of run_main_loop stay within their delays and the respawn  *)
(* delay never exceeds its cap; what is stored has values a reader knows.   *)
TypeOK ==
    /\ pc \in Pc /\ stop \in BOOLEAN
    /\ proc \in Proc /\ told \in {"idled", "resumed"}
    /\ pipe \in Seq(Message) /\ queue \in Seq(Message)
    /\ respawnIn \in 0 .. BackoffMax \cup {Disarmed}
    /\ backoff \in BackoffBase .. BackoffMax
    /\ pollIn \in 0 .. PollEvery
    /\ logindPolled \in BOOLEAN /\ lastKey \in Key
    /\ watchMeta \in WatchStatus /\ idleMeta \in IdleMeta
    /\ newest \in Row
    /\ user \in {"active", "idle"} /\ hint \in Hints

(* ADR-002 rule 2, one runtime writer: no observer of the store ever sees   *)
(* meta.idle_watch = ready while the loop still polls logind, whatever the  *)
(* order in which messages, deaths, respawns and restarts of the daemon     *)
(* come.                                                                    *)
SingleWriter == watchMeta = "ready" /\ pc # "down" => ~logindPolled

(* meta.idle_backend, which doctor and the capabilities show, names logind  *)
(* exactly when logind is polled: five places rebuild the collectors and    *)
(* four write the meta, and they never disagree.                            *)
BackendMetaHonest == pc \notin {"down"} => (idleMeta.backend = "logind" <=> logindPolled)

\* What every surface shows while last_tick is fresh.
ShownPresence == derive_presence(0, watchMeta, newest, TRUE)

\* The listener has told all it owes, and all it told is in the store.
Settled == /\ pc = "wait" /\ queue = <<>> /\ pipe = <<>>
           /\ proc = "listening" /\ (told = "idled" <=> user = "idle")

(* An idle user under a living listener is shown idle once its lines are    *)
(* delivered: no stale message of an earlier watch, no logind reading and   *)
(* no restart can write over it.                                            *)
IdleIsNeverMissed == Settled /\ user = "idle" => ShownPresence.state = "idle"

Child == IF Running THEN "up" ELSE proc

Supervision == INSTANCE Supervisor WITH
    Base <- BackoffBase, Cap <- BackoffMax, Retries <- FALSE,
    child <- Child, dueIn <- respawnIn, delay <- backoff

(* The idle chain implements Supervisor, without retries: the listener is   *)
(* never started beside a living one, one exit makes one attempt after one  *)
(* delay, the delays double until a `ready`, and every listener that exits  *)
(* comes to its attempt, in whatever order messages, deaths and restarts of *)
(* the daemon come.                                                         *)
Supervised == Supervision!Spec

(* Whatever went wrong before: under a listener that lives on, a user who   *)
(* stays idle comes to be the newest row, and stays it; and once it told of *)
(* the idle user, their return comes to be in a row too, unless they leave  *)
(* again or the listener is lost first.                                     *)
WatchConverges ==
    /\ <>[](user = "idle" /\ proc = "listening") => <>[](newest.idle = "true")
    /\ (user = "active" /\ proc = "listening" /\ told = "idled")
          ~> (newest.idle = "false" \/ user = "idle" \/ proc # "listening")

-----------------------------------------------------------------------------
(* What the documents say and the code does not do *)

(* ADR-002 section 4: `idle` is the state when the authoritative input is   *)
(* idle.  A high-confidence idle is shown of an idle user only.             *)
IdleIsAuthoritative ==
    Settled /\ ShownPresence.state = "idle" /\ ShownPresence.confidence = "high"
        => user = "idle"

(* "Watch death must not look like confident active" (presence.py): not     *)
(* once the loop has noticed the death.                                     *)
NoticedDeathIsNotConfident ==
    respawnIn # Disarmed /\ ShownPresence.state = "active"
        => ShownPresence.confidence # "high"

=============================================================================
