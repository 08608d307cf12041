# roxabi-sense: TLA+ specifications and proofs

roxabi-sense is a desktop daemon that journals what a user's session shows — the focused
window, whether the user is idle, the agent sessions, multiplexer panes, media players and
processes that run — into an SQLite store, and a set of reports (CLI, MCP server) that read
the store. This directory models its control: the daemon's loop with the subprocesses and
threads around it, and the report functions whose answers depend on the order of facts.
Paths below are relative to the repository; `sense/` is `src/roxabi_sense/`.

    tlc -workers 2 -config idle_auto.cfg MCIdleChain.tla     # a run
    tlapm IdleChain_proofs.tla                               # the proofs

## 1. Inventory

| part | code | state | operations | what makes it correct |
|---|---|---|---|---|
| Main loop | `daemon.py`, `daemon_loop.py` | deadlines (poll, idle respawn, agent respawn, backup), two backoffs, the current watch and agent, `focus_events`, the list of polled collectors, the stop flag | one `while`: block in `atspi_q.get`, drain `idle_q`, handle agent messages, notice deaths, respawn, poll, ask for a backup | each deadline leads to what it was armed for; the mode the loop is in agrees with what the agent and the watch are |
| Idle watch | `collectors/idle_watch.py` | child process, its stdout, reader thread, `_stop` | `start`, `stop`, `_read_loop`; the listener script's `ready`, `idled`, `resumed`, `error` | an idle user is reported, once per transition; teardown returns |
| Logind idle | `collectors/idle.py`, `daemon_collectors.py`, `collectors/idle_meta.py`, `idle_facts.py` | `_last`, and whether the collector is polled at all | `tick`, `build_poll_collectors`, `resolve_idle_chain` | one writer of runtime idle facts (ADR-002); the meta names it |
| Presence | `report/presence.py` | none | `derive_presence` | a dead input path is never shown as a confident answer |
| Focus runtime | `collectors/focus/*`, `daemon_atspi.py` | `active`, the last stored key | `select_initial`, `mark_atspi`, `demote`, `tick`, `handle_atspi_msg` | the newest focus row is the window that keeps the focus; the status shown is the source in use |
| AT-SPI agent | `atspi/agent.py` | child process, queue, reader thread, `_stop` | `start`, `request_probe`, `stop`, `_read_loop` | one living worker; nothing delivered after `stop` |
| AT-SPI worker | `atspi/agent_worker.py` | `_pending_win`, `_pending_reason` and five timers that share them | `on_event`, `flush_coalesce`, `trail_tick`, `name_trail_flush`, `do_probe` | no activation is lost; results keep their distance |
| Agent link | `util/agent_link.py`, `util/mux.py`, `collectors/focus/collector.py` | two layers of cached panes | `find_agent_link`, `list_mux_agent_panes`, `_finish`, `_agent_key` | the newest focus row names the session the user looks at |
| Store | `store/db.py`, `store/migrate.py` | `events`, `meta` (the schema version among them), `_batch_depth` | `batch`, `append`, `set_meta`, `events_for_day`, `last_by_kind_before`, `migrate` | a batch is stored whole or not at all; a newer schema is refused |
| Snapshot collectors | `collectors/agent_sessions.py`, `cursor_sessions.py`, `herdr`, `tmux_sessions.py`, `mpris.py`, `process_presence.py` | last fingerprint, time of the last row, the cached registry | `tick`, `tick_all` | an unchanged desktop adds no row, a changed one does; what is confirmed was seen |
| Segments and away | `report/segments.py`, `report/away.py` | none | `away_segments`, `focus_segments`, `attention_segments` | an absence is what the idle facts tell; a second is given to one window |
| Meeting sessions | `report/meeting_sessions.py`, `meeting.py` | none | `meeting_samples`, `sessions_from_samples`, `annotate_away_with_meetings` | a session lasts as long as the evidence; the split of absences adds up |
| Dwell and pause clock | `report/dwell/*`, `report/clock/pause.py` | none | `attribute_repos`, hours, stays, `current_stretch`, `pause_clock` | seconds are attributed once; the pause clock does not outrun the wall clock |
| Reports and rendering | `report/day.py`, `report/care.py`, `status.py`, `render/*` … | none | composition and layout | the parts of one report are computed of one journal |
| Surfaces | `surfaces/*`, `query.py`, `doctor*.py` | none | argument parsing, printing | (I/O) |
| Configuration, installation, helpers | `config.py`, `install_service.py`, `util/*` | files | parsing, one-shot writes | (I/O) |

**How they interact.** The main thread owns all state. Each of the two children (idle listener,
AT-SPI worker) has a reader thread that only turns lines of the child's stdout into messages
in a queue; the loop blocks on one of the queues (`atspi_q.get(timeout=…)`) and drains the
other when it wakes. The loop writes the store (rows and `meta`); the reports open the same
file from other processes and only read it. One command, `collect_once`, ticks a set of fresh
collectors once and writes from its own process, beside the daemon if there is one. Signals set
a flag.

**What is hard.** A child dies while its last messages are still in a pipe or in a queue; a
message is acted on after the death of its sender was noticed; a child that fails to start
leaves no object behind to retry; collectors are rebuilt (and forget what they last stored)
while the transition that caused it is being handled; three timers of the worker share one
pending window; teardown waits for a lock the reader holds; a batch that read the store cannot
write it any more because another process committed since, and what the collector remembers
has moved; two caches of different ages stand between a pane and the row that names it. None
of these is reached by a test that calls one function. `PROJECT.json` lists them at their lines under "hazards".

## 2. Modules

| module | models | composed from |
|---|---|---|
| `Presence` | `derive_presence` and its helpers, one operator per branch | |
| `PresenceInputs` | its inputs, changed one at a time | `Presence` |
| `Supervisor` | abstract: what the main loop promises of a child process it keeps | |
| `IdleChain` | main loop, listener, reader, logind, metas, and what a status report would show | `Presence`; implements `Supervisor` |
| `FocusChain` | main loop, focus runtime, AT-SPI agent as a process that serves events and probes, focus rows | implements `Supervisor` |
| `AgentLink` | `find_agent_link`, one operator per rule, in their order | |
| `FocusLink` | the agent link of the newest focus row, over the two layers of cached panes | `AgentLink` |
| `AgentWorker` | the inside of the AT-SPI worker: coalescing, minimum distance, title throttle | |
| `WatchStop` | `stop()` of both wrappers against their reader threads, one statement per action | |
| `Journal` | the snapshot collectors and the store, written by the daemon and by `collect_once` | |
| `Lists` | the filters and the sums of the reports: the elements of a list that are in a set, and what the elements of a list last together | |
| `Away`, `Segments`, `Meetings`, `Repos`, `Dwell`, `Pauses` | the report's pure functions | `Lists` |
| `Recap` | `compile_day_recap` and the care brief's facts about now, over a journal that grows and a clock that moves | the reports above, `Presence` |
| `MCStatus` | what `active_now` tells: the presence and the newest focus row | `PresenceInputs`, `MCFocusLink` |
| `MCIdleChain`, `MCFocusChain`, `MCFocusLink`, `MCAgentWorker`, `MCWatchStop`, `MCJournal`, `MCRecap` | constants for TLC | the module in their name |
| `IdleChain_proofs`, `FocusChain_proofs`, `AgentWorker_proofs`, `WatchStop_proofs`, `Presence_proofs`, `Journal_proofs`, `Recap_proofs` | the proofs | the module in their name, `TLAPS` |
| `FoldSteps` | what a fold over a list is, element by element, for any operator; instantiated by `Recap_proofs` with the body of each loop | |

`IdleChain` and `FocusChain` are two projections of the same loop: the loop's branches about
idle facts and those about focus share only the wake-up and the stop flag, so each module
keeps the `wait` state with every deadline of its own half, and wakes up for any reason (the
other half's deadlines and messages are among them). The order of the branches inside an
iteration is the code's and is a program counter (`pc`), because a child can die and a reader
can move a line between any two of them.

### Supervisor

Both halves respawn their child in the same way: an exit is noticed once and arms a deadline,
the deadline leads to one attempt, the delay doubles up to a cap until a `ready`. The
state is the child, the deadline and the delay. The two halves differ in one respect, a constant:
the agent's branch arms the deadline again when a start fails (`Retries`), the idle branch
does not. Each chain instantiates the module with its own state (`Supervision`), and the
property `Supervised` of its run is `Supervision!Spec`: `SafeSpec`, which is also proved, and
`Live`, which is only checked. What `Supervisor` promises is what the loop gives: nothing is
promised of a first start that fails, and a child may be let go of when its exit is noticed.

### IdleChain

`proc` is the listener process (`none`: the loop holds no watch object; `dead`: it holds one
whose process exited), `told` what the compositor last told this notification object, `pipe`
its unread stdout, `queue` is `idle_q`. `respawnIn`, `pollIn` are `idle_respawn_at - now` and
`next_poll - now`; `backoff` is `idle_backoff`. `logindPolled` and `lastKey` are whether an
`IdleCollector` is in `poll_collectors` and its `_last`. `watchMeta`, `idleMeta`, `newest`
are what the store holds and survive a crash.

`Boot`, `BootWatch`, `BootTick` are `run_daemon` and the prologue of `run_main_loop`; `Wake`,
`DrainReady`, `DrainError`, `DrainIdle`, `DrainDone`, `CheckWatch`, `Respawn`, `Poll` one
iteration; `Close` the `finally`. `ListenerReady`, `ListenerTells`, `ListenerFails`,
`ListenerExits` are the listener script; `ReaderMoves` the reader thread. The environment
moves the user, the logind hints and the clock, sends SIGTERM and crashes the daemon. A
constant `Faults` names what may go wrong in a run: `kill` (the listener dies), `error` (it
reports an error and exits), `spawn` (Popen fails), `crash` (daemon killed or told to stop),
`session` (logind reads no session or only some of its properties), `append` (a polled append
raises and `tick_all` swallows it).

### FocusChain

`agent` is the worker process, `active` the runtime's active source, `eventsOn` the loop's
`focus_events`, `usable` which polled probes work at this moment. `SelectInitial`, `BootAgent`,
`BootTick` are the start; `HandleReady`, `HandleResult`, `CheckAgent`, `Respawn`, `Poll`,
`Backup` one iteration; the agent's steps are `AgentReady`, `AgentTells` (an event),
`AgentAnswers` (a probe command), `AgentStrays` (the title change of a window that is not
focused) and `AgentDies`. `Faults` is `kill`, `spawn`, `crash` as in `IdleChain`, `noise`
(walks that find nothing, and results about windows without the focus), `display` (polled
probes that come and go) and `append` (a polled append raises after `_last_key` moved, and
`tick_all` swallows it: the row is lost, and no tick retries it while the key stays). An append
that raises while a result of the agent is handled is caught by nobody and ends the daemon.

### AgentLink, FocusLink

`AgentLink` is the cascade of `find_agent_link`: a registered process in the tree of the window;
else, of a terminal or a window whose app or title names an agent, a pane whose title fits, the one the multiplexer has focused, or the one
its registered sessions single out; else an agent without registry in the tree. Each rule has
its condition. What a title scores against another, and what the process table says, are inputs. `FocusLink` puts it
where the daemon calls it: `_finish` enriches the active window, builds the key of the row
(window and `_agent_key`) and stores a row under a new key. The panes come from
`list_mux_agent_panes`, which caches for two seconds what it builds from the answers of tmux
and Herdr, which are cached for two seconds themselves and filled by the snapshot collectors
too. Which window is active, and that a probe comes, is `FocusChain`'s.

### AgentWorker

One GLib main loop: every callback is a step, callbacks that are due run in any order, and
time advances when none is due. The code's delays are 80 ms (`Coalesce`), the minimum distance
`ProbeMin` of two results, the title throttle `NameThrottle` and the 180 s between two desktop
commands (`BackupEvery`); the constants keep their order. `strayed` is a history variable: a
window that does not have the focus changed its title since the last activation, which is the
one case in which the focused window may go untold.

### WatchStop

`stop()` as the sequence of its statements against the reader's iteration over stdout. The
stdout object's lock is CPython's: a blocked read holds it and `close()` needs it.

### Journal

Two processes, `daemon` and `once`, tick collectors in the order of `build_poll_collectors`.
A tick is one batch: `StatRegistry` and `ParseRegistry` are the two reads of the registry file
(it may be rewritten between them), `AgentsTick`, `CursorTick`, `ScanTick`, `HerdrTick` the
collectors, `Commit` the end of the batch, `LastTick` the auto-commit of `meta.last_tick`.
`view` is what the transaction has read, `lock` who may write, `draft` what the batch would
commit, `mem` what the collectors remember. A write of a process whose view is stale, or beside
another writer, fails; `tick_all` swallows it and goes on, and the memory of the collector has
moved by then or not, as in its code. `Start` is a boot or a `collect_once`, `Ends` a crash or
the end of the command, `Rebuild` the new collectors of a change of the idle chain. `scan`
stands for the collectors that only compare with their last scan (processes, players, tmux).
`store.honest` and `alone` are history variables: the newest agents row is the list that was
seen when it was last confirmed, and `collect_once` has never run.

### Lists, Away, Segments, Meetings, Repos, Dwell, Pauses, Recap

The reports are pure functions of the rows of a day, so all of these but `Recap` have operators
and no state: the loops of the code are folds (`Transition`, `CollapseRow`, `CutAll`, `Visit`,
`Sample`, `SplitStep`, the sweep of `Repos` are the loop bodies) and its filtering comprehensions
are `Only`. `Recap` composes them as
`compile_day_recap` and `compile_care_brief` do, and its state is the input: `journal`, whether
the newest idle row before the day is an enter (`carried`), and `now`, which bounds the
horizon. `recap` and `brief` are what a reader who compiles at this moment gets; a step is a
row the daemon appends or a second that passes. A row carries what the functions look at. What
a title or an inventory says of a meeting is an input (`TitleHint` and the hints of desktop
rows), and so is the repository of a directory (`RepoLabel`). The window of a focus row is a
record of the fields the reports read: app, title, process, and the agent link (directory, how
it was found, session, process). Rows of one app and title that follow each other are one run,
and each field of it is the newest known one (`Merged`), as in `focus_segments`; the attention
key of a segment, whether it is a terminal, and the repository it is linked to (`LinkedRepo`)
are computed from these fields.

The properties read the day second by second off the rows and compare: they do not repeat the
folds. Absences come from the enter that opens a run of enters to the next leave; focus comes
from the newest focus row; a meeting from the newest row of the journal that speaks of one
(a partial inventory does not); a repository from the newest snapshot of Herdr while it is
trusted, else from what the rows of the stay, later ones included, tell of the link. Two properties compare one report with the next: the
settled past is not rewritten (`PastStands`) and the pause clock does not jump ahead
(`PauseClockRuns`). `AwayIsIdleTime` compares sets of seconds: absences may overlap, for an
enter is back-dated, and that a second of two of them is in two is not what it asks.
`SplitKeepsAway` counts.

## 3. Runs

| run | what it asks | result |
|---|---|---|
| `status` | degraded is explained, confidence needs a healthy input, time and the loss of the watch never reassure; the newest focus row comes to name the registered session the user looks at, over two caches, pane switches, a changing registry and restarts | holds |
| `focus_link` | "Foreground attention (app/title/agent cwd)": the newest focus row comes to have the directory of the focused pane | **violated** |
| `idle_auto` | auto mode, every fault: one runtime writer, the backend meta names it, an idle user is shown idle, `Supervisor` without retries is implemented, a lasting listener makes the newest row right | holds |
| `idle_stale` | "Authoritative input idle true": a high-confidence idle means the user is idle | **violated** |
| `idle_late_ready` | "Watch death must not look like confident active" | **violated** |
| `focus` | the mode agrees with the runtime and a backup is due in event mode, nothing late is stored or becomes the dedup key while a polled probe is the source, `Supervisor` with retries is implemented, the newest focus row becomes the window that keeps the focus (unless its append failed), under an agent that serves or a probe that works | holds |
| `agent` | a pending window is scheduled, results keep their distance, a focused window that nobody intruded on is told | holds |
| `agent_background` | "Prefer activate over name" | **violated** |
| `stop_agent` | the agent's `stop()` returns, with at most one late line and nothing delivered afterwards | holds |
| `stop_idle` | the watch's `stop()` returns ("parity with FocusAtspiAgent.stop") | **violated** |
| `recap` | absences are what idle rows tell, each free second is in one focus segment, totals by visit, stay and hour add up, sessions follow the evidence, the split on calls adds up, focus and agent time go to their repository (that of the focus link is the one all rows of a stay tell together), the settled past is not rewritten, the pause clock does not jump ahead | holds |
| `journal` | batches bracket their writes, the cached registry is what its file says, a confirmed list was seen, a quiet desktop never looks like a daemon that is down, the store comes to tell the truth of a desktop that stays | holds |

`MCStatus` puts two independent parts of what `active_now` shows in one run: a behaviour
explores one of them (`part`) and leaves the other at one value. `FocusLinkConverges` is
`LinkConverges` of the behaviours that explore the focus row, and fairness is asked of these.

### What the violated runs show

Each quotes a line of the repository (`PROJECT.json`, "findings").

* `idle_stale`. The user is idle, the row says so, the listener dies; the user comes back; the
  new listener's notification object owes no `resumed`. Until the next idle the store says
  idle and, the new watch being `ready`, with high confidence.
* `idle_late_ready`. A listener writes `ready` and dies. The death is seen by `running` before
  the line has come through the reader and the queue; the `ready` is then drained after the
  loop degraded, and the store shows a confident active while there is no watch.
* `agent_background`. While an activation is being coalesced, a title change of another window
  that is throttled writes its window over the pending one.
* `stop_idle`. `stop()` closes stdout first; the reader is blocked in a read of it and holds
  its lock; nothing has told the listener to exit. An idle user's listener writes nothing. The
  agent is not affected because it is sent `quit` first.
* `focus_link`. The key of a focus row takes of an agent link the session id, else the process,
  else how it was matched. A Herdr pane of an agent without registry (OMP) has neither id nor
  process, so all such panes have the key `herdr_focused` under the one generic title of the
  terminal: going from one to another writes no row, and the newest one keeps the directory of
  the pane that was left. A registered agent is not affected (`FocusLinkConverges`).

Read from the code while modelling, and not covered by a property: a rebuild of the collectors
between two ticks stores a logind reading twice, which readers of states do not notice; a first
start that fails leaves `None`, for which neither child is retried; agent and Cursor sessions share a kind, so each replaces the other's row for
every reader of the newest; a meeting hint with a longer label drops the call id, and the next
call joins the session; of two sessions registered in one directory the last wins, and a sole
registered session is taken for any terminal of which nothing else is known; `collect_once` writes `last_tick`, and a daemon that is down looks alive
for the threshold.

Two disagreements are in the models, and the properties are stated as the code has it. The focus
key moves before the append, so a row whose append failed is not tried again while the key stays:
`FocusConverges` allows for that one row (`RowIsLost`). And `focus_segments` joins the links of
the rows of a stay field by field, newest known one first, although the dwell before the newest
row belongs to the earlier link. `report/dwell/repos.py:11` says of the linked directory that it
is "never a bare-`comm` guess"; but a directory guessed by the process name stays when a later
row has a way of matching and no directory (a pane without a path), and then it counts
(`FocusCountsForItsRepo` says so, and the days of `recap` have such rows).

### Bounds

* `MaxPipe` and `MaxQueue` are 1 and 1 in the two chains, 2 for the pipe in `WatchStop`. They
  hold back the child and the reader, never the loop. One line in the pipe and one in the queue
  let an `error` or a `ready` be overtaken by the death of its sender and be followed by a
  transition of the next listener.
* `BackoffBase` 1 and `BackoffMax` 2 give one doubling and the cap. `PollEvery` is 1 in
  `idle_auto` and `focus`, so that every second may poll, and 2 in `idle_stale` and
  `idle_late_ready`, where a poll falls before, with and after a respawn; `BackupEvery` 2
  differs from `PollEvery`. `idle_auto` has every fault (`kill`, `error`, `spawn`, `crash`,
  `session`, `append`), `focus` too (`kill`, `spawn`, `crash`, `noise`, `display`, `append`); the
  violated runs need a `kill` only.
* `OfflineThreshold` matters in `status` (2, with ages up to 4: below, at and above). The loop
  ticks `last_tick`; `IdleChain` looks at presence while the daemon is alive.
* Two windows tell the focused window from the stored one, and the order AT-SPI, X11, noop
  gives a demotion both a probe that may work and one that never does. Three windows are used
  in `AgentWorker`, where the focused, the pending and the intruding one differ. Its delays are
  1, 2, 4, 6 (2, 4, 7, 9 in `agent_background`): coalescing ends before the minimum distance,
  that before the title throttle, and that before the next desktop command.
* `FocusLink` counts half lifetimes of a cache (`CacheTtl` 2): an entry is new, half expired or
  gone, so the two layers can be of different ages. Five windows (Herdr in a terminal with a
  generic title, tmux in an unnamed one, a terminal with an agent of its own, an application
  that is named after an agent, a browser), one
  tmux pane, three Herdr panes (one agent in the registry between two without), three sessions
  that come and go.
* `Journal`: `Refresh`, `Keyframe` and `PollEvery` are 1, so a row is as old as each bound after
  one unit and older after two; `MaxOk` and `MaxHerdr` cap ages past the last one that is
  compared. Two answers per source, an absent and a torn registry besides. The collectors are
  enabled in five combinations: agents, scan, Herdr and Cursor, each with `collect_once`, and
  agents, Cursor and Herdr together. Collectors interact through the batch, the registry and
  the kind two of them share, and these combinations have each of the three.
* `Recap` has days of five seconds and three mixtures of rows. A desk day has up to four rows
  (two titles of one session, found in two directories of one repository, enters and leaves: a
  focus run cut in its middle and resumed), a meeting day three, out of eight kinds of evidence,
  a repository day three, out of a terminal with three links (guessed, found without a
  directory, found in another repository), a browser with one, an enter and three snapshots of
  Herdr, after one taken before midnight. Idle gap,
  threshold, minimum dwell, hold of a snapshot, pause gap and recent absence are 2, the age of a
  stretch 1: an enter reaches back over the row before it, a piece of one second is dropped and
  longer ones are kept, a snapshot expires within the day. An hour of 3 is crossed by segments.
  The day ends within the bound, so the run stops (`CHECK_DEADLOCK FALSE`).
* Units of time stand for the code's seconds only up to their order.

### Fairness

* `WF(Loop)`: the main thread never blocks longer than the nearest deadline. It does call
  `loginctl`, probes and SQLite, which have timeouts.
* `SF(Tick)`: time diverges. Strong, because messages may disable the blocked state over and
  over; a real clock advances all the same.
* `WF` of the reader threads and of what the living child owes (`ready`, an owed `idled` or
  `resumed`, the answer to a probe, the exit after an `error`). No child is assumed to live:
  each convergence property has "the child stays alive" or "serves" as its premise. The live
  part of `Supervisor` is checked under the same fairness.
* `AgentWorker`: the GLib loop runs the callbacks that are due, and time passes.
* `WatchStop`: the main and the reader thread are scheduled, and a child does what it is told;
  it owes no line and no exit of its own.
* `FocusLink`: a probe comes again and again (the desktop backup, which `EventModeIsLive` keeps
  armed, or the poll), and time passes.
* `Journal`: a process that is in a tick goes on, the daemon polls when it is due, time passes.
  Nobody has to start, to rebuild the collectors or to change anything; `JournalConverges` is
  about a daemon that stays up, on a desktop that stays, beside no further `collect_once`.
* Restarts of a dead child and of the daemon are not assumed in safety runs; the daemon's
  restart is `Restart=always` of `deploy/roxabi-sense.service`.
* Nothing makes a user idle, a fault happen, or a fault stop.

## 4. Proofs

Every theorem holds for every value of the constants, from the named assumption of its module
only (`IdleChainAssumption`, `FocusChainAssumption` …): delays are positive, the base at most the
cap, the list of sources ends in noop, the inputs lie in their sets. The bounds on pipes and
queues are arbitrary. A safety theorem goes by an inductive invariant, one lemma per named part
of it (`Init` and each action), and PTL.

**IdleChain_proofs** — `TypeCorrect`, `SingleWriterAlways` (while the watch is reported ready,
logind is not polled), `BackendMetaAlwaysHonest` (`meta.idle_backend` says logind exactly when
logind is polled). The invariant the code keeps is none of these alone. `IInv` adds:

* `NoWatchUnlessWanted`: in a mode that wants no watch there is no listener and nothing in the
  pipe or the queue — otherwise a `ready` could be drained in logind mode and turn logind off
  while the meta names it;
* `NoWatchBeforeStart`: with the daemon down, and until the watch is started, there is no
  listener — otherwise starting it could leave an armed respawn beside a living process;
* `CollectorsOfBoot`: when the watch is about to be started the collectors are those of an
  unhealthy watch, which is what the meta written next says;
* `RespawnOnlyOfTheDead`: a deadline is armed only when there is no living listener.

`IdleIsShown`: an idle user under a living listener, whose lines are through, is shown idle.
`ListenerIsHeard` is the strengthening. Of the lines the loop has still to take (the queue, then
the pipe), once some `k` are handled the watch is ready and no `error` takes that back
(`ReadyAfter`); and if the listener last told `idled`, the user is idle once some `i >= k` are
handled, and no `resumed` takes that back (`IdleAfter`). Readings of logind cannot come in
between: a ready watch and a polled logind exclude each other (`SingleWriter`).

`SupervisedSteps` is `Spec => Supervision!SafeSpec`: each step of the chain is a step of
`Supervisor` or leaves its state alone, with `RespawnOnlyOfTheDead` as the fact that makes a
respawn never meet a living child.

**FocusChain_proofs** — `TypeCorrect`, `EventModeAlwaysLive` and `SupervisedSteps`, with
retries. The type invariant needs that the demotion finds a source:
`FirstExists` shows by the well-foundedness of the naturals that the search in the order of
preference has a least hit, and the order ends in noop. `IInv` adds `RespawnOnlyOfTheGone` (a
deadline is armed only when the loop holds no living worker) and `NothingBeforeStart`.

**AgentWorker_proofs** — `TypeCorrect` (every timer stays within the delay it is armed with),
`PendingIsAlwaysScheduled`, `ResultsKeepTheirDistance`. The last one is not inductive:
`SpacingInv` says that the worker's clock is never ahead of the time since the last result, and
that a trail is armed for at least what is still missing of the minimum.

**WatchStop_proofs** — `OneLineIsLate` and `NoLineAfterStop`, of either wrapper. `LateInv`: a
line is late only if its check was passed before the flag was set, and the reader passes one
check at a time; `JoinInv`: after the join the reader has ended.

**Presence_proofs** — `EveryDegradationIsExplained`, `ConfidenceNeedsHealth`,
`TimeNeverReassures`, `LossOfWatchNeverReassures`: about every input of `derive_presence`, by a
case split over its branches; the last two are action properties.

**Journal_proofs** — `RegistryAlwaysHonest` (an unchanged signature means that the rows are the
file's, whenever it is written), `LockAlwaysInBatch`, `ConfirmedRowAlwaysSeen`. For the last
one, of a daemon that alone writes the kind: `OnlyWriter` (its view is never stale),
`DraftIsStore` (with the lock free there is nothing that waits to be committed),
`CursorIsEnabled` and `RowIsRemembered` (what the collector remembers is the newest row).
`TypeCorrect`, and `QuietNeverLooksDown`: while a daemon that alone writes the kind waits, the
age of `last_ok` and of the newest herdr row stay below the limits of their readers.
`AgentsAreYoung` follows the age through the tick (at most `_REFRESH_S` once the agents' stage
is passed, and from then on the time since the poll) and says that a row of the kind never
exists without `last_ok`: without that, `_snapshot_stale` would decide by the row. `HerdrIsYoung`
ties the age the collector counts to the age of the row it wrote.

**FoldSteps** — a lemma and no result about the program. `FoldHasSteps`: for every operator and every list, the fold of the list is the
last of a sequence of values, one after each element, each made from the one before it. The
folds of the community modules are defined by a choice of a function on sets; `Exists` shows
that there is such a function, by induction over the length of the list. `UpTo` is that
induction as a statement about a set of numbers, derived from the well-foundedness of the
naturals, and every proof about a loop uses it in place of the library's induction theorem,
which takes an operator.

**Recap_proofs** — what a recap says holds for journals of any length, any number of calls,
absences and windows, and every value of the thresholds. What is assumed (`RecapAssumption`) is
that the rows a day may have have the fields of a row, and that the query for the last snapshot
before the day, which ends in `LIMIT 1`, returns one row of before the day or none. "No
repository" is the value for `None`, so it is not the name of one. The inductive invariant is `JournalInv` (`JournalKeeps`): rows are in the order of their times, none
is of the future, an idle row reaches back by the threshold, and the recap is the compilation of
the journal. The theorems follow from it through the loops that `compile_day_recap` chains. For
each loop a lemma states what is true after its first `n` elements, second by second:

* `SessionsAreEvidence` (`SessionsFollowEvidence`): after `n` samples each second before the
  last of them is told by the closed sessions, or the open one, as the newest sample
  before it says. `SessionsTell` is the result for the whole list, and `SamplesOfRows` ties it
  to the journal: the newest sample is of the newest row that speaks of a meeting.
* `AwayIsTold` (`AwayIsIdleTime`): after `n` idle rows the closed absences cover what pairs of an
  opener and its first leave enclose, and one is open exactly after an enter (`ProtocolTells`).
  The theorem then is about the pairing: each opener has one leave (`OneLeave`).
* `SplitKeepsAbsences` (`SplitKeepsAway`): the slices tile the absence up to the cursor, and are
  meetings where a call is on (`SplitTiles`). That calls are clipped in order and do not overlap
  comes from the sessions; that each second of an absence is in one slice as many times as in an
  absence needs a bijection (`Annotated`), for absences may overlap.
* `FocusIsAttributed` (`FocusIsAttributedOnce`): the collapsed rows are runs of one window
  (`RunsTo`), a run is held until the next one (`HeldShape`), cutting leaves pieces with gaps
  between them that cover what no absence does (`Parts`, `Subtracted`). A piece is a longest
  stretch of free seconds of its run (`PieceIsStretch`), which is why dropping the short pieces
  is dropping the short stretches.
* `AgentTimeIsCounted` (`AgentTimeIsWallTime`) and `FocusIsCounted` (`FocusCountsForItsRepo`) say
  that a sum over a list is the number of seconds of a set. `TotalCounts` is the step from one to
  the other: the lengths of a list add up to the seconds it covers if its elements do not
  overlap (`LengthsCount`), and what is counted of each element, if that are disjoint sets. The
  spans are the seconds in which something is known of Herdr, each with the snapshot that tells
  it (`SpansAre`, `SpansSay`). `_attention` is a sweep with two pointers, which is right only
  because both lists are in order and disjoint. Its invariant is `SweptTo`: after `n` spans, each
  span has seen its seconds under terminal focus, of each terminal segment the seconds in the
  first `n` spans are covered, and a segment the pointer has left behind ends before the next
  span begins (`Sweeping` is its step, `ReachedIsOver` the last part). The theorems add the
  parts: focus in a terminal that a span explains, focus in a terminal that none explains, and
  the focus elsewhere are disjoint (`CountsApart`). Which repository a segment is linked to is
  settled by `RepoOfWindow`: the joined window of a run has in each field what the newest row of
  the run to know it tells (`JoinedIs` is one row more, `RunsMore` the run that takes it), and the
  rows of the run are those `RunOf` finds from any second of it (`RunOfIs`).
* `TotalsAreSums` (`TotalsAddUp`): what is kept of a list has the total of what is wanted of it
  (`TotalOnly`), so all totals become sums over whole lists. Each segment adds its length to the
  time of its key, whether it lengthens the last visit or opens a new one (`VisitAdds`), and so
  the visits of a set of keys take the time of its segments (`VisitsCount`); for the terminal
  stays the set is that of the keys of terminals, which are those of no other window, for every
  form of `attention_key` begins with the app (`Alike`). The slices of a segment are one for each hour it meets, as long as it is in
  that hour (`SlicesAre`), and slices of one hour and label are of different segments
  (`HoursAddUp`).
* `TypeCorrect`: in particular visits of several segments stay within the day and keep their
  order (`VisitsOrdered`).

Only model-checked:

* every liveness property, that of `Supervisor` among them: liveness under fairness is out of the
  prover's reach;
* of `Recap`, the action properties `PastStands` and `PauseClockRuns`, which compare two
  compilations.

## 5. Not modelled

* What a window, a session or a process is: titles, process trees, D-Bus and JSON. The models
  carry identities; how similar two titles are is an input of `AgentLink`.
* The tree walk of the worker: it is the answer to a probe, which may be empty. The desktop
  inventory rows written beside focus rows.
* The logind reading of a `collect_once` beside a daemon: `IdleChain` has one process, `Journal`
  has two and no idle row. On an `auto` desktop that reading may follow the watch's row.
* What a polled logind converges to. It is sampled and deduplicated by two hints, while facts
  carry one; ADR-002 calls the hints unreliable.
* SQLite itself: a statement is stored or it fails, and a transaction sees what it first read.
  The schema version, which is DDL at start-up before any other statement, and the queries.
* In the reports: the summary of events and the application ranking, the title and the link
  shown for a visit that merges several segments, redaction, the
  time by agent session and the suggested stretch; the limit of 50 000 rows of a day, which is
  out of reach of a small instance; fractions of a second.
* Surfaces, configuration, installation and rendering: argument parsing, printing and one-shot
  files, without state of their own.

`PROJECT.json` has the status of each part and the reason.

## 6. Plan

What would be worth adding, in this order:

1. `collect_once` as a second writer of idle facts: a composition of `IdleChain` and the
   transactions of `Journal`.
2. A failing first start as a fault, once the code retries it; and the row of a failed focus
   append, which `FocusConverges` can promise once the key moves after the append.
3. `FocusChain` and `FocusLink` in one module, so that the probes `FocusLink` takes for granted
   are those of the chain; and the agent that `FocusChain` has, refined by `AgentWorker`.
4. The desktop inventory and the full or partial walks that make meeting evidence.
