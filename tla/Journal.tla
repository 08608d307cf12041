------------------------------ MODULE Journal -------------------------------
(***************************************************************************)
(* The snapshot collectors and the store they share (collectors/*.py,      *)
(* daemon_collectors.tick_all, store/db.py).  Two processes write: the     *)
(* daemon, which ticks its collectors at every poll, and collect_once      *)
(* (`sense once`, `sense status --collect`), which ticks a set of its own. *)
(*                                                                         *)
(* A tick is one batch, a deferred SQLite transaction in WAL mode: its     *)
(* first read fixes what it sees, its first write takes the lock, and it   *)
(* cannot write once another process has committed since it first read.    *)
(* tick_all swallows the error of such a write; what the collector         *)
(* remembers has moved by then.                                            *)
(*                                                                         *)
(* "scan" stands for the collectors that store what they see when it is    *)
(* not what they saw last (process_presence, mpris, tmux).  Time is        *)
(* counted in units and passes while no tick runs.                         *)
(***************************************************************************)
EXTENDS Integers, Sequences, FiniteSetsExt

CONSTANTS Configs,   \* the sets of collectors the configuration may enable; with "once",
                     \* collect_once is used as well
          Files,     \* what the registry file may hold: Absent, Torn or a Listing
          Panes,     \* the sets of ids Herdr may answer
          Folders,   \* the sets of workspaces Cursor may have
          Scans,     \* what a scan may see
          Refresh,   \* _REFRESH_S
          Keyframe,  \* KEYFRAME_S
          PollEvery  \* cfg.poll_seconds

Absent == <<"absent">>
Torn   == <<"torn">>  \* written in part, or no JSON
Listing(ids) == <<"sessions", ids>>
Order  == <<"agents", "cursor", "scan", "herdr">>  \* of build_poll_collectors
Collectors == {Order[i] : i \in 1 .. 4}

ASSUME JournalAssumption ==
    /\ \A c \in Configs : c \subseteq Collectors \cup {"once"}
    /\ {Absent, Torn} \subseteq Files /\ {} \in Panes /\ {} \in Folders /\ 0 \in Scans
    /\ Refresh \in Nat /\ Keyframe \in Nat /\ PollEvery \in Nat \ {0}

VARIABLES
    cfg,      \* the collectors that are enabled, and "once"
    file,     \* the registry file of an agent
    herdr,    \* the panes of Herdr
    folder,   \* the workspaces of Cursor
    scan,     \* what a scan sees
    pc,       \* per process: where it is
    mem,      \* per process: what its collectors remember
    view,     \* per process: what its transaction has read
    lock,     \* the process that has the write lock
    store,    \* what is committed; honest: the newest agents row is the list that was seen
              \* when last_ok was written (a history variable)
    draft,    \* what the holder of the lock would commit
    pollIn,   \* next_poll - now, of the daemon
    alone     \* collect_once has never run

worldVars == <<cfg, file, herdr, folder, scan>>
dbVars    == <<view, lock, store, draft>>
vars == <<cfg, file, herdr, folder, scan, pc, mem, view, lock, store, draft, pollIn, alone>>

-----------------------------------------------------------------------------
Process == {"daemon", "once"}
Stage   == {"stat", "parse", "agents", "cursor", "scan", "herdr", "commit", "meta"}
Nothing == <<>>  \* None: not remembered, not stored
NoAge   == -1
MaxOk    == Refresh + PollEvery + 1   \* bounds: ages stop here
MaxHerdr == Keyframe + PollEvery + 1

NoMemory == [match |-> FALSE, rows |-> {}, agents |-> Nothing, cursor |-> FALSE,
             scan |-> Nothing, herdr |-> Nothing, since |-> NoAge]

\* A new set of collectors (build_poll_collectors): nothing is remembered.  A missing file
\* has the signature of a registry that never looked.
NewMemory == [NoMemory EXCEPT !.match = file = Absent]

\* _parse_grok_file, _parse_claude_dir
Parsed(f) == IF f \in {Absent, Torn} THEN {} ELSE f[2]

\* herdr_session_rows
HerdrRows(ids) == {<<id, "herdr">> : id \in ids}

\* _merge_herdr: a session is listed once, and the registry's row of it is kept.
MergeHerdr(fileIds, herdrIds) ==
    {<<id, "file">> : id \in fileIds} \cup HerdrRows(herdrIds \ fileIds)

Sessions(p) == MergeHerdr(mem[p].rows, herdr)

Goes(p, stage) == pc' = [pc EXCEPT ![p] = stage]

\* The loop of tick_all: the enabled collectors from the i-th on, then the commit.
StageFrom(i) ==
    LET left == {j \in i .. 4 : Order[j] \in cfg}
    IN  IF left = {} THEN "commit"
        ELSE IF Min(left) = 1 THEN "stat" ELSE Order[Min(left)]

-----------------------------------------------------------------------------
(* The transaction of a batch *)

Visible(p) == IF lock = p THEN draft ELSE store

\* An INSERT or UPDATE of p is accepted; it fails when p's view is stale, or when another
\* process keeps the lock for longer than busy_timeout.
CanWrite(p)  == lock \in {"none", p} /\ view[p] # "stale"
MayFail(p)   == lock \notin {"none", p} \/ view[p] = "stale"
Write(p, db) == lock' = p /\ draft' = db
NoWrite      == UNCHANGED <<lock, draft>>

\* Another process that has read goes on with what it read.
Outdated(p) == [q \in Process |-> IF q = p THEN "none"
                                  ELSE IF view[q] = "fresh" THEN "stale" ELSE view[q]]

Begin(p) == view' = [view EXCEPT ![p] = "none"]

\* The daemon's last_tick, written outside of a batch: it waits for the lock.
AutoCommit(p) == lock = "none" /\ view' = Outdated(p)

\* Mutant: the lock is not given back.
RollbackKeepsLock(p) == /\ view' = [view EXCEPT ![p] = "none"]
                        /\ UNCHANGED <<lock, store, draft>>

Rollback(p) == /\ lock' = IF lock = p THEN "none" ELSE lock
               /\ view' = [view EXCEPT ![p] = "none"]
               /\ draft' = IF lock = p THEN store ELSE draft
               /\ UNCHANGED store

-----------------------------------------------------------------------------
(* The collectors, in the order of build_poll_collectors *)

\* SessionRegistry.load: an unchanged signature stands for an unchanged file; a new one is
\* remembered before the file is read.
StatRegistry(p) ==
    /\ pc[p] = "stat"
    /\ Goes(p, IF mem[p].match THEN "agents" ELSE "parse")
    /\ mem' = [mem EXCEPT ![p].match = TRUE]
    /\ UNCHANGED <<worldVars, dbVars, pollIn, alone>>

\* Mutant: a file that cannot be read leaves the rows of the last one.
ParseKeepsRows(p) ==
    /\ pc[p] = "parse"
    /\ Goes(p, "agents")
    /\ mem' = [mem EXCEPT ![p].rows = IF file = Torn THEN @ ELSE Parsed(file)]
    /\ UNCHANGED <<worldVars, dbVars, pollIn, alone>>

ParseRegistry(p) ==
    /\ pc[p] = "parse"
    /\ Goes(p, "agents")
    /\ mem' = [mem EXCEPT ![p].rows = Parsed(file)]
    /\ UNCHANGED <<worldVars, dbVars, pollIn, alone>>

\* _snapshot_stale of agent_sessions_last_ok; without it, of the newest row.
MayBeStale(db, isStale) ==
    IF db.ok # NoAge THEN isStale = (db.ok > Refresh)
                     ELSE db.agents = Nothing => isStale

\* The row is the newest one when last_ok is written; honest is about the list p sees.
Confirmed(p, db, row) ==
    [db EXCEPT !.agents = row, !.ok = 0, !.honest = row = <<Sessions(p)>>]

\* Mutant: an unchanged list is not confirmed.
AgentsTickNeverConfirms(p) ==
    /\ pc[p] = "agents"
    /\ Goes(p, StageFrom(2))
    /\ view' = [view EXCEPT ![p] = IF @ = "none" THEN "fresh" ELSE @]
    /\ LET db        == Visible(p)
           known     == IF mem[p].agents # Nothing THEN mem[p].agents ELSE db.agents
           unchanged == known = <<Sessions(p)>>
       IN  /\ mem' = [mem EXCEPT ![p].agents = <<Sessions(p)>>]
           /\ IF unchanged THEN NoWrite
              ELSE \/ CanWrite(p) /\ Write(p, Confirmed(p, db, <<Sessions(p)>>))
                   \/ MayFail(p) /\ NoWrite
    /\ UNCHANGED <<worldVars, store, pollIn, alone>>

\* Mutant: the newest row of the store is taken for what the last process saw.
AgentsTickTrustsStore(p) ==
    /\ pc[p] = "agents"
    /\ Goes(p, StageFrom(2))
    /\ view' = [view EXCEPT ![p] = IF @ = "none" THEN "fresh" ELSE @]
    /\ LET db        == Visible(p)
           known     == IF mem[p].agents # Nothing THEN mem[p].agents ELSE db.agents
           unchanged == known = <<Sessions(p)>> \/ mem[p].agents = Nothing
           row       == IF unchanged /\ db.agents # Nothing THEN db.agents ELSE <<Sessions(p)>>
       IN  /\ mem' = [mem EXCEPT ![p].agents = <<Sessions(p)>>]
           /\ \/ CanWrite(p) /\ Write(p, Confirmed(p, db, row))
              \/ MayFail(p) /\ NoWrite
    /\ UNCHANGED <<worldVars, store, pollIn, alone>>

\* AgentSessionsCollector.tick: what is remembered decides, and only without it the store.
AgentsTick(p) ==
    /\ pc[p] = "agents"
    /\ Goes(p, StageFrom(2))
    /\ view' = [view EXCEPT ![p] = IF @ = "none" THEN "fresh" ELSE @]
    /\ LET db        == Visible(p)
           known     == IF mem[p].agents # Nothing THEN mem[p].agents ELSE db.agents
           unchanged == known = <<Sessions(p)>>
           row       == IF unchanged /\ db.agents # Nothing THEN db.agents ELSE <<Sessions(p)>>
       IN  \E isStale \in BOOLEAN :
               /\ MayBeStale(db, isStale)
               /\ mem' = [mem EXCEPT ![p].agents = <<Sessions(p)>>]
               /\ IF unchanged /\ ~isStale THEN NoWrite
                  ELSE \/ CanWrite(p) /\ Write(p, Confirmed(p, db, row))
                       \/ MayFail(p) /\ NoWrite
    /\ UNCHANGED <<worldVars, store, pollIn, alone>>

\* load_cursor_workspaces
CursorRows(workspaces) == {<<w, "cursor">> : w \in workspaces}

\* CursorSessionsCollector.tick: rows of the same kind as the agents' rows.
CursorTick(p) ==
    /\ pc[p] = "cursor"
    /\ Goes(p, StageFrom(3))
    /\ IF mem[p].cursor THEN NoWrite /\ UNCHANGED mem
       ELSE /\ mem' = [mem EXCEPT ![p].cursor = TRUE]
            /\ \/ CanWrite(p) /\ Write(p, [Visible(p) EXCEPT !.agents = <<CursorRows(folder)>>,
                                                        !.honest = FALSE])
               \/ MayFail(p) /\ NoWrite
    /\ UNCHANGED <<worldVars, view, store, pollIn, alone>>

\* What a scan sees (of MPRIS: the players), and whether it is news (of tmux: its structure).
Seen      == <<scan>>
IsNews(p)  == mem[p].scan # Seen

\* Mutant: the first scan only sets the baseline.
ScanTickBaseline(p) ==
    /\ pc[p] = "scan"
    /\ Goes(p, StageFrom(4))
    /\ mem' = [mem EXCEPT ![p].scan = Seen]
    /\ IF ~IsNews(p) \/ mem[p].scan = Nothing THEN NoWrite
       ELSE \/ CanWrite(p) /\ Write(p, [Visible(p) EXCEPT !.scan = Seen])
            \/ MayFail(p) /\ NoWrite
    /\ UNCHANGED <<worldVars, view, store, pollIn, alone>>

\* ProcessPresenceCollector.tick, MprisCollector.tick, TmuxSessionsCollector.tick
ScanTick(p) ==
    /\ pc[p] = "scan"
    /\ Goes(p, StageFrom(4))
    /\ IF ~IsNews(p) THEN NoWrite /\ UNCHANGED mem
       ELSE /\ mem' = [mem EXCEPT ![p].scan = Seen]
            /\ \/ CanWrite(p) /\ Write(p, [Visible(p) EXCEPT !.scan = Seen])
               \/ MayFail(p) /\ NoWrite
    /\ UNCHANGED <<worldVars, view, store, pollIn, alone>>

\* Mutant: no keyframe is written while nothing changes.
FreshForEver(m) == m.since # NoAge

Fresh(m) == m.since # NoAge /\ m.since < Keyframe

\* HerdrSessionsCollector.tick: on change, and a keyframe while nothing changes.
HerdrTick(p) ==
    /\ pc[p] = "herdr"
    /\ Goes(p, StageFrom(5))
    /\ IF mem[p].herdr = <<herdr>> /\ Fresh(mem[p])
       THEN NoWrite /\ UNCHANGED mem
       ELSE /\ mem' = [mem EXCEPT ![p].herdr = <<herdr>>, ![p].since = 0]
            /\ \/ CanWrite(p) /\ Write(p, [Visible(p) EXCEPT !.herdr = <<herdr>>, !.herdrAge = 0])
               \/ MayFail(p) /\ NoWrite
    /\ UNCHANGED <<worldVars, view, store, pollIn, alone>>

\* The end of Store.batch.
Commit(p) ==
    /\ pc[p] = "commit"
    /\ Goes(p, "meta")
    /\ IF lock = p THEN store' = draft /\ lock' = "none" /\ view' = Outdated(p)
       ELSE UNCHANGED <<store, lock>> /\ Begin(p)
    /\ UNCHANGED <<worldVars, mem, draft, pollIn, alone>>

\* store.set_meta("last_tick", ...)
LastTick(p) ==
    /\ pc[p] = "meta"
    /\ Goes(p, IF p = "daemon" THEN "wait" ELSE "off")
    /\ mem' = IF p = "daemon" THEN mem ELSE [mem EXCEPT ![p] = NoMemory]
    /\ AutoCommit(p)
    /\ UNCHANGED <<worldVars, lock, store, draft, pollIn, alone>>

TickStep(p) == \/ StatRegistry(p) \/ ParseRegistry(p) \/ AgentsTick(p) \/ CursorTick(p)
               \/ ScanTick(p) \/ HerdrTick(p) \/ Commit(p) \/ LastTick(p)

-----------------------------------------------------------------------------
(* The two processes *)

Init == /\ cfg \in Configs
        /\ file = Absent /\ herdr = {} /\ folder = {} /\ scan = 0
        /\ pc = [p \in Process |-> "off"]
        /\ mem = [p \in Process |-> NoMemory]
        /\ view = [p \in Process |-> "none"] /\ lock = "none"
        /\ store = [agents |-> Nothing, ok |-> NoAge, honest |-> FALSE, scan |-> Nothing,
                    herdr |-> Nothing, herdrAge |-> NoAge]
        /\ draft = store
        /\ pollIn = PollEvery /\ alone = TRUE

\* The daemon up to its boot tick; collect_once up to its tick.
Start(p) == /\ pc[p] = "off"
            /\ p = "once" => "once" \in cfg
            /\ Goes(p, StageFrom(1))
            /\ mem' = [mem EXCEPT ![p] = NewMemory]
            /\ alone' = (alone /\ p = "daemon")
            /\ AutoCommit(p)
            /\ UNCHANGED <<worldVars, lock, store, draft, pollIn>>

\* Mutant: every wake-up polls, and moves the deadline on.
PollAlways == /\ pc["daemon"] = "wait"
              /\ Goes("daemon", StageFrom(1))
              /\ pollIn' = pollIn + PollEvery
              /\ Begin("daemon")
              /\ UNCHANGED <<worldVars, mem, lock, store, draft, alone>>

Poll == /\ pc["daemon"] = "wait" /\ pollIn = 0
        /\ Goes("daemon", StageFrom(1))
        /\ pollIn' = PollEvery
        /\ Begin("daemon")
        /\ UNCHANGED <<worldVars, mem, lock, store, draft, alone>>

\* A message or the death of the idle watch: every collector is new (IdleChain).
Rebuild == /\ pc["daemon"] = "wait"
           /\ mem' = [mem EXCEPT !["daemon"] = NewMemory]
           /\ UNCHANGED <<worldVars, pc, dbVars, pollIn, alone>>

\* The process ends, or is killed, or a write outside of a batch gives up on the lock.
Ends(p) == /\ pc[p] # "off"
           /\ Goes(p, "off")
           /\ mem' = [mem EXCEPT ![p] = NoMemory]
           /\ pollIn' = IF p = "daemon" THEN PollEvery ELSE pollIn
           /\ Rollback(p)
           /\ UNCHANGED <<worldVars, alone>>

-----------------------------------------------------------------------------
(* The environment; what no enabled collector reads stays as it is. *)

Unmatched == mem' = [p \in Process |-> [mem[p] EXCEPT !.match = FALSE]]

\* Every write of the file changes its signature; a write in place goes through Torn.
FileChanges == /\ "agents" \in cfg
               /\ file' \in Files \ {file}
               /\ Unmatched
               /\ UNCHANGED <<cfg, herdr, folder, scan, pc, dbVars, pollIn, alone>>

HerdrChanges == /\ cfg \cap {"agents", "herdr"} # {}
                /\ herdr' \in Panes \ {herdr}
                /\ UNCHANGED <<cfg, file, folder, scan, pc, mem, dbVars, pollIn, alone>>

FolderChanges == /\ "cursor" \in cfg
                 /\ folder' \in Folders \ {folder}
                 /\ mem' = [p \in Process |-> [mem[p] EXCEPT !.cursor = FALSE]]
                 /\ UNCHANGED <<cfg, file, herdr, scan, pc, dbVars, pollIn, alone>>

ScanChanges == /\ "scan" \in cfg
               /\ scan' \in Scans \ {scan}
               /\ UNCHANGED <<cfg, file, herdr, folder, pc, mem, dbVars, pollIn, alone>>

Older(a, most) == IF a = NoAge \/ a = most THEN a ELSE a + 1

Elapse == /\ pc["daemon"] \in {"off", "wait"} /\ pc["once"] = "off"
          /\ pc["daemon"] = "wait" => pollIn > 0
          /\ pollIn' = IF pc["daemon"] = "wait" THEN pollIn - 1 ELSE pollIn
          /\ store' = [store EXCEPT !.ok = Older(@, MaxOk), !.herdrAge = Older(@, MaxHerdr)]
          /\ mem' = [mem EXCEPT !["daemon"].since = Older(@, Keyframe)]
          /\ draft' = store'
          /\ UNCHANGED <<worldVars, pc, view, lock, alone>>

Next == \/ \E p \in Process : Start(p) \/ TickStep(p) \/ Ends(p)
        \/ Poll \/ Rebuild
        \/ FileChanges \/ HerdrChanges \/ FolderChanges \/ ScanChanges \/ Elapse

Spec == Init /\ [][Next]_vars

\* A process that runs is scheduled, and time passes.  Nobody has to start, to rebuild or
\* to change anything.
Fairness == /\ \A p \in Process : WF_vars(TickStep(p))
            /\ WF_vars(Poll) /\ WF_vars(Elapse)

LiveSpec == Spec /\ Fairness

-----------------------------------------------------------------------------
Ids     == UNION (Panes \cup Folders \cup {Parsed(f) : f \in Files})
Listed  == SUBSET (Ids \X {"file", "herdr", "cursor"})
Option(S) == {Nothing} \cup {<<x>> : x \in S}
Age(most) == 0 .. most \cup {NoAge}
Store   == [agents : Option(Listed), ok : Age(MaxOk), honest : BOOLEAN, scan : Option(Scans),
            herdr : Option(Panes), herdrAge : Age(MaxHerdr)]
Memory  == [match : BOOLEAN, rows : SUBSET Ids, agents : Option(Listed), cursor : BOOLEAN,
            scan : Option(Scans), herdr : Option(Panes), since : Age(Keyframe)]

(* Ages stay within their bound, a row is of a kind its collectors store,   *)
(* and a process is at a stage of its tick.                                 *)
TypeOK ==
    /\ cfg \in Configs /\ file \in Files /\ herdr \in Panes
    /\ folder \in Folders /\ scan \in Scans
    /\ pc \in [Process -> Stage \cup {"off", "wait"}]
    /\ mem \in [Process -> Memory]
    /\ view \in [Process -> {"none", "fresh", "stale"}] /\ lock \in Process \cup {"none"}
    /\ store \in Store /\ draft \in Store
    /\ pollIn \in 0 .. PollEvery /\ alone \in BOOLEAN

(* The batch brackets every write: a process holds the lock, or is bound to *)
(* what it has read, only in the middle of a tick.  Nothing is left for a   *)
(* later tick to commit, over failed writes, crashes and restarts.          *)
LockIsInBatch ==
    \A p \in Process :
        /\ lock = p => pc[p] \in {"cursor", "scan", "herdr", "commit"}
        /\ view[p] # "none" => pc[p] \in {"cursor", "scan", "herdr", "commit"}

(* A registry whose signature is unchanged holds what the file says, even   *)
(* if the file was written between the look at its signature and the        *)
(* parse, or was caught half-written.                                       *)
RegistryIsHonest ==
    \A p \in Process : mem[p].match /\ pc[p] # "parse" => mem[p].rows = Parsed(file)

(* agent_sessions_last_ok confirms the newest agents row: it is the list    *)
(* that was seen when last_ok was written, over refreshes, crashes in the   *)
(* middle of a batch, restarts and rebuilds, as long as no other writer of  *)
(* the kind is about.                                                       *)
ConfirmedRowWasSeen ==
    alone /\ "cursor" \notin cfg /\ store.ok # NoAge => store.honest

(* While the daemon polls, the age of last_ok stays below the bound after   *)
(* which the care brief hides the sessions (_STALE_AGENT_S), and the newest *)
(* herdr row below the longest hold of the dwell attribution (MAX_HOLD_S):  *)
(* a quiet desktop is never taken for a daemon that is down.                *)
QuietIsNotDown ==
    alone /\ pc["daemon"] = "wait" =>
        /\ "agents" \in cfg => store.ok \in 0 .. Refresh + PollEvery
        /\ "herdr" \in cfg => store.herdrAge \in 0 .. Keyframe + PollEvery

\* From some moment on the daemon runs by itself.
DaemonSettles == <>[](pc["daemon"] # "off" /\ pc["once"] = "off")
\* No write was ever refused, or the collectors are renewed again and again.
Heals == alone \/ mem["daemon"] = NewMemory

(* What the store says of a desktop that stays as it is comes to be true:   *)
(* every tick ends, and a crash in the middle of a batch, a half-written    *)
(* registry or a restart loses no change.  A write that a second process    *)
(* made fail is repaired by new collectors, and only by them: the old ones  *)
(* remember it as stored.                                                   *)
JournalConverges ==
    DaemonSettles /\ []<>Heals =>
        /\ \A v \in Scans : <>[](scan = v /\ "scan" \in cfg) => <>[](store.scan = <<v>>)
        /\ \A v \in Panes : <>[](herdr = v /\ "herdr" \in cfg) => <>[](store.herdr = <<v>>)
        /\ \A w \in Folders : <>[](folder = w /\ "cursor" \in cfg /\ "agents" \notin cfg)
              => <>[](store.agents = <<CursorRows(w)>>)
        /\ \A f \in Files, v \in Panes :
              <>[](file = f /\ herdr = v /\ "agents" \in cfg /\ "cursor" \notin cfg)
                  => <>[](store.agents = <<MergeHerdr(Parsed(f), v)>>)
==================================================================================
