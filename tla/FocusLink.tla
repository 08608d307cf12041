------------------------------ MODULE FocusLink ------------------------------
(***************************************************************************)
(* The agent link of the newest focus row: the focus collector enriches    *)
(* the active window with find_agent_link (collectors/focus/collector.py)  *)
(* over panes that come from two layers of a short cache (util/mux.py),    *)
(* and stores it when its key differs from the last one.  Which window is  *)
(* active, and that a probe comes, is FocusChain's.                        *)
(***************************************************************************)
EXTENDS AgentLink

CONSTANTS Windows,   \* windows that can be active: [app, title, procs, pid, shows, runs, dir]
          Panes,     \* their panes, a sequence: [name, mux, pid, below, agent, dir, active, title, runs]
          Sessions   \* the sessions that can be registered, a sequence

\* A window shows a multiplexer or its own processes; `runs` is the id that the session
\* of a pane or of a window has in the registry, or NoId for an agent that has none.

CacheTtl == 2   \* _CACHE_TTL_S: an entry of that age is read no more

VARIABLES
    win,       \* the active window
    front,     \* mux -> the name of the pane it shows
    live,      \* the ids of the registered sessions
    seen,      \* _cache of the multiplexers: mux -> [front, age]
    rows,      \* _cache["list_mux_agent_panes"]: [front, age]
    lastKey,   \* _last_focus_key
    newest     \* the newest focus row: [app, title, link], or None

deskVars == <<win, front, live>>
linkVars == <<win, front, live, seen, rows, lastKey, newest>>

Muxes  == {"tmux", "herdr"}
PanesOf(mux) == SelectSeq(Panes, LAMBDA pane : pane.mux = mux)
Names(mux)   == {Panes[i].name : i \in {k \in DOMAIN Panes : Panes[k].mux = mux}}
Fronts == {f \in [Muxes -> {Panes[i].name : i \in DOMAIN Panes}] :
              \A mux \in Muxes : f[mux] \in Names(mux)}
Ids == {Sessions[i].id : i \in DOMAIN Sessions}

\* The rows of a multiplexer while f is in front.
Listed(mux, f) ==
    LET at == CHOOSE i \in DOMAIN PanesOf(mux) : PanesOf(mux)[i].name = f[mux]
    IN  [PanesOf(mux) EXCEPT ![at].active = TRUE]

\* The link of each window over the rows of the panes in front and the registered sessions.
Links ==
    {[win |-> w, front |-> f, live |-> ids,
      link |-> find_agent_link(w, Listed("tmux", f) \o Listed("herdr", f),
                               SelectSeq(Sessions, LAMBDA s : s.id \in ids))] :
        w \in Windows, f \in Fronts, ids \in SUBSET Ids}

\* _cached; of cached rows the model keeps what can differ, the panes in front.
Fresh(entry) == entry.age < CacheTtl
Entry(f) == [front |-> f, age |-> 0]
Cached(entry, f) == IF Fresh(entry) THEN entry ELSE Entry(f)

Expired(f) == [front |-> f, age |-> CacheTtl]

-----------------------------------------------------------------------------

\* Mutant: the agent is no part of the key of a focus row.
NoAgentKey(link) == [id |-> NoId, pid |-> NoPid, match |-> ""]

\* _agent_key: the session, or the process, or only how the link was found.
AgentKey(link) ==
    IF link = None THEN [id |-> NoId, pid |-> NoPid, match |-> ""]
    ELSE IF link[1].id # NoId THEN [id |-> link[1].id, pid |-> NoPid, match |-> ""]
    ELSE IF link[1].pid # NoPid THEN [id |-> NoId, pid |-> link[1].pid, match |-> ""]
    ELSE [id |-> NoId, pid |-> NoPid, match |-> link[1].match]

FocusKey(w, link) == <<w.app, w.title, w.pid, AgentKey(link)>>

NoKey == <<>>

-----------------------------------------------------------------------------

NoNames == [mux \in Muxes |-> ""]
NoCache == /\ seen' = [mux \in Muxes |-> Expired("")]
           /\ rows' = Expired(NoNames)

LinkInit ==
    /\ win \in Windows /\ front \in Fronts /\ live \in SUBSET Ids
    /\ seen = [mux \in Muxes |-> Expired("")]
    /\ rows = Expired(NoNames)
    /\ lastKey = NoKey
    /\ newest = None

(* The user and the agents. *)

SwitchesWindow == /\ win' \in Windows \ {win}
                  /\ UNCHANGED <<front, live, seen, rows, lastKey, newest>>

\* A multiplexer follows the user only in a window that shows it.
SwitchesPane ==
    /\ win.shows \in Muxes
    /\ \E name \in Names(win.shows) \ {front[win.shows]} :
          front' = [front EXCEPT ![win.shows] = name]
    /\ UNCHANGED <<win, live, seen, rows, lastKey, newest>>

RegistryChanges ==
    /\ \E id \in Ids : live' = IF id \in live THEN live \ {id} ELSE live \cup {id}
    /\ UNCHANGED <<win, front, seen, rows, lastKey, newest>>

DeskChanges == SwitchesWindow \/ SwitchesPane \/ RegistryChanges

(* The daemon. *)

\* A snapshot collector of one multiplexer reads, and fills, the cache.
Snapshot(mux) ==
    /\ ~Fresh(seen[mux])
    /\ seen' = [seen EXCEPT ![mux] = Entry(front[mux])]
    /\ UNCHANGED <<win, front, live, rows, lastKey, newest>>

\* _finish: the active window is linked over the listed panes, and stored under a new key.
Probe ==
    LET inner == IF Fresh(rows) THEN seen ELSE [mux \in Muxes |-> Cached(seen[mux], front[mux])]
    IN  /\ seen' = inner
        /\ rows' = Cached(rows, [mux \in Muxes |-> inner[mux].front])
        /\ \E found \in Links :
              /\ found.win = win /\ found.front = rows'.front /\ found.live = live
              /\ lastKey' = FocusKey(win, found.link)
              /\ newest' = IF lastKey' = lastKey THEN newest
                           ELSE <<[app |-> win.app, title |-> win.title, link |-> found.link]>>
        /\ UNCHANGED deskVars

\* The clock moves by half the lifetime of an entry.
LinkTick ==
    LET Older(entry, none) == IF entry.age + 1 < CacheTtl THEN [entry EXCEPT !.age = @ + 1]
                              ELSE Expired(none)
    IN  /\ seen' = [mux \in Muxes |-> Older(seen[mux], "")]
        /\ rows' = Older(rows, NoNames)
        /\ UNCHANGED <<win, front, live, lastKey, newest>>

Restart ==
    /\ NoCache
    /\ lastKey' = NoKey
    /\ UNCHANGED <<win, front, live, newest>>

LinkNext == DeskChanges \/ (\E mux \in Muxes : Snapshot(mux)) \/ Probe \/ LinkTick \/ Restart

\* The desktop backup keeps the probes coming (FocusChain), and time passes.
LinkFairness == WF_linkVars(Probe) /\ WF_linkVars(LinkTick)

LinkSpec == LinkInit /\ [][LinkNext]_linkVars /\ LinkFairness

-----------------------------------------------------------------------------

\* What the user looks at: the session, if the registry knows it, and its directory.
Looking ==
    IF win.shows = "own" THEN [runs |-> win.runs, dir |-> win.dir]
    ELSE LET at == CHOOSE i \in DOMAIN Panes : Panes[i].name = front[win.shows]
         IN  [runs |-> Panes[at].runs, dir |-> Panes[at].dir]

Attended == newest # None /\ newest[1].app = win.app /\ newest[1].title = win.title

(* The session the user looks at comes to be the one of the newest focus    *)
(* row, which active_now shows and repos and dwell are counted by: through  *)
(* two layers of cached panes of different ages, a registry that changes    *)
(* while the window stays, a window title that does not follow the pane,    *)
(* and a key that suppresses equal rows.                                    *)
LinkConverges ==
    \/ []<><<DeskChanges>>_linkVars
    \/ <>[]( /\ Attended
             /\ Looking.runs \in live =>
                    newest[1].link # None /\ newest[1].link[1].id = Looking.runs )

(* "Foreground attention (app/title/agent cwd)" is what focus rows tell     *)
(* (ADR-004): the directory of the focused Herdr pane comes to be the one   *)
(* of the newest row, for an agent without registry too.                    *)
FocusRowsTellTheCwd ==
    \/ []<><<DeskChanges>>_linkVars
    \/ <>[]( win.shows = "herdr" =>
                newest # None /\ newest[1].link # None /\ newest[1].link[1].dir = Looking.dir )
=============================================================================
