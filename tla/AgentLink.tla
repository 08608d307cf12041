------------------------------ MODULE AgentLink ------------------------------
(***************************************************************************)
(* find_agent_link (util/agent_link.py): which agent session the focused   *)
(* window shows.  Three sources: the processes below the window, the title *)
(* and focus of the multiplexer's panes, and the structure of the panes    *)
(* (their processes and directories).                                      *)
(*                                                                         *)
(* A window has an app, a title and its processes: itself and then its     *)
(* descendants, breadth first.  A pane has the processes below it in the   *)
(* same order.  Directories are resolved paths; each session, process and  *)
(* pane has one.                                                           *)
(***************************************************************************)
EXTENDS Integers, Sequences, SequencesExt

CONSTANTS Score(_, _),     \* score_pane_title of a window's and a pane's title
          IsGeneric(_),    \* is_generic_app_title
          LooksAgent(_, _), \* looks_agent: an app, or the suffix of a title, of an agent
          NamesDir(_, _)   \* _score_title_cwd gives the title a point for the directory

None  == <<>>
NoId  == "no id"
NoPid == -1

AgentComms   == {"grok", "claude", "omp"}
TerminalApps == {"ghostty", "unnamed", "herdr"}
Margin       == 5    \* _UNIQUE_MARGIN
TitlePoints  == 4    \* _TITLE_CWD_CAP
EarlyMin     == 90   \* _PANE_TITLE_EARLY_MIN

\* Of two sessions with one pid, or one directory, the last is found.
LastOf(sessions, at) == IF at = {} THEN None ELSE <<sessions[Max(at)]>>

ByPid(sessions, pid) ==
    LastOf(sessions, {i \in DOMAIN sessions : pid # NoPid /\ sessions[i].pid = pid})
ByDir(sessions, dir) == LastOf(sessions, {i \in DOMAIN sessions : sessions[i].dir = dir})

SessionLink(s, pid, match) ==
    [agent |-> s.agent, id |-> s.id, dir |-> s.dir, pid |-> pid, match |-> match]

-----------------------------------------------------------------------------
(* _find_via_process_tree *)

FindViaProcessTree(procs, sessions) ==
    LET Known  == {i \in DOMAIN procs : ByPid(sessions, procs[i].pid) # None}
        Agents == {i \in DOMAIN procs : procs[i].comm \in AgentComms}
        InDir(i) == {k \in DOMAIN sessions : sessions[k].dir = procs[i].dir}
        Placed == {i \in Agents : InDir(i) # {}}
    IN  IF Known # {}
        THEN LET p == procs[Min(Known)]
             IN  <<SessionLink(ByPid(sessions, p.pid)[1], p.pid, "session_pid")>>
        ELSE IF Placed # {}
        THEN LET i == Min(Placed)
             IN  <<SessionLink(sessions[Min(InDir(i))], procs[i].pid, "cwd")>>
        ELSE IF Agents = {} THEN None
        ELSE LET p == procs[Min(Agents)]
             IN  <<[agent |-> p.comm, id |-> NoId, dir |-> p.dir, pid |-> p.pid,
                    match |-> "comm"]>>

-----------------------------------------------------------------------------
(* Panes *)

\* _resolve_pane_session: the session of a pane, and by its process or its directory.
ResolvePane(pane, sessions) ==
    LET own   == ByPid(sessions, pane.pid)
        below == {i \in DOMAIN pane.below : ByPid(sessions, pane.below[i]) # None}
        byDir == ByDir(sessions, pane.dir)
    IN  IF own # None THEN <<[session |-> own[1], by |-> "pid"]>>
        ELSE IF pane.pid # NoPid /\ below # {}
        THEN <<[session |-> ByPid(sessions, pane.below[Min(below)])[1], by |-> "pid"]>>
        ELSE IF byDir # None THEN <<[session |-> byDir[1], by |-> "dir"]>>
        ELSE None

\* _link_from_pane: a pane without a session is linked to its directory.
LinkFromPane(pane, sessions, match) ==
    LET found == ResolvePane(pane, sessions)
    IN  IF found # None
        THEN SessionLink(found[1].session, found[1].session.pid, match)
        ELSE [agent |-> IF pane.agent \in AgentComms THEN pane.agent ELSE "grok",
              id |-> NoId, dir |-> pane.dir, pid |-> pane.pid, match |-> match]

\* The only pane the multiplexer calls focused (Herdr), or attached (tmux).
UniqueActive(panes, mux) ==
    LET hits == {i \in DOMAIN panes : panes[i].mux = mux /\ panes[i].active}
    IN  IF Cardinality(hits) = 1 THEN <<panes[Min(hits)]>> ELSE None

\* _find_via_pane_title: one pane whose title fits, and better than every other.
FindViaPaneTitle(title, panes, sessions) ==
    LET Fits(i) == /\ Score(title, panes[i].title) >= EarlyMin
                   /\ \A j \in DOMAIN panes \ {i} :
                         Score(title, panes[j].title) < Score(title, panes[i].title)
        best == {i \in DOMAIN panes : Fits(i)}
    IN  IF best = {} THEN None
        ELSE <<LinkFromPane(panes[Min(best)], sessions, "pane title")>>

\* The scored panes of _find_via_tmux.
Scored(title, panes, sessions) ==
    LET Points(found) == (IF found.by = "pid" THEN 20 ELSE 15)
                         + (IF NamesDir(title, found.session.dir) THEN TitlePoints ELSE 0)
        Rated(i) == LET found == ResolvePane(panes[i], sessions)
                     IN  {[session |-> r.session, points |-> Points(r),
                           active |-> panes[i].active, at |-> i] : r \in ToSet(found)}
    IN  UNION {Rated(i) : i \in DOMAIN panes}

\* The one session all panes have, or the one that is ahead of the next pane by the margin.
FindByStructure(title, panes, sessions) ==
    LET scored == Scored(title, panes, sessions)
        Ahead(p, q) == \/ p.points > q.points
                       \/ /\ p.points = q.points
                          /\ \/ p.active /\ ~q.active
                             \/ p.active = q.active /\ p.at <= q.at
        best  == CHOOSE p \in scored : \A q \in scored : Ahead(p, q)
        Clear == \A q \in scored \ {best} : best.points >= q.points + Margin
    IN  IF scored = {} THEN None
        ELSE IF Cardinality({p.session.id : p \in scored}) = 1 \/ Clear
        THEN <<SessionLink(best.session, best.session.pid, "pane")>>
        ELSE None

\* _find_via_tmux
FindViaMux(w, panes, sessions) ==
    LET byTitle == FindViaPaneTitle(w.title, panes, sessions)
        mux     == IF w.app \in {"ghostty", "herdr"} THEN "herdr" ELSE "tmux"
        active  == UniqueActive(panes, mux)
    IN  IF ~IsGeneric(w.title) /\ byTitle # None THEN byTitle
        ELSE IF IsGeneric(w.title) /\ active # None
        THEN <<LinkFromPane(active[1], sessions, "focused")>>
        ELSE FindByStructure(w.title, panes, sessions)

-----------------------------------------------------------------------------

find_agent_link(w, panes, sessions) ==
    LET own == FindViaProcessTree(w.procs, sessions)
        mux == IF w.app \in TerminalApps \/ LooksAgent(w.app, w.title)
               THEN FindViaMux(w, panes, sessions) ELSE None
    IN  IF own # None /\ own[1].id # NoId THEN own
        ELSE IF mux # None THEN mux
        ELSE own
=============================================================================
