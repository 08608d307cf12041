----------------------------- MODULE MCFocusLink -----------------------------
(* Herdr in a Ghostty window with one registered agent between two that have no
   registry, tmux in an unnamed terminal, a terminal with an agent of its own, the
   desktop app of an agent, a browser.  The directories are distinct, and each tmux
   session has one pane. *)
EXTENDS FocusLink

MCScore(title, of) == IF title = of THEN 100 ELSE 0
MCIsGeneric(title) == title \in {"ghostty", "unnamed"}
MCLooksAgent(app, title) == app = "claude" \/ title = "draft - grok"
MCNamesDir(title, dir) == title = "draft - grok" /\ dir = "draft"

Proc(pid, comm, dir) == [pid |-> pid, comm |-> comm, dir |-> dir]

Window(app, title, procs, shows, runs, dir) ==
    [app |-> app, title |-> title, procs |-> procs, pid |-> procs[1].pid,
     shows |-> shows, runs |-> runs, dir |-> dir]

MCWindows ==
    { Window("ghostty", "ghostty", <<Proc(1, "ghostty", "home")>>, "herdr", NoId, "home"),
      Window("unnamed", "unnamed", <<Proc(2, "alacritty", "home")>>, "tmux", NoId, "home"),
      Window("ghostty", "draft - grok", <<Proc(3, "ghostty", "home"), Proc(4, "grok", "draft")>>,
             "own", "g4", "draft"),
      Window("claude", "chat", <<Proc(6, "claude", "home")>>, "own", NoId, "home"),
      Window("browser", "news", <<Proc(5, "browser", "home")>>, "own", NoId, "home") }

Pane(name, mux, pid, below, agent, dir, runs) ==
    [name |-> name, mux |-> mux, pid |-> pid, below |-> below, agent |-> agent,
     dir |-> dir, active |-> FALSE, title |-> name, runs |-> runs]

MCPanes ==
    << Pane("t1", "tmux", 10, <<11>>, "claude", "t", "c11"),
       Pane("h1", "herdr", NoPid, <<>>, "omp", "h", NoId),
       Pane("h2", "herdr", NoPid, <<>>, "grok", "i", "g20"),
       Pane("h3", "herdr", NoPid, <<>>, "omp", "j", NoId) >>

Session(agent, id, pid, dir) == [agent |-> agent, id |-> id, pid |-> pid, dir |-> dir]

MCSessions == << Session("grok", "g20", 20, "i"), Session("grok", "g4", 4, "draft"),
                 Session("claude", "c11", 11, "t") >>
=============================================================================
