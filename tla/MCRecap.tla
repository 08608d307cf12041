------------------------------ MODULE MCRecap -------------------------------
(* Days for TLC: what the rows of a day may say, in three mixtures. *)
EXTENDS Recap

Nothing == [f \in Field |-> Unknown]
Blank(kind) == [kind |-> kind, ts |-> 0, since |-> 0, idle |-> FALSE, win |-> Nothing,
                hint |-> NoHint, hold |-> FALSE, repo |-> NoRepo, panes |-> {}]

Focus(w)   == [Blank("focus") EXCEPT !.win = w]
Idle(flag) == [Blank("idle") EXCEPT !.idle = flag]
Desktop(h) == [Blank("desktop") EXCEPT !.hint = h]
Clear      == Desktop(NoHint)
Partial    == [Clear EXCEPT !.hold = TRUE]

Call(id, label) == [phase |-> "in_call", provider |-> "meet", call |-> id, label |-> label]
Tab             == [phase |-> "tab_open", provider |-> "meet", call |-> NoCall, label |-> 1]

\* Two titles of one terminal, and the browser in a call.
MCTerminals == {"ghostty"}
Terminal(title) == [Nothing EXCEPT !.app = "ghostty", !.title = title]
Editor  == Terminal("editor")
Notes   == Terminal("notes")
Meet    == [Nothing EXCEPT !.app = "browser", !.title = "meet", !.pid = "7"]
HintOf(w) == IF w.app = "browser" THEN Call("a", 1) ELSE NoHint

\* The links a window may have: guessed, found in a registry, found for a pane without a path.
Guessed(w, dir) == [w EXCEPT !.cwd = dir, !.match = "comm", !.agent_pid = "8"]
Found(w, dir)   == [w EXCEPT !.cwd = dir, !.match = "cwd", !.session = "a", !.agent_pid = "8"]
Pathless(w)     == [w EXCEPT !.match = "mux_focused"]

Herdr(r, ps) == [Blank("herdr") EXCEPT !.repo = r, !.panes = ps]
Pane(r, k, w) == [repo |-> r, key |-> k, working |-> w]

\* Two directories of one repository.
LabelOf(dir) == IF dir \in {"r/src", "r/doc"} THEN "r" ELSE "s"
PriorOf(d)   == IF d = "repos"
                THEN <<[Herdr("r", {Pane("r", "1", TRUE)}) EXCEPT !.ts = -1]>> ELSE <<>>

MCDays == {"desk", "meetings", "repos"}
FactsOf(d) ==
    IF d = "desk" THEN {Focus(Found(Editor, "r/src")), Focus(Found(Notes, "r/doc")),
                        Idle(TRUE), Idle(FALSE)}
    ELSE IF d = "repos"
    THEN {Focus(Guessed(Editor, "r/src")), Focus(Pathless(Editor)), Focus(Found(Editor, "s")),
          Focus(Found(Meet, "s")), Idle(TRUE),
          Herdr("r", {Pane("r", "1", TRUE), Pane("r", "2", TRUE)}),
          Herdr("s", {Pane("r", "1", TRUE), Pane("s", "2", TRUE)}), Herdr(NoRepo, {})}
    ELSE {Focus(Editor), Focus(Meet), Desktop(Call("b", 2)), Desktop(Call(NoCall, 3)),
          Desktop(Tab), Clear, Partial, Idle(TRUE)}
RowsOf(d) == IF d = "desk" THEN 4 ELSE 3
=============================================================================
