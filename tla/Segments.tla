------------------------------ MODULE Segments ------------------------------
(***************************************************************************)
(* focus_segments and attention_segments (report/segments.py): the focus   *)
(* rows of a day, each held until the next one, less the away segments.    *)
(* Left out is what is only shown: the agent's name, and the title and the *)
(* link of a visit that merges several segments.                           *)
(***************************************************************************)
EXTENDS Integers, Sequences, SequencesExt, Lists

CONSTANTS MinDwell,     \* MIN_DWELL_S
          TerminalApps  \* _TERMINAL_APPS, and the same _SHARED_PID_APPS

ASSUME SegmentsAssumption == MinDwell \in Nat

\* What a focus row tells: the window by its app and title, as norm_app and normalize_title
\* leave them, the agent link found for it (its directory, how it was found, its session and process), and the process of the window.
Field   == {"app", "title", "cwd", "match", "session", "agent_pid", "pid"}
Window  == [Field -> STRING]
Unknown == ""

SameWindow(v, w) == v.app = w.app /\ v.title = w.title
IsTerminal(win)  == win.app \in TerminalApps  \* is_terminal_app

\* Each field keeps the newest value that is known.
Merged(old, new) == [f \in Field |-> IF new[f] = Unknown THEN old[f] ELSE new[f]]

\* attention_key
AttentionKey(win) ==
    IF win.session # Unknown THEN <<win.app, "session", win.session>>
    ELSE IF win.agent_pid # Unknown THEN <<win.app, "agent_pid", win.agent_pid>>
    ELSE IF win.cwd # Unknown /\ IsTerminal(win) THEN <<win.app, "cwd", win.cwd>>
    ELSE IF win.pid # Unknown /\ ~IsTerminal(win) THEN <<win.app, "pid", win.pid>>
    ELSE <<win.app, "app">>

\* Mutant: a run starts at its newest row.
CollapseToLast(rows) ==
    FoldLeft(LAMBDA acc, row : IF acc # <<>> /\ SameWindow(Last(acc).win, row.win)
                               THEN [acc EXCEPT ![Len(acc)] = row]
                               ELSE Append(acc, row), <<>>, rows)

\* Mutant: what a later row of the window tells is lost.
CollapseRowFirst(acc, row) ==
    IF acc # <<>> /\ SameWindow(Last(acc).win, row.win) THEN acc ELSE Append(acc, row)

\* Rows of the same window that follow each other are one run: it begins with the first of
\* them, and its link is what all of them tell together.
Joined(run, row) == [run EXCEPT !.win = Merged(run.win, row.win)]

CollapseRow(acc, row) ==
    IF acc # <<>> /\ SameWindow(Last(acc).win, row.win)
    THEN [acc EXCEPT ![Len(acc)] = Joined(Last(acc), row)]
    ELSE Append(acc, row)

Collapse(rows) == FoldLeft(CollapseRow, <<>>, rows)

\* Mutant: what follows a cut is lost.
CutOneHead(piece, cut) ==
    IF cut.end <= piece.start \/ cut.start >= piece.end THEN <<piece>>
    ELSE IF piece.start < cut.start THEN <<[piece EXCEPT !.end = cut.start]>> ELSE <<>>

CutOne(piece, cut) ==
    IF cut.end <= piece.start \/ cut.start >= piece.end THEN <<piece>>
    ELSE (IF piece.start < cut.start THEN <<[piece EXCEPT !.end = cut.start]>> ELSE <<>>)
         \o (IF cut.end < piece.end THEN <<[piece EXCEPT !.start = cut.end]>> ELSE <<>>)

CutAll(pieces, cut) == FlattenSeq([i \in DOMAIN pieces |-> CutOne(pieces[i], cut)])

\* _subtract_ranges
SubtractRanges(piece, cuts) ==
    IF piece.end <= piece.start THEN <<>> ELSE FoldLeft(CutAll, <<piece>>, cuts)

\* A run is held until the next one.
Held(runs, i, horizon) ==
    [start |-> runs[i].ts, end |-> IF i < Len(runs) THEN runs[i + 1].ts ELSE horizon,
     win |-> runs[i].win]

LongEnough(pieces) == Only(pieces, {s \in Range(pieces) : s.end - s.start >= MinDwell})

FocusSegments(rows, away, horizon) ==
    LET runs == Collapse(rows)
    IN  FlattenSeq([i \in DOMAIN runs |->
                       LongEnough(SubtractRanges(Held(runs, i, horizon), away))])

\* Adjacent segments of one attention key are one visit; what lies between them is in its
\* bounds and not in its duration.
Longer(visit, s) == [visit EXCEPT !.end = s.end, !.duration = visit.duration + (s.end - s.start)]

Visit(acc, s) ==
    IF acc # <<>> /\ Last(acc).key = AttentionKey(s.win)
    THEN [acc EXCEPT ![Len(acc)] = Longer(Last(acc), s)]
    ELSE Append(acc, [start |-> s.start, end |-> s.end, duration |-> s.end - s.start,
                      key |-> AttentionKey(s.win), win |-> s.win])

AttentionSegments(fine) == FoldLeft(Visit, <<>>, fine)
=============================================================================
