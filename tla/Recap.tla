------------------------------- MODULE Recap --------------------------------
(***************************************************************************)
(* compile_day_recap (report/day.py) over a journal that grows: the daemon *)
(* appends rows while the day passes, and a reader may compile the recap   *)
(* at any moment.  The properties relate the compiled segments to what     *)
(* each second of the day was, read off the rows.                          *)
(*                                                                         *)
(* A row carries what the compilers look at: the window of a focus row and *)
(* the agent link found for it, the flag of an idle row (its idle_since is  *)
(* Threshold earlier), and of a desktop row what meeting_samples makes of   *)
(* it: a hint, a clear (full inventory without a meeting) or nothing.       *)
(***************************************************************************)
EXTENDS Away, Segments, Meetings, Repos, Dwell, Pauses

CONSTANTS Days,       \* kinds of days
          Facts(_),   \* what the rows of such a day may say
          TitleHint(_), \* match_meeting_title of a window, or NoHint
          Threshold,  \* idle_threshold_s of the idle rows
          DayEnd,     \* the end of the window
          MaxRows(_), \* bound: rows in the journal of such a day
          Prior(_),   \* the last snapshot of Herdr before such a day, if there is one
          RepoNames   \* the repositories

\* A row (Event) and what the reports read of it.
Panes == SUBSET [repo : STRING, key : STRING, working : BOOLEAN]
Row == [kind : STRING, ts : Int, since : Int, idle : BOOLEAN, win : Window, hint : MaybeHint,
        hold : BOOLEAN, repo : STRING, panes : Panes]

ASSUME RecapAssumption ==
    /\ Threshold \in Nat /\ DayEnd \in Nat
    /\ NoRepo \notin RepoNames
    /\ \A d \in Days : /\ Prior(d) \in Seq(Row) /\ Len(Prior(d)) <= 1
                       /\ \A i \in DOMAIN Prior(d) : Prior(d)[i].ts < WindowStart
                       /\ \A fact \in Facts(d) : fact \in Row /\ TitleHint(fact.win) \in MaybeHint

VARIABLES journal,  \* rows of the day, in the order of (ts, id)
          carried,  \* the idle row before the day is an enter
          now,
          day,      \* the kind of this day
          recap,    \* what a reader compiles at this moment
          brief     \* and what the care brief says of it

vars == <<journal, carried, now, day, recap, brief>>

-----------------------------------------------------------------------------
(* compile_day_recap *)

OfKind(rows, kind) == Only(rows, {row \in Range(rows) : row.kind = kind})

\* Mutant: a partial inventory ends the meeting.
EvidencePartial(row) ==
    CASE row.kind = "focus"   -> IF TitleHint(row.win) = NoHint THEN <<>> ELSE <<TitleHint(row.win)>>
      [] row.kind = "desktop" -> <<row.hint>>
      [] OTHER                -> <<>>

\* What a row says of a meeting; <<>> if it is no evidence.
Evidence(row) ==
    CASE row.kind = "focus"   -> IF TitleHint(row.win) = NoHint THEN <<>> ELSE <<TitleHint(row.win)>>
      [] row.kind = "desktop" -> IF row.hold THEN <<>> ELSE <<row.hint>>
      [] OTHER                -> <<>>

\* meeting_samples
MeetingSamples(rows) ==
    FlattenSeq([i \in DOMAIN rows |-> [j \in DOMAIN Evidence(rows[i]) |->
                                          [ts |-> rows[i].ts, hint |-> Evidence(rows[i])[j]]]])

ActivityTimes(rows) ==
    LET active == Only(rows, {row \in Range(rows) : row.kind \in {"focus", "desktop"}})
    IN  [i \in DOMAIN active |-> active[i].ts]

Horizon == Min({now, DayEnd})  \* horizon_dt

compile_day_recap(rows, priorIdle, prior, horizon) ==
    LET idle     == OfKind(rows, "idle")
        snaps    == prior \o OfKind(rows, "herdr")
        focus    == OfKind(rows, "focus")
        samples  == MeetingSamples(rows)
        sessions == SessionsFromSamples(samples, horizon)
        absence  == AwaySegments(idle, ActivityTimes(rows), priorIdle, horizon)
        away     == AnnotateAway(absence, sessions)
        segments == FocusSegments(focus, away, horizon)
        visits   == AttentionSegments(segments)
    IN  [idle |-> idle, focus |-> focus, samples |-> samples, sessions |-> sessions,
         absence |-> absence, away |-> away, segments |-> segments,
         attention |-> visits, snaps |-> snaps,
         repos |-> AttributeRepos(snaps, segments, RepoNames, WindowStart, horizon),
         hours |-> HourApps(segments, away, sessions),
         stays |-> TerminalStays(Only(visits, {v \in Range(visits) : IsTerminal(v.win)}))]

\* The newest idle row, and the presence it gives beside a daemon that ticks.
Newest(rows) == IF OfKind(rows, "idle") # <<>> THEN Last(OfKind(rows, "idle"))
                ELSE [idle |-> carried, since |-> WindowStart - Threshold]

P == INSTANCE Presence WITH OfflineThreshold <- 0

PresenceState(rows) ==
    P!derive_presence(0, "ready", [idle |-> IF Newest(rows).idle THEN "true" ELSE "false",
                                   source |-> "wayland-idle"], TRUE).state

\* What compile_care_brief says of this moment.
CareBrief(r, rows, at) ==
    [stretch |-> CurrentStretch(r.attention, at, PresenceState(rows)),
     away    |-> LastAway(r.away, at, PresenceState(rows), Newest(rows).since),
     pause   |-> PauseClock(r.away, at, PresenceState(rows), Newest(rows).since,
                            IF rows = <<>> THEN None ELSE <<rows[1].ts>>)]

-----------------------------------------------------------------------------
(* The day *)

Init == /\ journal = <<>> /\ carried \in BOOLEAN /\ now = 0
        /\ day \in Days
        /\ recap = compile_day_recap(journal, carried, Prior(day), Horizon)
        /\ brief = CareBrief(recap, journal, now)

Compile == /\ recap' = compile_day_recap(journal', carried', Prior(day'), Horizon')
           /\ brief' = CareBrief(recap', journal', now')

\* Store.append; a row of another day is not among events_for_day.
AppendRow(fact) ==
    /\ now < DayEnd /\ Len(journal) < MaxRows(day)
    /\ journal' = Append(journal, [fact EXCEPT !.ts = now, !.since = now - Threshold])
    /\ UNCHANGED <<carried, now, day>>
    /\ Compile

Advance == /\ now <= DayEnd
           /\ now' = now + 1
           /\ UNCHANGED <<journal, carried, day>>
           /\ Compile

Next == (\E fact \in Facts(day) : AppendRow(fact)) \/ Advance

Spec == Init /\ [][Next]_vars

-----------------------------------------------------------------------------
(* What each second was *)

Seconds == 0 .. Horizon - 1
Covering(list, t) == {i \in DOMAIN list : list[i].start <= t /\ t < list[i].end}
Before(list, t) == {i \in DOMAIN list : list[i].ts <= t}

(* Every compiled segment lies in the window and has a duration.            *)
TypeOK ==
    /\ now \in 0 .. DayEnd + 1 /\ carried \in BOOLEAN /\ day \in Days
    /\ \A list \in {recap.away, recap.segments, recap.sessions, recap.attention} :
          \A i \in DOMAIN list : /\ list[i].start \in 0 .. Horizon - 1
                                 /\ list[i].end \in list[i].start + 1 .. Horizon

\* The absences the rows speak of: from the enter that follows a leave (or opens the day) to
\* the next leave.  A carried enter opens the day at midnight.
Absences(rows) ==
    LET NextLeave(i) == {j \in DOMAIN rows : j > i /\ ~rows[j].idle}
        Until(i)     == IF NextLeave(i) = {} THEN Horizon ELSE rows[Min(NextLeave(i))].ts
        Opens(i)     == rows[i].idle /\ (IF i = 1 THEN ~carried ELSE ~rows[i - 1].idle)
    IN  {Span(rows[i].since, Until(i)) : i \in {j \in DOMAIN rows : Opens(j)}}
        \cup (IF carried THEN {Span(WindowStart, Until(0))} ELSE {})

(* While the idle rows tell of an absence, a second is away exactly when    *)
(* one of those absences holds it: a repeated enter, a lone leave or an     *)
(* enter carried over midnight moves no edge, and no gap between activity   *)
(* rows is added.  (It compares seconds: a second that two absences hold,   *)
(* as a back-dated enter may make it, is away once here.)                   *)
AwayIsIdleTime ==
    LET told == Absences(recap.idle)
        Told(t) == \E s \in told : s.start <= t /\ t < s.end
    IN  (\E t \in Seconds : Told(t)) =>
            \A t \in Seconds : (Covering(recap.away, t) # {}) <=> Told(t)

\* The rows of one window that follow each other are one run, named by its first row.
RunAt(rows, t) ==
    LET last == Max(Before(rows, t))
    IN  Min({i \in 1 .. last : \A j \in i .. last : SameWindow(rows[j].win, rows[last].win)})

(* A second that is neither away nor before the first focus row is in       *)
(* exactly one focus segment, of the window focused last, unless its        *)
(* stretch is shorter than MIN_DWELL_S; any other second is in none.        *)
FocusIsAttributedOnce ==
    LET free == {t \in Seconds : Before(recap.focus, t) # {} /\ Covering(recap.away, t) = {}}
        run  == [t \in free |-> RunAt(recap.focus, t)]
        Together(t, u) == Min({t, u}) .. Max({t, u}) \subseteq {v \in free : run[v] = run[t]}
        dwelt == {t \in free : Cardinality({u \in free : Together(t, u)}) >= MinDwell}
    IN  \A t \in Seconds :
            LET at == Covering(recap.segments, t)
            IN  IF t \in dwelt
                THEN \E i \in at : /\ at = {i}
                                   /\ SameWindow(recap.segments[i].win, recap.focus[run[t]].win)
                ELSE at = {}

(* The totals are the seconds they stand for: folding adjacent segments     *)
(* into one visit changes no total, whatever was cut out between them; the  *)
(* terminal stays are the terminal focus; and cutting segments at the full  *)
(* hours leaves in each hour what that hour saw.                            *)
TotalsAddUp ==
    LET OfKey(key)  == Only(recap.segments, {s \in Range(recap.segments) : AttentionKey(s.win) = key})
        Visits(key) == Only(recap.attention, {v \in Range(recap.attention) : v.key = key})
        all == Labelled(recap.segments, recap.away, recap.sessions)
        Shown(hour, label) ==
            Only(recap.hours, {s \in Range(recap.hours) : s.hour = hour /\ s.label = label})
        Saw(hour, label) == {x \in Seconds \X DOMAIN all :
                                /\ x[1] \div Hour = hour /\ all[x[2]].label = label
                                /\ all[x[2]].seg.start <= x[1] /\ x[1] < all[x[2]].seg.end}
    IN  /\ \A key \in {recap.attention[i].key : i \in DOMAIN recap.attention} :
              Total(Durations(Visits(key))) = Total(Lengths(OfKey(key)))
        /\ recap.stays.total = Total(Lengths(Terminals(recap.segments)))
        /\ \A hour \in 0 .. DayEnd \div Hour, label \in {all[i].label : i \in DOMAIN all} :
              Total([i \in DOMAIN Shown(hour, label) |-> Shown(hour, label)[i].length])
                 = Cardinality(Saw(hour, label))

\* The newest snapshot of Herdr at second t, if it is trusted still.
Known(t) == LET at == Before(recap.snaps, t)
            IN  IF at # {} /\ t < recap.snaps[Max(at)].ts + MaxHold
                THEN <<recap.snaps[Max(at)]>> ELSE None

FocusedRepo(t) == IF Known(t) = None THEN NoRepo ELSE Known(t)[1].repo

\* The window of the focus segment at second t.
WindowsAt(t) == {recap.segments[i].win : i \in Covering(recap.segments, t)}
OnTerminal(t) == \E w \in WindowsAt(t) : IsTerminal(w)

\* The rows of the window in focus at second t that follow each other, those that come later
\* than t included, and what the newest of them to know a field says of it.
RunOf(rows, t) ==
    LET last == Max(Before(rows, t))
    IN  {i \in DOMAIN rows : \A j \in Min({i, last}) .. Max({i, last}) :
                                 SameWindow(rows[j].win, rows[last].win)}
Told(rows, at, field) ==
    LET known == {i \in at : rows[i].win[field] # Unknown}
    IN  IF known = {} THEN Unknown ELSE rows[Max(known)].win[field]

RepoToldAt(t) ==
    LET Says(field) == Told(recap.focus, RunOf(recap.focus, t), field)
    IN  IF Says("cwd") # Unknown /\ Says("match") # "comm" THEN RepoLabel(Says("cwd")) ELSE NoRepo

(* A second of focus counts for the repository of the pane Herdr had        *)
(* focused, if it was spent in a terminal and Herdr was known then; else    *)
(* for that of the newest directory the rows of this stay in the window     *)
(* tell, unless the newest way to find one they tell is the bare process    *)
(* name; and never for two.  So a link that is found late counts for the    *)
(* whole stay, and a guessed directory may be counted once a later row      *)
(* found a link without one.                                                *)
FocusCountsForItsRepo ==
    \A repo \in RepoNames :
        recap.repos.focus[repo] = Cardinality({t \in Seconds :
            \E w \in WindowsAt(t) : IF IsTerminal(w) /\ FocusedRepo(t) # NoRepo
                                     THEN FocusedRepo(t) = repo ELSE RepoToldAt(t) = repo})

(* Agent time is wall time: however many panes work, a second counts once   *)
(* for each repository; it is unfocused unless the user was in a terminal   *)
(* on that repository; and no silence of the daemon adds more than MaxHold. *)
AgentTimeIsWallTime ==
    \A repo \in RepoNames :
        LET Works(t) == Known(t) # None /\ Busy(Known(t)[1], repo)
            at == {t \in Seconds : Works(t)}
        IN  /\ recap.repos.working[repo] = Cardinality(at)
            /\ recap.repos.unfocused[repo]
                  = Cardinality({t \in at : ~(OnTerminal(t) /\ FocusedRepo(t) = repo)})

\* The rows that say something of a meeting: the window of one in focus, or a full inventory
\* of the desktop.
Speaks(row) == \/ row.kind = "focus" /\ TitleHint(row.win) # NoHint
               \/ row.kind = "desktop" /\ ~row.hold
Says(row)   == IF row.kind = "focus" THEN TitleHint(row.win) ELSE row.hint

(* ADR-004 section 3: a second belongs to one session exactly when the      *)
(* newest row that says something of a meeting tells of one, and the        *)
(* session has its phase and provider; another window in focus and a        *)
(* partial inventory end nothing.                                           *)
SessionsFollowEvidence ==
    \A t \in Seconds :
        LET ev   == {i \in Before(journal, t) : Speaks(journal[i])}
            hint == IF ev = {} THEN NoHint ELSE Says(journal[Max(ev)])
            at   == Covering(recap.sessions, t)
        IN  IF hint = NoHint THEN at = {}
            ELSE \E i \in at : /\ at = {i}
                               /\ recap.sessions[i].phase = hint.phase
                               /\ recap.sessions[i].provider = hint.provider

(* Splitting the absences on calls neither loses nor doubles a second of    *)
(* absence, and a slice is a meeting exactly where a call was on.           *)
SplitKeepsAway ==
    \A t \in Seconds :
        /\ Cardinality(Covering(recap.away, t)) = Cardinality(Covering(recap.absence, t))
        /\ \A i \in Covering(recap.away, t) :
              recap.away[i].presence = "meeting"
                 <=> \E j \in Covering(recap.sessions, t) : recap.sessions[j].phase = "in_call"

ByProtocol(r, horizon) == ProtocolAway(r.idle, carried, horizon) # <<>>
FocusedAt(r, t) == {<<r.segments[i].win.app, r.segments[i].win.title>> : i \in Covering(r.segments, t)}

(* The past stands: while absences come from the same source, neither a new *)
(* row nor the passing of time changes the window of a second older than    *)
(* an absence can be back-dated and a dwell can be waited for: a recap read *)
(* at noon and one read at night agree about the morning.  (Not about the   *)
(* link of the window: a later row of the same stay may tell more.)         *)
PastStands ==
    [][ByProtocol(recap', Horizon') = ByProtocol(recap, Horizon) =>
           \A t \in 0 .. now - Max({Threshold, IdleGap}) - MinDwell :
               FocusedAt(recap', t) = FocusedAt(recap, t)]_vars

\* An absence that began before midnight is cut there, and what is left may be no pause.
CutAtMidnight(r) == carried \/ \E i \in DOMAIN r.idle : r.idle[i].idle /\ r.idle[i].since < WindowStart
InCall(r) == \E i \in DOMAIN r.sessions : r.sessions[i].phase = "in_call"

(* The pause clock never jumps ahead of the wall clock: minutes_since_pause *)
(* grows with the time that passes, or falls back because a pause ended or  *)
(* is on.  No row takes a pause back that the user was told of (with no     *)
(* call to turn a pause into a meeting, nor an absence cut at midnight).    *)
PauseClockRuns ==
    [][/\ ByProtocol(recap', Horizon') = ByProtocol(recap, Horizon)
       /\ brief.pause # None /\ ~InCall(recap) /\ ~InCall(recap') /\ ~CutAtMidnight(recap')
       => /\ brief'.pause # None
          /\ brief'.pause[1] <= brief.pause[1] + (now' - now)]_vars
=============================================================================
