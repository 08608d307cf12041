-------------------------------- MODULE Dwell --------------------------------
(***************************************************************************)
(* Totals over segments (report/dwell/aggregate.py, report/dwell/stays.py, *)
(* report/top_apps.py).  The order of a ranking and the rounding of its    *)
(* figures are left out.                                                   *)
(***************************************************************************)
EXTENDS Integers, Sequences, SequencesExt, Lists

CONSTANTS Hour,         \* the length of an hour
          LongStay      \* LONG_STAY_S

ASSUME DwellAssumption == Hour \in Nat \ {0}

\* Mutant: a slice is counted in the hour in which it starts.
SlicesWhole(seg, label) ==
    <<[label |-> label, hour |-> seg.start \div Hour, length |-> seg.end - seg.start]>>

\* _add of hour_apps: a segment is cut at the full hours.
Slices(seg, label) ==
    LET hours == [k \in 1 .. (seg.end - 1) \div Hour - seg.start \div Hour + 1 |->
                     seg.start \div Hour + k - 1]
    IN  [k \in DOMAIN hours |->
            [label |-> label, hour |-> hours[k],
             length |-> Min({seg.end, (hours[k] + 1) * Hour}) - Max({seg.start, hours[k] * Hour})]]

\* The labelled segments of hour_apps: away slices that are a call are left to its session.
SessionLabel(s) == IF s.phase = "in_call" THEN "meeting" ELSE "tab_open"
NoMeeting(away) == Only(away, {s \in Range(away) : s.presence # "meeting"})
Labelled(segments, away, sessions) ==
    LET left == NoMeeting(away)
    IN  [i \in DOMAIN segments |-> [seg |-> segments[i], label |-> segments[i].win.app]]
        \o [i \in DOMAIN sessions |-> [seg |-> sessions[i], label |-> SessionLabel(sessions[i])]]
        \o [i \in DOMAIN left |-> [seg |-> left[i], label |-> "away"]]

HourApps(segments, away, sessions) ==
    LET all == Labelled(segments, away, sessions)
    IN  FlattenSeq([i \in DOMAIN all |-> Slices(all[i].seg, all[i].label)])

Durations(visits) == [i \in DOMAIN visits |-> visits[i].duration]

\* terminal_stay_stats of the visits to a terminal: how many, how long, and of each length
\* how many.
TerminalStays(visits) ==
    LET terms == Only(visits, {v \in Range(visits) : v.duration > 0})
        Long(length) == Only(terms, {v \in Range(terms) : v.duration >= length})
    IN  [visits |-> Len(terms), total |-> Total(Durations(terms)),
         count |-> [length \in LongStay |-> Len(Long(length))],
         time  |-> [length \in LongStay |-> Total(Durations(Long(length)))]]
=============================================================================
