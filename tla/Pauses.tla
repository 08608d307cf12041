------------------------------- MODULE Pauses --------------------------------
(***************************************************************************)
(* The facts about now in the care brief (report/clock/pause.py): the      *)
(* stretch the user is in, the last absence, and how long ago the last     *)
(* pause ended.  Minutes are units.                                        *)
(***************************************************************************)
EXTENDS Integers, Sequences, SequencesExt, Lists

CONSTANTS PauseGap,    \* IDLE_GAP_S
          StretchAge,  \* _STRETCH_MAX_AGE_S
          RecentAway   \* _RECENT_AWAY_S

ASSUME PausesAssumption == PauseGap \in Nat /\ StretchAge \in Nat /\ RecentAway \in Nat

None == <<>>  \* the code's None

\* The segment that ends last, the first of those that end together.
LastToEnd(list) == CHOOSE i \in DOMAIN list :
                       \A j \in DOMAIN list : \/ list[j].end < list[i].end
                                              \/ list[j].end = list[i].end /\ i <= j

\* _current_stretch: the length of the visit that just was.
CurrentStretch(visits, now, state) ==
    IF state # "active" \/ visits = <<>> THEN None
    ELSE LET last == visits[LastToEnd(visits)]
         IN  IF now - last.end > StretchAge THEN None ELSE <<last.duration>>

Absent(away) == Only(away, {a \in Range(away) : a.presence # "meeting"})
Length(a)    == a.end - a.start

\* _last_away
LastAway(away, now, state, since) ==
    IF state = "idle" THEN <<[minutes |-> now - since, ongoing |-> TRUE]>>
    ELSE IF Absent(away) = <<>> THEN None
    ELSE LET last == Absent(away)[LastToEnd(Absent(away))]
         IN  IF now - last.end > RecentAway THEN None
             ELSE <<[minutes |-> Length(last), ongoing |-> FALSE]>>

LongPauses(away) ==
    LET all == Absent(away) IN Only(all, {a \in Range(all) : Length(a) >= PauseGap})

\* Mutant: the first pause of the day is taken.
PauseClockFirst(away, now, state, since, firstEvent) ==
    LET pauses == LongPauses(away)
    IN  IF state = "idle" /\ now - since >= PauseGap THEN <<0>>
        ELSE IF pauses # <<>> THEN <<Max({0, now - Head(pauses).end})>>
        ELSE IF firstEvent = None THEN None
        ELSE <<Max({0, now - firstEvent[1]})>>

\* _pause_clock: the units since the last pause ended, else since the day's first row.
PauseClock(away, now, state, since, firstEvent) ==
    LET pauses == LongPauses(away)
    IN  IF state = "idle" /\ now - since >= PauseGap THEN <<0>>
        ELSE IF pauses # <<>> THEN <<Max({0, now - pauses[LastToEnd(pauses)].end})>>
        ELSE IF firstEvent = None THEN None
        ELSE <<Max({0, now - firstEvent[1]})>>
=============================================================================
