-------------------------------- MODULE Away --------------------------------
(***************************************************************************)
(* away_segments (report/away.py): the absences of a day, from the idle    *)
(* transitions if they give any, else from gaps between activity rows.     *)
(* Times are whole seconds since the start of the window (to_z drops the   *)
(* rest), in units; the mode of a segment is a label and left out.         *)
(***************************************************************************)
EXTENDS Integers, Sequences, SequencesExt

CONSTANT IdleGap  \* IDLE_GAP_S

ASSUME AwayAssumption == IdleGap \in Nat \ {0}

WindowStart == 0
Span(from, to) == [start |-> from, end |-> to]

\* Mutant: the window is not looked at.
EmitUnclipped(from, to) == IF to <= from THEN <<>> ELSE <<Span(from, to)>>

\* _emit: clipped to the window, and dropped when nothing is left.
Emit(from, to) == LET first == Max({from, WindowStart})
                  IN  IF to <= first THEN <<>> ELSE <<Span(first, to)>>

\* Mutant: a repeated enter opens the segment anew.
TransitionReopens(acc, row) ==
    IF row.idle THEN [acc EXCEPT !.open = <<row.since>>]
    ELSE IF acc.open = <<>> THEN acc
    ELSE [open |-> <<>>, out |-> acc.out \o Emit(acc.open[1], row.ts)]

\* An enter that repeats keeps the earliest start; a leave without an enter is skipped.
Transition(acc, row) ==
    IF row.idle THEN IF acc.open = <<>> THEN [acc EXCEPT !.open = <<row.since>>] ELSE acc
    ELSE IF acc.open = <<>> THEN acc
    ELSE [open |-> <<>>, out |-> acc.out \o Emit(acc.open[1], row.ts)]

\* carried: the idle row before the window (prior_idle) is an enter.
ProtocolAway(idleRows, carried, horizon) ==
    LET first == [open |-> IF carried THEN <<WindowStart>> ELSE <<>>, out |-> <<>>]
        last  == FoldLeft(Transition, first, idleRows)
    IN  last.out \o (IF last.open = <<>> THEN <<>> ELSE Emit(last.open[1], horizon))

\* times: when activity rows (focus, desktop_snapshot) were stored, in their order; between
\* two rows of one time there is no gap.
DegradedAway(times, horizon) ==
    LET Next(i) == IF i < Len(times) THEN times[i + 1] ELSE horizon
    IN  FlattenSeq([i \in DOMAIN times |-> IF Next(i) - times[i] >= IdleGap
                                           THEN Emit(times[i], Next(i)) ELSE <<>>])

AwaySegments(idleRows, times, carried, horizon) ==
    LET protocol == ProtocolAway(idleRows, carried, horizon)
    IN  IF protocol # <<>> THEN protocol ELSE DegradedAway(times, horizon)
=============================================================================
