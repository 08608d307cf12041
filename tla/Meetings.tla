------------------------------ MODULE Meetings ------------------------------
(***************************************************************************)
(* sessions_from_samples (report/meeting_sessions.py) and the split of     *)
(* away segments on calls (report/meeting.py).  A hint is what the title   *)
(* of a meeting window says: its phase, its provider, its call id if it    *)
(* has one, and how long its label is.                                     *)
(***************************************************************************)
EXTENDS Integers, Sequences, SequencesExt, Lists

NoCall == "none"
NoHint == [phase |-> "none", provider |-> "none", call |-> NoCall, label |-> 0]

\* MeetingHint, and None beside it.
Hint == [phase : {"in_call", "tab_open"}, provider : STRING, call : STRING, label : Nat]
MaybeHint == Hint \cup {NoHint}

\* Another phase, another provider or another known call is another session.
Splits(cur, hint) == \/ hint.phase # cur.phase
                     \/ hint.provider # cur.provider
                     \/ NoCall \notin {cur.call, hint.call} /\ cur.call # hint.call

\* The hint a session goes on with: one that knows the call, or a longer label of a call.
Upgrade(cur, hint) ==
    IF \/ hint.call # NoCall /\ cur.call = NoCall
       \/ hint.phase = "in_call" /\ hint.label > cur.label
    THEN hint ELSE cur

\* `close`: a session without a duration is dropped.
Close(acc, end) ==
    [cur |-> NoHint, start |-> acc.start,
     out |-> IF end <= acc.start THEN acc.out
             ELSE Append(acc.out, [start |-> acc.start, end |-> end, phase |-> acc.cur.phase,
                                   provider |-> acc.cur.provider, call |-> acc.cur.call])]

Open(acc, sample) == [acc EXCEPT !.cur = sample.hint, !.start = sample.ts]

\* Mutant: a split forgets to store the session it ends.
SampleSplitLost(acc, sample) ==
    IF acc.cur = NoHint THEN IF sample.hint = NoHint THEN acc ELSE Open(acc, sample)
    ELSE IF sample.hint = NoHint THEN Close(acc, sample.ts)
    ELSE IF Splits(acc.cur, sample.hint) THEN Open(acc, sample)
    ELSE [acc EXCEPT !.cur = Upgrade(acc.cur, sample.hint)]

\* One sample; the hint NoHint is a clear.
Sample(acc, sample) ==
    IF acc.cur = NoHint THEN IF sample.hint = NoHint THEN acc ELSE Open(acc, sample)
    ELSE IF sample.hint = NoHint THEN Close(acc, sample.ts)
    ELSE IF Splits(acc.cur, sample.hint) THEN Open(Close(acc, sample.ts), sample)
    ELSE [acc EXCEPT !.cur = Upgrade(acc.cur, sample.hint)]

SessionsFromSamples(samples, horizon) ==
    LET last == FoldLeft(Sample, [cur |-> NoHint, start |-> 0, out |-> <<>>], samples)
    IN  IF last.cur = NoHint THEN last.out ELSE Close(last, horizon).out

-----------------------------------------------------------------------------
Slice(from, to, presence) == [start |-> from, end |-> to, presence |-> presence]

\* Mutant: the slice before a call starts where the segment does.
SplitStepFromStart(acc, clip) ==
    [cursor |-> clip.end,
     out |-> Append(acc.out, Slice(acc.cursor, clip.start, "away"))
             \o <<Slice(acc.cursor, clip.end, "meeting")>>]

SplitStep(acc, clip) ==
    [cursor |-> clip.end,
     out |-> (IF acc.cursor < clip.start
              THEN Append(acc.out, Slice(acc.cursor, clip.start, "away")) ELSE acc.out)
             \o <<Slice(clip.start, clip.end, "meeting")>>]

\* What the calls take of an away segment.
Clips(seg, calls) ==
    LET clips == [i \in DOMAIN calls |-> [start |-> Max({seg.start, calls[i].start}),
                                          end |-> Min({seg.end, calls[i].end})]]
    IN  Only(clips, {c \in Range(clips) : c.start < c.end})

\* _split_away_on_calls: sessions come in the order of their starts, as the sort puts them.
SplitAwayOnCalls(seg, calls) ==
    LET last == FoldLeft(SplitStep, [cursor |-> seg.start, out |-> <<>>], Clips(seg, calls))
    IN  last.out \o (IF last.cursor < seg.end
                     THEN <<Slice(last.cursor, seg.end, "away")>> ELSE <<>>)

Calls(sessions) == Only(sessions, {s \in Range(sessions) : s.phase = "in_call"})

AnnotateAway(away, sessions) ==
    FlattenSeq([i \in DOMAIN away |-> SplitAwayOnCalls(away[i], Calls(sessions))])
=============================================================================
