-------------------------------- MODULE Repos --------------------------------
(***************************************************************************)
(* attribute_repos (report/dwell/repos.py): the seconds the user's focus   *)
(* was on a repository, and those in which an agent worked in it.  A       *)
(* snapshot of Herdr holds the repository of its focused pane and its      *)
(* panes, each with a repository, a session and a status; it is trusted    *)
(* until the next one, and for MaxHold at most.                            *)
(***************************************************************************)
EXTENDS Integers, Sequences, SequencesExt, Lists, Segments

CONSTANTS MaxHold,      \* MAX_HOLD_S
          RepoLabel(_)  \* repo_label of a directory

ASSUME ReposAssumption == MaxHold \in Nat

NoRepo == "no repo"

\* Mutant: a snapshot is held until the next one.
SpanUnheld(snap, next, from, horizon) ==
    [start |-> Max({snap.ts, from}), end |-> Min({next, horizon}),
     repo |-> snap.repo, panes |-> snap.panes, seen |-> 0]

HeldSpan(snap, next, from, horizon) ==
    [start |-> Max({snap.ts, from}), end |-> Min({next, snap.ts + MaxHold, horizon}),
     repo |-> snap.repo, panes |-> snap.panes, seen |-> 0]

\* _spans: what was known of Herdr, from `from` on; `seen` is the terminal focus in it.
Spans(snaps, from, horizon) ==
    LET Next(i) == IF i < Len(snaps) THEN snaps[i + 1].ts ELSE horizon
        held    == [i \in DOMAIN snaps |-> HeldSpan(snaps[i], Next(i), from, horizon)]
    IN  Only(held, {s \in Range(held) : s.end > s.start})

Overlap(a, b) == Max({0, Min({a.end, b.end}) - Max({a.start, b.start})})

\* A span has seen the seconds `taken` of each terminal segment.
Take(acc, next, span, taken) ==
    [next  |-> next,
     terms |-> [k \in DOMAIN acc.terms |->
                   [acc.terms[k] EXCEPT !.covered = acc.terms[k].covered + taken[k]]],
     spans |-> Append(acc.spans, [span EXCEPT !.seen = Total(taken)])]

\* The first terminal segment that does not end before the span, and those from it on that
\* begin before its end.
Reached(acc, span) ==
    LET left == {k \in acc.next .. Len(acc.terms) : acc.terms[k].end > span.start}
    IN  IF left = {} THEN Len(acc.terms) + 1 ELSE Min(left)
Hits(terms, j, span) == {k \in j .. Len(terms) : \A l \in j .. k : terms[l].start < span.end}

\* One span of the two-pointer sweep of _attention; `next` is the first terminal segment
\* that may still overlap.
Sweep(acc, span) ==
    IF span.repo = NoRepo THEN [acc EXCEPT !.spans = Append(acc.spans, span)]
    ELSE LET hits == Hits(acc.terms, Reached(acc, span), span)
         IN  Take(acc, Reached(acc, span), span,
                  [k \in DOMAIN acc.terms |->
                      IF k \in hits THEN Overlap(span, acc.terms[k]) ELSE 0])

Terminals(segments) == Only(segments, {s \in Range(segments) : IsTerminal(s.win)})
Uncovered(s) == [start |-> s.start, end |-> s.end, win |-> s.win, covered |-> 0]

\* _attention: the spans with the terminal focus in each, the terminal segments with what
\* was covered of each.
Attention(spans, segments) ==
    LET terms == Terminals(segments)
    IN  FoldLeft(Sweep, [next |-> 1, spans |-> <<>>,
                         terms |-> [k \in DOMAIN terms |-> Uncovered(terms[k])]], spans)

\* _credit_link of the focus that no span explains: the repository of the link's directory,
\* unless the link is the guess by a bare process name.
LinkedRepo(win) == IF win.cwd # Unknown /\ win.match # "comm" THEN RepoLabel(win.cwd) ELSE NoRepo
Unexplained(terms) == [k \in DOMAIN terms |-> terms[k].end - terms[k].start - terms[k].covered]
Linked(list, repo) == Only(list, {s \in Range(list) : LinkedRepo(s.win) = repo})
Others(segments)   == Only(segments, {s \in Range(segments) : ~IsTerminal(s.win)})

Seen(spans)        == [i \in DOMAIN spans |-> spans[i].seen]
On(spans, repo)    == Only(spans, {s \in Range(spans) : s.repo = repo})
Busy(span, repo)   == \E p \in span.panes : p.repo = repo /\ p.working
BusyIn(spans, repo) == Only(spans, {s \in Range(spans) : Busy(s, repo)})

\* attribute_repos; `working` and `unfocused` per repository, the rest is what holds now.
AttributeRepos(snaps, segments, repos, from, horizon) ==
    LET attn  == Attention(Spans(snaps, from, horizon), segments)
        spans == attn.spans
        live  == spans # <<>> /\ Last(spans).end >= horizon
    IN  [focus     |-> [r \in repos |-> Total(Seen(On(spans, r)))
                                        + Total(Unexplained(Linked(attn.terms, r)))
                                        + Total(Lengths(Linked(Others(segments), r)))],
         working   |-> [r \in repos |-> Total(Lengths(BusyIn(spans, r)))],
         unfocused |-> [r \in repos |-> Max({0, Total(Lengths(BusyIn(spans, r)))
                                                - Total(Seen(On(BusyIn(spans, r), r)))})],
         repoNow   |-> IF live THEN Last(spans).repo ELSE NoRepo,
         panesNow  |-> IF live THEN Last(spans).panes ELSE {}]
=============================================================================
