------------------------------- MODULE Lists --------------------------------
(***************************************************************************)
(* What the reports do with any list: a comprehension with a condition,    *)
(* and the sum of what its elements last.                                  *)
(***************************************************************************)
EXTENDS Integers, Sequences, SequencesExt

\* The elements of a list that are in a set, in their order.
Only(list, wanted) ==
    FlattenSeq([i \in DOMAIN list |-> IF list[i] \in wanted THEN <<list[i]>> ELSE <<>>])

Add(a, b) == a + b
Total(numbers) == FoldLeft(Add, 0, numbers)

Lengths(list) == [i \in DOMAIN list |-> list[i].end - list[i].start]
=============================================================================
