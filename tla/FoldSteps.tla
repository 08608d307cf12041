------------------------------ MODULE FoldSteps ------------------------------
(***************************************************************************)
(* A fold over a list is reached step by step: for any operator Op there   *)
(* are the values after no element, after the first, and so on.  A proof   *)
(* about a loop of the reports instantiates this module with the loop's    *)
(* body and goes by induction over the steps.                              *)
(***************************************************************************)
EXTENDS Integers, Sequences

LOCAL INSTANCE WellFoundedInduction

CONSTANT Op(_, _)

\* Max of a set of positions.
Greatest(s) == CHOOSE x \in s : \A y \in s : x >= y

\* What FoldLeft(Op, base, list) unfolds to.
Rec(it, base, list) ==
    [s \in SUBSET (DOMAIN list) |-> IF s = {} THEN base ELSE Op(it[s \ {Greatest(s)}], list[Greatest(s)])]

Folded(base, list) == (CHOOSE it : it = Rec(it, base, list))[DOMAIN list]

Steps(acc, base, list) ==
    /\ DOMAIN acc = 0 .. Len(list)
    /\ acc[0] = base
    /\ \A k \in 1 .. Len(list) : acc[k] = Op(acc[k - 1], list[k])

(* Induction without an operator as a parameter: a set of numbers that     *)
(* holds 0, and with a number below n the next one, holds all up to n.     *)
LEMMA UpTo ==
    ASSUME NEW n \in Nat, NEW T, 0 \in T,
           \A k \in 0 .. n - 1 : k \in T => k + 1 \in T
    PROVE  0 .. n \subseteq T
  <1> SUFFICES ASSUME NEW j \in 0 .. n, j \notin T
               PROVE  FALSE
    OBVIOUS
  <1> DEFINE C == {x \in Nat : x \in 0 .. n /\ x \notin T}
  <1>1. j \in C
    OBVIOUS
  <1>2. C \subseteq Nat
    OBVIOUS
  <1>3. PICK x \in C : \A y \in C : ~(<<y, x>> \in OpToRel(<, Nat))
    <2> HIDE DEF C
    <2> QED
      BY <1>1, <1>2, NatLessThanWellFounded, WFMin
  <1>4. \A y \in C : ~(y < x)
    BY <1>3 DEF OpToRel
  <1>5. x \in Nat /\ x \in 0 .. n /\ x \notin T /\ x # 0
    OBVIOUS
  <1>6. x - 1 \in 0 .. n - 1 /\ x - 1 < x /\ (x - 1) + 1 = x /\ x - 1 \in Nat
    BY <1>5
  <1>7. x - 1 \in T
    <2>1. x - 1 \notin C
      BY <1>4, <1>6
    <2> QED
      BY <2>1, <1>6
  <1> QED
    BY <1>5, <1>6, <1>7

(* The greatest of 1 .. k is k. *)
LEMMA MaxOfInterval == \A k \in Nat \ {0} : Greatest(1 .. k) = k
  <1> SUFFICES ASSUME NEW k \in Nat \ {0}
               PROVE  Greatest(1 .. k) = k
    OBVIOUS
  <1>1. k \in 1 .. k /\ \A y \in 1 .. k : k >= y
    OBVIOUS
  <1>2. \A x \in 1 .. k : (\A y \in 1 .. k : x >= y) => x = k
    BY <1>1
  <1> QED
    BY <1>1, <1>2 DEF Greatest

LEMMA MaxWith ==
    ASSUME NEW m \in Nat, NEW s \in SUBSET (1 .. m + 1), m + 1 \in s
    PROVE  Greatest(s) = m + 1
  <1>1. \A y \in s : m + 1 >= y
    OBVIOUS
  <1>2. \A x \in s : (\A y \in s : x >= y) => x = m + 1
    BY <1>1
  <1> QED
    BY <1>1, <1>2 DEF Greatest

Exist(m, base, list) ==
    \E it : it = [s \in SUBSET (1 .. m) |-> IF s = {} THEN base
                                            ELSE Op(it[s \ {Greatest(s)}], list[Greatest(s)])]

LEMMA ExistNext ==
    ASSUME NEW m \in Nat, NEW base, NEW list, Exist(m, base, list)
    PROVE  Exist(m + 1, base, list)
  <1>1. PICK it : it = [s \in SUBSET (1 .. m) |-> IF s = {} THEN base
                                            ELSE Op(it[s \ {Greatest(s)}], list[Greatest(s)])]
    BY DEF Exist
  <1> DEFINE new == [s \in SUBSET (1 .. m + 1) |->
                        IF m + 1 \in s THEN Op(it[s \ {m + 1}], list[m + 1]) ELSE it[s]]
  <1>2. ASSUME NEW s \in SUBSET (1 .. m + 1)
        PROVE  new[s] = IF s = {} THEN base ELSE Op(new[s \ {Greatest(s)}], list[Greatest(s)])
    <2>1. CASE m + 1 \in s
      <3>1. Greatest(s) = m + 1
        BY <2>1, MaxWith
      <3>2. s \ {m + 1} \in SUBSET (1 .. m + 1) /\ m + 1 \notin s \ {m + 1}
        OBVIOUS
      <3>3. new[s \ {m + 1}] = it[s \ {m + 1}]
        BY <3>2
      <3>4. new[s] = Op(it[s \ {m + 1}], list[m + 1])
        BY <2>1
      <3> QED
        BY <2>1, <3>1, <3>3, <3>4
    <2>2. CASE m + 1 \notin s
      <3>1. s \in SUBSET (1 .. m)
        BY <2>2
      <3>2. new[s] = it[s]
        BY <2>2
      <3>3. s \ {Greatest(s)} \in SUBSET (1 .. m + 1) /\ m + 1 \notin s \ {Greatest(s)}
        BY <2>2
      <3>4. new[s \ {Greatest(s)}] = it[s \ {Greatest(s)}]
        BY <3>3
      <3>5. it[s] = IF s = {} THEN base ELSE Op(it[s \ {Greatest(s)}], list[Greatest(s)])
        BY <1>1, <3>1
      <3> QED
        BY <3>2, <3>4, <3>5
    <2> QED
      BY <2>1, <2>2
  <1>3. new = [s \in SUBSET (1 .. m + 1) |-> IF s = {} THEN base
                                            ELSE Op(new[s \ {Greatest(s)}], list[Greatest(s)])]
    <2>1. new = [s \in SUBSET (1 .. m + 1) |-> new[s]]
      OBVIOUS
    <2> HIDE DEF new
    <2> QED
      BY <2>1, <1>2
  <1> QED
    BY <1>3 DEF Exist

LEMMA Exists ==
    ASSUME NEW S, NEW list \in Seq(S), NEW base
    PROVE  \E it : it = Rec(it, base, list)
  <1> DEFINE T == {m \in Nat : Exist(m, base, list)}
  <1>1. 0 \in T
    <2> DEFINE it == [s \in SUBSET (1 .. 0) |-> base]
    <2>1. it = [s \in SUBSET (1 .. 0) |-> IF s = {} THEN base
                                          ELSE Op(it[s \ {Greatest(s)}], list[Greatest(s)])]
      OBVIOUS
    <2> QED
      BY <2>1 DEF Exist
  <1>2. \A k \in 0 .. Len(list) - 1 : k \in T => k + 1 \in T
    BY ExistNext
  <1>3. Len(list) \in T
    <2>1. Len(list) \in Nat
      OBVIOUS
    <2> HIDE DEF T
    <2>2. 0 .. Len(list) \subseteq T
      BY <1>1, <1>2, <2>1, UpTo
    <2> QED
      BY <2>1, <2>2
  <1>4. DOMAIN list = 1 .. Len(list)
    OBVIOUS
  <1> QED
    BY <1>3, <1>4 DEF Exist, Rec

(* The values of a fold after each element of the list.                    *)
THEOREM FoldHasSteps ==
    ASSUME NEW S, NEW list \in Seq(S), NEW base
    PROVE  \E acc : Steps(acc, base, list) /\ Folded(base, list) = acc[Len(list)]
  <1> DEFINE it == CHOOSE it : it = Rec(it, base, list)
             n == Len(list)
             acc == [k \in 0 .. n |-> it[1 .. k]]
  <1>1. it = Rec(it, base, list)
    BY Exists
  <1>2. n \in Nat /\ DOMAIN list = 1 .. n
    OBVIOUS
  <1>3. \A s \in SUBSET (1 .. n) :
            it[s] = IF s = {} THEN base ELSE Op(it[s \ {Greatest(s)}], list[Greatest(s)])
    <2> HIDE DEF it
    <2> QED
      BY <1>1, <1>2 DEF Rec
  <1> HIDE DEF it
  <1>4. acc[0] = base
    <2>1. 1 .. 0 = {} /\ 0 \in 0 .. n
      BY <1>2
    <2>2. it[{}] = base
      BY <1>3
    <2> QED
      BY <2>1, <2>2
  <1>5. ASSUME NEW k \in 1 .. n
        PROVE  acc[k] = Op(acc[k - 1], list[k])
    <2>1. k \in Nat \ {0} /\ k - 1 \in 0 .. n /\ k \in 0 .. n
      BY <1>2
    <2>2. (1 .. k) \ {k} = 1 .. k - 1 /\ 1 .. k # {} /\ 1 .. k \in SUBSET (1 .. n)
      BY <1>2, <2>1
    <2>3. it[1 .. k] = Op(it[(1 .. k) \ {Greatest(1 .. k)}], list[Greatest(1 .. k)])
      BY <1>3, <2>2
    <2>4. it[1 .. k] = Op(it[1 .. k - 1], list[k])
      BY <2>1, <2>2, <2>3, MaxOfInterval
    <2> QED
      BY <2>1, <2>4
  <1>6. Folded(base, list) = it[1 .. n] /\ acc[n] = it[1 .. n]
    BY <1>2 DEF Folded, it
  <1> HIDE DEF acc
  <1>7. DOMAIN acc = 0 .. n
    BY DEF acc
  <1> QED
    BY <1>4, <1>5, <1>6, <1>7 DEF Steps
=============================================================================
