---------------------------- MODULE Recap_proofs -----------------------------
(***************************************************************************)
(* What the day recap says is true of every journal, of any length.  The   *)
(* reports are loops over lists.  For each loop a lemma says what holds    *)
(* after its first n elements; FoldSteps gives the values of its fold      *)
(* after each element, and one induction over n goes through them.  A      *)
(* theorem about the recap then combines the loops compile_day_recap       *)
(* chains, over a journal that is in order (JournalInv).                   *)
(* Sums of seconds are cardinalities of the sets of seconds they count     *)
(* (TotalCounts).                                                          *)
(***************************************************************************)
EXTENDS Recap, FiniteSetTheorems, TLAPS

\* FlattenSeq as a loop.
Concat(acc, list) == acc \o list

Flat == INSTANCE FoldSteps WITH Op <- Concat

-----------------------------------------------------------------------------
(* Lists *)

(* A flattened list is reached piece by piece.                              *)
LEMMA FlattenHasSteps ==
    ASSUME NEW S, NEW f \in Seq(Seq(S))
    PROVE  \E flat \in [0 .. Len(f) -> Seq(S)] :
              /\ flat[0] = <<>> /\ FlattenSeq(f) = flat[Len(f)]
              /\ \A i \in 1 .. Len(f) : flat[i] = flat[i - 1] \o f[i]
  <1> DEFINE n == Len(f)
  <1>1. n \in Nat /\ DOMAIN f = 1 .. n /\ \A i \in 1 .. n : f[i] \in Seq(S)
    OBVIOUS
  <1>2. PICK acc : Flat!Steps(acc, <<>>, f)
    BY Flat!FoldHasSteps, Zenon
  <1>3. /\ DOMAIN acc = 0 .. n /\ acc[0] = <<>>
        /\ \A i \in 1 .. n : acc[i] = acc[i - 1] \o f[i]
    BY <1>2, Zenon DEF Flat!Steps, Concat
  <1>4. \A i \in 0 .. n : acc[i] \in Seq(S)
    <2> DEFINE T == {i \in 0 .. n : acc[i] \in Seq(S)}
    <2>1. 0 \in T
      <3>1. <<>> \in Seq(S) /\ 0 \in 0 .. n
        BY <1>1
      <3> QED
        BY <1>3, <3>1, Zenon
    <2>2. \A i \in 0 .. n - 1 : i \in T => i + 1 \in T
      <3> SUFFICES ASSUME NEW i \in 0 .. n - 1, acc[i] \in Seq(S)
                   PROVE  acc[i + 1] \in Seq(S) /\ i + 1 \in 0 .. n
        OBVIOUS
      <3>1. i + 1 \in 1 .. n /\ (i + 1) - 1 = i /\ i + 1 \in 0 .. n
        BY <1>1
      <3>2. acc[i + 1] = acc[i] \o f[i + 1] /\ f[i + 1] \in Seq(S)
        BY <1>1, <1>3, <3>1, Zenon
      <3> QED
        BY <3>1, <3>2
    <2>3. 0 .. n \subseteq T
      <3> HIDE DEF T
      <3> QED
        BY <1>1, <2>1, <2>2, Flat!UpTo, Zenon
    <2> QED
      BY <2>3
  <1>5. CASE n = 0
    <2>1. f = <<>>
      BY <1>1, <1>5
    <2>2. FlattenSeq(f) = <<>>
      BY <2>1 DEF FlattenSeq
    <2> DEFINE flat == [i \in 0 .. n |-> <<>>]
    <2>3. flat \in [0 .. n -> Seq(S)] /\ flat[0] = <<>> /\ flat[n] = <<>>
      BY <1>5
    <2>4. 1 .. n = {}
      BY <1>5
    <2> QED
      BY <2>2, <2>3, <2>4
  <1>6. CASE n # 0
    <2> DEFINE fl == CHOOSE fl : fl = [i \in 1 .. n |-> IF i = 1 THEN f[i] ELSE fl[i - 1] \o f[i]]
               flat == [i \in 0 .. n |-> IF i = 0 THEN <<>> ELSE fl[i]]
    <2>1. \E g : g = [i \in 1 .. n |-> IF i = 1 THEN f[i] ELSE g[i - 1] \o f[i]]
      <3> DEFINE g == [i \in 1 .. n |-> acc[i]]
      <3>1. \A i \in 1 .. n : acc[i] = IF i = 1 THEN f[i] ELSE g[i - 1] \o f[i]
        <4> SUFFICES ASSUME NEW i \in 1 .. n
                     PROVE  acc[i] = IF i = 1 THEN f[i] ELSE g[i - 1] \o f[i]
          BY Zenon
        <4>1. acc[i] = acc[i - 1] \o f[i] /\ f[i] \in Seq(S)
          BY <1>1, <1>3, Zenon
        <4>2. CASE i = 1
          <5>1. acc[i] = <<>> \o f[i]
            <6>1. i - 1 = 0
              BY <4>2
            <6> QED
              BY <1>3, <4>1, <6>1, Zenon
          <5>2. <<>> \o f[i] = f[i]
            BY <4>1
          <5> QED
            BY <4>2, <5>1, <5>2
        <4>3. CASE i # 1
          <5>1. i - 1 \in 1 .. n
            BY <1>1, <4>3
          <5> QED
            BY <4>1, <4>3, <5>1, Zenon
        <4> QED
          BY <4>2, <4>3
      <3>2. g = [i \in 1 .. n |-> IF i = 1 THEN f[i] ELSE g[i - 1] \o f[i]]
        BY <3>1, Zenon
      <3> QED
        BY <3>2, Zenon
    <2>2. fl = [i \in 1 .. n |-> IF i = 1 THEN f[i] ELSE fl[i - 1] \o f[i]]
      BY <2>1, Zenon
    <2>3. FlattenSeq(f) = fl[n]
      BY <1>6 DEF FlattenSeq
    <2> HIDE DEF fl
    <2>4. \A i \in 1 .. n : fl[i] = IF i = 1 THEN f[i] ELSE fl[i - 1] \o f[i]
      BY <2>2, Zenon
    <2>5. \A i \in 1 .. n : flat[i] = flat[i - 1] \o f[i]
      <3> SUFFICES ASSUME NEW i \in 1 .. n
                   PROVE  flat[i] = flat[i - 1] \o f[i]
        BY Zenon
      <3>1. CASE i = 1
        BY <1>1, <2>4, <3>1
      <3>2. CASE i # 1
        <4>1. i - 1 \in 1 .. n /\ i \in 0 .. n /\ i - 1 \in 0 .. n /\ i - 1 # 0
          BY <1>1, <3>2
        <4>2. flat[i] = fl[i] /\ flat[i - 1] = fl[i - 1]
          BY <3>2, <4>1
        <4>3. fl[i] = fl[i - 1] \o f[i]
          BY <2>4, <3>2, Zenon
        <4> QED
          BY <4>2, <4>3, Zenon
      <3> QED
        BY <3>1, <3>2, Zenon
    <2>6. flat[0] = <<>> /\ flat[n] = fl[n] /\ DOMAIN flat = 0 .. n
      BY <1>1, <1>6
    <2>7. \A i \in 0 .. n : flat[i] \in Seq(S)
      <3> DEFINE T == {i \in 0 .. n : flat[i] \in Seq(S)}
      <3>1. 0 \in T
        BY <1>1
      <3>2. \A i \in 0 .. n - 1 : i \in T => i + 1 \in T
        <4> SUFFICES ASSUME NEW i \in 0 .. n - 1, flat[i] \in Seq(S)
                     PROVE  flat[i + 1] \in Seq(S) /\ i + 1 \in 0 .. n
          BY Zenon
        <4>1. i + 1 \in 1 .. n /\ (i + 1) - 1 = i /\ i + 1 \in 0 .. n
          BY <1>1
        <4> HIDE DEF flat
        <4>2. flat[i + 1] = flat[i] \o f[i + 1] /\ f[i + 1] \in Seq(S)
          BY <1>1, <2>5, <4>1, Zenon
        <4> QED
          BY <4>1, <4>2
      <3>3. 0 .. n \subseteq T
        <4> HIDE DEF T
        <4> QED
          BY <1>1, <3>1, <3>2, Flat!UpTo, Zenon
      <3> QED
        BY <3>3, Zenon
    <2>8. flat \in [0 .. n -> Seq(S)]
      BY <2>7
    <2> HIDE DEF flat
    <2> QED
      BY <2>3, <2>5, <2>6, <2>8, Zenon
  <1> QED
    BY <1>5, <1>6, Zenon

\* The elements of list are those of the pieces f, in their order: the p-th comes from
\* position place[p] of the piece piece[p].
Origin(f, list, piece, place) ==
    /\ \A p \in 1 .. Len(list) :
          /\ piece[p] \in 1 .. Len(f) /\ place[p] \in 1 .. Len(f[piece[p]])
          /\ list[p] = f[piece[p]][place[p]]
    /\ \A i \in 1 .. Len(f) : \A k \in 1 .. Len(f[i]) :
          \E p \in 1 .. Len(list) : piece[p] = i /\ place[p] = k
    /\ \A p, q \in 1 .. Len(list) :
          p < q => piece[p] < piece[q] \/ (piece[p] = piece[q] /\ place[p] < place[q])

\* off[i] is the sum of the first i numbers of len.
Cumulates(off, len, n) == off[0] = 0 /\ \A i \in 1 .. n : off[i] = off[i - 1] + len[i]

\* The p-th unit of the sum is the place[p]-th of the summand piece[p].
Located(off, len, n, piece, place) ==
    /\ \A p \in 1 .. off[n] : place[p] \in 1 .. len[piece[p]] /\ off[piece[p] - 1] + place[p] = p
    /\ \A i \in 1 .. n : \A k \in 1 .. len[i] :
          LET p == off[i - 1] + k
          IN  p \in 1 .. off[n] /\ piece[p] = i /\ place[p] = k
    /\ \A p, q \in 1 .. off[n] :
          p < q => piece[p] < piece[q] \/ (piece[p] = piece[q] /\ place[p] < place[q])

(* Numbers up to a sum lie in one summand each, in their order.             *)
LEMMA Offsets ==
    ASSUME NEW n \in Nat, NEW len \in [1 .. n -> Nat], NEW off \in [0 .. n -> Nat],
           Cumulates(off, len, n)
    PROVE  /\ \A i, j \in 0 .. n : i <= j => off[i] <= off[j]
           /\ \E piece \in [1 .. off[n] -> 1 .. n], place \in [1 .. off[n] -> Int] :
                 Located(off, len, n, piece, place)
  <1>0. /\ off[0] = 0 /\ off[n] \in Nat
        /\ \A i \in 1 .. n : /\ i - 1 \in 0 .. n /\ i \in 0 .. n
                             /\ off[i - 1] \in Nat /\ off[i] \in Nat /\ len[i] \in Nat
    BY DEF Cumulates
  <1>1. ASSUME NEW j \in 0 .. n
        PROVE  \A i \in 0 .. n : i <= j => off[i] <= off[j]
    <2> DEFINE T == {m \in 0 .. n : \A i \in 0 .. n : i <= m => off[i] <= off[m]}
    <2>1. 0 \in T
      OBVIOUS
    <2>2. \A m \in 0 .. n - 1 : m \in T => m + 1 \in T
      <3>0. SUFFICES ASSUME NEW m \in 0 .. n - 1, m \in T
                     PROVE  m + 1 \in T
        BY Zenon
      <3>1. m + 1 \in 1 .. n /\ m \in 0 .. n /\ m + 1 \in 0 .. n /\ (m + 1) - 1 = m
        OBVIOUS
      <3>2. off[m + 1] = off[m] + len[m + 1] /\ len[m + 1] \in Nat /\ off[m] \in Nat
        BY <3>1 DEF Cumulates
      <3>3. ASSUME NEW i \in 0 .. n, i <= m + 1
            PROVE  off[i] <= off[m + 1]
        <4>1. off[i] <= off[m + 1] \/ i <= m
          BY <3>1, <3>2, <3>3
        <4>2. CASE i <= m
          <5>1. off[i] <= off[m] /\ off[i] \in Nat
            BY <3>0, <4>2
          <5> QED
            BY <3>2, <5>1
        <4> QED
          BY <4>1, <4>2
      <3> QED
        BY <3>1, <3>3
    <2>3. 0 .. n \subseteq T
      <3> HIDE DEF T
      <3> QED
        BY <2>1, <2>2, Flat!UpTo, Zenon
    <2> QED
      BY <2>3
  <1>2. \A i, j \in 0 .. n : i <= j => off[i] <= off[j]
    BY <1>1
  <1>3. \A a, b \in 1 .. n : a < b => off[a] <= off[b - 1]
    <2> SUFFICES ASSUME NEW a \in 1 .. n, NEW b \in 1 .. n, a < b
                 PROVE  off[a] <= off[b - 1]
      OBVIOUS
    <2>1. a \in 0 .. n /\ b - 1 \in 0 .. n /\ a <= b - 1
      OBVIOUS
    <2> QED
      BY <1>2, <2>1
  <1>4. \A i \in 1 .. n : i - 1 \in 0 .. n /\ i \in 0 .. n
    OBVIOUS
  <1>5. ASSUME NEW p \in 1 .. off[n]
        PROVE  \E i \in 1 .. n : off[i - 1] < p /\ p <= off[i]
    <2> DEFINE T == {m \in 0 .. n : off[m] < p}
    <2>1. 0 \in T
      BY <1>0
    <2>2. SUFFICES ASSUME \A i \in 1 .. n : off[i - 1] < p => ~(p <= off[i])
                   PROVE  FALSE
      OBVIOUS
    <2>3. \A m \in 0 .. n - 1 : m \in T => m + 1 \in T
      <3> SUFFICES ASSUME NEW m \in 0 .. n - 1, off[m] < p
                   PROVE  m + 1 \in 0 .. n /\ off[m + 1] < p
        OBVIOUS
      <3>1. m + 1 \in 1 .. n /\ (m + 1) - 1 = m /\ m + 1 \in 0 .. n
        OBVIOUS
      <3>2. ~(p <= off[m + 1]) /\ off[m + 1] \in Nat
        BY <2>2, <3>1
      <3> QED
        BY <3>1, <3>2
    <2>4. 0 .. n \subseteq T
      <3> HIDE DEF T
      <3> QED
        BY <2>1, <2>3, Flat!UpTo, Zenon
    <2>5. n \in 0 .. n
      OBVIOUS
    <2> QED
      BY <2>4, <2>5
  <1>6. PICK piece \in [1 .. off[n] -> 1 .. n] :
            \A p \in 1 .. off[n] : off[piece[p] - 1] < p /\ p <= off[piece[p]]
    <2> DEFINE piece == [p \in 1 .. off[n] |->
                            CHOOSE i \in 1 .. n : off[i - 1] < p /\ p <= off[i]]
    <2>1. \A p \in 1 .. off[n] : /\ piece[p] \in 1 .. n
                                 /\ off[piece[p] - 1] < p /\ p <= off[piece[p]]
      BY <1>5, Zenon
    <2>2. piece \in [1 .. off[n] -> 1 .. n]
      BY <2>1, Zenon
    <2> QED
      BY <2>1, <2>2, Zenon
  <1>7. PICK place \in [1 .. off[n] -> Int] :
            \A p \in 1 .. off[n] : place[p] = p - off[piece[p] - 1]
    <2> DEFINE place == [p \in 1 .. off[n] |-> p - off[piece[p] - 1]]
    <2>1. \A p \in 1 .. off[n] : piece[p] - 1 \in 0 .. n
      OBVIOUS
    <2>2. \A p \in 1 .. off[n] : place[p] \in Int
      BY <2>1
    <2>3. place \in [1 .. off[n] -> Int]
      BY <2>2
    <2> QED
      BY <2>3, Zenon
  <1>8. ASSUME NEW p \in 1 .. off[n], NEW i \in 1 .. n, off[i - 1] < p, p <= off[i]
        PROVE  piece[p] = i
    <2>1. PICK j \in 1 .. n : j = piece[p] /\ off[j - 1] < p /\ p <= off[j]
      BY <1>6, Zenon
    <2>2. /\ off[i - 1] \in Nat /\ off[i] \in Nat /\ off[j - 1] \in Nat /\ off[j] \in Nat
      BY <1>0
    <2>3. ~(j < i)
      <3>1. j < i => off[j] <= off[i - 1]
        BY <1>3
      <3> QED
        BY <1>8, <2>1, <2>2, <3>1
    <2>4. ~(i < j)
      <3>1. i < j => off[i] <= off[j - 1]
        BY <1>3
      <3> QED
        BY <1>8, <2>1, <2>2, <3>1, SMTT(30)
    <2> QED
      BY <2>1, <2>3, <2>4
  <1>9. \A p \in 1 .. off[n] : /\ piece[p] \in 1 .. n /\ place[p] \in 1 .. len[piece[p]]
                               /\ off[piece[p] - 1] + place[p] = p
    <2> SUFFICES ASSUME NEW p \in 1 .. off[n]
                 PROVE  /\ piece[p] \in 1 .. n /\ place[p] \in 1 .. len[piece[p]]
                        /\ off[piece[p] - 1] + place[p] = p
      OBVIOUS
    <2>1. /\ piece[p] \in 1 .. n /\ off[piece[p] - 1] < p /\ p <= off[piece[p]]
          /\ place[p] = p - off[piece[p] - 1]
      BY <1>6, <1>7, Zenon
    <2>2. /\ off[piece[p] - 1] \in Nat /\ len[piece[p]] \in Nat
          /\ off[piece[p]] = off[piece[p] - 1] + len[piece[p]]
      BY <1>0, <2>1, Zenon DEF Cumulates
    <2> QED
      BY <2>1, <2>2
  <1>10. ASSUME NEW i \in 1 .. n, NEW k \in 1 .. len[i]
         PROVE  LET p == off[i - 1] + k
                IN  p \in 1 .. off[n] /\ piece[p] = i /\ place[p] = k
    <2> DEFINE p == off[i - 1] + k
    <2>1. /\ off[i - 1] \in Nat /\ len[i] \in Nat /\ off[i] = off[i - 1] + len[i]
          /\ off[i] <= off[n] /\ off[n] \in Nat
      <3>1. n \in 0 .. n /\ i <= n
        OBVIOUS
      <3>2. off[i] = off[i - 1] + len[i]
        BY DEF Cumulates
      <3> QED
        BY <1>0, <1>2, <3>1, <3>2
    <2>2. p \in 1 .. off[n] /\ off[i - 1] < p /\ p <= off[i]
      BY <2>1
    <2>3. piece[p] = i
      BY <1>8, <2>2, Zenon
    <2>4. place[p] = p - off[i - 1]
      BY <1>7, <2>2, <2>3, Zenon
    <2>5. place[p] = k
      BY <2>1, <2>4
    <2> QED
      BY <2>2, <2>3, <2>5
  <1>11. ASSUME NEW p \in 1 .. off[n], NEW q \in 1 .. off[n], p < q
         PROVE  piece[p] < piece[q] \/ (piece[p] = piece[q] /\ place[p] < place[q])
    <2>1. PICK i \in 1 .. n : i = piece[p] /\ off[i - 1] < p /\ place[p] = p - off[i - 1]
      BY <1>6, <1>7, Zenon
    <2>2. PICK j \in 1 .. n : j = piece[q] /\ q <= off[j] /\ place[q] = q - off[j - 1]
      BY <1>6, <1>7, Zenon
    <2>3. /\ off[i - 1] \in Nat /\ off[j - 1] \in Nat /\ off[j] \in Nat
      BY <1>0
    <2>4. ~(j < i)
      <3>1. j < i => off[j] <= off[i - 1]
        BY <1>3
      <3> QED
        BY <1>11, <2>1, <2>2, <2>3, <3>1
    <2>5. i = j => place[p] < place[q]
      BY <1>11, <2>1, <2>2, <2>3
    <2> QED
      BY <2>1, <2>2, <2>4, <2>5
  <1>12. /\ \A i \in 1 .. n : \A k \in 1 .. len[i] :
               LET p == off[i - 1] + k
               IN  p \in 1 .. off[n] /\ piece[p] = i /\ place[p] = k
         /\ \A p, q \in 1 .. off[n] :
               p < q => piece[p] < piece[q] \/ (piece[p] = piece[q] /\ place[p] < place[q])
    BY <1>10, <1>11
  <1>13. Located(off, len, n, piece, place)
    BY <1>9, <1>12 DEF Located
  <1> QED
    BY <1>2, <1>13

(* The elements of two lists put together.                                  *)
LEMMA ConcatAt ==
    ASSUME NEW S, NEW a \in Seq(S), NEW b \in Seq(S)
    PROVE  /\ a \o b \in Seq(S) /\ Len(a \o b) = Len(a) + Len(b)
           /\ \A p \in 1 .. Len(a) : (a \o b)[p] = a[p]
           /\ \A k \in 1 .. Len(b) : (a \o b)[Len(a) + k] = b[k]
  <1>1. Len(a) \in Nat /\ Len(b) \in Nat
    OBVIOUS
  <1>2. ASSUME NEW p \in 1 .. Len(a)
        PROVE  (a \o b)[p] = a[p]
    OBVIOUS
  <1>3. ASSUME NEW k \in 1 .. Len(b)
        PROVE  (a \o b)[Len(a) + k] = b[k]
    OBVIOUS
  <1> QED
    BY <1>2, <1>3

(* Each element of a flattened list has one piece and one place in it.      *)
LEMMA FlattenOrigin ==
    ASSUME NEW S, NEW f \in Seq(Seq(S))
    PROVE  /\ FlattenSeq(f) \in Seq(S)
           /\ \E piece, place : Origin(f, FlattenSeq(f), piece, place)
  <1> DEFINE n == Len(f)
             F == FlattenSeq(f)
  <1>1. n \in Nat
    OBVIOUS
  <1>2. \A i \in 1 .. n : f[i] \in Seq(S) /\ Len(f[i]) \in Nat
    OBVIOUS
  <1>3. PICK len \in [1 .. n -> Nat] : \A i \in 1 .. n : len[i] = Len(f[i])
    <2> DEFINE len == [i \in 1 .. n |-> Len(f[i])]
    <2>1. len \in [1 .. n -> Nat]
      BY <1>2
    <2> QED
      BY <2>1, Zenon
  <1>4. PICK flat \in [0 .. n -> Seq(S)] :
              /\ flat[0] = <<>> /\ F = flat[n]
              /\ \A i \in 1 .. n : flat[i] = flat[i - 1] \o f[i]
    BY FlattenHasSteps, Zenon
  <1>5. PICK off \in [0 .. n -> Nat] : \A i \in 0 .. n : off[i] = Len(flat[i])
    <2> DEFINE off == [i \in 0 .. n |-> Len(flat[i])]
    <2>1. off \in [0 .. n -> Nat]
      OBVIOUS
    <2> QED
      BY <2>1, Zenon
  <1> HIDE DEF n, F
  <1>6. \A i \in 1 .. n : i - 1 \in 0 .. n /\ i \in 0 .. n /\ i \in Int
    BY <1>1
  <1>7. n \in 0 .. n /\ 0 \in 0 .. n
    BY <1>1
  <1>8. flat[0] = <<>> /\ F = flat[n]
    BY <1>4
  <1>9. F \in Seq(S) /\ off[n] = Len(F) /\ off[0] = 0
    BY <1>5, <1>7, <1>8
  <1>10. ASSUME NEW i \in 1 .. n
         PROVE  /\ flat[i] = flat[i - 1] \o f[i] /\ f[i] \in Seq(S) /\ flat[i - 1] \in Seq(S)
                /\ off[i - 1] = Len(flat[i - 1]) /\ len[i] = Len(f[i])
                /\ off[i] = off[i - 1] + len[i]
    <2>1. flat[i] = flat[i - 1] \o f[i] /\ f[i] \in Seq(S) /\ flat[i - 1] \in Seq(S)
      BY <1>2, <1>4, <1>6, Zenon
    <2>2. off[i] = Len(flat[i]) /\ off[i - 1] = Len(flat[i - 1]) /\ len[i] = Len(f[i])
      BY <1>3, <1>5, <1>6
    <2> QED
      BY <2>1, <2>2
  <1>11. Cumulates(off, len, n)
    BY <1>9, <1>10, Zenon DEF Cumulates
  <1>12. /\ \A i, j \in 0 .. n : i <= j => off[i] <= off[j]
         /\ \E piece \in [1 .. off[n] -> 1 .. n], place \in [1 .. off[n] -> Int] :
               Located(off, len, n, piece, place)
    BY <1>1, <1>11, Offsets, Zenon
  <1>13. PICK piece \in [1 .. off[n] -> 1 .. n], place \in [1 .. off[n] -> Int] :
              Located(off, len, n, piece, place)
    BY <1>12
  \* What is in a step stays there.
  <1>14. ASSUME NEW i \in 0 .. n
         PROVE  \A p \in 1 .. off[i] : F[p] = flat[i][p]
    <2> DEFINE T == {m \in 0 .. n : i <= m => \A p \in 1 .. off[i] : flat[m][p] = flat[i][p]}
    <2>0. i \in Int
      BY <1>1
    <2>1. 0 \in T
      <3>1. i <= 0 => i = 0
        BY <1>1
      <3> QED
        BY <1>7, <3>1
    <2>2. ASSUME NEW m \in 0 .. n - 1, m \in T
          PROVE  m + 1 \in T
      <3>1. m + 1 \in 1 .. n /\ m \in 0 .. n /\ (m + 1) - 1 = m /\ m + 1 \in 0 .. n /\ m \in Int
        BY <1>1
      <3>2. /\ flat[m + 1] = flat[m] \o f[m + 1] /\ f[m + 1] \in Seq(S) /\ flat[m] \in Seq(S)
            /\ off[m] = Len(flat[m])
        BY <1>10, <3>1, Zenon
      <3>3. ASSUME i <= m, NEW p \in 1 .. off[i]
            PROVE  flat[m + 1][p] = flat[i][p]
        <4>1. flat[m][p] = flat[i][p]
          BY <2>2, <3>3
        <4>2. off[i] <= off[m] /\ off[i] \in Nat /\ off[m] \in Nat
          BY <1>12, <3>1, <3>3, Zenon
        <4>3. p \in 1 .. Len(flat[m])
          BY <3>2, <4>2
        <4>4. (flat[m] \o f[m + 1])[p] = flat[m][p]
          BY <3>2, <4>3, ConcatAt, ZenonT(30)
        <4> QED
          BY <3>2, <4>1, <4>4
      <3>4. i <= m + 1 => i = m + 1 \/ i <= m
        BY <2>0, <3>1
      <3> QED
        BY <3>1, <3>3, <3>4
    <2>3. 0 .. n \subseteq T
      <3>1. \A m \in 0 .. n - 1 : m \in T => m + 1 \in T
        BY <2>2
      <3> HIDE DEF T
      <3> QED
        BY <1>1, <2>1, <3>1, Flat!UpTo, Zenon
    <2>4. n \in T /\ i <= n
      BY <1>1, <1>7, <2>3
    <2> QED
      BY <1>8, <2>4
  <1>15. ASSUME NEW i \in 1 .. n, NEW k \in 1 .. len[i]
         PROVE  F[off[i - 1] + k] = f[i][k]
    <2>1. i - 1 \in 0 .. n /\ i \in 0 .. n
      BY <1>6
    <2>2. /\ flat[i] = flat[i - 1] \o f[i] /\ f[i] \in Seq(S) /\ flat[i - 1] \in Seq(S)
          /\ off[i - 1] = Len(flat[i - 1]) /\ len[i] = Len(f[i])
      BY <1>10, Zenon
    <2>3a. off[i - 1] \in Nat /\ len[i] \in Nat
      BY <2>1, Zenon
    <2>3b. off[i] = off[i - 1] + len[i]
      BY <1>10, Zenon
    <2>3. off[i - 1] \in Nat /\ len[i] \in Nat /\ off[i] = off[i - 1] + len[i] /\ k \in Int
      BY <2>3a, <2>3b
    <2>4. off[i - 1] + k \in 1 .. off[i]
      BY <2>3
    <2>5a. k \in 1 .. Len(f[i])
      BY <2>2
    <2>5b. (flat[i - 1] \o f[i])[Len(flat[i - 1]) + k] = f[i][k]
      <3>1. flat[i - 1] \in Seq(S) /\ f[i] \in Seq(S)
        BY <2>2
      <3>2. ASSUME NEW a \in Seq(S), NEW b \in Seq(S), k \in 1 .. Len(b)
            PROVE  (a \o b)[Len(a) + k] = b[k]
        BY <3>2, ConcatAt
      <3> QED
        BY <2>5a, <3>1, <3>2, Zenon
    <2>5. (flat[i - 1] \o f[i])[off[i - 1] + k] = f[i][k]
      BY <2>2, <2>5b
    <2> QED
      BY <1>14, <2>1, <2>2, <2>4, <2>5, Zenon
  <1>16. ASSUME NEW p \in 1 .. off[n]
         PROVE  /\ piece[p] \in 1 .. n /\ place[p] \in 1 .. Len(f[piece[p]])
                /\ F[p] = f[piece[p]][place[p]]
    <2>1. PICK i \in 1 .. n : i = piece[p]
      BY Zenon
    <2>2. place[p] \in 1 .. len[i] /\ off[i - 1] + place[p] = p
      BY <1>13, <2>1 DEF Located
    <2>3. PICK k \in 1 .. len[i] : k = place[p]
      BY <2>2
    <2>4. F[off[i - 1] + k] = f[i][k]
      BY <1>15
    <2> QED
      BY <1>3, <2>1, <2>2, <2>3, <2>4
  <1>17. ASSUME NEW i \in 1 .. n, NEW k \in 1 .. Len(f[i])
         PROVE  \E p \in 1 .. off[n] : piece[p] = i /\ place[p] = k
    <2>1. k \in 1 .. len[i]
      BY <1>3
    <2> QED
      BY <1>13, <2>1 DEF Located
  <1>18. \A p, q \in 1 .. off[n] :
            p < q => piece[p] < piece[q] \/ (piece[p] = piece[q] /\ place[p] < place[q])
    BY <1>13 DEF Located
  <1>19. Origin(f, F, piece, place)
    BY <1>9, <1>16, <1>17, <1>18 DEF Origin, n
  <1> QED
    BY <1>9, <1>19 DEF F

(* Only keeps the members of a set, each once and in their order.           *)
LEMMA OnlyKeeps ==
    ASSUME NEW S, NEW list \in Seq(S), NEW wanted
    PROVE  LET kept == Only(list, wanted)
           IN  /\ kept \in Seq(S)
               /\ \E from \in [1 .. Len(kept) -> 1 .. Len(list)] :
                     /\ \A p \in 1 .. Len(kept) : kept[p] = list[from[p]] /\ kept[p] \in wanted
                     /\ \A p, q \in 1 .. Len(kept) : p < q => from[p] < from[q]
                     /\ \A i \in 1 .. Len(list) : list[i] \in wanted =>
                           \E p \in 1 .. Len(kept) : from[p] = i
  <1> DEFINE n == Len(list)
             f == [i \in DOMAIN list |-> IF list[i] \in wanted THEN <<list[i]>> ELSE <<>>]
             kept == FlattenSeq(f)
  <1>1. n \in Nat /\ DOMAIN list = 1 .. n /\ \A i \in 1 .. n : list[i] \in S
    OBVIOUS
  <1>2. \A i \in 1 .. n : /\ f[i] \in Seq(S)
                          /\ list[i] \in wanted => f[i] = <<list[i]>>
                          /\ list[i] \notin wanted => f[i] = <<>>
    BY <1>1
  <1>3. f \in Seq(Seq(S)) /\ Len(f) = n
    BY <1>1, <1>2
  <1> HIDE DEF f
  <1>4. PICK piece, place : Origin(f, kept, piece, place)
    BY <1>3, FlattenOrigin
  <1>5. kept \in Seq(S)
    BY <1>3, FlattenOrigin
  <1>6. Len(kept) \in Nat
    BY <1>5
  <1> HIDE DEF kept
  <1>7. ASSUME NEW p \in 1 .. Len(kept)
        PROVE  /\ piece[p] \in 1 .. n /\ place[p] = 1 /\ kept[p] = list[piece[p]]
               /\ kept[p] \in wanted
    <2>1. PICK i \in 1 .. n : i = piece[p]
      BY <1>3, <1>4 DEF Origin
    <2>2. place[p] \in 1 .. Len(f[i]) /\ kept[p] = f[i][place[p]]
      BY <1>4, <2>1 DEF Origin
    <2>3. list[i] \in wanted
      BY <1>2, <2>2
    <2>4. f[i] = <<list[i]>>
      BY <1>2, <2>3
    <2>5. Len(f[i]) = 1 /\ f[i][1] = list[i]
      BY <2>4
    <2>6. place[p] = 1
      BY <2>2, <2>5
    <2> QED
      BY <2>1, <2>2, <2>3, <2>5, <2>6
  <1>8. ASSUME NEW p \in 1 .. Len(kept), NEW q \in 1 .. Len(kept), p < q
        PROVE  piece[p] < piece[q]
    <2>1. piece[p] < piece[q] \/ (piece[p] = piece[q] /\ place[p] < place[q])
      BY <1>4, <1>8 DEF Origin
    <2>2. place[p] = 1 /\ place[q] = 1
      BY <1>7
    <2> QED
      BY <2>1, <2>2
  <1>9. ASSUME NEW i \in 1 .. n, list[i] \in wanted
        PROVE  \E p \in 1 .. Len(kept) : piece[p] = i
    <2>0. f[i] = <<list[i]>>
      BY <1>2, <1>9
    <2>1. Len(f[i]) = 1
      BY <2>0
    <2>2. 1 \in 1 .. Len(f[i])
      BY <2>1
    <2> QED
      BY <1>3, <1>4, <2>2 DEF Origin
  <1> DEFINE from == [p \in 1 .. Len(kept) |-> piece[p]]
  <1>10. from \in [1 .. Len(kept) -> 1 .. n]
    BY <1>7
  <1>11. /\ \A p \in 1 .. Len(kept) : kept[p] = list[from[p]] /\ kept[p] \in wanted
         /\ \A p, q \in 1 .. Len(kept) : p < q => from[p] < from[q]
         /\ \A i \in 1 .. n : list[i] \in wanted => \E p \in 1 .. Len(kept) : from[p] = i
    BY <1>7, <1>8, <1>9
  <1>12. Only(list, wanted) = kept
    BY DEF Only, kept, f
  <1> HIDE DEF from, n
  <1> QED
    BY <1>5, <1>10, <1>11, <1>12, Zenon DEF n

(***************************************************************************)
(* Meetings                                                                *)
(***************************************************************************)
Sessions == INSTANCE FoldSteps WITH Op <- Sample

\* What sessions_from_samples returns, and what it keeps while it runs.
Session == [start : Int, end : Int, phase : {"in_call", "tab_open"}, provider : STRING, call : STRING]
Gather  == [cur : MaybeHint, start : Int, out : Seq(Session)]

(* The elements of a list and of one element more.                          *)
LEMMA AppendAt ==
    ASSUME NEW S, NEW a \in Seq(S), NEW e \in S
    PROVE  /\ Append(a, e) \in Seq(S) /\ Len(Append(a, e)) = Len(a) + 1
           /\ \A p \in 1 .. Len(a) : Append(a, e)[p] = a[p]
           /\ Append(a, e)[Len(a) + 1] = e
  OBVIOUS

Covers(s, t) == s.start <= t /\ t < s.end

\* The second t is of the hint h in the closed sessions, or in the open one.
Tells(acc, h, t) ==
    IF h = NoHint
    THEN /\ \A k \in 1 .. Len(acc.out) : ~Covers(acc.out[k], t)
         /\ acc.cur # NoHint => t < acc.start
    ELSE \/ \E k \in 1 .. Len(acc.out) : /\ Covers(acc.out[k], t)
                                         /\ acc.out[k].phase = h.phase
                                         /\ acc.out[k].provider = h.provider
         \/ /\ acc.cur # NoHint /\ acc.start <= t
            /\ acc.cur.phase = h.phase /\ acc.cur.provider = h.provider

\* Sessions follow each other, each with a duration, from one second to another.
Ordered(out, from, to) ==
    /\ \A k \in 1 .. Len(out) : from <= out[k].start /\ out[k].start < out[k].end /\ out[k].end <= to
    /\ \A k, l \in 1 .. Len(out) : k < l => out[k].end <= out[l].start

\* The open session is of the newest hint, and began before it.
Current(acc, h, from, to) ==
    /\ (acc.cur = NoHint) <=> (h = NoHint)
    /\ acc.cur # NoHint => /\ from <= acc.start /\ acc.start <= to
                           /\ acc.cur.phase = h.phase /\ acc.cur.provider = h.provider
    /\ Ordered(acc.out, from, IF acc.cur = NoHint THEN to ELSE acc.start)

(* The absence of a hint has the form of one.                               *)
LEMMA NoHintIsHint == NoHint \in MaybeHint
  BY DEF MaybeHint

(* A session closed later takes the seconds of the open one.                *)
LEMMA CloseKeeps ==
    ASSUME NEW acc \in Gather, acc.cur # NoHint, NEW from \in Int, NEW to \in Int,
           from <= acc.start, acc.start <= to, Ordered(acc.out, from, acc.start)
    PROVE  LET new == Close(acc, to)
           IN  /\ new \in Gather /\ new.cur = NoHint /\ Ordered(new.out, from, to)
               /\ \A h \in MaybeHint, t \in Int : t < to /\ Tells(acc, h, t) => Tells(new, h, t)
  <1> DEFINE new == Close(acc, to)
             s == [start |-> acc.start, end |-> to, phase |-> acc.cur.phase,
                   provider |-> acc.cur.provider, call |-> acc.cur.call]
             n == Len(acc.out)
  <1>1. /\ acc.cur \in Hint /\ acc.start \in Int /\ acc.out \in Seq(Session) /\ n \in Nat
    BY DEF Gather, MaybeHint
  <1>2. s \in Session
    BY <1>1 DEF Session, Hint
  <1>3. CASE to <= acc.start
    <2>1. new = [cur |-> NoHint, start |-> acc.start, out |-> acc.out]
      BY <1>3 DEF Close
    <2>2. new \in Gather /\ new.cur = NoHint /\ new.out = acc.out
      BY <1>1, <2>1, NoHintIsHint DEF Gather
    <2>3. to = acc.start
      BY <1>1, <1>3
    <2>4. ASSUME NEW h \in MaybeHint, NEW t \in Int, t < to, Tells(acc, h, t)
          PROVE  Tells(new, h, t)
      <3>0. acc.cur # NoHint
        OBVIOUS
      <3>1. ~(acc.start <= t)
        BY <1>1, <2>3, <2>4
      <3> QED
        BY <2>2, <2>4, <3>1 DEF Tells
    <2> QED
      BY <2>2, <2>3, <2>4
  <1>4. CASE ~(to <= acc.start)
    <2>1. new = [cur |-> NoHint, start |-> acc.start, out |-> Append(acc.out, s)]
      BY <1>4 DEF Close
    <2> DEFINE out == Append(acc.out, s)
    <2>2. /\ out \in Seq(Session) /\ Len(out) = n + 1 /\ out[n + 1] = s
          /\ \A p \in 1 .. n : out[p] = acc.out[p]
      BY <1>1, <1>2, AppendAt
    <2>3. new \in Gather /\ new.cur = NoHint /\ new.out = out
      BY <1>1, <2>1, <2>2, NoHintIsHint DEF Gather
    <2> HIDE DEF out, new
    <2>4. s.start = acc.start /\ s.end = to /\ s.phase = acc.cur.phase
          /\ s.provider = acc.cur.provider
      OBVIOUS
    <2> HIDE DEF s
    <2>5. \A k \in 1 .. n : acc.out[k].start \in Int /\ acc.out[k].end \in Int
      <3> SUFFICES ASSUME NEW k \in 1 .. n
                   PROVE  acc.out[k].start \in Int /\ acc.out[k].end \in Int
        OBVIOUS
      <3>1. acc.out[k] \in Session
        BY <1>1
      <3> QED
        BY <3>1 DEF Session
    <2>6. Ordered(out, from, to)
      <3>1. ASSUME NEW k \in 1 .. n + 1
            PROVE  from <= out[k].start /\ out[k].start < out[k].end /\ out[k].end <= to
        <4>1. CASE k = n + 1
          BY <1>1, <1>4, <2>2, <2>4, <4>1
        <4>2. CASE k \in 1 .. n
          <5>1. /\ from <= acc.out[k].start /\ acc.out[k].start < acc.out[k].end
                /\ acc.out[k].end <= acc.start
            BY <4>2 DEF Ordered
          <5> QED
            BY <1>1, <1>4, <2>2, <2>5, <4>2, <5>1, SMTT(30)
        <4> QED
          BY <1>1, <4>1, <4>2
      <3>2. ASSUME NEW k \in 1 .. n + 1, NEW l \in 1 .. n + 1, k < l
            PROVE  out[k].end <= out[l].start
        <4>0. k \in 1 .. n
          BY <1>1, <3>2
        <4>1. CASE l = n + 1
          <5>1. acc.out[k].end <= acc.start
            BY <4>0 DEF Ordered
          <5> QED
            BY <2>2, <2>4, <4>0, <4>1, <5>1
        <4>2. CASE l \in 1 .. n
          <5>1. acc.out[k].end <= acc.out[l].start
            BY <3>2, <4>0, <4>2 DEF Ordered
          <5> QED
            BY <2>2, <4>0, <4>2, <5>1, Zenon
        <4> QED
          BY <1>1, <4>1, <4>2
      <3> QED
        BY <2>2, <3>1, <3>2 DEF Ordered
    <2>7. ASSUME NEW h \in MaybeHint, NEW t \in Int, t < to, Tells(acc, h, t)
          PROVE  Tells(new, h, t)
      <3>1. CASE h = NoHint
        <4>1. t < acc.start /\ \A k \in 1 .. n : ~Covers(acc.out[k], t)
          BY <2>7, <3>1 DEF Tells
        <4>2. \A k \in 1 .. n + 1 : ~Covers(out[k], t)
          <5> SUFFICES ASSUME NEW k \in 1 .. n + 1
                       PROVE  ~Covers(out[k], t)
            OBVIOUS
          <5>1. CASE k = n + 1
            BY <1>1, <2>2, <2>4, <4>1, <5>1 DEF Covers
          <5>2. CASE k \in 1 .. n
            BY <2>2, <4>1, <5>2
          <5> QED
            BY <1>1, <5>1, <5>2
        <4> QED
          BY <2>2, <2>3, <3>1, <4>2 DEF Tells
      <3>2. CASE h # NoHint
        <4>1. CASE \E k \in 1 .. n : /\ Covers(acc.out[k], t)
                                     /\ acc.out[k].phase = h.phase
                                     /\ acc.out[k].provider = h.provider
          <5>1. PICK k \in 1 .. n : /\ Covers(acc.out[k], t)
                                    /\ acc.out[k].phase = h.phase
                                    /\ acc.out[k].provider = h.provider
            BY <4>1
          <5>2. k \in 1 .. Len(out) /\ out[k] = acc.out[k]
            BY <1>1, <2>2
          <5> QED
            BY <2>3, <3>2, <5>1, <5>2 DEF Tells
        <4>2. CASE /\ acc.start <= t /\ acc.cur.phase = h.phase /\ acc.cur.provider = h.provider
          <5>1. Covers(out[n + 1], t) /\ out[n + 1].phase = h.phase
                /\ out[n + 1].provider = h.provider
            BY <2>2, <2>4, <2>7, <4>2 DEF Covers
          <5>2. n + 1 \in 1 .. Len(out)
            BY <1>1, <2>2
          <5> QED
            BY <2>3, <3>2, <5>1, <5>2 DEF Tells
        <4> QED
          BY <2>7, <3>2, <4>1, <4>2 DEF Tells
      <3> QED
        BY <3>1, <3>2
    <2> QED
      BY <2>3, <2>6, <2>7 DEF new
  <1> QED
    BY <1>3, <1>4

\* After n samples: the sessions tell of every second before the n-th sample what the
\* newest sample at that second said.
Gathered(acc, ts, hint, n) ==
    /\ acc \in Gather
    /\ n = 0 => acc.cur = NoHint /\ acc.out = <<>>
    /\ n # 0 => Current(acc, hint[n], ts[1], ts[n])
    /\ \A i \in 1 .. n - 1, t \in Int : ts[i] <= t /\ t < ts[i + 1] => Tells(acc, hint[i], t)

(* A sample that comes later tells of the seconds until it came.            *)
LEMMA TellsUntil ==
    ASSUME NEW N \in Nat, NEW ts \in [1 .. N -> Int], NEW hint \in [1 .. N -> MaybeHint],
           NEW n \in 0 .. N - 1, NEW acc, Gathered(acc, ts, hint, n), ts[1] <= ts[n + 1]
    PROVE  \A i \in 1 .. n, t \in Int : ts[i] <= t /\ t < ts[i + 1] => Tells(acc, hint[i], t)
  <1> SUFFICES ASSUME NEW i \in 1 .. n, NEW t \in Int, ts[i] <= t, t < ts[i + 1]
               PROVE  Tells(acc, hint[i], t)
    OBVIOUS
  <1>1. CASE i \in 1 .. n - 1
    BY <1>1 DEF Gathered
  <1>2. CASE i = n
    <2>1. acc \in Gather /\ Current(acc, hint[n], ts[1], ts[n]) /\ ts[n] \in Int
      BY <1>2 DEF Gathered
    <2>2. CASE hint[n] = NoHint
      <3>1. acc.cur = NoHint /\ Ordered(acc.out, ts[1], ts[n])
        BY <2>1, <2>2 DEF Current
      <3>2. ASSUME NEW k \in 1 .. Len(acc.out)
            PROVE  ~Covers(acc.out[k], t)
        <4>1. acc.out[k].end <= ts[n]
          BY <3>1 DEF Ordered
        <4>2. acc.out[k] \in Session
          BY <2>1 DEF Gather
        <4>3. acc.out[k].end \in Int
          BY <4>2, Zenon DEF Session
        <4> QED
          BY <1>2, <2>1, <4>1, <4>3 DEF Covers
      <3> QED
        BY <1>2, <2>2, <3>1, <3>2 DEF Tells
    <2>3. CASE hint[n] # NoHint
      <3>1. /\ acc.cur # NoHint /\ acc.start <= ts[n] /\ acc.start \in Int
            /\ acc.cur.phase = hint[n].phase /\ acc.cur.provider = hint[n].provider
        BY <2>1, <2>3 DEF Current, Gather
      <3>2. acc.start <= t
        BY <1>2, <2>1, <3>1
      <3> QED
        BY <1>2, <2>3, <3>1, <3>2 DEF Tells
    <2> QED
      BY <2>2, <2>3
  <1> QED
    BY <1>1, <1>2

(* A sample keeps what was told.                                            *)
LEMMA SampleKeeps ==
    ASSUME NEW acc \in Gather, NEW old \in MaybeHint, NEW new \in MaybeHint,
           NEW from \in Int, NEW at \in Int, NEW ts \in Int, from <= at, at <= ts,
           Current(acc, old, from, at)
    PROVE  LET next == Sample(acc, [ts |-> ts, hint |-> new])
           IN  /\ next \in Gather /\ Current(next, new, from, ts)
               /\ \A h \in MaybeHint, t \in Int : t < ts /\ Tells(acc, h, t) => Tells(next, h, t)
  <1> DEFINE sample == [ts |-> ts, hint |-> new]
             next == Sample(acc, sample)
             closed == Close(acc, ts)
  <1>1. /\ acc.cur \in MaybeHint /\ acc.start \in Int /\ acc.out \in Seq(Session)
        /\ Len(acc.out) \in Nat /\ sample.ts = ts /\ sample.hint = new
    BY DEF Gather
  <1>2. \A k \in 1 .. Len(acc.out) : acc.out[k].start \in Int /\ acc.out[k].end \in Int
    <2> SUFFICES ASSUME NEW k \in 1 .. Len(acc.out)
                 PROVE  acc.out[k].start \in Int /\ acc.out[k].end \in Int
      OBVIOUS
    <2>1. acc.out[k] \in Session
      BY <1>1
    <2> QED
      BY <2>1 DEF Session
  \* a list that ends by a second ends by a later one
  <1>3. ASSUME NEW a \in Int, NEW b \in Int, a <= b, Ordered(acc.out, from, a)
        PROVE  Ordered(acc.out, from, b)
    BY <1>2, <1>3 DEF Ordered
  <1>4. ASSUME acc.cur # NoHint
        PROVE  /\ from <= acc.start /\ acc.start <= ts
               /\ Ordered(acc.out, from, acc.start) /\ closed \in Gather /\ closed.cur = NoHint
               /\ Ordered(closed.out, from, ts)
               /\ \A h \in MaybeHint, t \in Int : t < ts /\ Tells(acc, h, t) => Tells(closed, h, t)
    <2>1. from <= acc.start /\ acc.start <= ts /\ Ordered(acc.out, from, acc.start)
      BY <1>1, <1>4 DEF Current
    <2> QED
      BY <1>1, <1>4, <2>1, CloseKeeps
  \* a session opened later tells nothing of before
  <1>5. ASSUME NEW g \in Gather, g.cur = NoHint, Ordered(g.out, from, ts), new # NoHint
        PROVE  /\ Open(g, sample) \in Gather /\ Current(Open(g, sample), new, from, ts)
               /\ \A h \in MaybeHint, t \in Int :
                     t < ts /\ Tells(g, h, t) => Tells(Open(g, sample), h, t)
    <2> DEFINE o == Open(g, sample)
    <2>1. o \in Gather /\ o.cur = new /\ o.start = ts /\ o.out = g.out
      BY Zenon DEF Open, Gather
    <2> HIDE DEF o
    <2>2. Current(o, new, from, ts)
      BY <1>5, <2>1 DEF Current
    <2>3. ASSUME NEW h \in MaybeHint, NEW t \in Int, t < ts, Tells(g, h, t)
          PROVE  Tells(o, h, t)
      BY <1>5, <2>1, <2>3 DEF Tells
    <2> QED
      BY <2>1, <2>2, <2>3 DEF o
  <1>6. CASE acc.cur = NoHint /\ new = NoHint
    <2>1. next = acc
      BY <1>1, <1>6 DEF Sample
    <2>2. Ordered(acc.out, from, at)
      BY <1>6 DEF Current
    <2>3. Ordered(acc.out, from, ts)
      BY <1>3, <2>2
    <2>4. Current(acc, new, from, ts)
      BY <1>6, <2>3 DEF Current
    <2> QED
      BY <2>1, <2>4
  <1>7. CASE acc.cur = NoHint /\ new # NoHint
    <2>1. next = Open(acc, sample)
      BY <1>1, <1>7 DEF Sample
    <2>2. Ordered(acc.out, from, at)
      BY <1>7 DEF Current
    <2>3. Ordered(acc.out, from, ts)
      BY <1>3, <2>2
    <2> QED
      BY <1>5, <1>7, <2>1, <2>3
  <1>8. CASE acc.cur # NoHint /\ new = NoHint
    <2>1. next = closed
      BY <1>1, <1>8 DEF Sample
    <2>2. Current(closed, new, from, ts)
      BY <1>4, <1>8 DEF Current
    <2> QED
      BY <1>4, <1>8, <2>1, <2>2
  <1>9. CASE acc.cur # NoHint /\ new # NoHint /\ Splits(acc.cur, new)
    <2>1. next = Open(closed, sample)
      BY <1>1, <1>9 DEF Sample
    <2>2. /\ closed \in Gather /\ closed.cur = NoHint /\ Ordered(closed.out, from, ts)
          /\ \A h \in MaybeHint, t \in Int : t < ts /\ Tells(acc, h, t) => Tells(closed, h, t)
      BY <1>4, <1>9
    <2> HIDE DEF closed, next, sample
    <2>3. /\ next \in Gather /\ Current(next, new, from, ts)
          /\ \A h \in MaybeHint, t \in Int : t < ts /\ Tells(closed, h, t) => Tells(next, h, t)
      BY <1>5, <1>9, <2>1, <2>2
    <2>4. \A h \in MaybeHint, t \in Int : t < ts /\ Tells(acc, h, t) => Tells(next, h, t)
      BY <2>2, <2>3
    <2> QED
      BY <2>3, <2>4 DEF next, sample
  <1>10. CASE acc.cur # NoHint /\ new # NoHint /\ ~Splits(acc.cur, new)
    <2> DEFINE up == Upgrade(acc.cur, new)
    <2>1. next = [acc EXCEPT !.cur = up]
      BY <1>1, <1>10 DEF Sample
    <2>2. /\ new.phase = acc.cur.phase /\ new.provider = acc.cur.provider
      BY <1>10 DEF Splits
    <2>3. /\ up \in MaybeHint /\ up # NoHint
          /\ up.phase = acc.cur.phase /\ up.provider = acc.cur.provider
      BY <1>1, <1>10, <2>2 DEF Upgrade
    <2> HIDE DEF up
    <2>4. next \in Gather /\ next.cur = up /\ next.start = acc.start /\ next.out = acc.out
      BY <1>1, <2>1, <2>3 DEF Gather
    <2> HIDE DEF next
    <2>5. /\ from <= acc.start /\ acc.start <= ts /\ Ordered(acc.out, from, acc.start)
      BY <1>4, <1>10
    <2>6. Current(next, new, from, ts)
      BY <1>10, <2>2, <2>3, <2>4, <2>5 DEF Current
    <2>7. ASSUME NEW h \in MaybeHint, NEW t \in Int, t < ts, Tells(acc, h, t)
          PROVE  Tells(next, h, t)
      BY <1>10, <2>3, <2>4, <2>7 DEF Tells
    <2> QED
      BY <2>4, <2>6, <2>7 DEF next
  <1> QED
    BY <1>6, <1>7, <1>8, <1>9, <1>10

\* The sessions tell at t what the hint h says.
Said(out, h, t) ==
    IF h = NoHint THEN \A k \in 1 .. Len(out) : ~Covers(out[k], t)
    ELSE \E k \in 1 .. Len(out) : /\ Covers(out[k], t) /\ out[k].phase = h.phase
                                  /\ out[k].provider = h.provider

\* Rows, samples and snapshots are read in the order of their times.
InOrder(list) == \A i, j \in 1 .. Len(list) : i <= j => list[i].ts <= list[j].ts
Within(list, from, to) == \A i \in 1 .. Len(list) : from <= list[i].ts /\ list[i].ts <= to

\* What MeetingSamples is a list of.
Samples == [ts : Int, hint : MaybeHint]

(* The sessions of a list of samples in order tell of each second up to the *)
(* horizon what the newest sample said, and follow each other.              *)
LEMMA SessionsTell ==
    ASSUME NEW samples \in Seq(Samples), NEW horizon \in Int,
           InOrder(samples), NEW from \in Int, Within(samples, from, horizon)
    PROVE  LET out == SessionsFromSamples(samples, horizon)
               n   == Len(samples)
           IN  /\ out \in Seq(Session)
               /\ n = 0 => out = <<>>
               /\ Ordered(out, from, horizon)
               /\ n # 0 => Ordered(out, samples[1].ts, horizon)
               /\ \A i \in 1 .. n, t \in Int :
                     /\ samples[i].ts <= t /\ t < horizon
                     /\ i < n => t < samples[i + 1].ts
                     => Said(out, samples[i].hint, t)
  <1> DEFINE n == Len(samples)
             base == [cur |-> NoHint, start |-> 0, out |-> <<>>]
             clear == [ts |-> horizon, hint |-> NoHint]
             ts == [i \in 1 .. n + 1 |-> IF i = n + 1 THEN horizon ELSE samples[i].ts]
             hint == [i \in 1 .. n + 1 |-> IF i = n + 1 THEN NoHint ELSE samples[i].hint]
             last == FoldLeft(Sample, base, samples)
  <1>0. n \in Nat
    OBVIOUS
  <1>1. /\ \A i \in 1 .. n : /\ samples[i].ts \in Int /\ samples[i].hint \in MaybeHint
                             /\ samples[i] = [ts |-> samples[i].ts, hint |-> samples[i].hint]
    <2> SUFFICES ASSUME NEW i \in 1 .. n
                 PROVE  /\ samples[i].ts \in Int /\ samples[i].hint \in MaybeHint
                        /\ samples[i] = [ts |-> samples[i].ts, hint |-> samples[i].hint]
      OBVIOUS
    <2>1. samples[i] \in Samples
      OBVIOUS
    <2> QED
      BY <2>1 DEF Samples
  <1>2. ts \in [1 .. n + 1 -> Int] /\ hint \in [1 .. n + 1 -> MaybeHint]
    <2>1. ASSUME NEW i \in 1 .. n + 1
          PROVE  ts[i] \in Int /\ hint[i] \in MaybeHint
      <3>1. CASE i = n + 1
        BY <3>1, NoHintIsHint
      <3>2. CASE i \in 1 .. n
        <4>1. i # n + 1
          BY <1>0, <3>2
        <4>2. samples[i].ts \in Int /\ samples[i].hint \in MaybeHint
          BY <1>1, <3>2, Zenon
        <4> QED
          BY <4>1, <4>2
      <3> QED
        BY <1>0, <3>1, <3>2
    <2> QED
      BY <2>1
  <1>3. \A i, j \in 1 .. n + 1 : i <= j => ts[i] <= ts[j]
    <2> SUFFICES ASSUME NEW i \in 1 .. n + 1, NEW j \in 1 .. n + 1, i <= j
                 PROVE  ts[i] <= ts[j]
      OBVIOUS
    <2>1. CASE j = n + 1
      BY <1>0, <1>1, <2>1 DEF Within
    <2>2. CASE j # n + 1
      <3>1. i \in 1 .. n /\ j \in 1 .. n
        BY <1>0, <2>2
      <3> QED
        BY <1>0, <3>1 DEF InOrder
    <2> QED
      BY <2>1, <2>2
  <1>4. /\ \A i \in 1 .. n : samples[i] = [ts |-> ts[i], hint |-> hint[i]]
        /\ clear = [ts |-> ts[n + 1], hint |-> hint[n + 1]]
    BY <1>0, <1>1
  <1>4a. ts[n + 1] = horizon /\ hint[n + 1] = NoHint /\ \A i \in 1 .. n : ts[i] = samples[i].ts
         /\ hint[i] = samples[i].hint
    BY <1>0
  <1>5. PICK acc : /\ acc[0] = base /\ last = acc[n]
                   /\ \A k \in 1 .. n : acc[k] = Sample(acc[k - 1], samples[k])
    <2>1. last = Sessions!Folded(base, samples)
      BY DEF FoldLeft, MapThenFoldSet, Sessions!Folded, Sessions!Rec, Max, Sessions!Greatest
    <2> HIDE DEF last, base
    <2>2. \E acc : Sessions!Steps(acc, base, samples) /\ Sessions!Folded(base, samples) = acc[n]
      BY Sessions!FoldHasSteps
    <2> QED
      BY <2>1, <2>2 DEF Sessions!Steps
  <1> HIDE DEF ts, hint, last, clear
  <1>6. Gathered(base, ts, hint, 0)
    <2>1. base \in Gather /\ base.cur = NoHint /\ base.out = <<>>
      BY NoHintIsHint DEF Gather
    <2> HIDE DEF base
    <2> QED
      BY <2>1 DEF Gathered
  <1> HIDE DEF base
  <1>7. ASSUME NEW k \in 0 .. n, NEW g, Gathered(g, ts, hint, k)
        PROVE  Gathered(Sample(g, [ts |-> ts[k + 1], hint |-> hint[k + 1]]), ts, hint, k + 1)
    <2> DEFINE next == Sample(g, [ts |-> ts[k + 1], hint |-> hint[k + 1]])
    <2>1. /\ k + 1 \in 1 .. n + 1 /\ 1 \in 1 .. n + 1 /\ g \in Gather
          /\ ts[k + 1] \in Int /\ ts[1] \in Int /\ hint[k + 1] \in MaybeHint /\ ts[1] <= ts[k + 1]
      BY <1>0, <1>2, <1>3, <1>7 DEF Gathered
    <2>2. \A i \in 1 .. k, t \in Int : ts[i] <= t /\ t < ts[i + 1] => Tells(g, hint[i], t)
      <3>1. n + 1 \in Nat /\ k \in 0 .. (n + 1) - 1
        BY <1>0
      <3> QED
        BY <1>2, <1>7, <2>1, <3>1, TellsUntil, Zenon
    <2>3. /\ next \in Gather /\ Current(next, hint[k + 1], ts[1], ts[k + 1])
          /\ \A h \in MaybeHint, t \in Int : t < ts[k + 1] /\ Tells(g, h, t) => Tells(next, h, t)
      <3>1. CASE k = 0
        <4>1. g.cur = NoHint /\ g.out = <<>>
          BY <1>7, <3>1 DEF Gathered
        <4>2. Current(g, NoHint, ts[1], ts[k + 1])
          BY <4>1 DEF Current, Ordered
        <4>3. PICK a \in Int, b \in Int : a = ts[1] /\ b = ts[k + 1]
          BY <2>1
        <4>4. a <= b /\ b <= b /\ Current(g, NoHint, a, b)
          BY <2>1, <4>2, <4>3
        <4> QED
          BY <2>1, <4>3, <4>4, NoHintIsHint, SampleKeeps
      <3>2. CASE k # 0
        <4>0. k \in 1 .. n + 1 /\ 1 <= k /\ k <= k + 1
          BY <1>0, <3>2
        <4>1. /\ k \in 1 .. n + 1 /\ ts[k] \in Int /\ hint[k] \in MaybeHint
              /\ ts[1] <= ts[k] /\ ts[k] <= ts[k + 1]
          BY <1>2, <1>3, <2>1, <4>0, Zenon
        <4>2. Current(g, hint[k], ts[1], ts[k])
          BY <1>7, <3>2 DEF Gathered
        <4> QED
          BY <2>1, <4>1, <4>2, SampleKeeps, Zenon
      <3> QED
        BY <3>1, <3>2
    <2> HIDE DEF next
    <2>4. ASSUME NEW i \in 1 .. k, NEW t \in Int, ts[i] <= t, t < ts[i + 1]
          PROVE  Tells(next, hint[i], t)
      <3>1. Tells(g, hint[i], t)
        BY <2>2, <2>4
      <3>2. i \in 1 .. n + 1 /\ i + 1 \in 1 .. n + 1 /\ i + 1 <= k + 1
        BY <1>0
      <3>3. hint[i] \in MaybeHint /\ ts[i + 1] \in Int /\ ts[i + 1] <= ts[k + 1]
        BY <1>2, <1>3, <2>1, <3>2, Zenon
      <3>4. t < ts[k + 1]
        BY <2>1, <2>4, <3>3
      <3> QED
        BY <2>3, <3>1, <3>3, <3>4
    <2>5. k + 1 # 0 /\ (k + 1) - 1 = k
      BY <1>0
    <2>6. \A i \in 1 .. (k + 1) - 1, t \in Int :
              ts[i] <= t /\ t < ts[i + 1] => Tells(next, hint[i], t)
      BY <2>4, <2>5
    <2>7. Gathered(next, ts, hint, k + 1)
      BY <2>3, <2>5, <2>6 DEF Gathered
    <2> QED
      BY <2>7 DEF next
  <1>8. Gathered(last, ts, hint, n)
    <2> DEFINE T == {k \in 0 .. n : Gathered(acc[k], ts, hint, k)}
    <2>1. 0 \in T
      BY <1>0, <1>5, <1>6
    <2>2. \A k \in 0 .. n - 1 : k \in T => k + 1 \in T
      <3>0. SUFFICES ASSUME NEW k \in 0 .. n - 1, Gathered(acc[k], ts, hint, k)
                     PROVE  Gathered(acc[k + 1], ts, hint, k + 1)
        BY <1>0
      <3>1. k \in 0 .. n /\ k + 1 \in 1 .. n /\ (k + 1) - 1 = k
        BY <1>0
      <3>2. acc[k + 1] = Sample(acc[k], [ts |-> ts[k + 1], hint |-> hint[k + 1]])
        BY <1>4, <1>5, <3>1
      <3> QED
        BY <1>7, <3>0, <3>1, <3>2
    <2>3. 0 .. n \subseteq T
      <3> HIDE DEF T
      <3> QED
        BY <1>0, <2>1, <2>2, Sessions!UpTo, Zenon
    <2>4. n \in T
      BY <1>0, <2>3
    <2> QED
      BY <1>5, <2>4
  <1> DEFINE end == Sample(last, clear)
  <1>9. Gathered(end, ts, hint, n + 1)
    <2>1. n \in 0 .. n
      BY <1>0
    <2> QED
      BY <1>4, <1>7, <1>8, <2>1, Zenon
  <1>10. SessionsFromSamples(samples, horizon) = end.out
    <2>1. clear.hint = NoHint /\ clear.ts = horizon
      BY DEF clear
    <2>2. SessionsFromSamples(samples, horizon)
             = IF last.cur = NoHint THEN last.out ELSE Close(last, horizon).out
      BY DEF SessionsFromSamples, last, base
    <2> QED
      BY <2>1, <2>2 DEF Sample
  <1> HIDE DEF end
  <1>11. end \in Gather /\ Current(end, NoHint, ts[1], horizon)
    BY <1>0, <1>4a, <1>9 DEF Gathered
  <1>12. end.out \in Seq(Session) /\ end.cur = NoHint /\ Ordered(end.out, ts[1], horizon)
    BY <1>11 DEF Current, Gather
  <1>13. n = 0 => end.out = <<>>
    <2> SUFFICES ASSUME n = 0
                 PROVE  end.out = <<>>
      OBVIOUS
    <2>1. ts[1] = horizon
      BY <1>4a
    <2>2. ASSUME NEW k \in 1 .. Len(end.out)
          PROVE  FALSE
      <3>1. /\ horizon <= end.out[k].start /\ end.out[k].start < end.out[k].end
            /\ end.out[k].end <= horizon
        BY <1>12, <2>1 DEF Ordered
      <3>2. end.out[k] \in Session
        BY <1>12
      <3> QED
        BY <3>1, <3>2 DEF Session
    <2>3. Len(end.out) = 0
      BY <1>12, <2>2
    <2> QED
      BY <1>12, <2>3
  <1>14. ASSUME NEW i \in 1 .. n, NEW t \in Int, samples[i].ts <= t, t < horizon,
                i < n => t < samples[i + 1].ts
         PROVE  Said(end.out, samples[i].hint, t)
    <2>1. ts[i] <= t /\ t < ts[i + 1]
      <3>1. i < n => i + 1 \in 1 .. n
        BY <1>0
      <3>2. ~(i < n) => i + 1 = n + 1
        BY <1>0
      <3> QED
        BY <1>4a, <1>14, <3>1, <3>2, Zenon
    <2>2. n + 1 - 1 = n
      BY <1>0
    <2>3. Tells(end, hint[i], t)
      BY <1>9, <2>1, <2>2 DEF Gathered
    <2> QED
      BY <1>4a, <1>12, <2>3, Zenon DEF Tells, Said
  <1>15. n # 0 => ts[1] = samples[1].ts
    BY <1>0, <1>4a
  <1>16. Ordered(end.out, from, horizon)
    <2>1. CASE n = 0
      <3>1. Len(end.out) = 0
        BY <1>13, <2>1
      <3> QED
        BY <3>1 DEF Ordered
    <2>2. CASE n # 0
      <3>0. 1 \in 1 .. n
        BY <1>0, <2>2
      <3>1. from <= samples[1].ts /\ samples[1].ts \in Int /\ Ordered(end.out, samples[1].ts, horizon)
        BY <1>1, <1>12, <1>15, <2>2, <3>0, Zenon DEF Within
      <3>2. ASSUME NEW k \in 1 .. Len(end.out)
            PROVE  from <= end.out[k].start
        <4>1. samples[1].ts <= end.out[k].start
          BY <3>1 DEF Ordered
        <4>2. end.out[k] \in Session
          BY <1>12
        <4>3. end.out[k].start \in Int
          BY <4>2 DEF Session
        <4> QED
          BY <3>1, <4>1, <4>3
      <3> QED
        BY <3>1, <3>2 DEF Ordered
    <2> QED
      BY <2>1, <2>2
  <1> HIDE DEF n
  <1> QED
    BY <1>10, <1>12, <1>13, <1>14, <1>15, <1>16 DEF n

\* The elements of list are drawn from those of rows, in their order and with their times.
Drawn(list, rows) ==
    \E from \in [1 .. Len(list) -> 1 .. Len(rows)] :
        /\ \A p \in 1 .. Len(list) : list[p].ts = rows[from[p]].ts
        /\ \A p, q \in 1 .. Len(list) : p <= q => from[p] <= from[q]

(* What is drawn from rows in order is in order.                            *)
LEMMA DrawnInOrder ==
    ASSUME NEW list, NEW rows, Drawn(list, rows), NEW a \in Int, NEW b \in Int
    PROVE  /\ InOrder(rows) => InOrder(list)
           /\ Within(rows, a, b) => Within(list, a, b)
  <1>1. PICK from \in [1 .. Len(list) -> 1 .. Len(rows)] :
              /\ \A p \in 1 .. Len(list) : list[p].ts = rows[from[p]].ts
              /\ \A p, q \in 1 .. Len(list) : p <= q => from[p] <= from[q]
    BY DEF Drawn
  <1>2. ASSUME InOrder(rows), NEW p \in 1 .. Len(list), NEW q \in 1 .. Len(list), p <= q
        PROVE  list[p].ts <= list[q].ts
    <2>1. PICK i \in 1 .. Len(rows), j \in 1 .. Len(rows) : i = from[p] /\ j = from[q]
      OBVIOUS
    <2>2. list[p].ts = rows[i].ts /\ list[q].ts = rows[j].ts /\ i <= j
      BY <1>1, <1>2, <2>1
    <2> QED
      BY <1>2, <2>2 DEF InOrder
  <1>3. ASSUME Within(rows, a, b), NEW p \in 1 .. Len(list)
        PROVE  a <= list[p].ts /\ list[p].ts <= b
    <2>1. PICK i \in 1 .. Len(rows) : i = from[p] /\ list[p].ts = rows[i].ts
      BY <1>1
    <2> QED
      BY <1>3, <2>1 DEF Within
  <1> QED
    BY <1>2, <1>3 DEF InOrder, Within

\* The elements of list are what the rows that speak of a meeting say.
VoicedBy(list, rows, from) ==
    /\ from \in [1 .. Len(list) -> 1 .. Len(rows)]
    /\ \A p \in 1 .. Len(list) : /\ list[p].ts = rows[from[p]].ts
                                 /\ Speaks(rows[from[p]]) /\ list[p].hint = Says(rows[from[p]])
    /\ \A p, q \in 1 .. Len(list) : p <= q => from[p] <= from[q]
    /\ \A i \in 1 .. Len(rows) : Speaks(rows[i]) => \E p \in 1 .. Len(list) : from[p] = i
Voiced(list, rows) == \E from : VoicedBy(list, rows, from)

(* The samples are what the rows say.                                       *)
LEMMA SamplesOfRows ==
    ASSUME NEW rows \in Seq(Row), \A i \in 1 .. Len(rows) : TitleHint(rows[i].win) \in MaybeHint
    PROVE  MeetingSamples(rows) \in Seq(Samples) /\ Voiced(MeetingSamples(rows), rows)
  <1> DEFINE n == Len(rows)
             Of(i) == [j \in DOMAIN Evidence(rows[i]) |->
                          [ts |-> rows[i].ts, hint |-> Evidence(rows[i])[j]]]
             f == [i \in DOMAIN rows |-> Of(i)]
             samples == MeetingSamples(rows)
  <1>1. n \in Nat /\ DOMAIN rows = 1 .. n
    OBVIOUS
  <1>2. ASSUME NEW i \in 1 .. n
        PROVE  /\ Of(i) \in Seq(Samples) /\ (Speaks(rows[i]) => 1 \in 1 .. Len(Of(i)))
               /\ \A j \in 1 .. Len(Of(i)) : /\ Of(i)[j].ts = rows[i].ts
                                             /\ Speaks(rows[i]) /\ Of(i)[j].hint = Says(rows[i])
    <2>1. rows[i] \in Row
      OBVIOUS
    <2>2. rows[i].ts \in Int /\ rows[i].hint \in MaybeHint /\ TitleHint(rows[i].win) \in MaybeHint
      BY <2>1 DEF Row
    <2>3. Evidence(rows[i]) = IF Speaks(rows[i]) THEN <<Says(rows[i])>> ELSE <<>>
      BY DEF Evidence, Speaks, Says
    <2>4. CASE ~Speaks(rows[i])
      BY <2>3, <2>4
    <2>5. CASE Speaks(rows[i])
      <3>1. PICK h \in MaybeHint : h = Says(rows[i])
        BY <2>2 DEF Says
      <3>2. Of(i) = <<[ts |-> rows[i].ts, hint |-> h]>>
        BY <2>3, <2>5, <3>1
      <3>3. [ts |-> rows[i].ts, hint |-> h] \in Samples
        BY <2>2 DEF Samples
      <3> QED
        BY <2>5, <3>1, <3>2, <3>3
    <2> QED
      BY <2>4, <2>5
  <1>3. \A i \in 1 .. n : f[i] = Of(i)
    BY <1>1
  <1> HIDE DEF Of
  <1>4. f \in Seq(Seq(Samples)) /\ Len(f) = n
    BY <1>1, <1>2, <1>3
  <1>5. samples = FlattenSeq(f)
    BY DEF MeetingSamples, Of
  <1> HIDE DEF f, samples
  <1>6. samples \in Seq(Samples) /\ \E piece, place : Origin(f, samples, piece, place)
    BY <1>4, <1>5, FlattenOrigin
  <1>7. PICK piece, place : Origin(f, samples, piece, place)
    BY <1>6
  <1>8. ASSUME NEW p \in 1 .. Len(samples)
        PROVE  /\ piece[p] \in 1 .. n /\ samples[p].ts = rows[piece[p]].ts
               /\ Speaks(rows[piece[p]]) /\ samples[p].hint = Says(rows[piece[p]])
    <2>1. PICK i \in 1 .. n : i = piece[p]
      BY <1>4, <1>7, Zenon DEF Origin
    <2>2. PICK k \in 1 .. Len(f[i]) : samples[p] = f[i][k]
      BY <1>7, <2>1, Zenon DEF Origin
    <2>3. /\ samples[p].ts = rows[i].ts
          /\ Speaks(rows[i]) /\ samples[p].hint = Says(rows[i])
      BY <1>2, <1>3, <2>2
    <2> QED
      BY <2>1, <2>3
  <1>9. Len(samples) \in Nat
    BY <1>6
  <1>10. ASSUME NEW p \in 1 .. Len(samples), NEW q \in 1 .. Len(samples), p <= q
         PROVE  piece[p] <= piece[q]
    <2>1. CASE p = q
      BY <1>8, <2>1
    <2>2. CASE p < q
      <3>1. piece[p] < piece[q] \/ piece[p] = piece[q]
        BY <1>7, <2>2 DEF Origin
      <3> QED
        BY <1>8, <3>1
    <2> QED
      BY <1>10, <2>1, <2>2
  <1> DEFINE from == [p \in 1 .. Len(samples) |-> piece[p]]
  <1>11. /\ from \in [1 .. Len(samples) -> 1 .. n]
         /\ \A p \in 1 .. Len(samples) : from[p] = piece[p]
    BY <1>8
  <1>12. ASSUME NEW i \in 1 .. n, Speaks(rows[i])
         PROVE  \E p \in 1 .. Len(samples) : from[p] = i
    <2>1. 1 \in 1 .. Len(f[i])
      BY <1>2, <1>3, <1>12
    <2>2. PICK p \in 1 .. Len(samples) : piece[p] = i
      BY <1>4, <1>7, <2>1 DEF Origin
    <2> QED
      BY <1>11, <2>2
  <1> HIDE DEF from
  <1>13. VoicedBy(samples, rows, from)
    BY <1>8, <1>10, <1>11, <1>12 DEF VoicedBy
  <1> QED
    BY <1>6, <1>13 DEF samples, Voiced

-----------------------------------------------------------------------------
(* The greatest and the least of a set of numbers. *)

(* The greatest number of a set is Max of it.                               *)
LEMMA MaxIs ==
    ASSUME NEW s \in SUBSET Int, NEW i \in s, \A j \in s : j <= i
    PROVE  Max(s) = i
  <1>1. \A x \in s : (\A y \in s : x >= y) => x = i
    OBVIOUS
  <1> QED
    BY <1>1, Zenon DEF Max

(* The least number of a set is Min of it.                                  *)
LEMMA MinIs ==
    ASSUME NEW s \in SUBSET Int, NEW i \in s, \A j \in s : i <= j
    PROVE  Min(s) = i
  <1>1. \A x \in s : (\A y \in s : x <= y) => x = i
    OBVIOUS
  <1> QED
    BY <1>1, Zenon DEF Min

(* Max of two numbers.                                                      *)
LEMMA MaxOfTwo ==
    ASSUME NEW a \in Int, NEW b \in Int
    PROVE  Max({a, b}) = IF a <= b THEN b ELSE a
  <1>1. CASE a <= b
    BY <1>1, MaxIs
  <1>2. CASE ~(a <= b)
    BY <1>2, MaxIs
  <1> QED
    BY <1>1, <1>2

(* Min of two numbers.                                                      *)
LEMMA MinOfTwo ==
    ASSUME NEW a \in Int, NEW b \in Int
    PROVE  Min({a, b}) = IF a <= b THEN a ELSE b
  <1>1. CASE a <= b
    BY <1>1, MinIs
  <1>2. CASE ~(a <= b)
    BY <1>2, MinIs
  <1> QED
    BY <1>1, <1>2

(* A set of positions of a list that is not empty has a greatest one.       *)
LEMMA HasGreatest ==
    ASSUME NEW n \in Nat, NEW s \in SUBSET (1 .. n), s # {}
    PROVE  \E i \in s : \A j \in s : j <= i
  <1> DEFINE T == {m \in 0 .. n : (\E x \in s : x <= m) =>
                                     \E i \in s : i <= m /\ \A j \in s : j <= m => j <= i}
  <1>1. 0 \in T
    OBVIOUS
  <1>2. \A m \in 0 .. n - 1 : m \in T => m + 1 \in T
    <2> SUFFICES ASSUME NEW m \in 0 .. n - 1, m \in T, NEW x \in s, x <= m + 1
                 PROVE  \E i \in s : i <= m + 1 /\ \A j \in s : j <= m + 1 => j <= i
      OBVIOUS
    <2>1. CASE m + 1 \in s
      BY <2>1
    <2>2. CASE m + 1 \notin s
      <3>1. \A j \in s : j <= m + 1 => j <= m
        BY <2>2
      <3>2. x <= m
        BY <3>1
      <3>3. PICK i \in s : i <= m /\ \A j \in s : j <= m => j <= i
        BY <3>2
      <3> QED
        BY <3>1, <3>3
    <2> QED
      BY <2>1, <2>2
  <1>3. 0 .. n \subseteq T
    <2> HIDE DEF T
    <2> QED
      BY <1>1, <1>2, Flat!UpTo
  <1>4. n \in T /\ \A j \in s : j <= n
    BY <1>3
  <1>5. \E x \in s : x <= n
    BY <1>4, Zenon
  <1> QED
    BY <1>4, <1>5

(* And a least one.                                                         *)
LEMMA HasLeast ==
    ASSUME NEW n \in Nat, NEW s \in SUBSET (1 .. n), s # {}
    PROVE  \E i \in s : \A j \in s : i <= j
  <1> DEFINE r == {i \in 1 .. n : n + 1 - i \in s}
  <1>1. PICK x \in s : TRUE
    BY Zenon
  <1>2. n + 1 - x \in r
    OBVIOUS
  <1>3. PICK i \in r : \A j \in r : j <= i
    <2>1. r \in SUBSET (1 .. n) /\ r # {}
      BY <1>2, Zenon
    <2> HIDE DEF r
    <2> QED
      BY <2>1, HasGreatest, Zenon
  <1>4. n + 1 - i \in s
    OBVIOUS
  <1>5. ASSUME NEW j \in s
        PROVE  n + 1 - i <= j
    <2>1. n + 1 - j \in r
      OBVIOUS
    <2>2. n + 1 - j <= i
      BY <1>3, <2>1
    <2> QED
      BY <2>2
  <1> QED
    BY <1>4, <1>5

\* The elements have times.
Timed(list) == \A i \in 1 .. Len(list) : list[i].ts \in Int

\* m is the position of the newest element at second t; 0 if there is none yet.
NewestAt(list, t, m) ==
    /\ m \in 0 .. Len(list)
    /\ m # 0 => list[m].ts <= t
    /\ m < Len(list) => t < list[m + 1].ts

\* And the properties of the recap find it so.
IsNewest(list, t, m) == /\ NewestAt(list, t, m) /\ Before(list, t) = 1 .. m
                        /\ (Before(list, t) = {}) <=> (m = 0)
                        /\ m # 0 => Max(Before(list, t)) = m

(* Of a list in order, the elements before a second are the first ones, and *)
(* the last of them is the newest.                                          *)
LEMMA NewestExists ==
    ASSUME NEW S, NEW list \in Seq(S), Timed(list), InOrder(list), NEW t \in Int
    PROVE  \E m \in 0 .. Len(list) : IsNewest(list, t, m)
  <1> DEFINE n == Len(list)
             b == Before(list, t)
  <1>1. n \in Nat /\ DOMAIN list = 1 .. n
    OBVIOUS
  <1>2. b \in SUBSET (1 .. n) /\ \A i \in 1 .. n : i \in b <=> list[i].ts <= t
    BY <1>1 DEF Before
  <1> HIDE DEF n, b
  <1>3. \A i \in 1 .. n : list[i].ts \in Int
    BY DEF Timed, n
  <1>4. CASE b = {}
    <2>1. 1 .. 0 = {}
      OBVIOUS
    <2>2. n # 0 => t < list[1].ts
      <3>1. n # 0 => 1 \in 1 .. n
        BY <1>1
      <3> QED
        BY <1>2, <1>3, <1>4, <3>1
    <2>3. NewestAt(list, t, 0) /\ 0 \in 0 .. n
      BY <1>1, <2>2 DEF NewestAt, n
    <2> QED
      BY <1>4, <2>1, <2>3 DEF b, n, IsNewest
  <1>5. CASE b # {}
    <2>1. PICK m \in b : \A j \in b : j <= m
      BY <1>1, <1>2, <1>5, HasGreatest, Zenon
    <2>2. m \in 1 .. n /\ m # 0 /\ m \in 0 .. n
      BY <1>1, <1>2
    <2>3. Max(b) = m
      <3>1. b \in SUBSET Int
        BY <1>1, <1>2
      <3> QED
        BY <2>1, <3>1, MaxIs
    <2>4. ASSUME NEW i \in 1 .. m
          PROVE  i \in b
      <3>1. i \in 1 .. n /\ i <= m
        BY <1>1, <2>2
      <3>2. list[i].ts <= list[m].ts
        BY <2>2, <3>1 DEF InOrder, n
      <3>3. list[m].ts <= t
        BY <1>2, <2>2
      <3> QED
        BY <1>2, <1>3, <2>2, <3>1, <3>2, <3>3
    <2>5. b = 1 .. m
      <3>1. ASSUME NEW i \in b
            PROVE  i \in 1 .. m
        BY <1>1, <1>2, <2>1, <2>2
      <3> QED
        BY <2>4, <3>1, Zenon
    <2>6. m < n => t < list[m + 1].ts
      <3> SUFFICES ASSUME m < n
                   PROVE  t < list[m + 1].ts
        OBVIOUS
      <3>1. m + 1 \in 1 .. n /\ m + 1 \notin b
        BY <1>1, <2>1, <2>2
      <3> QED
        BY <1>2, <1>3, <3>1
    <2>7. NewestAt(list, t, m)
      BY <1>2, <2>2, <2>6 DEF NewestAt, n
    <2> QED
      BY <1>5, <2>2, <2>3, <2>5, <2>7 DEF b, n, IsNewest
  <1> QED
    BY <1>4, <1>5

-----------------------------------------------------------------------------
(* The journal *)

\* Rows as the daemon stores them.
Stored(rows) ==
    /\ rows \in Seq(Row) /\ InOrder(rows) /\ Within(rows, 0, Horizon)
    /\ \A i \in 1 .. Len(rows) : /\ rows[i].since = rows[i].ts - Threshold
                                 /\ TitleHint(rows[i].win) \in MaybeHint

\* The inductive invariant: the journal is in order, and the recap is compiled from it.
JournalInv ==
    /\ day \in Days /\ carried \in BOOLEAN /\ now \in 0 .. DayEnd + 1
    /\ Stored(journal)
    /\ recap = compile_day_recap(journal, carried, Prior(day), Horizon)

(* The horizon is the present, or the end of the day.                       *)
LEMMA HorizonIs ==
    ASSUME now \in 0 .. DayEnd + 1
    PROVE  /\ Horizon \in Nat /\ Horizon <= now /\ Horizon <= DayEnd
           /\ Horizon = now \/ Horizon = DayEnd
           /\ now <= DayEnd => Horizon = now
  <1>1. DayEnd \in Nat
    BY RecapAssumption
  <1>2. now \in Int /\ DayEnd \in Int /\ now >= 0
    BY <1>1
  <1>3. Horizon = IF now <= DayEnd THEN now ELSE DayEnd
    BY <1>2, MinOfTwo DEF Horizon
  <1> QED
    BY <1>1, <1>2, <1>3

(* A row that is stamped is a row.                                          *)
LEMMA Stamped ==
    ASSUME NEW fact \in Row, NEW a \in Int, NEW b \in Int
    PROVE  [fact EXCEPT !.ts = a, !.since = b] \in Row
  BY Zenon DEF Row

(* The rows of the day stay in order, and no row is of the future.          *)
THEOREM JournalKeeps == Spec => []JournalInv
  <1>1. Init => JournalInv
    <2> SUFFICES ASSUME Init
                 PROVE  JournalInv
      OBVIOUS
    <2>1. DayEnd \in Nat
      BY RecapAssumption
    <2>2. now \in 0 .. DayEnd + 1 /\ carried \in BOOLEAN /\ day \in Days
      BY <2>1 DEF Init
    <2>3. journal \in Seq(Row) /\ Len(journal) = 0
      BY DEF Init
    <2>4. Stored(journal)
      BY <2>3 DEF Stored, InOrder, Within
    <2> QED
      BY <2>2, <2>4 DEF Init, JournalInv
  <1>2. JournalInv /\ [Next]_vars => JournalInv'
    <2> SUFFICES ASSUME JournalInv, [Next]_vars
                 PROVE  JournalInv'
      OBVIOUS
    <2>0. DayEnd \in Nat /\ Threshold \in Nat
      BY RecapAssumption
    <2>a. now \in 0 .. DayEnd + 1 /\ carried \in BOOLEAN /\ day \in Days /\ Stored(journal)
      BY DEF JournalInv
    <2>1. ASSUME NEW fact \in Facts(day), AppendRow(fact)
          PROVE  JournalInv'
      <3> DEFINE row == [fact EXCEPT !.ts = now, !.since = now - Threshold]
                 n == Len(journal)
      <3>1. fact \in Row /\ TitleHint(fact.win) \in MaybeHint /\ now < DayEnd /\ now \in Nat
        BY <2>0, <2>1, <2>a, RecapAssumption DEF AppendRow
      <3>2. /\ row \in Row /\ row.ts = now /\ row.since = row.ts - Threshold
            /\ TitleHint(row.win) \in MaybeHint
        <4>1. PICK since \in Int : since = now - Threshold
          BY <2>0, <3>1
        <4>2. row = [fact EXCEPT !.ts = now, !.since = since]
          BY <4>1
        <4>3. row \in Row
          <5>1. now \in Int /\ fact \in Row
            BY <3>1
          <5>2. [fact EXCEPT !.ts = now, !.since = since] \in Row
            BY <5>1, Stamped
          <5> HIDE DEF row
          <5> QED
            BY <4>2, <5>2
        <4>4. row.ts = now /\ row.since = since /\ row.win = fact.win
          BY <3>1, <4>2, Zenon DEF Row
        <4> QED
          BY <3>1, <4>1, <4>3, <4>4
      <3> HIDE DEF row
      <3>3. /\ journal' = Append(journal, row) /\ UNCHANGED <<carried, now, day>>
            /\ recap' = compile_day_recap(journal', carried', Prior(day'), Horizon')
        BY <2>1 DEF AppendRow, Compile, row
      <3>4. Horizon' = Horizon /\ Horizon = now
        <4>1. Horizon' = Horizon
          BY <3>3 DEF Horizon
        <4> QED
          BY <2>a, <3>1, <4>1, HorizonIs
      <3>5. journal \in Seq(Row) /\ n \in Nat
        BY <2>a DEF Stored
      <3>6. /\ journal' \in Seq(Row) /\ Len(journal') = n + 1 /\ journal'[n + 1] = row
            /\ \A p \in 1 .. n : journal'[p] = journal[p]
        BY <3>2, <3>3, <3>5, AppendAt
      <3> HIDE DEF n
      <3>7. \A i \in 1 .. n : journal[i].ts \in Int
        <4> SUFFICES ASSUME NEW i \in 1 .. n
                     PROVE  journal[i].ts \in Int
          OBVIOUS
        <4>1. journal[i] \in Row
          BY <3>5 DEF n
        <4> QED
          BY <4>1 DEF Row
      <3>8. \A i \in 1 .. n : 0 <= journal[i].ts /\ journal[i].ts <= now
        BY <2>a, <3>4 DEF Stored, Within, n
      <3>9. ASSUME NEW i \in 1 .. n + 1
            PROVE  /\ journal'[i].since = journal'[i].ts - Threshold
                   /\ TitleHint(journal'[i].win) \in MaybeHint
                   /\ 0 <= journal'[i].ts /\ journal'[i].ts <= now
        <4>1. CASE i = n + 1
          BY <3>1, <3>2, <3>6, <4>1
        <4>2. CASE i \in 1 .. n
          <5>1. /\ journal[i].since = journal[i].ts - Threshold
                /\ TitleHint(journal[i].win) \in MaybeHint
            BY <2>a, <4>2 DEF Stored, n
          <5> QED
            BY <3>6, <3>8, <4>2, <5>1
        <4> QED
          BY <3>5, <4>1, <4>2
      <3>10. ASSUME NEW i \in 1 .. n + 1, NEW j \in 1 .. n + 1, i <= j
             PROVE  journal'[i].ts <= journal'[j].ts
        <4>1. CASE j = n + 1
          BY <3>2, <3>6, <3>9, <4>1
        <4>2. CASE j \in 1 .. n
          <5>1. i \in 1 .. n
            BY <3>5, <3>10, <4>2
          <5>2. journal[i].ts <= journal[j].ts
            BY <2>a, <3>10, <4>2, <5>1 DEF Stored, InOrder, n
          <5> QED
            BY <3>6, <4>2, <5>1, <5>2
        <4> QED
          BY <3>5, <4>1, <4>2
      <3>11. InOrder(journal') /\ Within(journal', 0, Horizon')
        BY <3>4, <3>6, <3>9, <3>10 DEF InOrder, Within
      <3>12. Stored(journal)'
        BY <3>6, <3>9, <3>11 DEF Stored
      <3> QED
        BY <2>a, <3>3, <3>12 DEF JournalInv
    <2>2. CASE Advance
      <3>1. /\ now' = now + 1 /\ now <= DayEnd /\ UNCHANGED <<journal, carried, day>>
            /\ recap' = compile_day_recap(journal', carried', Prior(day'), Horizon')
        BY <2>2 DEF Advance, Compile
      <3>2. now' \in 0 .. DayEnd + 1
        BY <2>0, <2>a, <3>1
      <3>3. Horizon \in Nat /\ Horizon = now
        BY <2>a, <3>1, HorizonIs
      <3>4. Horizon' \in Nat /\ (Horizon' = now' \/ Horizon' = DayEnd)
        <4>1. Horizon' = IF now' <= DayEnd THEN now' ELSE DayEnd
          BY <2>0, <3>2, MinOfTwo DEF Horizon
        <4> QED
          BY <2>0, <3>2, <4>1
      <3>5. Horizon <= Horizon'
        BY <2>0, <2>a, <3>1, <3>3, <3>4
      <3>6. ASSUME NEW i \in 1 .. Len(journal)
            PROVE  0 <= journal[i].ts /\ journal[i].ts <= Horizon'
        <4>1. journal \in Seq(Row)
          BY <2>a DEF Stored
        <4>2. journal[i] \in Row
          BY <4>1
        <4>3. journal[i].ts \in Int
          BY <4>2 DEF Row
        <4>4. 0 <= journal[i].ts /\ journal[i].ts <= Horizon
          BY <2>a DEF Stored, Within
        <4> QED
          BY <3>3, <3>4, <3>5, <4>3, <4>4
      <3>7. Within(journal', 0, Horizon')
        BY <3>1, <3>6 DEF Within
      <3>8. Stored(journal)'
        BY <2>a, <3>1, <3>7 DEF Stored
      <3> QED
        BY <2>a, <3>1, <3>2, <3>8 DEF JournalInv
    <2>3. CASE UNCHANGED vars
      <3>1. Horizon' = Horizon
        BY <2>3 DEF Horizon, vars
      <3>2. Stored(journal)' 
        BY <2>a, <2>3, <3>1 DEF Stored, vars
      <3> QED
        BY <2>3, <3>1, <3>2 DEF JournalInv, vars
    <2> QED
      BY <2>1, <2>2, <2>3 DEF Next
  <1> QED
    BY <1>1, <1>2, PTL DEF Spec

-----------------------------------------------------------------------------
(* Sessions follow the evidence *)

\* Everything a second of the recap has to know of the sessions.
SessionsOf(rows, sessions) ==
    LET samples == MeetingSamples(rows)
    IN  /\ samples \in Seq(Samples) /\ InOrder(samples) /\ Timed(samples)
        /\ sessions \in Seq(Session) /\ Ordered(sessions, 0, Horizon)
        /\ \A t \in Int, m \in 0 .. Len(samples) :
              t < Horizon /\ NewestAt(samples, t, m)
              => Said(sessions, IF m = 0 THEN NoHint ELSE samples[m].hint, t)

(* The sessions of the recap are those of the samples of its journal.       *)
LEMMA SessionsOfJournal ==
    ASSUME JournalInv
    PROVE  /\ SessionsOf(journal, recap.sessions)
           /\ recap.samples = MeetingSamples(journal) /\ Voiced(recap.samples, journal)
  <1> DEFINE samples == MeetingSamples(journal)
             out == SessionsFromSamples(samples, Horizon)
             n == Len(samples)
  <1>1. recap.samples = samples /\ recap.sessions = out
    BY DEF JournalInv, compile_day_recap
  <1>2. /\ journal \in Seq(Row) /\ InOrder(journal) /\ Within(journal, 0, Horizon)
        /\ \A i \in 1 .. Len(journal) : TitleHint(journal[i].win) \in MaybeHint
        /\ Horizon \in Nat
    BY HorizonIs DEF JournalInv, Stored
  <1>3. samples \in Seq(Samples) /\ Voiced(samples, journal) /\ Drawn(samples, journal)
    BY <1>2, SamplesOfRows DEF Voiced, VoicedBy, Drawn
  <1> HIDE DEF samples
  <1>4. InOrder(samples) /\ Within(samples, 0, Horizon)
    BY <1>2, <1>3, DrawnInOrder
  <1>5. Timed(samples)
    <2>1. ASSUME NEW i \in 1 .. n
          PROVE  samples[i].ts \in Int
      <3>1. samples[i] \in Samples
        BY <1>3
      <3> QED
        BY <3>1 DEF Samples
    <2> QED
      BY <2>1 DEF Timed
  <1>6. /\ out \in Seq(Session)
        /\ n = 0 => out = <<>>
        /\ Ordered(out, 0, Horizon)
        /\ n # 0 => Ordered(out, samples[1].ts, Horizon)
        /\ \A i \in 1 .. n, t \in Int :
              /\ samples[i].ts <= t /\ t < Horizon
              /\ i < n => t < samples[i + 1].ts
              => Said(out, samples[i].hint, t)
    BY <1>2, <1>3, <1>4, SessionsTell
  <1>7. n \in Nat
    BY <1>3
  <1> HIDE DEF out, n
  <1>8. ASSUME NEW t \in Int, t < Horizon, NewestAt(samples, t, 0)
        PROVE  Said(out, NoHint, t)
    <2>1. CASE n = 0
      <3>1. Len(out) = 0
        BY <1>6, <2>1
      <3> QED
        BY <3>1 DEF Said
    <2>2. CASE n # 0
      <3>1. t < samples[1].ts
        BY <1>7, <1>8, <2>2 DEF NewestAt, n
      <3>2. 1 \in 1 .. n
        BY <1>7, <2>2
      <3>3. samples[1].ts \in Int
        BY <1>5, <3>2 DEF Timed, n
      <3>4. ASSUME NEW k \in 1 .. Len(out)
            PROVE  ~Covers(out[k], t)
        <4>1. samples[1].ts <= out[k].start
          BY <1>6, <2>2 DEF Ordered
        <4>2. out[k] \in Session
          BY <1>6
        <4>3. out[k].start \in Int
          BY <4>2 DEF Session
        <4> QED
          BY <3>1, <3>3, <4>1, <4>3 DEF Covers
      <3> QED
        BY <3>4 DEF Said
    <2> QED
      BY <2>1, <2>2
  <1>9. ASSUME NEW t \in Int, NEW m \in 0 .. n, m # 0, t < Horizon, NewestAt(samples, t, m)
        PROVE  Said(out, samples[m].hint, t)
    <2>1. m \in 1 .. n
      BY <1>7, <1>9
    <2>2. samples[m].ts <= t /\ (m < n => t < samples[m + 1].ts)
      BY <1>9 DEF NewestAt, n
    <2> QED
      BY <1>6, <1>9, <2>1, <2>2
  <1>10. \A t \in Int, m \in 0 .. n :
            t < Horizon /\ NewestAt(samples, t, m)
            => Said(out, IF m = 0 THEN NoHint ELSE samples[m].hint, t)
    BY <1>8, <1>9
  <1> QED
    BY <1>1, <1>3, <1>4, <1>5, <1>6, <1>10 DEF SessionsOf, n, samples

(* Of segments that follow each other at most one covers a second.          *)
LEMMA CoversOnce ==
    ASSUME NEW S, NEW out \in Seq(S), NEW from, NEW to, Ordered(out, from, to), NEW t \in Int,
           \A k \in 1 .. Len(out) : out[k].start \in Int /\ out[k].end \in Int
    PROVE  /\ Covering(out, t) = {k \in 1 .. Len(out) : Covers(out[k], t)}
           /\ \A k, l \in Covering(out, t) : k = l
  <1>1. Covering(out, t) = {k \in 1 .. Len(out) : Covers(out[k], t)}
    BY DEF Covering, Covers
  <1>2. Len(out) \in Nat
    OBVIOUS
  <1>3. ASSUME NEW k \in 1 .. Len(out), NEW l \in 1 .. Len(out), Covers(out[k], t), Covers(out[l], t)
        PROVE  ~(k < l)
    <2>1. k < l => out[k].end <= out[l].start
      BY DEF Ordered
    <2>2. t < out[k].end /\ out[l].start <= t /\ out[k].end \in Int /\ out[l].start \in Int
      BY <1>3 DEF Covers
    <2> QED
      BY <2>1, <2>2
  <1>4. ASSUME NEW k \in 1 .. Len(out), NEW l \in 1 .. Len(out), Covers(out[k], t), Covers(out[l], t)
        PROVE  k = l
    <2>1. ~(k < l) /\ ~(l < k)
      BY <1>3, <1>4
    <2> QED
      BY <1>2, <2>1
  <1> QED
    BY <1>1, <1>4

(* ADR-004 section 3, for every day: a second belongs to one session        *)
(* exactly when the newest evidence is a meeting, and the session has its   *)
(* phase and provider.                                                      *)
THEOREM SessionsAreEvidence == Spec => []SessionsFollowEvidence
  <1>1. JournalInv => SessionsFollowEvidence
    <2> SUFFICES ASSUME JournalInv
                 PROVE  SessionsFollowEvidence
      OBVIOUS
    <2> DEFINE samples == recap.samples
               out == recap.sessions
    <2>1. /\ samples \in Seq(Samples) /\ InOrder(samples) /\ Timed(samples)
          /\ out \in Seq(Session) /\ Ordered(out, 0, Horizon)
          /\ \A t \in Int, m \in 0 .. Len(samples) :
                t < Horizon /\ NewestAt(samples, t, m)
                => Said(out, IF m = 0 THEN NoHint ELSE samples[m].hint, t)
      BY SessionsOfJournal DEF SessionsOf
    <2>2. Horizon \in Nat
      BY HorizonIs DEF JournalInv
    <2> DEFINE Right(t) ==
                   LET ev   == {i \in Before(journal, t) : Speaks(journal[i])}
                       hint == IF ev = {} THEN NoHint ELSE Says(journal[Max(ev)])
                       at   == Covering(out, t)
                   IN  IF hint = NoHint THEN at = {}
                       ELSE \E i \in at : /\ at = {i}
                                          /\ out[i].phase = hint.phase
                                          /\ out[i].provider = hint.provider
    <2>3. SUFFICES ASSUME NEW t \in Seconds
                   PROVE  Right(t)
      BY DEF SessionsFollowEvidence
    <2> HIDE DEF samples, out
    <2>4. t \in Int /\ t < Horizon
      BY <2>2 DEF Seconds
    <2>5. PICK m \in 0 .. Len(samples) : IsNewest(samples, t, m)
      BY <2>1, <2>4, NewestExists
    <2> DEFINE hint == IF m = 0 THEN NoHint ELSE samples[m].hint
               ev == {i \in Before(journal, t) : Speaks(journal[i])}
               at == Covering(out, t)
    <2>6. (IF ev = {} THEN NoHint ELSE Says(journal[Max(ev)])) = hint
      <3>1. PICK from : VoicedBy(samples, journal, from)
        BY SessionsOfJournal DEF Voiced, samples
      <3>2. journal \in Seq(Row) /\ Len(samples) \in Nat
        BY <2>1 DEF JournalInv, Stored
      <3>3. \A p \in 1 .. Len(samples) : samples[p].ts <= t <=> p \in 1 .. m
        BY <2>1, <2>5 DEF IsNewest, Before
      <3>4. ev \in SUBSET Int /\ \A i : i \in ev <=> i \in 1 .. Len(journal) /\ journal[i].ts <= t /\ Speaks(journal[i])
        BY <3>2 DEF Before
      <3> HIDE DEF ev
      <3>5. ASSUME NEW i \in ev
            PROVE  m # 0 /\ i <= from[m]
        <4>1. PICK p \in 1 .. Len(samples) : from[p] = i
          BY <3>1, <3>4 DEF VoicedBy
        <4>2. p \in 1 .. m
          BY <3>1, <3>3, <3>4, <4>1 DEF VoicedBy
        <4> QED
          BY <3>1, <3>2, <4>1, <4>2 DEF VoicedBy
      <3>6. CASE m = 0
        BY <3>5, <3>6
      <3>7. CASE m # 0
        <4>1. m \in 1 .. Len(samples) /\ samples[m].ts <= t
          BY <3>2, <3>3, <3>7
        <4>2. from[m] \in ev /\ samples[m].hint = Says(journal[from[m]])
          BY <3>1, <3>4, <4>1 DEF VoicedBy
        <4>3. Max(ev) = from[m]
          BY <3>4, <3>5, <4>2, MaxIs
        <4> QED
          BY <3>7, <4>2, <4>3
      <3> QED
        BY <3>6, <3>7
    <2>7. Said(out, hint, t)
      BY <2>1, <2>4, <2>5 DEF IsNewest
    <2>8. at = {k \in 1 .. Len(out) : Covers(out[k], t)} /\ \A k, l \in at : k = l
      <3>1. ASSUME NEW k \in 1 .. Len(out)
            PROVE  out[k].start \in Int /\ out[k].end \in Int
        <4>1. out[k] \in Session
          BY <2>1
        <4> QED
          BY <4>1 DEF Session
      <3> QED
        BY <2>1, <2>4, <3>1, CoversOnce
    <2> HIDE DEF hint, ev, at
    <2>9. CASE hint = NoHint
      <3>1. at = {}
        BY <2>7, <2>8, <2>9 DEF Said
      <3> QED
        BY <2>6, <2>9, <3>1 DEF ev, at
    <2>10. CASE hint # NoHint
      <3>1. PICK k \in 1 .. Len(out) : /\ Covers(out[k], t) /\ out[k].phase = hint.phase
                                       /\ out[k].provider = hint.provider
        BY <2>7, <2>10 DEF Said
      <3>2. at = {k}
        BY <2>8, <3>1
      <3>3. \E i \in at : at = {i} /\ out[i].phase = hint.phase /\ out[i].provider = hint.provider
        BY <3>1, <3>2
      <3> QED
        BY <2>6, <2>10, <3>3 DEF ev, at
    <2> QED
      BY <2>9, <2>10
  <1> QED
    BY <1>1, JournalKeeps, PTL

(***************************************************************************)
(* Absences                                                                *)
(***************************************************************************)
Transitions == INSTANCE FoldSteps WITH Op <- Transition

\* What Absences returns, and what it keeps while it runs.
Interval == [start : Int, end : Int]
Absence  == [open : Seq(Int), out : Seq(Interval)]

\* Of the positions 0 .. m of a day's idle rows (0 stands for the row before the day), `idle`
\* holds the enters.  An enter opens an absence if no other enter comes right before it, and
\* the first leave after it closes it.
Opener(idle, o) == o \in idle /\ (o = 0 \/ o - 1 \notin idle)
Closed(idle, o, j) == /\ Opener(idle, o) /\ o < j /\ j \notin idle
                      /\ \A k \in o + 1 .. j - 1 : k \in idle

\* The second t is in an absence that one of the rows 1 .. m closes.
ToldBy(idle, begin, ts, m, t) ==
    \E o \in 0 .. m, j \in 1 .. m : Closed(idle, o, j) /\ begin[o] <= t /\ t < ts[j]

\* Segments of a window have a duration and lie in it, in any order.
Inside(list, to) ==
    \A k \in 1 .. Len(list) : 0 <= list[k].start /\ list[k].start < list[k].end /\ list[k].end <= to

\* A segment of the list holds the second t.
Covered(list, t) == \E k \in 1 .. Len(list) : Covers(list[k], t)

\* After m rows: what is open, and what the closed absences cover.
AbsentTo(acc, idle, begin, ts, to, m) ==
    /\ acc \in Absence
    /\ (acc.open = <<>>) <=> (m \notin idle)
    /\ m \in idle => \E o \in 0 .. m : /\ Opener(idle, o) /\ \A k \in o .. m : k \in idle
                                       /\ acc.open = <<begin[o]>>
    /\ Inside(acc.out, to)
    /\ \A t \in Nat : Covered(acc.out, t) <=> ToldBy(idle, begin, ts, m, t)

(* A run of enters has one opener.                                          *)
LEMMA OneOpener ==
    ASSUME NEW idle, NEW m \in Nat, NEW o \in 0 .. m, NEW p \in 0 .. m,
           Opener(idle, o), Opener(idle, p),
           \A k \in o .. m : k \in idle, \A k \in p .. m : k \in idle
    PROVE  o = p
  <1>1. o < p => p - 1 \in o .. m /\ p # 0
    OBVIOUS
  <1>2. p < o => o - 1 \in p .. m /\ o # 0
    OBVIOUS
  <1> QED
    BY <1>1, <1>2 DEF Opener

(* What a clipped segment covers.                                           *)
LEMMA EmitCovers ==
    ASSUME NEW from \in Int, NEW to \in Int, NEW last \in Int, to <= last
    PROVE  /\ Emit(from, to) \in Seq(Interval) /\ Inside(Emit(from, to), last)
           /\ \A t \in Nat : Covered(Emit(from, to), t) <=> from <= t /\ t < to
  <1> DEFINE first == Max({from, WindowStart})
             s == Span(first, to)
  <1>1. first = IF from <= 0 THEN 0 ELSE from
    <2>1. WindowStart \in Int /\ WindowStart = 0
      BY DEF WindowStart
    <2> QED
      BY <2>1, MaxOfTwo
  <1>2. Emit(from, to) = IF to <= first THEN <<>> ELSE <<s>>
    BY DEF Emit
  <1>3. s = [start |-> first, end |-> to]
    BY DEF Span
  <1> HIDE DEF first, s
  <1>4. CASE to <= first
    <2>1. Emit(from, to) = <<>>
      BY <1>2, <1>4
    <2>2. \A t \in Nat : ~(from <= t /\ t < to)
      BY <1>1, <1>4
    <2> QED
      BY <2>1, <2>2 DEF Covered, Inside
  <1>5. CASE ~(to <= first)
    <2>1. Emit(from, to) = <<s>> /\ s \in Interval /\ s.start = first /\ s.end = to
      BY <1>1, <1>2, <1>3, <1>5 DEF Interval
    <2>2. Len(<<s>>) = 1 /\ <<s>>[1] = s
      OBVIOUS
    <2>3. Inside(<<s>>, last)
      BY <1>1, <1>5, <2>1, <2>2 DEF Inside
    <2>4. ASSUME NEW t \in Nat
          PROVE  Covered(<<s>>, t) <=> from <= t /\ t < to
      BY <1>1, <2>1, <2>2 DEF Covered, Covers
    <2> QED
      BY <2>1, <2>3, <2>4
  <1> QED
    BY <1>4, <1>5

(* Two lists put together cover what one of them covers.                    *)
LEMMA ConcatCovers ==
    ASSUME NEW S, NEW a \in Seq(S), NEW b \in Seq(S)
    PROVE  /\ \A t : Covered(a \o b, t) <=> Covered(a, t) \/ Covered(b, t)
           /\ \A to : Inside(a, to) /\ Inside(b, to) => Inside(a \o b, to)
  <1> DEFINE c == a \o b
             m == Len(a)
             n == Len(b)
  <1>1. /\ m \in Nat /\ n \in Nat /\ Len(c) = m + n
        /\ \A p \in 1 .. m : c[p] = a[p]
        /\ \A k \in 1 .. n : c[m + k] = b[k]
    BY ConcatAt
  <1> HIDE DEF c, m, n
  <1>2. \A p \in 1 .. m + n : p \in 1 .. m \/ \E k \in 1 .. n : p = m + k
    <2> SUFFICES ASSUME NEW p \in 1 .. m + n, p \notin 1 .. m
                 PROVE  \E k \in 1 .. n : p = m + k
      OBVIOUS
    <2>1. p - m \in 1 .. n /\ p = m + (p - m)
      BY <1>1
    <2> QED
      BY <2>1
  <1>3. ASSUME NEW t
        PROVE  Covered(c, t) <=> Covered(a, t) \/ Covered(b, t)
    <2>1. ASSUME NEW p \in 1 .. m + n, Covers(c[p], t)
          PROVE  Covered(a, t) \/ Covered(b, t)
      BY <1>1, <1>2, <2>1, Zenon DEF Covered, m, n
    <2>2. ASSUME NEW p \in 1 .. m, Covers(a[p], t)
          PROVE  Covered(c, t)
      <3>1. p \in 1 .. Len(c) /\ c[p] = a[p]
        BY <1>1
      <3> QED
        BY <2>2, <3>1 DEF Covered
    <2>3. ASSUME NEW k \in 1 .. n, Covers(b[k], t)
          PROVE  Covered(c, t)
      <3>1. m + k \in 1 .. Len(c) /\ c[m + k] = b[k]
        BY <1>1
      <3> QED
        BY <2>3, <3>1 DEF Covered
    <2> QED
      BY <1>1, <2>1, <2>2, <2>3 DEF Covered, m, n
  <1>4. ASSUME NEW to, Inside(a, to), Inside(b, to), NEW p \in 1 .. m + n
        PROVE  0 <= c[p].start /\ c[p].start < c[p].end /\ c[p].end <= to
    BY <1>1, <1>2, <1>4, Zenon DEF Inside, m, n
  <1> QED
    BY <1>1, <1>3, <1>4 DEF Inside, c

\* row is the k-th of the idle rows.
RowAt(row, idle, begin, ts, to, k) ==
    /\ row.idle \in BOOLEAN /\ (row.idle <=> k \in idle)
    /\ row.ts = ts[k] /\ ts[k] <= to
    /\ row.idle => row.since = begin[k]

(* One row.                                                                 *)
LEMMA TransitionStep ==
    ASSUME NEW N \in Nat, NEW idle, NEW begin \in [0 .. N -> Int], NEW ts \in [1 .. N -> Int],
           NEW to \in Int, NEW m \in 0 .. N - 1,
           NEW acc, AbsentTo(acc, idle, begin, ts, to, m),
           NEW row, RowAt(row, idle, begin, ts, to, m + 1)
    PROVE  AbsentTo(Transition(acc, row), idle, begin, ts, to, m + 1)
  <1> DEFINE next == Transition(acc, row)
  <1> USE DEF RowAt
  <1>0. /\ m \in Int /\ m + 1 \in 1 .. N /\ m + 1 \in 0 .. N /\ ts[m + 1] \in Int
        /\ begin[m + 1] \in Int
    OBVIOUS
  <1>1. /\ acc \in Absence /\ acc.open \in Seq(Int) /\ acc.out \in Seq(Interval)
        /\ Inside(acc.out, to)
    BY DEF AbsentTo, Absence
  <1>2. (acc.open = <<>>) <=> (m \notin idle)
    BY DEF AbsentTo
  <1>3. m \in idle => \E o \in 0 .. m : /\ Opener(idle, o) /\ \A k \in o .. m : k \in idle
                                        /\ acc.open = <<begin[o]>>
    BY Zenon DEF AbsentTo
  <1>4. \A t \in Nat : Covered(acc.out, t) <=> ToldBy(idle, begin, ts, m, t)
    BY DEF AbsentTo
  \* nothing is closed unless the row is a leave
  <1>5. ASSUME ~\E o \in 0 .. m + 1 : Closed(idle, o, m + 1), NEW t \in Nat
        PROVE  ToldBy(idle, begin, ts, m, t) <=> ToldBy(idle, begin, ts, m + 1, t)
    <2>1. ASSUME NEW o \in 0 .. m, NEW j \in 1 .. m, Closed(idle, o, j), begin[o] <= t, t < ts[j]
          PROVE  ToldBy(idle, begin, ts, m + 1, t)
      <3>1. o \in 0 .. m + 1 /\ j \in 1 .. m + 1
        OBVIOUS
      <3> QED
        BY <2>1, <3>1, Zenon DEF ToldBy
    <2>2. ASSUME NEW o \in 0 .. m + 1, NEW j \in 1 .. m + 1, Closed(idle, o, j),
                 begin[o] <= t, t < ts[j]
          PROVE  ToldBy(idle, begin, ts, m, t)
      <3>1. j # m + 1
        BY <1>5, <2>2, Zenon
      <3>2. j \in 1 .. m /\ o < j
        BY <2>2, <3>1 DEF Closed
      <3>3. o \in 0 .. m
        BY <3>2
      <3> QED
        BY <2>2, <3>2, <3>3, Zenon DEF ToldBy
    <2> QED
      BY <2>1, <2>2, Zenon DEF ToldBy
  <1>6. CASE row.idle /\ acc.open = <<>>
    <2>1. next = [acc EXCEPT !.open = <<row.since>>]
      BY <1>6 DEF Transition
    <2>2. row.since = begin[m + 1] /\ m + 1 \in idle /\ m \notin idle
      BY <1>2, <1>6
    <2>3. next \in Absence /\ next.open = <<begin[m + 1]>> /\ next.out = acc.out
      <3>1. PICK b \in Int : b = begin[m + 1]
        BY <1>0
      <3>2. next = [acc EXCEPT !.open = <<b>>] /\ <<b>> \in Seq(Int)
        BY <2>1, <2>2, <3>1
      <3> HIDE DEF next
      <3> QED
        BY <1>1, <3>1, <3>2, Zenon DEF Absence
    <2> HIDE DEF next
    <2>4. next.open # <<>>
      BY <2>3
    <2>5. Opener(idle, m + 1) /\ \A k \in m + 1 .. m + 1 : k \in idle
      BY <2>2 DEF Opener
    <2>6. ~\E o \in 0 .. m + 1 : Closed(idle, o, m + 1)
      BY <2>2 DEF Closed
    <2>7. \A t \in Nat : Covered(next.out, t) <=> ToldBy(idle, begin, ts, m + 1, t)
      BY <1>4, <1>5, <2>3, <2>6
    <2>8. m + 1 \in 0 .. m + 1
      OBVIOUS
    <2>9. \E o \in 0 .. m + 1 : /\ Opener(idle, o) /\ \A k \in o .. m + 1 : k \in idle
                                /\ next.open = <<begin[o]>>
      BY <2>3, <2>5, <2>8, Zenon
    <2> QED
      BY <1>1, <2>2, <2>3, <2>4, <2>7, <2>9 DEF AbsentTo, next
  <1>7. CASE row.idle /\ acc.open # <<>>
    <2>1. next = acc
      BY <1>7 DEF Transition
    <2>2. m + 1 \in idle /\ m \in idle
      BY <1>2, <1>7
    <2>3. PICK o \in 0 .. m : /\ Opener(idle, o) /\ \A k \in o .. m : k \in idle
                              /\ acc.open = <<begin[o]>>
      BY <1>3, <2>2, Zenon
    <2>4. o \in 0 .. m + 1 /\ \A k \in o .. m + 1 : k \in idle
      BY <2>2, <2>3
    <2>5. ~\E p \in 0 .. m + 1 : Closed(idle, p, m + 1)
      BY <2>2 DEF Closed
    <2>6. \A t \in Nat : Covered(acc.out, t) <=> ToldBy(idle, begin, ts, m + 1, t)
      BY <1>4, <1>5, <2>5, Zenon
    <2>7. \E p \in 0 .. m + 1 : /\ Opener(idle, p) /\ \A k \in p .. m + 1 : k \in idle
                                /\ acc.open = <<begin[p]>>
      BY <2>3, <2>4, Zenon
    <2>8. AbsentTo(acc, idle, begin, ts, to, m + 1)
      BY <1>1, <1>7, <2>2, <2>6, <2>7, Zenon DEF AbsentTo
    <2> QED
      BY <2>1, <2>8
  <1>8. CASE ~row.idle /\ acc.open = <<>>
    <2>1. next = acc
      BY <1>8 DEF Transition
    <2>2. m + 1 \notin idle /\ m \notin idle
      BY <1>2, <1>8, Zenon
    <2>3. ASSUME NEW o \in 0 .. m + 1, Closed(idle, o, m + 1)
          PROVE  FALSE
      <3>1. o \in 0 .. m /\ o \in idle /\ \A k \in o + 1 .. m : k \in idle
        BY <2>3 DEF Closed, Opener
      <3>2. o = m \/ m \in o + 1 .. m
        BY <3>1
      <3> QED
        BY <2>2, <3>1, <3>2
    <2>4. \A t \in Nat : Covered(acc.out, t) <=> ToldBy(idle, begin, ts, m + 1, t)
      BY <1>4, <1>5, <2>3
    <2>5. AbsentTo(acc, idle, begin, ts, to, m + 1)
      BY <1>1, <1>8, <2>2, <2>4 DEF AbsentTo
    <2> QED
      BY <2>1, <2>5
  <1>9. CASE ~row.idle /\ acc.open # <<>>
    <2>1. m + 1 \notin idle /\ m \in idle
      BY <1>2, <1>9, Zenon
    <2>2. PICK o \in 0 .. m : /\ Opener(idle, o) /\ \A k \in o .. m : k \in idle
                              /\ acc.open = <<begin[o]>>
      BY <1>3, <2>1, Zenon
    <2> DEFINE e == Emit(begin[o], ts[m + 1])
    <2>3. o \in 0 .. N /\ begin[o] \in Int /\ acc.open[1] = begin[o]
      BY <2>2
    <2>4. next = [open |-> <<>>, out |-> acc.out \o e]
      BY <1>9, <2>3 DEF Transition
    <2>5. /\ e \in Seq(Interval) /\ Inside(e, to)
          /\ \A t \in Nat : Covered(e, t) <=> begin[o] <= t /\ t < ts[m + 1]
      BY <1>0, <2>3, EmitCovers, Zenon
    <2> HIDE DEF e
    <2>6. /\ acc.out \o e \in Seq(Interval) /\ Inside(acc.out \o e, to)
          /\ \A t \in Nat : Covered(acc.out \o e, t) <=> Covered(acc.out, t) \/ Covered(e, t)
      BY <1>1, <2>5, ConcatCovers
    <2>7. next \in Absence /\ next.open = <<>> /\ next.out = acc.out \o e
      <3>1. PICK out \in Seq(Interval) : out = acc.out \o e
        BY <2>6, Zenon
      <3>2. next = [open |-> <<>>, out |-> out] /\ <<>> \in Seq(Int)
        BY <2>4, <3>1
      <3> HIDE DEF next
      <3> QED
        BY <3>1, <3>2, Zenon DEF Absence
    <2> HIDE DEF next
    <2>8. Closed(idle, o, m + 1) /\ o \in 0 .. m + 1 /\ m + 1 \in 1 .. m + 1
      <3>1. \A k \in o + 1 .. (m + 1) - 1 : k \in idle
        BY <2>2
      <3>2. Opener(idle, o) /\ o < m + 1
        BY <2>2
      <3>3. Closed(idle, o, m + 1)
        BY <2>1, <3>1, <3>2 DEF Closed
      <3> QED
        BY <3>3
    <2>9. ASSUME NEW p \in 0 .. m + 1, Closed(idle, p, m + 1)
          PROVE  p = o
      <3>1. p \in 0 .. m /\ Opener(idle, p) /\ p \in idle /\ \A k \in p + 1 .. m : k \in idle
        BY <2>9 DEF Closed, Opener
      <3>2. ASSUME NEW k \in p .. m
            PROVE  k \in idle
        <4>1. k = p \/ k \in p + 1 .. m
          OBVIOUS
        <4> QED
          BY <3>1, <4>1
      <3>3. m \in Nat
        OBVIOUS
      <3> QED
        BY <2>2, <3>1, <3>2, <3>3, OneOpener, Zenon
    <2>10. ASSUME NEW t \in Nat
           PROVE  Covered(next.out, t) <=> ToldBy(idle, begin, ts, m + 1, t)
      <3>1. Covered(next.out, t) <=> ToldBy(idle, begin, ts, m, t) \/ (begin[o] <= t /\ t < ts[m + 1])
        BY <1>4, <2>5, <2>6, <2>7, Zenon
      <3>2. begin[o] <= t /\ t < ts[m + 1] => ToldBy(idle, begin, ts, m + 1, t)
        BY <2>8, Zenon DEF ToldBy
      <3>3. ToldBy(idle, begin, ts, m, t) => ToldBy(idle, begin, ts, m + 1, t)
        <4>1. \A a \in 0 .. m, j \in 1 .. m : a \in 0 .. m + 1 /\ j \in 1 .. m + 1
          OBVIOUS
        <4> QED
          BY <4>1, Zenon DEF ToldBy
      <3>4. ASSUME NEW p \in 0 .. m + 1, NEW j \in 1 .. m + 1, Closed(idle, p, j),
                   begin[p] <= t, t < ts[j]
            PROVE  ToldBy(idle, begin, ts, m, t) \/ (begin[o] <= t /\ t < ts[m + 1])
        <4>1. CASE j = m + 1
          BY <2>9, <3>4, <4>1, Zenon
        <4>2. CASE j # m + 1
          <5>1. j \in 1 .. m /\ p < j
            BY <3>4, <4>2 DEF Closed
          <5>2. p \in 0 .. m
            BY <5>1
          <5> QED
            BY <3>4, <5>1, <5>2, Zenon DEF ToldBy
        <4> QED
          BY <4>1, <4>2
      <3>5. ToldBy(idle, begin, ts, m + 1, t)
               => ToldBy(idle, begin, ts, m, t) \/ (begin[o] <= t /\ t < ts[m + 1])
        BY <3>4, Zenon DEF ToldBy
      <3> QED
        BY <3>1, <3>2, <3>3, <3>5, Zenon
    <2> QED
      BY <2>1, <2>6, <2>7, <2>10 DEF AbsentTo, next
  <1> QED
    BY <1>6, <1>7, <1>8, <1>9, Zenon

\* The idle rows of a day, the row before it and the end of the window, which counts as a leave.
Enters(rows, before) == {k \in 0 .. Len(rows) : IF k = 0 THEN before ELSE rows[k].idle}
Begins(rows) == [k \in 0 .. Len(rows) + 1 |-> IF k \in 1 .. Len(rows) THEN rows[k].since ELSE 0]
Times(rows, horizon) == [k \in 1 .. Len(rows) + 1 |->
                            IF k \in 1 .. Len(rows) THEN rows[k].ts ELSE horizon]

(* The absences of the idle rows, if they are used, cover what the rows     *)
(* tell.                                                                    *)
LEMMA ProtocolTells ==
    ASSUME NEW rows \in Seq(Row), NEW before \in BOOLEAN, NEW horizon \in Int,
           Within(rows, 0, horizon)
    PROVE  LET out == ProtocolAway(rows, before, horizon)
           IN  /\ out \in Seq(Interval) /\ Inside(out, horizon)
               /\ \A t \in Nat : Covered(out, t) <=>
                     ToldBy(Enters(rows, before), Begins(rows), Times(rows, horizon), Len(rows) + 1, t)
  <1> DEFINE n == Len(rows)
             base == [open |-> IF before THEN <<WindowStart>> ELSE <<>>, out |-> <<>>]
             leave == [idle |-> FALSE, ts |-> horizon]
             last == FoldLeft(Transition, base, rows)
             idle == Enters(rows, before)
             begin == Begins(rows)
             ts == Times(rows, horizon)
  <1>0. n \in Nat /\ 0 \in 0 .. n /\ n \in 0 .. n
    OBVIOUS
  <1>1. ASSUME NEW i \in 1 .. n
        PROVE  rows[i].ts \in Int /\ rows[i].since \in Int /\ rows[i].idle \in BOOLEAN
    <2>1. rows[i] \in Row
      OBVIOUS
    <2> QED
      BY <2>1, Zenon DEF Row
  <1>2. begin \in [0 .. n + 1 -> Int] /\ begin[0] = 0 /\ \A i \in 1 .. n : begin[i] = rows[i].since
    <2>1. ASSUME NEW k \in 0 .. n + 1
          PROVE  (IF k \in 1 .. n THEN rows[k].since ELSE 0) \in Int
      BY <1>1
    <2> QED
      BY <1>0, <2>1 DEF Begins
  <1>3. ts \in [1 .. n + 1 -> Int] /\ ts[n + 1] = horizon /\ \A i \in 1 .. n : ts[i] = rows[i].ts
    <2>1. ASSUME NEW k \in 1 .. n + 1
          PROVE  (IF k \in 1 .. n THEN rows[k].ts ELSE horizon) \in Int
      BY <1>1
    <2> QED
      BY <1>0, <2>1 DEF Times
  <1>4. /\ 0 \in idle <=> before
        /\ \A i \in 1 .. n : i \in idle <=> rows[i].idle
        /\ n + 1 \notin idle
    <2>1. ASSUME NEW i \in 1 .. n
          PROVE  i \in idle <=> rows[i].idle
      <3>1. i \in 0 .. n /\ i # 0
        BY <1>0
      <3> QED
        BY <3>1 DEF Enters
    <2> QED
      BY <1>0, <2>1 DEF Enters
  <1>5. PICK acc : /\ acc[0] = base /\ last = acc[n]
                   /\ \A k \in 1 .. n : acc[k] = Transition(acc[k - 1], rows[k])
    <2>1. last = Transitions!Folded(base, rows)
      BY DEF FoldLeft, MapThenFoldSet, Transitions!Folded, Transitions!Rec, Max, Transitions!Greatest
    <2> HIDE DEF last, base
    <2>2. \E acc : Transitions!Steps(acc, base, rows) /\ Transitions!Folded(base, rows) = acc[n]
      BY Transitions!FoldHasSteps
    <2> QED
      BY <2>1, <2>2 DEF Transitions!Steps
  <1>6. ProtocolAway(rows, before, horizon)
           = last.out \o (IF last.open = <<>> THEN <<>> ELSE Emit(last.open[1], horizon))
    BY DEF ProtocolAway
  <1> HIDE DEF idle, begin, ts, last
  <1>7. AbsentTo(base, idle, begin, ts, horizon, 0)
    <2>1. base \in Absence /\ base.out = <<>>
      <3>1. <<WindowStart>> \in Seq(Int) /\ <<>> \in Seq(Int) /\ <<>> \in Seq(Interval)
        BY DEF WindowStart
      <3>2. base.open \in Seq(Int)
        BY <3>1
      <3>3. PICK open \in Seq(Int) : open = base.open
        BY <3>2, Zenon
      <3>4. base = [open |-> open, out |-> <<>>]
        BY <3>3
      <3> HIDE DEF base
      <3> QED
        BY <3>1, <3>4 DEF Absence
    <2>2. before => base.open = <<begin[0]>>
      BY <1>2 DEF WindowStart
    <2>3. ~before => base.open = <<>>
      OBVIOUS
    <2>8. before => base.open # <<>>
      OBVIOUS
    <2> HIDE DEF base
    <2>4. Len(base.out) = 0
      BY <2>1
    <2>5. \A t \in Nat : Covered(base.out, t) <=> ToldBy(idle, begin, ts, 0, t)
      BY <2>4 DEF Covered, ToldBy
    <2>6. 0 \in idle => Opener(idle, 0) /\ \A k \in 0 .. 0 : k \in idle
      BY DEF Opener
    <2>7. Inside(base.out, horizon)
      BY <2>4 DEF Inside
    <2>9. 0 \in 0 .. 0
      OBVIOUS
    <2> QED
      BY <1>4, <2>1, <2>2, <2>3, <2>5, <2>6, <2>7, <2>8, <2>9 DEF AbsentTo
  <1> HIDE DEF base
  <1>8. ASSUME NEW m \in 0 .. n, NEW g, AbsentTo(g, idle, begin, ts, horizon, m),
               NEW row, RowAt(row, idle, begin, ts, horizon, m + 1)
        PROVE  AbsentTo(Transition(g, row), idle, begin, ts, horizon, m + 1)
    <2>1. PICK N \in Nat : N = n + 1
      BY <1>0
    <2>2. begin \in [0 .. N -> Int] /\ ts \in [1 .. N -> Int] /\ m \in 0 .. N - 1
      BY <1>0, <1>2, <1>3, <2>1
    <2> QED
      BY <1>8, <2>2, TransitionStep, Zenon
  <1>9. AbsentTo(last, idle, begin, ts, horizon, n)
    <2> DEFINE T == {m \in 0 .. n : AbsentTo(acc[m], idle, begin, ts, horizon, m)}
    <2>1. 0 \in T
      BY <1>0, <1>5, <1>7
    <2>2. \A m \in 0 .. n - 1 : m \in T => m + 1 \in T
      <3>0. SUFFICES ASSUME NEW m \in 0 .. n - 1, AbsentTo(acc[m], idle, begin, ts, horizon, m)
                     PROVE  AbsentTo(acc[m + 1], idle, begin, ts, horizon, m + 1)
        BY <1>0
      <3>1. m \in 0 .. n /\ m + 1 \in 1 .. n /\ (m + 1) - 1 = m
        BY <1>0
      <3>2. acc[m + 1] = Transition(acc[m], rows[m + 1])
        BY <1>5, <3>1
      <3>3. RowAt(rows[m + 1], idle, begin, ts, horizon, m + 1)
        BY <1>1, <1>2, <1>3, <1>4, <3>1 DEF Within, RowAt
      <3> QED
        BY <1>8, <3>0, <3>1, <3>2, <3>3
    <2>3. 0 .. n \subseteq T
      <3> HIDE DEF T
      <3> QED
        BY <1>0, <2>1, <2>2, Transitions!UpTo, Zenon
    <2>4. n \in T
      BY <1>0, <2>3
    <2> QED
      BY <1>5, <2>4
  <1> DEFINE end == Transition(last, leave)
  <1>10. AbsentTo(end, idle, begin, ts, horizon, n + 1)
    <2>1. RowAt(leave, idle, begin, ts, horizon, n + 1)
      BY <1>3, <1>4 DEF RowAt
    <2> QED
      BY <1>0, <1>8, <1>9, <2>1
  <1>11. ProtocolAway(rows, before, horizon) = end.out
    <2>1. /\ last.open = <<>> => end = last
          /\ last.open # <<>> => end.out = last.out \o Emit(last.open[1], horizon)
      BY Zenon DEF Transition
    <2>2. last.out \in Seq(Interval)
      BY <1>9 DEF AbsentTo, Absence
    <2>3. last.out \o <<>> = last.out
      BY <2>2
    <2> HIDE DEF end
    <2> QED
      BY <1>6, <2>1, <2>3, Zenon
  <1> HIDE DEF end
  <1> QED
    BY <1>10, <1>11 DEF AbsentTo, Absence, idle, begin, ts

-----------------------------------------------------------------------------
(* Absences split on calls *)

\* The loop of _split_away_on_calls, and the slices it returns.
Splitting == INSTANCE FoldSteps WITH Op <- SplitStep

AwaySlice == [start : Int, end : Int, presence : {"away", "meeting"}]

\* The slices follow each other without a gap and are meetings where a call is on.
Tiles(out, from, to, calls) ==
    /\ out \in Seq(AwaySlice) /\ Ordered(out, from, to)
    /\ \A t \in Int : from <= t /\ t < to => Covered(out, t)
    /\ \A k \in 1 .. Len(out), t \in Int :
          Covers(out[k], t) => (out[k].presence = "meeting" <=> Covered(calls, t))

(* A slice more.                                                            *)
LEMMA TileMore ==
    ASSUME NEW out, NEW calls, NEW from \in Int, NEW c \in Int, NEW d \in Int, from <= c, c < d,
           Tiles(out, from, c, calls), NEW p \in {"away", "meeting"},
           \A t \in Int : c <= t /\ t < d => (p = "meeting" <=> Covered(calls, t))
    PROVE  Tiles(Append(out, Slice(c, d, p)), from, d, calls)
  <1> DEFINE s == Slice(c, d, p)
             new == Append(out, s)
             n == Len(out)
  <1>1. s \in AwaySlice /\ s.start = c /\ s.end = d /\ s.presence = p
    BY DEF Slice, AwaySlice
  <1> HIDE DEF s
  <1>2. out \in Seq(AwaySlice) /\ Ordered(out, from, c) /\ n \in Nat
    BY DEF Tiles
  <1>3. /\ new \in Seq(AwaySlice) /\ Len(new) = n + 1 /\ new[n + 1] = s
        /\ \A k \in 1 .. n : new[k] = out[k]
    BY <1>1, <1>2, AppendAt
  <1> HIDE DEF new, n
  <1>4. \A k \in 1 .. n : out[k].start \in Int /\ out[k].end \in Int
    <2> SUFFICES ASSUME NEW k \in 1 .. n
                 PROVE  out[k].start \in Int /\ out[k].end \in Int
      OBVIOUS
    <2>1. out[k] \in AwaySlice
      BY <1>2 DEF n
    <2> QED
      BY <2>1 DEF AwaySlice
  <1>5. ASSUME NEW k \in 1 .. n + 1
        PROVE  from <= new[k].start /\ new[k].start < new[k].end /\ new[k].end <= d
    <2>1. CASE k = n + 1
      BY <1>1, <1>3, <2>1
    <2>2. CASE k \in 1 .. n
      <3>1. from <= out[k].start /\ out[k].start < out[k].end /\ out[k].end <= c
        BY <1>2, <2>2 DEF Ordered, n
      <3> QED
        BY <1>3, <1>4, <2>2, <3>1
    <2> QED
      BY <1>2, <2>1, <2>2
  <1>6. ASSUME NEW k \in 1 .. n + 1, NEW l \in 1 .. n + 1, k < l
        PROVE  new[k].end <= new[l].start
    <2>1. k \in 1 .. n
      BY <1>2, <1>6
    <2>2. CASE l = n + 1
      <3>1. out[k].end <= c
        BY <1>2, <2>1 DEF Ordered, n
      <3> QED
        BY <1>1, <1>3, <2>1, <2>2, <3>1
    <2>3. CASE l \in 1 .. n
      <3>1. out[k].end <= out[l].start
        BY <1>2, <1>6, <2>1, <2>3 DEF Ordered, n
      <3> QED
        BY <1>3, <2>1, <2>3, <3>1
    <2> QED
      BY <1>2, <2>2, <2>3
  <1>7. Ordered(new, from, d)
    BY <1>3, <1>5, <1>6 DEF Ordered
  <1>8. ASSUME NEW t \in Int, from <= t, t < d
        PROVE  Covered(new, t)
    <2>1. CASE t < c
      <3>1. PICK k \in 1 .. n : Covers(out[k], t)
        BY <1>8, <2>1 DEF Tiles, Covered, n
      <3>2. k \in 1 .. Len(new) /\ new[k] = out[k]
        BY <1>2, <1>3
      <3> QED
        BY <3>1, <3>2 DEF Covered
    <2>2. CASE ~(t < c)
      <3>1. Covers(s, t)
        BY <1>1, <1>8, <2>2 DEF Covers
      <3>2. n + 1 \in 1 .. Len(new) /\ new[n + 1] = s
        BY <1>2, <1>3
      <3> QED
        BY <3>1, <3>2 DEF Covered
    <2> QED
      BY <2>1, <2>2
  <1>9. ASSUME NEW k \in 1 .. n + 1, NEW t \in Int, Covers(new[k], t)
        PROVE  new[k].presence = "meeting" <=> Covered(calls, t)
    <2>1. CASE k = n + 1
      <3>1. c <= t /\ t < d /\ new[k].presence = p
        BY <1>1, <1>3, <1>9, <2>1 DEF Covers
      <3> QED
        BY <3>1
    <2>2. CASE k \in 1 .. n
      <3>1. new[k] = out[k]
        BY <1>3, <2>2
      <3> QED
        BY <1>9, <2>2, <3>1 DEF Tiles, n
    <2> QED
      BY <1>2, <2>1, <2>2
  <1> QED
    BY <1>3, <1>7, <1>8, <1>9 DEF Tiles, new, s

(* Slices cover their stretch and nothing else, each second once.           *)
LEMMA SplitTiles ==
    ASSUME NEW seg \in Interval, seg.start < seg.end, NEW calls,
           NEW clips \in Seq(Interval), clips = Clips(seg, calls), Ordered(clips, seg.start, seg.end)
    PROVE  Tiles(SplitAwayOnCalls(seg, calls), seg.start, seg.end, clips)
  <1> DEFINE n == Len(clips)
             base == [cursor |-> seg.start, out |-> <<>>]
             last == FoldLeft(SplitStep, base, clips)
  <1>0. n \in Nat /\ seg.start \in Int /\ seg.end \in Int
    BY DEF Interval
  <1>1. \A i \in 1 .. n : clips[i].start \in Int /\ clips[i].end \in Int
    <2> SUFFICES ASSUME NEW i \in 1 .. n
                 PROVE  clips[i].start \in Int /\ clips[i].end \in Int
      OBVIOUS
    <2>1. clips[i] \in Interval
      OBVIOUS
    <2> QED
      BY <2>1, Zenon DEF Interval
  <1>2. \A i \in 1 .. n : /\ seg.start <= clips[i].start /\ clips[i].start < clips[i].end
                          /\ clips[i].end <= seg.end
    BY DEF Ordered
  <1>3. \A i, j \in 1 .. n : i < j => clips[i].end <= clips[j].start
    BY DEF Ordered
  <1>4. PICK acc : /\ acc[0] = base /\ last = acc[n]
                   /\ \A k \in 1 .. n : acc[k] = SplitStep(acc[k - 1], clips[k])
    <2>1. last = Splitting!Folded(base, clips)
      BY DEF FoldLeft, MapThenFoldSet, Splitting!Folded, Splitting!Rec, Max, Splitting!Greatest
    <2> HIDE DEF last, base
    <2>2. \E acc : Splitting!Steps(acc, base, clips) /\ Splitting!Folded(base, clips) = acc[n]
      BY Splitting!FoldHasSteps
    <2> QED
      BY <2>1, <2>2 DEF Splitting!Steps
  <1>5. SplitAwayOnCalls(seg, calls)
           = last.out \o (IF last.cursor < seg.end THEN <<Slice(last.cursor, seg.end, "away")>> ELSE <<>>)
    BY DEF SplitAwayOnCalls
  <1> HIDE DEF last, n
  <1> DEFINE at(m) == IF m = 0 THEN seg.start ELSE clips[m].end
             Split(g, m) == /\ g.cursor = at(m) /\ Tiles(g.out, seg.start, at(m), clips)
                            /\ seg.start <= at(m)
  <1>6. Split(base, 0)
    <2>1. base.cursor = seg.start /\ base.out = <<>>
      OBVIOUS
    <2> HIDE DEF base
    <2>2. base.out \in Seq(AwaySlice) /\ Len(base.out) = 0
      BY <2>1
    <2>3. Tiles(base.out, seg.start, seg.start, clips)
      BY <1>0, <2>2 DEF Tiles, Ordered
    <2> QED
      BY <1>0, <2>1, <2>3
  \* between two clips no call is on
  <1>7. ASSUME NEW m \in 0 .. n, NEW t \in Int, at(m) <= t, m < n => t < clips[m + 1].start
        PROVE  ~Covered(clips, t)
    <2> SUFFICES ASSUME NEW i \in 1 .. n, Covers(clips[i], t)
                 PROVE  FALSE
      BY DEF Covered, n
    <2>1. clips[i].start <= t /\ t < clips[i].end
      BY DEF Covers
    <2>2. CASE i <= m
      <3>1. m \in 1 .. n /\ m # 0
        BY <1>0, <2>2
      <3>2. i = m \/ clips[i].end <= clips[m].start
        BY <1>3, <2>2, <3>1
      <3>3. clips[i].end <= clips[m].end
        BY <1>1, <1>2, <3>1, <3>2
      <3> QED
        BY <1>1, <1>7, <2>1, <3>1, <3>3
    <2>3. CASE ~(i <= m)
      <3>1. m + 1 \in 1 .. n /\ m < n
        BY <1>0, <2>3
      <3>2. i = m + 1 \/ m + 1 < i
        BY <1>0, <2>3
      <3>3. m + 1 < i => clips[m + 1].end <= clips[i].start
        BY <1>3, <3>1
      <3>4. clips[m + 1].start <= clips[i].start
        BY <1>1, <1>2, <3>1, <3>2, <3>3
      <3> QED
        BY <1>1, <1>7, <2>1, <3>1, <3>4
    <2> QED
      BY <2>2, <2>3
  <1>8. ASSUME NEW m \in 0 .. n - 1, NEW g, Split(g, m)
        PROVE  Split(SplitStep(g, clips[m + 1]), m + 1)
    <2> DEFINE i == m + 1
               c == g.cursor
               next == SplitStep(g, clips[i])
               before == IF c < clips[i].start
                         THEN Append(g.out, Slice(c, clips[i].start, "away")) ELSE g.out
    <2>1. i \in 1 .. n /\ m \in 0 .. n /\ m < n /\ i # 0
      BY <1>0
    <2>2. c = at(m) /\ Tiles(g.out, seg.start, c, clips) /\ seg.start <= c
      BY <1>8
    <2>3. at(m) \in Int /\ at(m) <= clips[i].start
      <3>1. CASE m = 0
        BY <1>0, <1>2, <2>1, <3>1
      <3>2. CASE m # 0
        <4>1. m \in 1 .. n /\ m < i
          BY <2>1, <3>2
        <4> QED
          BY <1>1, <1>3, <2>1, <3>2, <4>1
      <3> QED
        BY <3>1, <3>2
    <2>4. /\ clips[i].start \in Int /\ clips[i].end \in Int /\ clips[i].start < clips[i].end
          /\ seg.start <= clips[i].start
      BY <1>1, <1>2, <2>1
    <2>5. Tiles(before, seg.start, clips[i].start, clips)
      <3>1. CASE c < clips[i].start
        <4>1. ASSUME NEW t \in Int, c <= t, t < clips[i].start
              PROVE  "away" = "meeting" <=> Covered(clips, t)
          <5>1. ~Covered(clips, t)
            BY <1>7, <2>1, <2>2, <4>1
          <5> QED
            BY <5>1
        <4>2. before = Append(g.out, Slice(c, clips[i].start, "away"))
          BY <3>1
        <4> HIDE DEF before
        <4>3. PICK cc \in Int, d \in Int, o \in {g.out} : cc = c /\ d = clips[i].start /\ o = g.out
          BY <2>2, <2>3, <2>4
        <4> HIDE DEF c
        <4>4. /\ seg.start <= cc /\ cc < d /\ Tiles(o, seg.start, cc, clips)
              /\ \A t \in Int : cc <= t /\ t < d => ("away" = "meeting" <=> Covered(clips, t))
          BY <2>2, <3>1, <4>1, <4>3
        <4>5. Tiles(Append(o, Slice(cc, d, "away")), seg.start, d, clips)
          BY <1>0, <4>4, TileMore
        <4> QED
          BY <4>2, <4>3, <4>5
      <3>2. CASE ~(c < clips[i].start)
        <4>1. c = clips[i].start
          BY <2>2, <2>3, <2>4, <3>2
        <4> QED
          BY <2>2, <3>2, <4>1
      <3> QED
        BY <3>1, <3>2
    <2>6. before \in Seq(AwaySlice)
      BY <2>5 DEF Tiles
    <2>7. /\ next.cursor = clips[i].end
          /\ next.out = before \o <<Slice(clips[i].start, clips[i].end, "meeting")>>
      BY Zenon DEF SplitStep
    <2> HIDE DEF before, next
    <2>8. next.out = Append(before, Slice(clips[i].start, clips[i].end, "meeting"))
      BY <2>6, <2>7
    <2>9. ASSUME NEW t \in Int, clips[i].start <= t, t < clips[i].end
          PROVE  "meeting" = "meeting" <=> Covered(clips, t)
      BY <2>1, <2>9 DEF Covered, Covers, n
    <2>10. Tiles(next.out, seg.start, clips[i].end, clips)
      <3>1. PICK c1 \in Int, d1 \in Int : c1 = clips[i].start /\ d1 = clips[i].end
        BY <2>4
      <3>2. /\ seg.start <= c1 /\ c1 < d1 /\ Tiles(before, seg.start, c1, clips)
            /\ \A t \in Int : c1 <= t /\ t < d1 => ("meeting" = "meeting" <=> Covered(clips, t))
        BY <2>4, <2>5, <2>9, <3>1
      <3>3. Tiles(Append(before, Slice(c1, d1, "meeting")), seg.start, d1, clips)
        BY <1>0, <3>2, TileMore
      <3> QED
        BY <2>8, <3>1, <3>3
    <2> QED
      BY <1>0, <2>1, <2>4, <2>7, <2>10 DEF next
  <1>9. Split(last, n)
    <2> DEFINE T == {m \in 0 .. n : Split(acc[m], m)}
    <2> HIDE DEF Split
    <2>1. 0 \in T
      BY <1>0, <1>4, <1>6
    <2>2. \A m \in 0 .. n - 1 : m \in T => m + 1 \in T
      <3>0. SUFFICES ASSUME NEW m \in 0 .. n - 1, Split(acc[m], m)
                     PROVE  Split(acc[m + 1], m + 1)
        BY <1>0
      <3>1. m + 1 \in 1 .. n /\ (m + 1) - 1 = m
        BY <1>0
      <3>2. acc[m + 1] = SplitStep(acc[m], clips[m + 1])
        BY <1>4, <3>1
      <3> QED
        BY <1>8, <3>0, <3>2
    <2>3. 0 .. n \subseteq T
      <3> HIDE DEF T
      <3> QED
        BY <1>0, <2>1, <2>2, Splitting!UpTo, Zenon
    <2>4. n \in T
      BY <1>0, <2>3
    <2> QED
      BY <1>4, <2>4
  <1> DEFINE e == at(n)
  <1>10. e \in Int /\ seg.start <= e /\ e <= seg.end
    <2>1. CASE n = 0
      BY <1>0, <2>1
    <2>2. CASE n # 0
      <3>1. n \in 1 .. n
        BY <1>0, <2>2
      <3> QED
        BY <1>0, <1>1, <1>2, <1>9, <2>2, <3>1
    <2> QED
      BY <2>1, <2>2
  <1>11. last.cursor = e /\ Tiles(last.out, seg.start, e, clips)
    BY <1>9
  <1>12. \A t \in Int : e <= t => ~Covered(clips, t)
    BY <1>0, <1>7
  <1> HIDE DEF e
  <1>13. last.out \in Seq(AwaySlice)
    BY <1>11 DEF Tiles
  <1>14. CASE e < seg.end
    <2>1. SplitAwayOnCalls(seg, calls) = Append(last.out, Slice(e, seg.end, "away"))
      BY <1>5, <1>11, <1>13, <1>14
    <2>2. \A t \in Int : e <= t /\ t < seg.end => ("away" = "meeting" <=> Covered(clips, t))
      BY <1>12
    <2>3. PICK d \in Int : d = seg.end
      BY <1>0
    <2>4. Tiles(Append(last.out, Slice(e, d, "away")), seg.start, d, clips)
      BY <1>0, <1>10, <1>11, <1>14, <2>2, <2>3, TileMore
    <2> QED
      BY <2>1, <2>3, <2>4
  <1>15. CASE ~(e < seg.end)
    <2>1. SplitAwayOnCalls(seg, calls) = last.out
      BY <1>5, <1>11, <1>13, <1>15
    <2>2. e = seg.end
      BY <1>0, <1>10, <1>15
    <2> QED
      BY <1>11, <2>1, <2>2
  <1> QED
    BY <1>14, <1>15

\* The segments of a list follow each other.
Apart(list) == \A k, l \in 1 .. Len(list) : k < l => list[k].end <= list[l].start

(* What Only keeps stays in order.                                          *)
LEMMA OnlyApart ==
    ASSUME NEW S, NEW list \in Seq(S), NEW wanted, Apart(list)
    PROVE  Apart(Only(list, wanted))
  <1> DEFINE kept == Only(list, wanted)
  <1>1. PICK from \in [1 .. Len(kept) -> 1 .. Len(list)] :
            /\ \A p \in 1 .. Len(kept) : kept[p] = list[from[p]] /\ kept[p] \in wanted
            /\ \A p, q \in 1 .. Len(kept) : p < q => from[p] < from[q]
    BY OnlyKeeps
  <1> HIDE DEF kept
  <1>2. ASSUME NEW p \in 1 .. Len(kept), NEW q \in 1 .. Len(kept), p < q
        PROVE  kept[p].end <= kept[q].start
    <2>1. PICK i \in 1 .. Len(list), j \in 1 .. Len(list) : i = from[p] /\ j = from[q]
      OBVIOUS
    <2>2. kept[p] = list[i] /\ kept[q] = list[j] /\ i < j
      BY <1>1, <1>2, <2>1
    <2> QED
      BY <2>2 DEF Apart
  <1> QED
    BY <1>2 DEF Apart, kept

(* And covers what its elements cover.                                      *)
LEMMA OnlyCovers ==
    ASSUME NEW S, NEW list \in Seq(S), NEW wanted
    PROVE  /\ \A k \in 1 .. Len(Only(list, wanted)) : /\ Only(list, wanted)[k] \in wanted
                                                      /\ \E i \in 1 .. Len(list) : Only(list, wanted)[k] = list[i]
           /\ \A t : Covered(Only(list, wanted), t) <=>
                     \E i \in 1 .. Len(list) : list[i] \in wanted /\ Covers(list[i], t)
  <1> DEFINE kept == Only(list, wanted)
  <1>1. PICK from \in [1 .. Len(kept) -> 1 .. Len(list)] :
            /\ \A p \in 1 .. Len(kept) : kept[p] = list[from[p]] /\ kept[p] \in wanted
            /\ \A i \in 1 .. Len(list) : list[i] \in wanted =>
                  \E p \in 1 .. Len(kept) : from[p] = i
    BY OnlyKeeps
  <1> HIDE DEF kept
  <1>2. ASSUME NEW p \in 1 .. Len(kept)
        PROVE  \E i \in 1 .. Len(list) : kept[p] = list[i] /\ list[i] \in wanted
    <2>1. PICK i \in 1 .. Len(list) : i = from[p]
      OBVIOUS
    <2>2. kept[p] = list[i] /\ kept[p] \in wanted
      BY <1>1, <2>1
    <2> QED
      BY <2>2
  <1>3. ASSUME NEW t, NEW i \in 1 .. Len(list), list[i] \in wanted, Covers(list[i], t)
        PROVE  Covered(kept, t)
    <2>1. PICK p \in 1 .. Len(kept) : from[p] = i
      BY <1>1, <1>3
    <2>2. kept[p] = list[i]
      BY <1>1, <2>1
    <2> QED
      BY <1>3, <2>2 DEF Covered
  <1>4. ASSUME NEW t, Covered(kept, t)
        PROVE  \E i \in 1 .. Len(list) : list[i] \in wanted /\ Covers(list[i], t)
    <2>1. PICK p \in 1 .. Len(kept) : Covers(kept[p], t)
      BY <1>4 DEF Covered
    <2> QED
      BY <1>2, <2>1
  <1> QED
    BY <1>2, <1>3, <1>4 DEF kept

(* The calls, cut to an absence.                                            *)
LEMMA ClipsOf ==
    ASSUME NEW seg \in Interval, NEW calls \in Seq(Session), Apart(calls),
           \A k \in 1 .. Len(calls) : calls[k].start < calls[k].end
    PROVE  /\ Clips(seg, calls) \in Seq(Interval)
           /\ Ordered(Clips(seg, calls), seg.start, seg.end)
           /\ \A t \in Int : seg.start <= t /\ t < seg.end =>
                 (Covered(Clips(seg, calls), t) <=> Covered(calls, t))
  <1> DEFINE n == Len(calls)
             cuts == [i \in DOMAIN calls |-> [start |-> Max({seg.start, calls[i].start}),
                                              end |-> Min({seg.end, calls[i].end})]]
             some == {c \in Range(cuts) : c.start < c.end}
             kept == Only(cuts, some)
  <1>0. n \in Nat /\ DOMAIN calls = 1 .. n /\ seg.start \in Int /\ seg.end \in Int
    BY DEF Interval
  <1>1. ASSUME NEW i \in 1 .. n
        PROVE  calls[i].start \in Int /\ calls[i].end \in Int
    <2>1. calls[i] \in Session
      OBVIOUS
    <2> QED
      BY <2>1 DEF Session
  <1>2. Clips(seg, calls) = kept
    BY DEF Clips
  <1>3. \A i \in 1 .. n : cuts[i] = [start |-> Max({seg.start, calls[i].start}),
                                     end |-> Min({seg.end, calls[i].end})]
    BY <1>0
  <1>4. DOMAIN cuts = 1 .. n
    BY <1>0
  <1> HIDE DEF cuts
  <1>5. ASSUME NEW i \in 1 .. n
        PROVE  /\ cuts[i] \in Interval
               /\ cuts[i].start = IF seg.start <= calls[i].start THEN calls[i].start ELSE seg.start
               /\ cuts[i].end = IF seg.end <= calls[i].end THEN seg.end ELSE calls[i].end
    <2>1. PICK a \in Int, b \in Int : a = calls[i].start /\ b = calls[i].end
      BY <1>1
    <2>2. Max({seg.start, a}) = (IF seg.start <= a THEN a ELSE seg.start)
          /\ Min({seg.end, b}) = (IF seg.end <= b THEN seg.end ELSE b)
      BY <1>0, MaxOfTwo, MinOfTwo
    <2>3. cuts[i] = [start |-> IF seg.start <= a THEN a ELSE seg.start,
                     end |-> IF seg.end <= b THEN seg.end ELSE b]
      BY <1>3, <2>1, <2>2
    <2> QED
      BY <1>0, <2>1, <2>3 DEF Interval
  <1>6. cuts \in Seq(Interval) /\ Len(cuts) = n
    <2>1. cuts = [i \in 1 .. n |-> cuts[i]]
      BY <1>0 DEF cuts
    <2>2. cuts \in [1 .. n -> Interval]
      BY <1>5, <2>1
    <2> QED
      BY <1>0, <2>2
  <1>7. \A i \in 1 .. n : cuts[i] \in some <=> cuts[i].start < cuts[i].end
    <2>1. \A i \in 1 .. n : cuts[i] \in Range(cuts)
      BY <1>4 DEF Range
    <2> QED
      BY <2>1
  <1>8. \A c \in some : c.start < c.end
    OBVIOUS
  <1> HIDE DEF some
  <1>9. Apart(cuts)
    <2> SUFFICES ASSUME NEW k \in 1 .. n, NEW l \in 1 .. n, k < l
                 PROVE  cuts[k].end <= cuts[l].start
      BY <1>6 DEF Apart
    <2>1. calls[k].end <= calls[l].start
      BY DEF Apart
    <2>2. /\ cuts[k].end <= calls[k].end /\ calls[l].start <= cuts[l].start
          /\ cuts[k].end \in Int /\ cuts[l].start \in Int
      <3>1. cuts[k].end = IF seg.end <= calls[k].end THEN seg.end ELSE calls[k].end
        BY <1>5
      <3>2. cuts[l].start = IF seg.start <= calls[l].start THEN calls[l].start ELSE seg.start
        BY <1>5
      <3> QED
        BY <1>0, <1>1, <3>1, <3>2
    <2> QED
      BY <1>1, <2>1, <2>2
  <1>10. kept \in Seq(Interval) /\ Apart(kept)
    <2>1. kept \in Seq(Interval)
      BY <1>6, OnlyKeeps
    <2>2. Apart(kept)
      BY <1>6, <1>9, OnlyApart
    <2> QED
      BY <2>1, <2>2
  <1>11. /\ \A k \in 1 .. Len(kept) : kept[k] \in some /\ \E i \in 1 .. n : kept[k] = cuts[i]
         /\ \A t : Covered(kept, t) <=> \E i \in 1 .. n : cuts[i] \in some /\ Covers(cuts[i], t)
    BY <1>6, OnlyCovers
  <1> HIDE DEF kept
  <1>12. Ordered(kept, seg.start, seg.end)
    <2>1. ASSUME NEW k \in 1 .. Len(kept)
          PROVE  seg.start <= kept[k].start /\ kept[k].start < kept[k].end /\ kept[k].end <= seg.end
      <3>1. PICK i \in 1 .. n : kept[k] = cuts[i]
        BY <1>11
      <3>2. kept[k].start < kept[k].end
        BY <1>8, <1>11
      <3>3. seg.start <= cuts[i].start /\ cuts[i].end <= seg.end
        <4>1. cuts[i].end = IF seg.end <= calls[i].end THEN seg.end ELSE calls[i].end
          BY <1>5
        <4>2. cuts[i].start = IF seg.start <= calls[i].start THEN calls[i].start ELSE seg.start
          BY <1>5
        <4> QED
          BY <1>0, <1>1, <4>1, <4>2
      <3> QED
        BY <3>1, <3>2, <3>3
    <2> QED
      BY <1>10, <2>1 DEF Ordered, Apart
  <1>13. ASSUME NEW t \in Int, seg.start <= t, t < seg.end
         PROVE  Covered(kept, t) <=> Covered(calls, t)
    <2>1. ASSUME NEW i \in 1 .. n
          PROVE  cuts[i] \in some /\ Covers(cuts[i], t) <=> Covers(calls[i], t)
      <3>1. cuts[i].end = IF seg.end <= calls[i].end THEN seg.end ELSE calls[i].end
        BY <1>5
      <3>2. cuts[i].start = IF seg.start <= calls[i].start THEN calls[i].start ELSE seg.start
        BY <1>5
      <3>3. cuts[i] \in some <=> cuts[i].start < cuts[i].end
        BY <1>7
      <3>4. calls[i].start \in Int /\ calls[i].end \in Int
        BY <1>1
      <3> QED
        BY <1>0, <1>13, <3>1, <3>2, <3>3, <3>4 DEF Covers
    <2> QED
      BY <1>11, <2>1, Zenon DEF Covered
  <1> QED
    BY <1>2, <1>10, <1>12, <1>13

(* The calls among the sessions.                                            *)
LEMMA CallsOf ==
    ASSUME NEW sessions \in Seq(Session), NEW to, Ordered(sessions, 0, to)
    PROVE  /\ Calls(sessions) \in Seq(Session) /\ Apart(Calls(sessions))
           /\ \A k \in 1 .. Len(Calls(sessions)) : Calls(sessions)[k].start < Calls(sessions)[k].end
           /\ \A t : Covered(Calls(sessions), t) <=>
                     \E j \in Covering(sessions, t) : sessions[j].phase = "in_call"
  <1> DEFINE some == {s \in Range(sessions) : s.phase = "in_call"}
             calls == Only(sessions, some)
             n == Len(sessions)
  <1>0. n \in Nat /\ DOMAIN sessions = 1 .. n
    OBVIOUS
  <1>1. Calls(sessions) = calls
    BY DEF Calls
  <1>2. \A i \in 1 .. n : sessions[i] \in some <=> sessions[i].phase = "in_call"
    BY <1>0 DEF Range
  <1> HIDE DEF some
  <1>3. Apart(sessions)
    BY DEF Ordered, Apart
  <1>4. calls \in Seq(Session) /\ Apart(calls)
    <2>1. calls \in Seq(Session)
      BY OnlyKeeps
    <2>2. Apart(calls)
      BY <1>3, OnlyApart
    <2> QED
      BY <2>1, <2>2
  <1>5. /\ \A k \in 1 .. Len(calls) : \E i \in 1 .. n : calls[k] = sessions[i]
        /\ \A t : Covered(calls, t) <=> \E i \in 1 .. n : sessions[i] \in some /\ Covers(sessions[i], t)
    <2>1. PICK c : c = calls
      OBVIOUS
    <2>2. c = Only(sessions, some)
      BY <2>1
    <2>3. /\ \A k \in 1 .. Len(c) : \E i \in 1 .. Len(sessions) : c[k] = sessions[i]
          /\ \A t : Covered(c, t) <=>
                \E i \in 1 .. Len(sessions) : sessions[i] \in some /\ Covers(sessions[i], t)
      BY <2>2, OnlyCovers
    <2> HIDE DEF calls
    <2> QED
      BY <2>1, <2>3
  <1> HIDE DEF calls
  <1>6. \A k \in 1 .. Len(calls) : calls[k].start < calls[k].end
    <2>1. \A i \in 1 .. n : sessions[i].start < sessions[i].end
      BY DEF Ordered
    <2> QED
      BY <1>5, <2>1
  <1>7. \A t, j : j \in Covering(sessions, t) <=> j \in 1 .. n /\ Covers(sessions[j], t)
    BY <1>0 DEF Covering, Covers
  <1>8. ASSUME NEW t
        PROVE  Covered(calls, t) <=> \E j \in Covering(sessions, t) : sessions[j].phase = "in_call"
    BY <1>2, <1>5, <1>7
  <1> QED
    BY <1>1, <1>4, <1>6, <1>8

(* Splitting the absences keeps what they cover, second by second.          *)
LEMMA Annotated ==
    ASSUME NEW absence \in Seq(Interval), NEW to \in Int, Inside(absence, to),
           NEW sessions \in Seq(Session), Ordered(sessions, 0, to)
    PROVE  LET out == AnnotateAway(absence, sessions)
           IN  /\ out \in Seq(AwaySlice) /\ Inside(out, to)
               /\ \A t \in Int :
                     /\ Cardinality(Covering(out, t)) = Cardinality(Covering(absence, t))
                     /\ Covered(out, t) <=> Covered(absence, t)
                     /\ \A i \in Covering(out, t) :
                           out[i].presence = "meeting"
                              <=> \E j \in Covering(sessions, t) : sessions[j].phase = "in_call"
  <1> DEFINE n == Len(absence)
             calls == Calls(sessions)
             f == [i \in DOMAIN absence |-> SplitAwayOnCalls(absence[i], calls)]
             out == FlattenSeq(f)
             Called(t) == \E j \in Covering(sessions, t) : sessions[j].phase = "in_call"
  <1>0. n \in Nat /\ DOMAIN absence = 1 .. n
    OBVIOUS
  <1>1. ASSUME NEW i \in 1 .. n
        PROVE  /\ absence[i] \in Interval /\ absence[i].start \in Int /\ absence[i].end \in Int
               /\ 0 <= absence[i].start /\ absence[i].start < absence[i].end /\ absence[i].end <= to
    <2>1. absence[i] \in Interval
      OBVIOUS
    <2>2. 0 <= absence[i].start /\ absence[i].start < absence[i].end /\ absence[i].end <= to
      BY DEF Inside
    <2> QED
      BY <2>1, <2>2, Zenon DEF Interval
  <1>2. /\ calls \in Seq(Session) /\ Apart(calls)
        /\ \A k \in 1 .. Len(calls) : calls[k].start < calls[k].end
        /\ \A t : Covered(calls, t) <=> Called(t)
    BY CallsOf
  <1> HIDE DEF calls, Called
  <1>3. ASSUME NEW i \in 1 .. n
        PROVE  /\ f[i] \in Seq(AwaySlice) /\ Ordered(f[i], absence[i].start, absence[i].end)
               /\ \A t \in Int : absence[i].start <= t /\ t < absence[i].end => Covered(f[i], t)
               /\ \A k \in 1 .. Len(f[i]), t \in Int : Covers(f[i][k], t) =>
                     /\ absence[i].start <= t /\ t < absence[i].end
                     /\ f[i][k].presence = "meeting" <=> Called(t)
    <2> DEFINE seg == absence[i]
               clips == Clips(seg, calls)
    <2>1. f[i] = SplitAwayOnCalls(seg, calls)
      BY <1>0
    <2>2. seg \in Interval /\ seg.start < seg.end /\ seg.start \in Int /\ seg.end \in Int
      BY <1>1
    <2> HIDE DEF seg, f
    <2>3. /\ clips \in Seq(Interval) /\ Ordered(clips, seg.start, seg.end)
          /\ \A t \in Int : seg.start <= t /\ t < seg.end => (Covered(clips, t) <=> Covered(calls, t))
      BY <1>2, <2>2, ClipsOf
    <2>4. Tiles(f[i], seg.start, seg.end, clips)
      <3>1. PICK c : c = clips
        OBVIOUS
      <3> HIDE DEF clips
      <3>2. c \in Seq(Interval) /\ Ordered(c, seg.start, seg.end)
        BY <2>3, <3>1
      <3>3. c = Clips(seg, calls)
        BY <3>1 DEF clips
      <3> QED
        BY <2>1, <2>2, <3>1, <3>2, <3>3, SplitTiles
    <2> HIDE DEF clips
    <2>5. /\ f[i] \in Seq(AwaySlice) /\ Ordered(f[i], seg.start, seg.end)
          /\ \A t \in Int : seg.start <= t /\ t < seg.end => Covered(f[i], t)
      BY <2>4 DEF Tiles
    <2>6. ASSUME NEW k \in 1 .. Len(f[i]), NEW t \in Int, Covers(f[i][k], t)
          PROVE  /\ seg.start <= t /\ t < seg.end
                 /\ f[i][k].presence = "meeting" <=> Called(t)
      <3>1. seg.start <= f[i][k].start /\ f[i][k].end <= seg.end
        BY <2>5 DEF Ordered
      <3>2. f[i][k] \in AwaySlice
        BY <2>5
      <3>3. f[i][k].start \in Int /\ f[i][k].end \in Int
        BY <3>2 DEF AwaySlice
      <3>4. seg.start <= t /\ t < seg.end
        BY <2>2, <2>6, <3>1, <3>3 DEF Covers
      <3>5. f[i][k].presence = "meeting" <=> Covered(clips, t)
        BY <2>4, <2>6, Zenon DEF Tiles
      <3> QED
        BY <1>2, <2>3, <3>4, <3>5, Zenon
    <2> QED
      BY <2>5, <2>6, Zenon DEF seg
  <1>4. f \in Seq(Seq(AwaySlice)) /\ Len(f) = n
    <2>1. f = [i \in 1 .. n |-> f[i]]
      BY <1>0
    <2> HIDE DEF f
    <2>2. f \in [1 .. n -> Seq(AwaySlice)]
      BY <1>3, <2>1
    <2> QED
      BY <1>0, <2>2
  <1>5. AnnotateAway(absence, sessions) = out
    BY DEF AnnotateAway, calls
  <1> HIDE DEF f
  <1>6. out \in Seq(AwaySlice) /\ \E piece, place : Origin(f, out, piece, place)
    BY <1>4, FlattenOrigin
  <1> HIDE DEF out
  <1>7. PICK piece, place : Origin(f, out, piece, place)
    BY <1>6
  <1>8. Len(out) \in Nat /\ DOMAIN out = 1 .. Len(out)
    BY <1>6
  <1>9. ASSUME NEW p \in 1 .. Len(out)
        PROVE  /\ piece[p] \in 1 .. n /\ place[p] \in 1 .. Len(f[piece[p]])
               /\ out[p] = f[piece[p]][place[p]]
    BY <1>4, <1>7, Zenon DEF Origin
  <1>10. Inside(out, to)
    <2> SUFFICES ASSUME NEW p \in 1 .. Len(out)
                 PROVE  0 <= out[p].start /\ out[p].start < out[p].end /\ out[p].end <= to
      BY DEF Inside
    <2>0. PICK i \in 1 .. n : \E k \in 1 .. Len(f[i]) : out[p] = f[i][k]
      BY <1>9, Zenon
    <2>1. PICK k \in 1 .. Len(f[i]) : out[p] = f[i][k]
      BY <2>0
    <2>2. /\ absence[i].start <= f[i][k].start /\ f[i][k].start < f[i][k].end
          /\ f[i][k].end <= absence[i].end
      BY <1>3 DEF Ordered
    <2>3. out[p] \in AwaySlice
      BY <1>6
    <2>4. PICK x \in Int, y \in Int : x = out[p].start /\ y = out[p].end
      BY <2>3, Zenon DEF AwaySlice
    <2>5. PICK a \in Int, b \in Int : /\ a = absence[i].start /\ b = absence[i].end
                                      /\ 0 <= a /\ b <= to
      BY <1>1, Zenon
    <2>6. a <= x /\ x < y /\ y <= b
      BY <2>1, <2>2, <2>4, <2>5
    <2>7. 0 <= x /\ x < y /\ y <= to
      BY <2>5, <2>6
    <2> QED
      BY <2>4, <2>7
  <1>11. ASSUME NEW t \in Int
         PROVE  /\ Cardinality(Covering(out, t)) = Cardinality(Covering(absence, t))
                /\ Covered(out, t) <=> Covered(absence, t)
                /\ \A i \in Covering(out, t) : out[i].presence = "meeting" <=> Called(t)
    <2> DEFINE S == Covering(out, t)
               R == Covering(absence, t)
    <2>1. S = {p \in 1 .. Len(out) : Covers(out[p], t)} /\ R = {i \in 1 .. n : Covers(absence[i], t)}
      BY <1>0, <1>8 DEF Covering, Covers
    <2> HIDE DEF S, R
    <2>2. ASSUME NEW p \in S
          PROVE  /\ p \in 1 .. Len(out) /\ piece[p] \in R
                 /\ place[p] \in 1 .. Len(f[piece[p]]) /\ Covers(f[piece[p]][place[p]], t)
                 /\ out[p].presence = "meeting" <=> Called(t)
      <3>1. p \in 1 .. Len(out) /\ Covers(out[p], t)
        BY <2>1
      <3>2. PICK i \in 1 .. n : i = piece[p]
        BY <1>9, <3>1
      <3>3. PICK k \in 1 .. Len(f[i]) : k = place[p] /\ out[p] = f[i][k]
        BY <1>9, <3>1, <3>2, Zenon
      <3>4. absence[i].start <= t /\ t < absence[i].end /\ (f[i][k].presence = "meeting" <=> Called(t))
        BY <1>3, <3>1, <3>3, Zenon
      <3>5. i \in R
        BY <2>1, <3>4, Zenon DEF Covers
      <3> QED
        BY <3>1, <3>2, <3>3, <3>4, <3>5
    <2>3. ASSUME NEW i \in R
          PROVE  \E p \in S : piece[p] = i
      <3>1. i \in 1 .. n /\ absence[i].start <= t /\ t < absence[i].end
        BY <2>1 DEF Covers
      <3>2. PICK k \in 1 .. Len(f[i]) : Covers(f[i][k], t)
        BY <1>3, <3>1, Zenon DEF Covered
      <3>3. PICK p \in 1 .. Len(out) : piece[p] = i /\ place[p] = k
        BY <1>4, <1>7, <3>1 DEF Origin
      <3>4. out[p] = f[i][k]
        BY <1>9, <3>3, Zenon
      <3> QED
        BY <2>1, <3>2, <3>3, <3>4, Zenon
    <2>4. ASSUME NEW p \in S, NEW q \in S, piece[p] = piece[q]
          PROVE  p = q
      <3>1. /\ p \in 1 .. Len(out) /\ q \in 1 .. Len(out) /\ piece[p] \in R
        BY <2>2
      <3>2. PICK i \in 1 .. n : i = piece[p] /\ i = piece[q]
        BY <2>1, <2>4, <3>1
      <3>3. PICK k \in 1 .. Len(f[i]) : k = place[p] /\ Covers(f[i][k], t)
        BY <2>2, <3>2, Zenon
      <3>4. PICK l \in 1 .. Len(f[i]) : l = place[q] /\ Covers(f[i][l], t)
        BY <2>2, <3>2, Zenon
      <3>5. f[i] \in Seq(AwaySlice) /\ Ordered(f[i], absence[i].start, absence[i].end)
        BY <1>3
      <3>6. \A m \in 1 .. Len(f[i]) : f[i][m].start \in Int /\ f[i][m].end \in Int
        <4> SUFFICES ASSUME NEW m \in 1 .. Len(f[i])
                     PROVE  f[i][m].start \in Int /\ f[i][m].end \in Int
          OBVIOUS
        <4>1. f[i][m] \in AwaySlice
          BY <3>5
        <4> QED
          BY <4>1, Zenon DEF AwaySlice
      <3>7. k = l
        <4>1. PICK g \in Seq(AwaySlice) : g = f[i]
          BY <3>5
        <4>2. /\ Ordered(g, absence[i].start, absence[i].end)
              /\ \A m \in 1 .. Len(g) : g[m].start \in Int /\ g[m].end \in Int
              /\ k \in 1 .. Len(g) /\ l \in 1 .. Len(g) /\ Covers(g[k], t) /\ Covers(g[l], t)
          BY <3>3, <3>4, <3>5, <3>6, <4>1
        <4>3. /\ Covering(g, t) = {m \in 1 .. Len(g) : Covers(g[m], t)}
              /\ \A x, y \in Covering(g, t) : x = y
          BY <4>2, CoversOnce, Zenon
        <4> QED
          BY <4>2, <4>3, Zenon
      <3>8. ~(p < q) /\ ~(q < p)
        <4>1. p < q => piece[p] < piece[q] \/ place[p] < place[q]
          BY <1>7, <3>1 DEF Origin
        <4>2. q < p => piece[q] < piece[p] \/ place[q] < place[p]
          BY <1>7, <3>1 DEF Origin
        <4>3. ~(k < k) /\ ~(i < i)
          BY <1>0, <1>3
        <4> QED
          BY <3>2, <3>3, <3>4, <3>7, <4>1, <4>2, <4>3
      <3> QED
        BY <1>8, <3>1, <3>8
    <2>5. Cardinality(S) = Cardinality(R)
      <3> DEFINE b == [p \in S |-> piece[p]]
      <3>1. b \in [S -> R]
        BY <2>2
      <3>2. \A p, q \in S : b[p] = b[q] => p = q
        BY <2>4
      <3>3. \A i \in R : \E p \in S : b[p] = i
        BY <2>3
      <3> HIDE DEF b
      <3>4. b \in Bijection(S, R)
        BY <3>1, <3>2, <3>3 DEF Bijection, Injection, Surjection, IsInjective
      <3>5. ExistsBijection(S, R)
        BY <3>4 DEF ExistsBijection
      <3>6. IsFiniteSet(S)
        <4>1. IsFiniteSet(1 .. Len(out))
          BY <1>8, FS_Interval
        <4>2. S \subseteq 1 .. Len(out)
          BY <2>1
        <4> QED
          BY <4>1, <4>2, FS_Subset, Zenon
      <3> QED
        BY <3>5, <3>6, FS_Bijection
    <2>6. Covered(out, t) <=> S # {}
      BY <2>1 DEF Covered
    <2>7. Covered(absence, t) <=> R # {}
      BY <2>1 DEF Covered
    <2>8. S # {} <=> R # {}
      BY <2>2, <2>3
    <2> QED
      BY <2>2, <2>5, <2>6, <2>7, <2>8 DEF S, R
  <1> QED
    BY <1>5, <1>6, <1>10, <1>11 DEF Called

-----------------------------------------------------------------------------
(* The absences of the recap *)

(* What is kept of rows is drawn from them.                                 *)
LEMMA OnlyDrawn ==
    ASSUME NEW S, NEW rows \in Seq(S), NEW wanted
    PROVE  Only(rows, wanted) \in Seq(S) /\ Drawn(Only(rows, wanted), rows)
  <1> DEFINE kept == Only(rows, wanted)
  <1>1. kept \in Seq(S)
    BY OnlyKeeps
  <1>2. PICK from \in [1 .. Len(kept) -> 1 .. Len(rows)] :
            /\ \A p \in 1 .. Len(kept) : kept[p] = rows[from[p]]
            /\ \A p, q \in 1 .. Len(kept) : p < q => from[p] < from[q]
    BY OnlyKeeps, SMTT(30)
  <1> HIDE DEF kept
  <1>3. ASSUME NEW p \in 1 .. Len(kept), NEW q \in 1 .. Len(kept), p <= q
        PROVE  from[p] <= from[q]
    <2>1. PICK i \in 1 .. Len(rows), j \in 1 .. Len(rows) : i = from[p] /\ j = from[q]
      OBVIOUS
    <2>2. p = q \/ p < q
      BY <1>1, <1>3
    <2> QED
      BY <1>2, <2>1, <2>2
  <1>4. \A p \in 1 .. Len(kept) : kept[p].ts = rows[from[p]].ts
    BY <1>2
  <1>5. Drawn(kept, rows)
    BY <1>3, <1>4 DEF Drawn
  <1> QED
    BY <1>1, <1>5 DEF kept

(* The rows of one kind are in order, and none is of the future.            *)
LEMMA KindOf ==
    ASSUME NEW rows, Stored(rows), Horizon \in Int, NEW kind
    PROVE  /\ OfKind(rows, kind) \in Seq(Row) /\ Timed(OfKind(rows, kind))
           /\ InOrder(OfKind(rows, kind)) /\ Within(OfKind(rows, kind), 0, Horizon)
  <1> DEFINE wanted == {row \in Range(rows) : row.kind = kind}
             kept == Only(rows, wanted)
  <1>1. rows \in Seq(Row) /\ InOrder(rows) /\ Within(rows, 0, Horizon)
    BY DEF Stored
  <1>2. OfKind(rows, kind) = kept
    BY DEF OfKind
  <1> HIDE DEF wanted
  <1>3. kept \in Seq(Row) /\ Drawn(kept, rows)
    BY <1>1, OnlyDrawn
  <1> HIDE DEF kept
  <1>4. InOrder(kept) /\ Within(kept, 0, Horizon)
    BY <1>1, <1>3, DrawnInOrder
  <1>5. ASSUME NEW i \in 1 .. Len(kept)
        PROVE  kept[i].ts \in Int
    <2>1. kept[i] \in Row
      BY <1>3
    <2> QED
      BY <2>1 DEF Row
  <1> QED
    BY <1>2, <1>3, <1>4, <1>5 DEF Timed

(* Lists of segments of the window make a list of segments of the window.   *)
LEMMA FlattenInside ==
    ASSUME NEW f \in Seq(Seq(Interval)), NEW to, \A i \in 1 .. Len(f) : Inside(f[i], to)
    PROVE  FlattenSeq(f) \in Seq(Interval) /\ Inside(FlattenSeq(f), to)
  <1> DEFINE out == FlattenSeq(f)
  <1>1. out \in Seq(Interval) /\ \E piece, place : Origin(f, out, piece, place)
    BY FlattenOrigin
  <1> HIDE DEF out
  <1>2. PICK piece, place : Origin(f, out, piece, place)
    BY <1>1
  <1>3. ASSUME NEW p \in 1 .. Len(out)
        PROVE  0 <= out[p].start /\ out[p].start < out[p].end /\ out[p].end <= to
    <2>1. PICK i \in 1 .. Len(f) : i = piece[p] /\ place[p] \in 1 .. Len(f[i]) /\ out[p] = f[i][place[p]]
      BY <1>2, Zenon DEF Origin
    <2>2. Inside(f[i], to)
      OBVIOUS
    <2>3. PICK k \in 1 .. Len(f[i]) : k = place[p]
      BY <2>1
    <2> QED
      BY <2>1, <2>2, <2>3, Zenon DEF Inside
  <1> QED
    BY <1>1, <1>3 DEF Inside, out

(* What comes from gaps between activity rows lies in the window.           *)
LEMMA DegradedInside ==
    ASSUME NEW times \in Seq(Int), NEW to \in Int, \A i \in 1 .. Len(times) : times[i] <= to
    PROVE  DegradedAway(times, to) \in Seq(Interval) /\ Inside(DegradedAway(times, to), to)
  <1> DEFINE n == Len(times)
             After(i) == IF i < Len(times) THEN times[i + 1] ELSE to
             f == [i \in DOMAIN times |-> IF After(i) - times[i] >= IdleGap
                                          THEN Emit(times[i], After(i)) ELSE <<>>]
  <1>1. n \in Nat /\ DOMAIN times = 1 .. n
    OBVIOUS
  <1>2. ASSUME NEW i \in 1 .. n
        PROVE  times[i] \in Int /\ After(i) \in Int /\ After(i) <= to
    <2>1. times[i] \in Int
      OBVIOUS
    <2>2. i < n => i + 1 \in 1 .. n
      BY <1>1
    <2>3. i < n => times[i + 1] \in Int /\ times[i + 1] <= to
      BY <2>2
    <2> QED
      BY <2>1, <2>3
  <1> HIDE DEF After
  <1>3. ASSUME NEW i \in 1 .. n
        PROVE  f[i] \in Seq(Interval) /\ Inside(f[i], to)
    <2>1. Emit(times[i], After(i)) \in Seq(Interval) /\ Inside(Emit(times[i], After(i)), to)
      BY <1>2, EmitCovers, Zenon
    <2>2. <<>> \in Seq(Interval) /\ Inside(<<>>, to)
      BY DEF Inside
    <2>3. f[i] = Emit(times[i], After(i)) \/ f[i] = <<>>
      BY <1>1
    <2> QED
      BY <2>1, <2>2, <2>3
  <1>4. DegradedAway(times, to) = FlattenSeq(f)
    BY DEF DegradedAway, f, After
  <1>5. f = [i \in 1 .. n |-> f[i]]
    BY <1>1
  <1> HIDE DEF f
  <1>6. f \in [1 .. n -> Seq(Interval)]
    BY <1>3, <1>5
  <1>7. f \in Seq(Seq(Interval)) /\ Len(f) = n
    BY <1>1, <1>6
  <1> QED
    BY <1>3, <1>4, <1>7, FlattenInside

(* The absences of a recap lie in the window.                               *)
LEMMA AbsenceShape ==
    ASSUME JournalInv
    PROVE  /\ recap.idle = OfKind(journal, "idle") /\ recap.idle \in Seq(Row)
           /\ Within(recap.idle, 0, Horizon)
           /\ recap.absence \in Seq(Interval) /\ Inside(recap.absence, Horizon)
           /\ ProtocolAway(recap.idle, carried, Horizon) # <<>>
                 => recap.absence = ProtocolAway(recap.idle, carried, Horizon)
           /\ recap.away = AnnotateAway(recap.absence, recap.sessions)
  <1> DEFINE idle == OfKind(journal, "idle")
             protocol == ProtocolAway(idle, carried, Horizon)
             times == ActivityTimes(journal)
             absence == AwaySegments(idle, times, carried, Horizon)
  <1>1. /\ recap.idle = idle /\ recap.absence = absence
        /\ recap.away = AnnotateAway(recap.absence, recap.sessions)
    BY DEF JournalInv, compile_day_recap
  <1>2. Horizon \in Int /\ Stored(journal) /\ carried \in BOOLEAN
    BY HorizonIs DEF JournalInv
  <1>3. idle \in Seq(Row) /\ Within(idle, 0, Horizon)
    BY <1>2, KindOf
  <1> HIDE DEF idle
  <1>4. protocol \in Seq(Interval) /\ Inside(protocol, Horizon)
    BY <1>2, <1>3, ProtocolTells
  <1>5. absence = IF protocol # <<>> THEN protocol ELSE DegradedAway(times, Horizon)
    BY DEF AwaySegments
  <1>6. times \in Seq(Int) /\ \A i \in 1 .. Len(times) : times[i] <= Horizon
    <2> DEFINE wanted == {row \in Range(journal) : row.kind \in {"focus", "desktop"}}
               active == Only(journal, wanted)
    <2>1. times = [i \in DOMAIN active |-> active[i].ts]
      BY DEF ActivityTimes
    <2>2. journal \in Seq(Row) /\ Within(journal, 0, Horizon)
      BY <1>2 DEF Stored
    <2> HIDE DEF wanted, times
    <2>3. active \in Seq(Row) /\ Drawn(active, journal)
      BY <2>2, OnlyDrawn
    <2> HIDE DEF active
    <2>4. Within(active, 0, Horizon)
      BY <1>2, <2>2, <2>3, DrawnInOrder
    <2>5. Len(active) \in Nat /\ DOMAIN active = 1 .. Len(active)
      BY <2>3
    <2>6. ASSUME NEW i \in 1 .. Len(active)
          PROVE  active[i].ts \in Int /\ active[i].ts <= Horizon
      <3>1. active[i] \in Row
        BY <2>3
      <3> QED
        BY <2>4, <3>1 DEF Row, Within
    <2>7. times \in [1 .. Len(active) -> Int]
      BY <2>1, <2>5, <2>6
    <2>8. times \in Seq(Int) /\ Len(times) = Len(active)
      BY <2>5, <2>7
    <2>9. \A i \in 1 .. Len(active) : times[i] = active[i].ts
      BY <2>1, <2>5
    <2> QED
      BY <2>6, <2>8, <2>9
  <1> HIDE DEF times, protocol, absence
  <1>7. DegradedAway(times, Horizon) \in Seq(Interval) /\ Inside(DegradedAway(times, Horizon), Horizon)
    BY <1>2, <1>6, DegradedInside
  <1>8. absence \in Seq(Interval) /\ Inside(absence, Horizon)
    BY <1>4, <1>5, <1>7
  <1> QED
    BY <1>1, <1>3, <1>5, <1>8 DEF idle, protocol

\* Everything a second of the recap has to know of the absences.
AwayOf(absence, away, sessions) ==
    /\ away \in Seq(AwaySlice) /\ Inside(away, Horizon)
    /\ \A t \in Int :
          /\ Cardinality(Covering(away, t)) = Cardinality(Covering(absence, t))
          /\ Covered(away, t) <=> Covered(absence, t)
          /\ \A i \in Covering(away, t) :
                away[i].presence = "meeting"
                   <=> \E j \in Covering(sessions, t) : sessions[j].phase = "in_call"

(* And of every recap it is so.                                             *)
LEMMA AwayOfJournal ==
    ASSUME JournalInv
    PROVE  AwayOf(recap.absence, recap.away, recap.sessions)
  <1>1. recap.absence \in Seq(Interval) /\ Inside(recap.absence, Horizon)
    BY AbsenceShape
  <1>2. recap.sessions \in Seq(Session) /\ Ordered(recap.sessions, 0, Horizon)
    BY SessionsOfJournal DEF SessionsOf
  <1>3. Horizon \in Int
    BY HorizonIs DEF JournalInv
  <1>4. recap.away = AnnotateAway(recap.absence, recap.sessions)
    BY AbsenceShape
  <1>5. AwayOf(recap.absence, AnnotateAway(recap.absence, recap.sessions), recap.sessions)
    BY <1>1, <1>2, <1>3, Annotated DEF AwayOf
  <1> QED
    BY <1>4, <1>5

(* For every day: splitting the absences on calls neither loses nor doubles *)
(* a second, and a slice is a meeting exactly where a call was on.          *)
THEOREM SplitKeepsAbsences == Spec => []SplitKeepsAway
  <1>1. JournalInv => SplitKeepsAway
    <2> SUFFICES ASSUME JournalInv, NEW t \in Seconds
                 PROVE  /\ Cardinality(Covering(recap.away, t)) = Cardinality(Covering(recap.absence, t))
                        /\ \A i \in Covering(recap.away, t) :
                              recap.away[i].presence = "meeting"
                                 <=> \E j \in Covering(recap.sessions, t) :
                                        recap.sessions[j].phase = "in_call"
      BY DEF SplitKeepsAway
    <2>1. t \in Int
      BY HorizonIs DEF JournalInv, Seconds
    <2> QED
      BY <2>1, AwayOfJournal DEF AwayOf
  <1> QED
    BY <1>1, JournalKeeps, PTL

-----------------------------------------------------------------------------
(* Away is idle time *)

\* The leaves after an enter, and the end of its absence, as Absences has them.
NextLeaves(rows, i) == {j \in DOMAIN rows : j > i /\ ~rows[j].idle}
EndOf(rows, i) == IF NextLeaves(rows, i) = {} THEN Horizon ELSE rows[Min(NextLeaves(rows, i))].ts
\* AwayIsIdleTime's openers.
OpensAt(rows, i) == rows[i].idle /\ (IF i = 1 THEN ~carried ELSE ~rows[i - 1].idle)

(* An absence that is opened is closed by the next leave, or by the end of  *)
(* the window, and by nothing else.                                         *)
LEMMA OneLeave ==
    ASSUME NEW rows \in Seq(Row), carried \in BOOLEAN,
           NEW o \in 0 .. Len(rows), Opener(Enters(rows, carried), o)
    PROVE  \E j \in 1 .. Len(rows) + 1 :
              /\ Closed(Enters(rows, carried), o, j) /\ EndOf(rows, o) = Times(rows, Horizon)[j]
              /\ \A k \in 1 .. Len(rows) + 1 : Closed(Enters(rows, carried), o, k) => k = j
  <1> DEFINE n == Len(rows)
             idle == Enters(rows, carried)
             leaves == NextLeaves(rows, o)
             ts == Times(rows, Horizon)
  <1>1. n \in Nat /\ DOMAIN rows = 1 .. n
    OBVIOUS
  <1>2. \A i \in 1 .. n + 1 : i \in idle <=> i \in 1 .. n /\ rows[i].idle
    <2> SUFFICES ASSUME NEW i \in 1 .. n + 1
                 PROVE  i \in idle <=> i \in 1 .. n /\ rows[i].idle
      OBVIOUS
    <2>1. i # 0 /\ (i \in 0 .. n <=> i \in 1 .. n)
      BY <1>1
    <2> QED
      BY <2>1 DEF Enters
  <1>3. leaves = {j \in 1 .. n : j > o /\ j \notin idle}
    <2>1. ASSUME NEW j
          PROVE  j \in leaves <=> j \in 1 .. n /\ j > o /\ j \notin idle
      <3>1. j \in 1 .. n => j \in 1 .. n + 1
        BY <1>1
      <3> QED
        BY <1>1, <1>2, <3>1 DEF NextLeaves
    <2> QED
      BY <2>1
  <1>4. Opener(idle, o) /\ o \in 0 .. n
    OBVIOUS
  <1>5. /\ ts[n + 1] = Horizon /\ \A i \in 1 .. n : ts[i] = rows[i].ts
    BY <1>1 DEF Times
  <1>6. ASSUME NEW j \in 1 .. n + 1, NEW k \in 1 .. n + 1, Closed(idle, o, j), Closed(idle, o, k)
        PROVE  j = k
    <2>1. /\ o < j /\ j \notin idle /\ \A i \in o + 1 .. j - 1 : i \in idle
          /\ o < k /\ k \notin idle /\ \A i \in o + 1 .. k - 1 : i \in idle
      BY <1>6 DEF Closed
    <2> HIDE DEF idle
    <2>2. j < k => j \in o + 1 .. k - 1
      BY <1>1, <1>4, <2>1
    <2>3. k < j => k \in o + 1 .. j - 1
      BY <1>1, <1>4, <2>1
    <2> QED
      BY <1>1, <2>1, <2>2, <2>3
  <1>7. EndOf(rows, o) = IF leaves = {} THEN Horizon ELSE rows[Min(leaves)].ts
    BY DEF EndOf
  <1>8. n + 1 \notin idle
    BY <1>1, <1>2
  <1> HIDE DEF idle, leaves, ts, n
  <1>9. CASE leaves = {}
    <2>1. Closed(idle, o, n + 1)
      <3>1. ASSUME NEW k \in o + 1 .. n
            PROVE  k \in idle
        BY <1>1, <1>3, <1>4, <1>9
      <3> QED
        BY <1>1, <1>4, <1>8, <3>1 DEF Closed
    <2>2. n + 1 \in 1 .. n + 1
      BY <1>1
    <2> QED
      BY <1>5, <1>6, <1>7, <1>9, <2>1, <2>2 DEF idle, ts, n
  <1>10. CASE leaves # {}
    <2>1. leaves \in SUBSET (1 .. n) /\ leaves \in SUBSET Int
      BY <1>3
    <2>2. PICK j \in leaves : \A k \in leaves : j <= k
      BY <1>1, <1>10, <2>1, HasLeast, Zenon
    <2>3. Min(leaves) = j
      BY <2>1, <2>2, MinIs
    <2>4. j \in 1 .. n /\ j > o /\ j \notin idle /\ j \in 1 .. n + 1
      BY <1>1, <1>3
    <2>5. ASSUME NEW k \in o + 1 .. j - 1
          PROVE  k \in idle
      <3>1. k \in 1 .. n /\ k > o /\ k < j
        BY <1>1, <1>4, <2>4
      <3>2. k \notin leaves
        BY <2>2, <2>4, <3>1
      <3> QED
        BY <1>3, <3>1, <3>2
    <2>6. Closed(idle, o, j)
      BY <1>4, <2>4, <2>5 DEF Closed
    <2>7. EndOf(rows, o) = ts[j]
      BY <1>5, <1>7, <1>10, <2>3, <2>4
    <2> QED
      BY <1>6, <2>4, <2>6, <2>7 DEF idle, ts, n
  <1> QED
    BY <1>9, <1>10

(* What the rows tell of, told in two ways.                                 *)
LEMMA ToldTwice ==
    ASSUME NEW rows \in Seq(Row), carried \in BOOLEAN, NEW t \in Nat
    PROVE  (\E s \in Absences(rows) : s.start <= t /\ t < s.end)
              <=> ToldBy(Enters(rows, carried), Begins(rows), Times(rows, Horizon), Len(rows) + 1, t)
  <1> DEFINE n == Len(rows)
             idle == Enters(rows, carried)
             begin == Begins(rows)
             ts == Times(rows, Horizon)
             openers == {o \in 0 .. n : Opener(idle, o)}
  <1>1. n \in Nat /\ DOMAIN rows = 1 .. n
    OBVIOUS
  <1>2. ASSUME NEW i \in 1 .. n
        PROVE  i \in openers <=> OpensAt(rows, i)
    <2>1. i \in 0 .. n /\ i # 0 /\ i - 1 \in 0 .. n /\ (i - 1 = 0 <=> i = 1)
      BY <1>1
    <2>2. i \in idle <=> rows[i].idle
      BY <2>1 DEF Enters
    <2>3. i - 1 \in idle <=> IF i = 1 THEN carried ELSE rows[i - 1].idle
      BY <2>1 DEF Enters
    <2> HIDE DEF idle
    <2>4. i \in openers <=> i \in idle /\ i - 1 \notin idle
      BY <2>1 DEF Opener
    <2> QED
      BY <2>2, <2>3, <2>4 DEF OpensAt
  <1>3. 0 \in openers <=> carried
    BY <1>1 DEF Enters, Opener
  <1>4. /\ begin[0] = 0 /\ \A i \in 1 .. n : begin[i] = rows[i].since
    BY <1>1 DEF Begins
  <1>5. Absences(rows) = {Span(rows[i].since, EndOf(rows, i)) : i \in {j \in DOMAIN rows : OpensAt(rows, j)}}
                            \cup (IF carried THEN {Span(WindowStart, EndOf(rows, 0))} ELSE {})
    BY DEF Absences, EndOf, NextLeaves, OpensAt
  <1>6. openers \subseteq 0 .. n
    OBVIOUS
  <1>7. \A o \in openers :
           \E j \in 1 .. n + 1 : /\ Closed(idle, o, j) /\ EndOf(rows, o) = ts[j]
                                 /\ \A k \in 1 .. n + 1 : Closed(idle, o, k) => k = j
    BY OneLeave
  <1>8. \A o \in 0 .. n + 1, j \in 1 .. n + 1 : Closed(idle, o, j) => o \in openers
    <2> SUFFICES ASSUME NEW o \in 0 .. n + 1, NEW j \in 1 .. n + 1, Closed(idle, o, j)
                 PROVE  o \in openers
      OBVIOUS
    <2>1. o < j /\ Opener(idle, o)
      BY DEF Closed
    <2>2. o \in 0 .. n
      BY <1>1, <2>1
    <2> QED
      BY <2>1, <2>2
  <1> HIDE DEF n, idle, begin, ts, openers
  <1>9. ASSUME NEW s, s.start <= t, t < s.end, s \in Absences(rows)
        PROVE  \E o \in openers : begin[o] <= t /\ t < EndOf(rows, o)
    <2>1. CASE \E i \in 1 .. n : OpensAt(rows, i) /\ s = Span(rows[i].since, EndOf(rows, i))
      <3>1. PICK i \in 1 .. n : OpensAt(rows, i) /\ s = Span(rows[i].since, EndOf(rows, i))
        BY <2>1
      <3>2. s.start = rows[i].since /\ s.end = EndOf(rows, i)
        BY <3>1 DEF Span
      <3> QED
        BY <1>2, <1>4, <1>9, <3>1, <3>2
    <2>2. CASE carried /\ s = Span(WindowStart, EndOf(rows, 0))
      <3>1. s.start = 0 /\ s.end = EndOf(rows, 0)
        BY <2>2 DEF Span, WindowStart
      <3> QED
        BY <1>3, <1>4, <1>9, <2>2, <3>1
    <2> QED
      BY <1>1, <1>5, <1>9, <2>1, <2>2
  <1>10. ASSUME NEW o \in openers, begin[o] <= t, t < EndOf(rows, o)
         PROVE  \E s \in Absences(rows) : s.start <= t /\ t < s.end
    <2>1. CASE o = 0
      <3> DEFINE s == Span(WindowStart, EndOf(rows, 0))
      <3>1. s \in Absences(rows)
        BY <1>3, <1>5, <2>1
      <3>2. s.start = 0 /\ s.end = EndOf(rows, 0)
        BY DEF Span, WindowStart
      <3> QED
        BY <1>4, <1>10, <2>1, <3>1, <3>2
    <2>2. CASE o \in 1 .. n
      <3> DEFINE s == Span(rows[o].since, EndOf(rows, o))
      <3>1. s \in Absences(rows)
        BY <1>1, <1>2, <1>5, <2>2
      <3>2. s.start = rows[o].since /\ s.end = EndOf(rows, o)
        BY DEF Span
      <3> QED
        BY <1>4, <1>10, <2>2, <3>1, <3>2
    <2> QED
      BY <1>1, <1>6, <2>1, <2>2
  <1>11. ToldBy(idle, begin, ts, n + 1, t) <=> \E o \in openers : begin[o] <= t /\ t < EndOf(rows, o)
    <2>1. ASSUME NEW o \in 0 .. n + 1, NEW j \in 1 .. n + 1, Closed(idle, o, j),
                 begin[o] <= t, t < ts[j]
          PROVE  \E x \in openers : begin[x] <= t /\ t < EndOf(rows, x)
      <3>1. o \in openers
        BY <1>8, <2>1
      <3>2. PICK k \in 1 .. n + 1 : EndOf(rows, o) = ts[k] /\ j = k
        BY <1>7, <2>1, <3>1
      <3> QED
        BY <2>1, <3>1, <3>2
    <2>2. ASSUME NEW o \in openers, begin[o] <= t, t < EndOf(rows, o)
          PROVE  ToldBy(idle, begin, ts, n + 1, t)
      <3>1. PICK j \in 1 .. n + 1 : Closed(idle, o, j) /\ EndOf(rows, o) = ts[j]
        BY <1>7
      <3>2. o \in 0 .. n + 1
        BY <1>1, <1>6
      <3> QED
        BY <2>2, <3>1, <3>2 DEF ToldBy
    <2> QED
      BY <2>1, <2>2 DEF ToldBy
  <1> QED
    BY <1>9, <1>10, <1>11 DEF n, idle, begin, ts

(* For every day whose idle rows tell of an absence: a second is away       *)
(* exactly when one of those absences holds it.                             *)
THEOREM AwayIsTold == Spec => []AwayIsIdleTime
  <1>1. JournalInv => AwayIsIdleTime
    <2> SUFFICES ASSUME JournalInv
                 PROVE  AwayIsIdleTime
      OBVIOUS
    <2> DEFINE rows == recap.idle
               Gone(t) == \E s \in Absences(rows) : s.start <= t /\ t < s.end
               ByRows(t) == ToldBy(Enters(rows, carried), Begins(rows), Times(rows, Horizon),
                                   Len(rows) + 1, t)
               protocol == ProtocolAway(rows, carried, Horizon)
    <2>1. Horizon \in Nat /\ carried \in BOOLEAN
      BY HorizonIs DEF JournalInv
    <2>2. rows \in Seq(Row) /\ Within(rows, 0, Horizon) /\ (protocol # <<>> => recap.absence = protocol)
      BY AbsenceShape
    <2>3. AwayOf(recap.absence, recap.away, recap.sessions)
      BY AwayOfJournal
    <2> HIDE DEF rows
    <2>4. \A t \in Nat : Covered(protocol, t) <=> ByRows(t)
      BY <2>1, <2>2, ProtocolTells
    <2>5. \A t \in Nat : Gone(t) <=> ByRows(t)
      BY <2>1, <2>2, ToldTwice
    <2>6. \A t \in Seconds : t \in Nat /\ t \in Int
      BY <2>1 DEF Seconds
    <2> HIDE DEF protocol, ByRows, Gone
    <2>7. SUFFICES ASSUME NEW u \in Seconds, Gone(u), NEW t \in Seconds
                   PROVE  (Covering(recap.away, t) # {}) <=> Gone(t)
      BY DEF AwayIsIdleTime, Gone, rows
    <2>8. Covered(protocol, u)
      BY <2>4, <2>5, <2>6, <2>7
    <2>9. protocol # <<>>
      <3>1. Len(<<>>) = 0
        OBVIOUS
      <3> QED
        BY <2>8, <3>1 DEF Covered
    <2>10. recap.absence = protocol
      BY <2>2, <2>9
    <2>11. Covered(recap.away, t) <=> Gone(t)
      BY <2>3, <2>4, <2>5, <2>6, <2>10 DEF AwayOf
    <2>12. Covering(recap.away, t) # {} <=> Covered(recap.away, t)
      <3>1. PICK list \in Seq(AwaySlice) : list = recap.away
        BY <2>3 DEF AwayOf
      <3>2. Covering(list, t) = {k \in 1 .. Len(list) : Covers(list[k], t)}
        BY DEF Covering, Covers
      <3> QED
        BY <3>1, <3>2 DEF Covered
    <2> QED
      BY <2>11, <2>12
  <1> QED
    BY <1>1, JournalKeeps, PTL

(***************************************************************************)
(* Focus                                                                   *)
(***************************************************************************)
\* The loop of _subtract_ranges.
Cutting == INSTANCE FoldSteps WITH Op <- CutAll

\* A segment of focus.
Segment == [start : Int, end : Int, win : Window]

\* What is left of a segment of a window: pieces with gaps between them.
Parts(list, win, from, to) ==
    /\ list \in Seq(Segment)
    /\ \A k \in 1 .. Len(list) : /\ from <= list[k].start /\ list[k].start < list[k].end
                                 /\ list[k].end <= to /\ list[k].win = win
    /\ \A k, l \in 1 .. Len(list) : k < l => list[k].end < list[l].start

(* Segments have bounds and a window.                                       *)
LEMMA SegmentsAt ==
    ASSUME NEW list \in Seq(Segment)
    PROVE  \A k \in 1 .. Len(list) : list[k].win \in Window /\ list[k].start \in Int /\ list[k].end \in Int
  <1>1. \A k \in 1 .. Len(list) : list[k] \in Segment
    OBVIOUS
  <1> QED
    BY <1>1, Zenon DEF Segment

(* One piece, cut once.                                                     *)
LEMMA CutOneLeaves ==
    ASSUME NEW piece \in Segment, piece.start < piece.end,
           NEW cut, NEW c \in Int, NEW d \in Int, cut.start = c, cut.end = d, c < d
    PROVE  /\ Parts(CutOne(piece, cut), piece.win, piece.start, piece.end)
           /\ \A t \in Int : Covered(CutOne(piece, cut), t) <=> Covers(piece, t) /\ ~Covers(cut, t)
  <1>1. PICK a \in Int, b \in Int, w \in Window : piece = [start |-> a, end |-> b, win |-> w]
    BY Zenon DEF Segment
  <1>2. piece.start = a /\ piece.end = b /\ piece.win = w /\ a < b
    BY <1>1
  <1> DEFINE head == [piece EXCEPT !.end = c]
             tail == [piece EXCEPT !.start = d]
             out == CutOne(piece, cut)
             left == IF a < c THEN <<head>> ELSE <<>>
             right == IF d < b THEN <<tail>> ELSE <<>>
  <1>3. /\ head \in Segment /\ head.start = a /\ head.end = c /\ head.win = w
        /\ tail \in Segment /\ tail.start = d /\ tail.end = b /\ tail.win = w
    BY <1>1 DEF Segment
  <1>4. out = IF d <= a \/ c >= b THEN <<piece>> ELSE left \o right
    BY <1>2 DEF CutOne
  <1> HIDE DEF head, tail, out
  <1>5. CASE d <= a \/ c >= b
    <2>1. Len(<<piece>>) = 1 /\ <<piece>>[1] = piece /\ <<piece>> \in Seq(Segment) /\ out = <<piece>>
      BY <1>4, <1>5
    <2>2. Parts(<<piece>>, piece.win, piece.start, piece.end)
      BY <1>2, <2>1 DEF Parts
    <2>3. ASSUME NEW t \in Int
          PROVE  Covered(<<piece>>, t) <=> Covers(piece, t) /\ ~Covers(cut, t)
      <3>1. Covered(<<piece>>, t) <=> Covers(piece, t)
        BY <2>1 DEF Covered
      <3>2. Covers(piece, t) => ~Covers(cut, t)
        BY <1>2, <1>5 DEF Covers
      <3> QED
        BY <3>1, <3>2
    <2> QED
      BY <2>1, <2>2, <2>3 DEF out
  <1>6. CASE ~(d <= a \/ c >= b)
    <2>1. ASSUME NEW t \in Int
          PROVE  Covers(piece, t) /\ ~Covers(cut, t)
                     <=> (a < c /\ Covers(head, t)) \/ (d < b /\ Covers(tail, t))
      BY <1>2, <1>3, <1>6 DEF Covers
    <2>2. out = left \o right
      BY <1>4, <1>6
    <2>3. CASE a < c /\ d < b
      <3>1. out = <<head>> \o <<tail>>
        BY <2>2, <2>3
      <3>2. out \in Seq(Segment) /\ Len(out) = 2 /\ out[1] = head /\ out[2] = tail
        BY <1>3, <3>1
      <3>3. \A k \in 1 .. Len(out) : k = 1 \/ k = 2
        BY <3>2
      <3>4. 1 \in 1 .. Len(out) /\ 2 \in 1 .. Len(out)
        BY <3>2
      <3>5. \A t \in Int : Covered(out, t) <=> Covers(head, t) \/ Covers(tail, t)
        BY <3>2, <3>3, <3>4 DEF Covered
      <3>6. Parts(out, w, a, b)
        BY <1>2, <1>3, <1>6, <2>3, <3>2, <3>3 DEF Parts
      <3> QED
        BY <1>2, <2>1, <2>3, <3>5, <3>6 DEF out
    <2>4. CASE a < c /\ ~(d < b)
      <3>1. out = <<head>>
        BY <2>2, <2>4
      <3>2. out \in Seq(Segment) /\ Len(out) = 1 /\ out[1] = head
        BY <1>3, <3>1
      <3>3. Parts(out, w, a, b)
        BY <1>2, <1>3, <1>6, <2>4, <3>2 DEF Parts
      <3>4. \A t \in Int : Covered(out, t) <=> Covers(head, t)
        BY <3>2 DEF Covered
      <3> QED
        BY <1>2, <2>1, <2>4, <3>3, <3>4 DEF out
    <2>5. CASE ~(a < c) /\ d < b
      <3>1. out = <<tail>>
        BY <2>2, <2>5
      <3>2. out \in Seq(Segment) /\ Len(out) = 1 /\ out[1] = tail
        BY <1>3, <3>1
      <3>3. Parts(out, w, a, b)
        BY <1>2, <1>3, <1>6, <2>5, <3>2 DEF Parts
      <3>4. \A t \in Int : Covered(out, t) <=> Covers(tail, t)
        BY <3>2 DEF Covered
      <3> QED
        BY <1>2, <2>1, <2>5, <3>3, <3>4 DEF out
    <2>6. CASE ~(a < c) /\ ~(d < b)
      <3>1. out = <<>>
        BY <2>2, <2>6
      <3>2. out \in Seq(Segment) /\ Len(out) = 0
        BY <3>1
      <3>3. Parts(out, w, a, b)
        BY <3>2 DEF Parts
      <3>4. \A t \in Int : ~Covered(out, t)
        BY <3>2 DEF Covered
      <3> QED
        BY <1>2, <2>1, <2>6, <3>3, <3>4 DEF out
    <2> QED
      BY <2>3, <2>4, <2>5, <2>6
  <1> QED
    BY <1>5, <1>6

(* All the pieces, cut once.                                                *)
LEMMA CutAllLeaves ==
    ASSUME NEW win, NEW from \in Int, NEW to \in Int, NEW pieces, Parts(pieces, win, from, to),
           NEW cut, NEW c \in Int, NEW d \in Int, cut.start = c, cut.end = d, c < d
    PROVE  /\ Parts(CutAll(pieces, cut), win, from, to)
           /\ \A t \in Int : Covered(CutAll(pieces, cut), t) <=> Covered(pieces, t) /\ ~Covers(cut, t)
  <1> DEFINE n == Len(pieces)
             f == [i \in DOMAIN pieces |-> CutOne(pieces[i], cut)]
             out == FlattenSeq(f)
  <1>1. pieces \in Seq(Segment) /\ n \in Nat /\ DOMAIN pieces = 1 .. n
    BY DEF Parts
  <1>2. ASSUME NEW i \in 1 .. n
        PROVE  /\ pieces[i] \in Segment /\ pieces[i].start \in Int /\ pieces[i].end \in Int
               /\ from <= pieces[i].start /\ pieces[i].start < pieces[i].end /\ pieces[i].end <= to
               /\ pieces[i].win = win
    <2>1. pieces[i] \in Segment
      BY <1>1
    <2>2. pieces[i].start \in Int /\ pieces[i].end \in Int
      BY <2>1 DEF Segment
    <2> QED
      BY <2>1, <2>2 DEF Parts
  <1>3. ASSUME NEW i \in 1 .. n, NEW j \in 1 .. n, i < j
        PROVE  pieces[i].end < pieces[j].start
    BY <1>3 DEF Parts
  <1>4. ASSUME NEW i \in 1 .. n
        PROVE  /\ Parts(f[i], win, pieces[i].start, pieces[i].end)
               /\ \A t \in Int : Covered(f[i], t) <=> Covers(pieces[i], t) /\ ~Covers(cut, t)
    <2>1. PICK p \in Segment : p = pieces[i] /\ p.start < p.end /\ p.win = win
      BY <1>2
    <2>2. /\ Parts(CutOne(p, cut), p.win, p.start, p.end)
          /\ \A t \in Int : Covered(CutOne(p, cut), t) <=> Covers(p, t) /\ ~Covers(cut, t)
      BY <2>1, CutOneLeaves
    <2>3. f[i] = CutOne(p, cut)
      BY <1>1, <2>1
    <2> HIDE DEF f
    <2> QED
      BY <2>1, <2>2, <2>3
  <1>5. f = [i \in 1 .. n |-> f[i]]
    BY <1>1
  <1>6. CutAll(pieces, cut) = out
    BY DEF CutAll
  <1> HIDE DEF f, n
  <1>7. f \in Seq(Seq(Segment)) /\ Len(f) = n
    <2>1. f \in [1 .. n -> Seq(Segment)]
      BY <1>4, <1>5 DEF Parts
    <2> QED
      BY <1>1, <2>1
  <1>8. out \in Seq(Segment) /\ \E piece, place : Origin(f, out, piece, place)
    BY <1>7, FlattenOrigin
  <1> HIDE DEF out
  <1>9. PICK piece, place : Origin(f, out, piece, place)
    BY <1>8
  <1>10. ASSUME NEW p \in 1 .. Len(out)
         PROVE  /\ piece[p] \in 1 .. n /\ place[p] \in 1 .. Len(f[piece[p]])
                /\ out[p] = f[piece[p]][place[p]]
    BY <1>7, <1>9 DEF Origin
  <1>11. ASSUME NEW i \in 1 .. n, NEW k \in 1 .. Len(f[i])
         PROVE  /\ f[i][k].start \in Int /\ f[i][k].end \in Int
                /\ pieces[i].start <= f[i][k].start /\ f[i][k].start < f[i][k].end
                /\ f[i][k].end <= pieces[i].end /\ f[i][k].win = win
    <2>1. Parts(f[i], win, pieces[i].start, pieces[i].end)
      BY <1>4
    <2>2. f[i] \in Seq(Segment)
      BY <2>1 DEF Parts
    <2>3. f[i][k] \in Segment
      BY <2>2
    <2> QED
      BY <2>1, <2>3, Zenon DEF Parts, Segment
  <1>12. ASSUME NEW p \in 1 .. Len(out)
         PROVE  /\ from <= out[p].start /\ out[p].start < out[p].end
                /\ out[p].end <= to /\ out[p].win = win
    <2>1. PICK i \in 1 .. n : i = piece[p]
      BY <1>10
    <2>2. PICK k \in 1 .. Len(f[i]) : k = place[p] /\ out[p] = f[i][k]
      BY <1>10, <2>1, Zenon
    <2> QED
      <3>1. PICK a \in Int, b \in Int : a = f[i][k].start /\ b = f[i][k].end
        BY <1>11, Zenon
      <3>2. PICK x \in Int, y \in Int : /\ x = pieces[i].start /\ y = pieces[i].end
                                        /\ from <= x /\ y <= to
        BY <1>2, Zenon
      <3>3. x <= a /\ a < b /\ b <= y /\ f[i][k].win = win
        BY <1>11, <3>1, <3>2
      <3>4. out[p].start = a /\ out[p].end = b /\ out[p].win = win
        BY <2>2, <3>1, <3>3, Zenon
      <3>5. from <= a /\ a < b /\ b <= to
        BY <3>2, <3>3
      <3> QED
        BY <3>4, <3>5, Zenon
  <1>13. ASSUME NEW p \in 1 .. Len(out), NEW q \in 1 .. Len(out), p < q
         PROVE  out[p].end < out[q].start
    <2>1. PICK i \in 1 .. n, j \in 1 .. n : i = piece[p] /\ j = piece[q]
      BY <1>10
    <2>2. PICK k \in 1 .. Len(f[i]) : k = place[p] /\ out[p] = f[i][k]
      BY <1>10, <2>1, Zenon
    <2>3. PICK l \in 1 .. Len(f[j]) : l = place[q] /\ out[q] = f[j][l]
      BY <1>10, <2>1, Zenon
    <2>4. i < j \/ (i = j /\ k < l)
      BY <1>9, <1>13, <2>1, <2>2, <2>3 DEF Origin
    <2>5. CASE i < j
      <3>1. f[i][k].end <= pieces[i].end /\ pieces[i].end < pieces[j].start /\ pieces[j].start <= f[j][l].start
        BY <1>3, <1>11, <2>5, Zenon
      <3>2. PICK b \in Int, x \in Int : b = f[i][k].end /\ x = f[j][l].start
        BY <1>11, Zenon
      <3>3. PICK y \in Int, z \in Int : y = pieces[i].end /\ z = pieces[j].start
        BY <1>2, Zenon
      <3>4. b <= y /\ y < z /\ z <= x
        BY <3>1, <3>2, <3>3
      <3>5. out[p].end = b /\ out[q].start = x
        BY <2>2, <2>3, <3>2, Zenon
      <3>6. b < x
        BY <3>4
      <3> QED
        BY <3>5, <3>6, Zenon
    <2>6. CASE i = j /\ k < l
      <3>1. Parts(f[i], win, pieces[i].start, pieces[i].end)
        BY <1>4
      <3>2. f[i][k].end < f[i][l].start
        BY <2>3, <2>6, <3>1, Zenon DEF Parts
      <3> QED
        BY <2>2, <2>3, <2>6, <3>2
    <2> QED
      BY <2>4, <2>5, <2>6
  <1>14. Parts(out, win, from, to)
    BY <1>8, <1>12, <1>13 DEF Parts
  <1>15. ASSUME NEW t \in Int
         PROVE  Covered(out, t) <=> Covered(pieces, t) /\ ~Covers(cut, t)
    <2>1. ASSUME NEW p \in 1 .. Len(out), Covers(out[p], t)
          PROVE  Covered(pieces, t) /\ ~Covers(cut, t)
      <3>1. PICK i \in 1 .. n : i = piece[p]
        BY <1>10
      <3>2. PICK k \in 1 .. Len(f[i]) : out[p] = f[i][k]
        BY <1>10, <3>1, Zenon
      <3>3. Covered(f[i], t)
        BY <2>1, <3>2, Zenon DEF Covered
      <3>4. Covers(pieces[i], t) /\ ~Covers(cut, t)
        BY <1>4, <3>3
      <3> QED
        BY <3>4, Zenon DEF Covered, n
    <2>2. ASSUME NEW i \in 1 .. n, Covers(pieces[i], t), ~Covers(cut, t)
          PROVE  Covered(out, t)
      <3>1. Covered(f[i], t)
        BY <1>4, <2>2
      <3>2. PICK k \in 1 .. Len(f[i]) : Covers(f[i][k], t)
        BY <3>1 DEF Covered
      <3>3. PICK p \in 1 .. Len(out) : piece[p] = i /\ place[p] = k
        BY <1>7, <1>9 DEF Origin
      <3>4. out[p] = f[i][k]
        BY <1>10, <3>3, Zenon
      <3> QED
        BY <3>2, <3>4 DEF Covered
    <2> QED
      BY <2>1, <2>2 DEF Covered, n
  <1> QED
    BY <1>6, <1>14, <1>15

(* Subtracting segments in any order leaves the free seconds of a stretch,  *)
(* in pieces as long as can be.                                             *)
LEMMA Subtracted ==
    ASSUME NEW piece \in Segment, NEW S, NEW cuts \in Seq(S),
           \A i \in 1 .. Len(cuts) : /\ cuts[i].start \in Int /\ cuts[i].end \in Int
                                     /\ cuts[i].start < cuts[i].end
    PROVE  LET out == SubtractRanges(piece, cuts)
           IN  /\ Parts(out, piece.win, piece.start, piece.end)
               /\ \A t \in Int : Covered(out, t) <=> Covers(piece, t) /\ ~Covered(cuts, t)
  <1> DEFINE n == Len(cuts)
             out == SubtractRanges(piece, cuts)
             base == <<piece>>
             last == FoldLeft(CutAll, base, cuts)
             Left(pieces, m) ==
                 /\ Parts(pieces, piece.win, piece.start, piece.end)
                 /\ \A t \in Int : Covered(pieces, t)
                        <=> Covers(piece, t) /\ \A i \in 1 .. m : ~Covers(cuts[i], t)
  <1>1. piece.start \in Int /\ piece.end \in Int /\ n \in Nat
    BY DEF Segment
  <1>2. CASE piece.end <= piece.start
    <2>1. out = <<>>
      BY <1>2 DEF SubtractRanges
    <2>2. Len(<<>>) = 0 /\ <<>> \in Seq(Segment)
      OBVIOUS
    <2>3. \A t \in Int : ~Covers(piece, t)
      BY <1>1, <1>2 DEF Covers
    <2>4. Parts(<<>>, piece.win, piece.start, piece.end) /\ \A t \in Int : ~Covered(<<>>, t)
      BY <2>2 DEF Parts, Covered
    <2> HIDE DEF out
    <2> QED
      BY <2>1, <2>3, <2>4 DEF out
  <1>3. CASE ~(piece.end <= piece.start)
    <2>1. out = last
      BY <1>3 DEF SubtractRanges
    <2>2. PICK acc : /\ acc[0] = base /\ last = acc[n]
                     /\ \A k \in 1 .. n : acc[k] = CutAll(acc[k - 1], cuts[k])
      <3>1. last = Cutting!Folded(base, cuts)
        BY DEF FoldLeft, MapThenFoldSet, Cutting!Folded, Cutting!Rec, Max, Cutting!Greatest
      <3> HIDE DEF last, base
      <3>2. \E acc : Cutting!Steps(acc, base, cuts) /\ Cutting!Folded(base, cuts) = acc[n]
        BY Cutting!FoldHasSteps
      <3> QED
        BY <3>1, <3>2 DEF Cutting!Steps
    <2> HIDE DEF last
    <2>3. Left(base, 0)
      <3>1. Len(base) = 1 /\ base[1] = piece /\ base \in Seq(Segment)
        OBVIOUS
      <3>2. \A t \in Int : Covered(base, t) <=> Covers(piece, t)
        BY <3>1 DEF Covered
      <3> HIDE DEF base
      <3>3. Parts(base, piece.win, piece.start, piece.end)
        BY <1>1, <1>3, <3>1 DEF Parts
      <3> QED
        BY <3>2, <3>3
    <2> HIDE DEF base, out, Left
    <2>4. ASSUME NEW m \in 0 .. n - 1, Left(acc[m], m)
          PROVE  Left(acc[m + 1], m + 1)
      <3>1. m + 1 \in 1 .. n /\ (m + 1) - 1 = m
        BY <1>1
      <3>2. acc[m + 1] = CutAll(acc[m], cuts[m + 1])
        BY <2>2, <3>1
      <3>10. /\ cuts[m + 1].start \in Int /\ cuts[m + 1].end \in Int
            /\ cuts[m + 1].start < cuts[m + 1].end
        BY <3>1
      <3>11. PICK cut : cut = cuts[m + 1]
        OBVIOUS
      <3>3. PICK c \in Int, d \in Int : cut = cuts[m + 1] /\ cut.start = c /\ cut.end = d /\ c < d
        BY <3>10, <3>11
      <3>4. PICK from \in Int, to \in Int, win \in {piece.win} : from = piece.start /\ to = piece.end /\ win = piece.win
        BY <1>1
      <3>5. PICK pieces : pieces = acc[m]
        OBVIOUS
      <3>6. Parts(pieces, win, from, to)
        BY <2>4, <3>4, <3>5 DEF Left
      <3>7. /\ Parts(CutAll(pieces, cut), win, from, to)
            /\ \A t \in Int : Covered(CutAll(pieces, cut), t) <=> Covered(pieces, t) /\ ~Covers(cut, t)
        BY <3>3, <3>6, CutAllLeaves
      <3>8. acc[m + 1] = CutAll(pieces, cut)
        BY <3>2, <3>3, <3>5
      <3>9. ASSUME NEW t \in Int
            PROVE  Covered(acc[m + 1], t)
                      <=> Covers(piece, t) /\ \A i \in 1 .. m + 1 : ~Covers(cuts[i], t)
        <4>1. Covered(pieces, t) <=> Covers(piece, t) /\ \A i \in 1 .. m : ~Covers(cuts[i], t)
          BY <2>4, <3>5 DEF Left
        <4>2. (\A i \in 1 .. m + 1 : ~Covers(cuts[i], t))
                 <=> (\A i \in 1 .. m : ~Covers(cuts[i], t)) /\ ~Covers(cut, t)
          <5>1. \A i \in 1 .. m + 1 : i \in 1 .. m \/ i = m + 1
            OBVIOUS
          <5>2. m + 1 \in 1 .. m + 1 /\ \A i \in 1 .. m : i \in 1 .. m + 1
            OBVIOUS
          <5> QED
            BY <3>3, <5>1, <5>2
        <4> QED
          BY <3>7, <3>8, <4>1, <4>2
      <3> QED
        BY <3>4, <3>7, <3>8, <3>9 DEF Left
    <2>5. Left(last, n)
      <3> DEFINE T == {m \in 0 .. n : Left(acc[m], m)}
      <3>1. 0 \in T
        BY <1>1, <2>2, <2>3
      <3>2. \A m \in 0 .. n - 1 : m \in T => m + 1 \in T
        BY <1>1, <2>4
      <3>3. 0 .. n \subseteq T
        <4> HIDE DEF T
        <4> QED
          BY <1>1, <3>1, <3>2, Cutting!UpTo, Zenon
      <3>4. n \in T
        BY <1>1, <3>3
      <3> QED
        BY <2>2, <3>4
    <2>6. \A t : Covered(cuts, t) <=> \E i \in 1 .. n : Covers(cuts[i], t)
      BY DEF Covered
    <2> QED
      BY <2>1, <2>5, <2>6 DEF Left, out
  <1> QED
    BY <1>2, <1>3

-----------------------------------------------------------------------------
(* Runs of one window *)

\* The loop of Collapse.
Collapsing == INSTANCE FoldSteps WITH Op <- CollapseRow

\* The runs of the first m rows: run p are the rows from head[p] to head[p + 1] - 1, all of one
\* window, and the next run is of another; its fields are what these rows tell.
RunIs(run, rows, h, e) ==
    /\ run.ts = rows[h].ts
    /\ \A f \in Field : run.win[f] = Told(rows, h .. e - 1, f)
    /\ \A j \in h .. e - 1 : SameWindow(rows[j].win, run.win)
RunsTo(runs, head, rows, m) ==
    /\ runs \in Seq(Row) /\ head \in [1 .. Len(runs) + 1 -> 1 .. m + 1]
    /\ head[1] = 1 /\ head[Len(runs) + 1] = m + 1
    /\ \A p \in 1 .. Len(runs) :
          head[p] < head[p + 1] /\ RunIs(runs[p], rows, head[p], head[p + 1])
    /\ \A p \in 1 .. Len(runs) : p < Len(runs) => ~SameWindow(rows[head[p + 1]].win, runs[p].win)

(* What a row more tells.                                                   *)
LEMMA ToldMore ==
    ASSUME NEW rows \in Seq(Row), NEW h \in 1 .. Len(rows), NEW m \in h .. Len(rows), NEW f
    PROVE  Told(rows, h .. m, f)
              = IF rows[m].win[f] # Unknown \/ m = h THEN rows[m].win[f] ELSE Told(rows, h .. m - 1, f)
  <1> DEFINE known == {i \in h .. m : rows[i].win[f] # Unknown}
             older == {i \in h .. m - 1 : rows[i].win[f] # Unknown}
  <1>1. \A i \in h .. m : i \in h .. m - 1 \/ i = m
    OBVIOUS
  <1>2. CASE rows[m].win[f] # Unknown
    <2>1. known \in SUBSET Int /\ m \in known /\ \A i \in known : i <= m
      BY <1>2
    <2>2. Max(known) = m
      <3> HIDE DEF known
      <3> QED
        BY <2>1, MaxIs
    <2> QED
      BY <1>2, <2>1, <2>2 DEF Told
  <1>3. CASE rows[m].win[f] = Unknown
    <2>1. known = older /\ (m = h => older = {})
      BY <1>1, <1>3
    <2> QED
      BY <1>3, <2>1, Zenon DEF Told
  <1> QED
    BY <1>2, <1>3

(* A row of the window joins a run.                                         *)
LEMMA JoinedIs ==
    ASSUME NEW run \in Row, NEW row \in Row, SameWindow(run.win, row.win)
    PROVE  /\ Joined(run, row) \in Row /\ Joined(run, row).ts = run.ts
           /\ SameWindow(Joined(run, row).win, run.win)
           /\ \A f \in Field : Joined(run, row).win[f]
                 = IF row.win[f] = Unknown THEN run.win[f] ELSE row.win[f]
  <1> DEFINE win == Merged(run.win, row.win)
  <1>1. run.win \in Window /\ row.win \in Window
    BY DEF Row
  <1>2. \A f \in Field : win[f] = IF row.win[f] = Unknown THEN run.win[f] ELSE row.win[f]
    BY DEF Merged
  <1>3. win \in Window
    <2>1. \A f \in Field : run.win[f] \in STRING /\ row.win[f] \in STRING
      BY <1>1 DEF Window
    <2> QED
      BY <2>1 DEF Window, Merged
  <1>4. SameWindow(win, run.win)
    <2>1. "app" \in Field /\ "title" \in Field
      BY DEF Field
    <2> HIDE DEF win
    <2> QED
      BY <1>2, <2>1 DEF SameWindow
  <1> HIDE DEF win
  <1>5. /\ [run EXCEPT !.win = win] \in Row /\ [run EXCEPT !.win = win].ts = run.ts
        /\ [run EXCEPT !.win = win].win = win
    BY <1>3, Zenon DEF Row
  <1>6. Joined(run, row) = [run EXCEPT !.win = win]
    BY DEF Joined, win
  <1> QED
    BY <1>2, <1>4, <1>5, <1>6, Zenon

(* A row more.                                                              *)
LEMMA RunsMore ==
    ASSUME NEW rows \in Seq(Row), NEW m \in 0 .. Len(rows) - 1, NEW runs, NEW head,
           RunsTo(runs, head, rows, m)
    PROVE  \E next : RunsTo(CollapseRow(runs, rows[m + 1]), next, rows, m + 1)
  <1> DEFINE n == Len(runs)
             row == rows[m + 1]
  <1>1. /\ runs \in Seq(Row) /\ n \in Nat /\ m \in Nat /\ head \in [1 .. n + 1 -> 1 .. m + 1]
        /\ head[1] = 1 /\ head[n + 1] = m + 1
    BY DEF RunsTo
  <1>2. row \in Row /\ m + 1 \in 1 .. Len(rows)
    OBVIOUS
  <1>3. \A p \in 1 .. n : head[p] < head[p + 1] /\ RunIs(runs[p], rows, head[p], head[p + 1])
    BY DEF RunsTo
  <1>4. \A p \in 1 .. n : p < n => ~SameWindow(rows[head[p + 1]].win, runs[p].win)
    BY Zenon DEF RunsTo
  <1> HIDE DEF row
  <1>5. CASE runs # <<>> /\ SameWindow(Last(runs).win, row.win)
    <2> DEFINE next == [head EXCEPT ![n + 1] = m + 2]
               last == Joined(runs[n], row)
               new == [runs EXCEPT ![n] = last]
    <2>1. n # 0 /\ n \in 1 .. n /\ SameWindow(runs[n].win, row.win) /\ runs[n] \in Row
      BY <1>1, <1>5 DEF Last
    <2>2. CollapseRow(runs, row) = new
      BY <1>5 DEF CollapseRow, Last
    <2>3. /\ next \in [1 .. n + 1 -> 1 .. m + 2] /\ next[n + 1] = m + 2
          /\ \A p \in 1 .. n : next[p] = head[p]
      BY <1>1
    <2>4. /\ last \in Row /\ last.ts = runs[n].ts /\ SameWindow(last.win, runs[n].win)
          /\ \A f \in Field : last.win[f] = IF row.win[f] = Unknown THEN runs[n].win[f] ELSE row.win[f]
      BY <1>2, <2>1, JoinedIs
    <2> HIDE DEF next, n, last
    <2>5. /\ new \in Seq(Row) /\ Len(new) = n /\ new[n] = last
          /\ \A p \in 1 .. n : p < n => new[p] = runs[p]
      BY <1>1, <2>1, <2>4 DEF n
    <2> HIDE DEF new
    <2>6. next[1] = 1
      BY <1>1, <2>1, <2>3
    <2>7. ASSUME NEW p \in 1 .. n
          PROVE  /\ next[p] < next[p + 1] /\ RunIs(new[p], rows, next[p], next[p + 1])
                 /\ p < n => ~SameWindow(rows[next[p + 1]].win, new[p].win)
      <3>1. next[p] = head[p] /\ head[p] \in 1 .. m + 1 /\ p \in 1 .. n + 1
        BY <1>1, <2>3
      <3>2. CASE p < n
        <4>1. p + 1 \in 1 .. n
          BY <1>1, <3>2
        <4>2. next[p + 1] = head[p + 1] /\ new[p] = runs[p]
          BY <2>3, <2>5, <3>2, <4>1
        <4> QED
          BY <1>3, <1>4, <3>1, <3>2, <4>2
      <3>3. CASE p = n
        <4>1. PICK h \in 1 .. m + 1 : h = head[n]
          BY <3>1, <3>3
        <4>2. h < m + 1 /\ RunIs(runs[n], rows, h, m + 1)
          BY <1>1, <1>3, <2>1, <4>1
        <4>3. (m + 2) - 1 = m + 1 /\ (m + 1) - 1 = m
          BY <1>1
        <4>4. ASSUME NEW f \in Field
              PROVE  last.win[f] = Told(rows, h .. m + 1, f)
          <5>1. runs[n].win[f] = Told(rows, h .. m, f)
            BY <4>2, <4>3, Zenon DEF RunIs
          <5>2. h \in 1 .. Len(rows) /\ m + 1 \in h .. Len(rows) /\ m + 1 # h
            BY <1>2, <4>2
          <5>3. PICK k \in h .. Len(rows) : k = m + 1 /\ k - 1 = m
            BY <4>3, <5>2
          <5>4. PICK g \in 1 .. Len(rows) : g = h /\ k \in g .. Len(rows)
            BY <5>2
          <5>5. Told(rows, g .. k, f)
                   = IF rows[k].win[f] # Unknown \/ k = g THEN rows[k].win[f]
                     ELSE Told(rows, g .. k - 1, f)
            BY <5>4, ToldMore
          <5> QED
            BY <2>4, <5>1, <5>2, <5>3, <5>4, <5>5, Zenon DEF row
        <4>5. ASSUME NEW j \in h .. m + 1
              PROVE  SameWindow(rows[j].win, last.win)
          <5>1. j \in h .. m \/ j = m + 1
            BY <1>1
          <5>2. SameWindow(rows[j].win, runs[n].win)
            BY <2>1, <4>2, <4>3, <5>1 DEF RunIs, SameWindow, row
          <5> QED
            BY <2>4, <5>2 DEF SameWindow
        <4>6. RunIs(last, rows, h, m + 2)
          BY <2>4, <4>2, <4>3, <4>4, <4>5, Zenon DEF RunIs
        <4>7. h < m + 2
          BY <4>2
        <4> QED
          BY <1>1, <2>3, <2>5, <3>1, <3>3, <4>1, <4>6, <4>7
      <3> QED
        BY <1>1, <3>2, <3>3
    <2>8. m + 2 = (m + 1) + 1
      BY <1>1
    <2>9. RunsTo(new, next, rows, m + 1)
      BY <2>3, <2>5, <2>6, <2>7, <2>8 DEF RunsTo
    <2> QED
      BY <2>2, <2>9 DEF row
  <1>6. CASE ~(runs # <<>> /\ SameWindow(Last(runs).win, row.win))
    <2> DEFINE new == Append(runs, row)
               next == [p \in 1 .. n + 2 |-> IF p <= n + 1 THEN head[p] ELSE m + 2]
    <2>1. CollapseRow(runs, row) = new
      BY <1>6 DEF CollapseRow
    <2>2. /\ new \in Seq(Row) /\ Len(new) = n + 1 /\ new[n + 1] = row
          /\ \A p \in 1 .. n : new[p] = runs[p]
      BY <1>1, <1>2, AppendAt
    <2>3. /\ next \in [1 .. n + 2 -> 1 .. m + 2] /\ next[n + 2] = m + 2
          /\ \A p \in 1 .. n + 1 : next[p] = head[p]
      BY <1>1
    <2>4. n # 0 => ~SameWindow(row.win, runs[n].win)
      <3>1. n # 0 => runs # <<>>
        BY <1>1
      <3> QED
        BY <1>6, <3>1 DEF Last, SameWindow
    <2> HIDE DEF next, n, new
    <2>5. next[1] = 1
      BY <1>1, <2>3
    <2>6. ASSUME NEW p \in 1 .. n + 1
          PROVE  /\ next[p] < next[p + 1] /\ RunIs(new[p], rows, next[p], next[p + 1])
                 /\ p < n + 1 => ~SameWindow(rows[next[p + 1]].win, new[p].win)
      <3>1. CASE p \in 1 .. n
        <4>1. p + 1 \in 1 .. n + 1
          BY <1>1, <3>1
        <4>2. next[p] = head[p] /\ next[p + 1] = head[p + 1] /\ new[p] = runs[p]
          BY <2>2, <2>3, <3>1, <4>1, Zenon
        <4>3. CASE p < n
          BY <1>3, <1>4, <3>1, <4>2, <4>3
        <4>4. CASE p = n
          <5>1. rows[next[p + 1]] = row
            BY <1>1, <4>2, <4>4 DEF row
          <5>2. n # 0
            BY <1>1, <3>1, <4>4
          <5> QED
            BY <1>3, <2>4, <3>1, <4>2, <4>4, <5>1, <5>2
        <4> QED
          BY <1>1, <3>1, <4>3, <4>4
      <3>2. CASE p = n + 1
        <4>0. n + 1 \in 1 .. n + 1 /\ (n + 1) + 1 = n + 2
          BY <1>1
        <4>1. next[p] = m + 1 /\ next[p + 1] = m + 2 /\ new[p] = row
          BY <1>1, <2>2, <2>3, <3>2, <4>0, Zenon
        <4>2. (m + 2) - 1 = m + 1 /\ \A j \in m + 1 .. m + 1 : j = m + 1
          BY <1>1
        <4>3. ASSUME NEW f \in Field
              PROVE  row.win[f] = Told(rows, m + 1 .. m + 1, f)
          <5>1. PICK k \in 1 .. Len(rows) : k = m + 1 /\ k \in k .. Len(rows)
            BY <1>2
          <5>2. Told(rows, k .. k, f)
                   = IF rows[k].win[f] # Unknown \/ k = k THEN rows[k].win[f]
                     ELSE Told(rows, k .. k - 1, f)
            BY <5>1, ToldMore, Zenon
          <5> QED
            BY <5>1, <5>2, Zenon DEF row
        <4>4. RunIs(row, rows, m + 1, m + 2)
          BY <4>2, <4>3 DEF RunIs, SameWindow, row
        <4> QED
          BY <1>1, <3>2, <4>1, <4>4
      <3> QED
        BY <1>1, <3>1, <3>2
    <2>7. m + 2 = (m + 1) + 1 /\ n + 2 = (n + 1) + 1
      BY <1>1
    <2>8. RunsTo(new, next, rows, m + 1)
      BY <2>2, <2>3, <2>5, <2>6, <2>7 DEF RunsTo
    <2> QED
      BY <2>1, <2>8 DEF row
  <1> QED
    BY <1>5, <1>6

(* The first row of a run is of its window.                                 *)
LEMMA HeadOfRun ==
    ASSUME NEW rows, NEW m \in Nat, NEW runs, NEW head, RunsTo(runs, head, rows, m),
           NEW p \in 1 .. Len(runs)
    PROVE  SameWindow(runs[p].win, rows[head[p]].win)
  <1>1. /\ head \in [1 .. Len(runs) + 1 -> 1 .. m + 1] /\ Len(runs) \in Nat
        /\ head[p] < head[p + 1]
        /\ \A j \in head[p] .. head[p + 1] - 1 : SameWindow(rows[j].win, runs[p].win)
    BY DEF RunsTo, RunIs
  <1>2. head[p] \in Int /\ head[p + 1] \in Int
    BY <1>1
  <1>3. head[p] \in head[p] .. head[p + 1] - 1
    BY <1>1, <1>2
  <1> QED
    BY <1>1, <1>3 DEF SameWindow

(* The rows of a day fall into runs.                                        *)
LEMMA CollapseRuns ==
    ASSUME NEW rows \in Seq(Row)
    PROVE  \E head : RunsTo(Collapse(rows), head, rows, Len(rows))
  <1> DEFINE n == Len(rows)
             last == FoldLeft(CollapseRow, <<>>, rows)
  <1>1. n \in Nat
    OBVIOUS
  <1>2. PICK acc : /\ acc[0] = <<>> /\ last = acc[n]
                   /\ \A k \in 1 .. n : acc[k] = CollapseRow(acc[k - 1], rows[k])
    <2>1. last = Collapsing!Folded(<<>>, rows)
      BY DEF FoldLeft, MapThenFoldSet, Collapsing!Folded, Collapsing!Rec, Max, Collapsing!Greatest
    <2> HIDE DEF last
    <2>2. \E acc : Collapsing!Steps(acc, <<>>, rows) /\ Collapsing!Folded(<<>>, rows) = acc[n]
      BY Collapsing!FoldHasSteps
    <2> QED
      BY <2>1, <2>2 DEF Collapsing!Steps
  <1>3. Collapse(rows) = last
    BY DEF Collapse
  <1> HIDE DEF last
  <1> DEFINE T == {m \in 0 .. n : \E head : RunsTo(acc[m], head, rows, m)}
  <1>4. 0 \in T
    <2> DEFINE head == [p \in 1 .. 1 |-> 1]
    <2>1. <<>> \in Seq(Row) /\ Len(<<>>) = 0
      OBVIOUS
    <2>2. RunsTo(<<>>, head, rows, 0)
      BY <2>1 DEF RunsTo
    <2> QED
      BY <1>1, <1>2, <2>2
  <1>5. \A m \in 0 .. n - 1 : m \in T => m + 1 \in T
    <2> SUFFICES ASSUME NEW m \in 0 .. n - 1, NEW head, RunsTo(acc[m], head, rows, m)
                 PROVE  m + 1 \in T
      BY Zenon
    <2>1. m + 1 \in 1 .. n /\ m + 1 \in 0 .. n /\ (m + 1) - 1 = m
      BY <1>1
    <2>2. acc[m + 1] = CollapseRow(acc[m], rows[m + 1])
      BY <1>2, <2>1
    <2>3. \E next : RunsTo(CollapseRow(acc[m], rows[m + 1]), next, rows, m + 1)
      BY RunsMore
    <2> QED
      BY <2>1, <2>2, <2>3
  <1>6. 0 .. n \subseteq T
    <2> HIDE DEF T
    <2> QED
      BY <1>1, <1>4, <1>5, Collapsing!UpTo, Zenon
  <1> QED
    BY <1>1, <1>2, <1>3, <1>6

(* Heads grow.                                                              *)
LEMMA HeadsGrow ==
    ASSUME NEW rows, NEW m \in Nat, NEW runs, NEW head, RunsTo(runs, head, rows, m),
           NEW p \in 1 .. Len(runs) + 1, NEW q \in 1 .. Len(runs) + 1, p <= q
    PROVE  head[p] <= head[q]
  <1> DEFINE n == Len(runs)
  <1>1. n \in Nat /\ head \in [1 .. n + 1 -> Int] /\ \A i \in 1 .. n : head[i] < head[i + 1]
    BY DEF RunsTo
  <1> HIDE DEF n
  <1> DEFINE T == {i \in 0 .. n : p <= i + 1 => head[p] <= head[i + 1]}
  <1>2. 0 \in T
    BY <1>1 DEF n
  <1>3. \A i \in 0 .. n - 1 : i \in T => i + 1 \in T
    <2> SUFFICES ASSUME NEW i \in 0 .. n - 1, i \in T, p <= (i + 1) + 1
                 PROVE  head[p] <= head[(i + 1) + 1]
      BY <1>1
    <2>1. p \in 1 .. n + 1 /\ i + 1 \in 1 .. n /\ i + 1 \in 1 .. n + 1 /\ (i + 1) + 1 \in 1 .. n + 1
      BY <1>1 DEF n
    <2>2. head[i + 1] < head[(i + 1) + 1]
      BY <1>1, <2>1
    <2>3. p <= i + 1 \/ p = (i + 1) + 1
      BY <2>1
    <2> QED
      BY <1>1, <2>1, <2>2, <2>3
  <1>4. 0 .. n \subseteq T
    <2> HIDE DEF T
    <2> QED
      BY <1>1, <1>2, <1>3, Collapsing!UpTo, Zenon
  <1>5. q - 1 \in 0 .. n /\ (q - 1) + 1 = q
    BY <1>1 DEF n
  <1>6. q - 1 \in T
    <2> HIDE DEF T
    <2> QED
      BY <1>4, <1>5
  <1> QED
    BY <1>5, <1>6

\* The first row of the run of row m, as RunAt has it.
HeadOf(rows, m) == Min({i \in 1 .. m : \A j \in i .. m : SameWindow(rows[j].win, rows[m].win)})

(* Every row is of one run, which RunAt names by its head.                  *)
LEMMA RunOfRow ==
    ASSUME NEW rows, NEW n \in Nat, NEW runs, NEW head, RunsTo(runs, head, rows, n), NEW m \in 1 .. n
    PROVE  /\ \E p \in 1 .. Len(runs) : head[p] <= m /\ m < head[p + 1]
           /\ \A p, q \in 1 .. Len(runs) :
                 /\ head[p] <= m /\ m < head[p + 1] /\ head[q] <= m /\ m < head[q + 1] => p = q
           /\ \A p \in 1 .. Len(runs) : head[p] <= m /\ m < head[p + 1] =>
                 /\ HeadOf(rows, m) = head[p]
                 /\ SameWindow(rows[head[p]].win, rows[m].win)
  <1> DEFINE len == Len(runs)
  <1>1. /\ len \in Nat /\ head \in [1 .. len + 1 -> 1 .. n + 1] /\ head[1] = 1 /\ head[len + 1] = n + 1
    BY DEF RunsTo
  <1>2. \A p \in 1 .. len : /\ head[p] < head[p + 1]
                            /\ \A j \in head[p] .. head[p + 1] - 1 : SameWindow(rows[j].win, runs[p].win)
    BY DEF RunsTo, RunIs
  <1>3. \A p \in 1 .. len : p < len => ~SameWindow(rows[head[p + 1]].win, runs[p].win)
    BY DEF RunsTo
  <1>4. \A p, q \in 1 .. len + 1 : p <= q => head[p] <= head[q]
    BY HeadsGrow
  <1> HIDE DEF len
  <1>5. \A p \in 1 .. len + 1 : head[p] \in Int
    BY <1>1
  <1>6. \A p \in 1 .. len : p \in 1 .. len + 1 /\ p + 1 \in 1 .. len + 1
    BY <1>1
  <1>7. \E p \in 1 .. len : head[p] <= m /\ m < head[p + 1]
    <2> DEFINE s == {p \in 1 .. len : head[p] <= m}
    <2>1. len # 0
      BY <1>1
    <2>2. s \in SUBSET (1 .. len) /\ s # {}
      <3>1. 1 \in s
        BY <1>1, <2>1
      <3> QED
        BY <3>1
    <2>3. PICK p \in s : \A q \in s : q <= p
      <3> HIDE DEF s
      <3> QED
        BY <1>1, <2>2, HasGreatest, Zenon
    <2>4. p \in 1 .. len /\ head[p] <= m
      OBVIOUS
    <2>5. m < head[p + 1]
      <3>1. CASE p = len
        BY <1>1, <3>1
      <3>2. CASE p # len
        <4>1. p + 1 \in 1 .. len /\ p + 1 \notin s
          BY <1>1, <2>3, <2>4, <3>2
        <4>2. ~(head[p + 1] <= m)
          BY <4>1
        <4> QED
          BY <1>5, <1>6, <2>4, <4>2
      <3> QED
        BY <3>1, <3>2
    <2> QED
      BY <2>4, <2>5
  <1>8. ASSUME NEW p \in 1 .. len, NEW q \in 1 .. len, head[p] <= m, m < head[p + 1],
               head[q] <= m, m < head[q + 1]
        PROVE  p = q
    <2>1. p < q => p + 1 <= q
      BY <1>1
    <2>2. q < p => q + 1 <= p
      BY <1>1
    <2>3. p < q => head[p + 1] <= head[q]
      BY <1>4, <1>6, <2>1
    <2>4. q < p => head[q + 1] <= head[p]
      BY <1>4, <1>6, <2>2
    <2>5. /\ head[p] \in Int /\ head[q] \in Int /\ head[p + 1] \in Int /\ head[q + 1] \in Int
      BY <1>5, <1>6
    <2>6. ~(p < q) /\ ~(q < p)
      BY <1>8, <2>3, <2>4, <2>5
    <2> QED
      BY <1>1, <2>6
  <1>9. ASSUME NEW p \in 1 .. len, head[p] <= m, m < head[p + 1]
        PROVE  /\ Min({i \in 1 .. m : \A j \in i .. m : SameWindow(rows[j].win, rows[m].win)}) = head[p]
               /\ SameWindow(rows[head[p]].win, rows[m].win)
    <2> DEFINE s == {i \in 1 .. m : \A j \in i .. m : SameWindow(rows[j].win, rows[m].win)}
    <2>1. PICK h \in 1 .. n + 1, e \in 1 .. n + 1 : h = head[p] /\ e = head[p + 1]
      BY <1>1, <1>6
    <2>2. h \in 1 .. m /\ m \in h .. e - 1
      BY <1>9, <2>1
    <2>3. \A j \in h .. e - 1 : SameWindow(rows[j].win, runs[p].win)
      BY <1>2, <2>1
    <2>4. SameWindow(rows[m].win, runs[p].win) /\ SameWindow(rows[h].win, runs[p].win)
      BY <1>2, <2>1, <2>2, <2>3
    <2>5. h \in s
      <3>1. \A j \in h .. m : j \in h .. e - 1
        BY <2>2
      <3> QED
        BY <2>2, <2>3, <2>4, <3>1 DEF SameWindow
    <2>6. ASSUME NEW i \in s
          PROVE  h <= i
      <3> SUFFICES ASSUME i < h
                   PROVE  FALSE
        OBVIOUS
      <3>1. i \in 1 .. m /\ h - 1 \in i .. m
        BY <2>2
      <3>2. SameWindow(rows[h - 1].win, rows[m].win)
        BY <2>6, <3>1
      <3>3. p # 1
        BY <1>1, <2>1, <3>1
      <3>4. p - 1 \in 1 .. len /\ p - 1 < len /\ (p - 1) + 1 = p
        BY <1>1, <3>3
      <3>5. PICK g \in 1 .. n + 1 : g = head[p - 1]
        BY <1>1, <1>6, <3>4
      <3>6. g < h /\ ~SameWindow(rows[h].win, runs[p - 1].win)
            /\ \A j \in g .. h - 1 : SameWindow(rows[j].win, runs[p - 1].win)
        BY <1>2, <1>3, <2>1, <3>4, <3>5
      <3>7. h - 1 \in g .. h - 1
        BY <3>6
      <3>8. SameWindow(rows[h - 1].win, runs[p - 1].win)
        BY <3>6, <3>7
      <3> QED
        BY <2>4, <3>2, <3>6, <3>8 DEF SameWindow
    <2>7. Min(s) = h
      <3>1. s \in SUBSET Int
        OBVIOUS
      <3> HIDE DEF s
      <3> QED
        BY <2>5, <2>6, <3>1, MinIs
    <2> QED
      BY <2>1, <2>4, <2>7 DEF SameWindow
  <1> QED
    BY <1>7, <1>8, <1>9, Zenon DEF len, HeadOf

-----------------------------------------------------------------------------
(* The focus segments *)

(* A run is held while its rows are the newest.                             *)
LEMMA HeldShape ==
    ASSUME NEW rows \in Seq(Row), NEW horizon \in Int, InOrder(rows), Within(rows, 0, horizon),
           NEW runs, NEW head, RunsTo(runs, head, rows, Len(rows)), NEW p \in 1 .. Len(runs)
    PROVE  LET held == Held(runs, p, horizon)
           IN  /\ held \in Segment /\ held.win = runs[p].win
               /\ 0 <= held.start /\ held.start <= held.end /\ held.end <= horizon
               /\ \A t \in Int, m \in 0 .. Len(rows) : t < horizon /\ NewestAt(rows, t, m) =>
                     (Covers(held, t) <=> head[p] <= m /\ m < head[p + 1])
               /\ \A q \in 1 .. Len(runs) : p < q => held.end <= Held(runs, q, horizon).start
  <1> DEFINE n == Len(rows)
             len == Len(runs)
             held == Held(runs, p, horizon)
  <1>1. n \in Nat /\ len \in Nat /\ head \in [1 .. len + 1 -> 1 .. n + 1] /\ head[len + 1] = n + 1
    BY DEF RunsTo
  <1>2. \A q \in 1 .. len : head[q] < head[q + 1] /\ runs[q].ts = rows[head[q]].ts
    BY Zenon DEF RunsTo, RunIs
  <1>3. \A i \in 1 .. len + 1, j \in 1 .. len + 1 : i <= j => head[i] <= head[j]
    BY <1>1, HeadsGrow, Zenon
  <1>4. PICK ts \in [1 .. n -> Int] : \A i \in 1 .. n : ts[i] = rows[i].ts
    <2> DEFINE ts == [i \in 1 .. n |-> rows[i].ts]
    <2>1. ASSUME NEW i \in 1 .. n
          PROVE  rows[i].ts \in Int
      <3>1. rows[i] \in Row
        OBVIOUS
      <3> QED
        BY <3>1, Zenon DEF Row
    <2>2. ts \in [1 .. n -> Int]
      BY <2>1
    <2> QED
      BY <2>2, Zenon
  <1>5. \A i \in 1 .. n : 0 <= ts[i] /\ ts[i] <= horizon
    BY <1>4 DEF Within
  <1>6. \A i, j \in 1 .. n : i <= j => ts[i] <= ts[j]
    BY <1>4, Zenon DEF InOrder
  <1> HIDE DEF n, len
  <1>7. \A q \in 1 .. len : q \in 1 .. len + 1 /\ q + 1 \in 1 .. len + 1
    BY <1>1
  <1>8. ASSUME NEW q \in 1 .. len
        PROVE  head[q] \in 1 .. n /\ Held(runs, q, horizon).start = ts[head[q]]
    <2>1. head[q] \in 1 .. n
      BY <1>1, <1>2, <1>7
    <2>2. Held(runs, q, horizon).start = runs[q].ts
      BY DEF Held
    <2> QED
      BY <1>2, <1>4, <2>1, <2>2, Zenon
  <1>9. PICK h \in 1 .. n, e \in 1 .. n + 1 : h = head[p] /\ e = head[p + 1] /\ h < e
    BY <1>1, <1>2, <1>7, <1>8, Zenon DEF len
  <1>10. p < len => p + 1 \in 1 .. len /\ e \in 1 .. n
    BY <1>1, <1>8, <1>9 DEF len
  <1>11. ~(p < len) => e = n + 1
    BY <1>1, <1>9 DEF len
  <1>12. held = [start |-> runs[p].ts, end |-> IF p < len THEN runs[p + 1].ts ELSE horizon,
                 win |-> runs[p].win]
    BY DEF Held, len
  <1> HIDE DEF held
  <1>13. held.start = ts[h] /\ held.end = IF p < len THEN ts[e] ELSE horizon
    <2>1. runs[p].ts = ts[h]
      BY <1>2, <1>4, <1>9, Zenon DEF len
    <2>2. p < len => runs[p + 1].ts = ts[e]
      BY <1>2, <1>4, <1>9, <1>10, Zenon
    <2> QED
      BY <1>12, <2>1, <2>2
  <1>14. PICK a \in Int, b \in Int : a = held.start /\ b = held.end /\ a = ts[h]
                                     /\ b = IF p < len THEN ts[e] ELSE horizon
    BY <1>10, <1>13
  <1>15. held \in Segment /\ held.win = runs[p].win
    <2>1. runs[p] \in Row
      BY DEF RunsTo
    <2>2. runs[p].win \in Window
      BY <2>1 DEF Row
    <2>3. held = [start |-> a, end |-> b, win |-> runs[p].win]
      BY <1>12, <1>14
    <2> QED
      BY <1>9, <2>1, <2>2, <2>3 DEF Segment
  <1>16. 0 <= a /\ a <= b /\ b <= horizon
    <2>1. p < len => ts[h] <= ts[e] /\ ts[e] <= horizon
      BY <1>5, <1>6, <1>9, <1>10
    <2> QED
      BY <1>5, <1>14, <2>1
  <1>17. ASSUME NEW t \in Int, NEW m \in 0 .. n, t < horizon, NewestAt(rows, t, m)
         PROVE  Covers(held, t) <=> h <= m /\ m < e
    <2>1. m # 0 => m \in 1 .. n /\ ts[m] <= t
      BY <1>1, <1>4, <1>17 DEF NewestAt
    <2>2. m < n => m + 1 \in 1 .. n /\ t < ts[m + 1]
      BY <1>1, <1>4, <1>17 DEF NewestAt, n
    <2>3. Covers(held, t) <=> a <= t /\ t < b
      BY <1>14 DEF Covers
    <2>4. ASSUME h <= m
          PROVE  a <= t
      <3>1. m \in 1 .. n /\ ts[m] <= t
        BY <1>9, <2>1, <2>4
      <3>2. ts[h] <= ts[m]
        BY <1>6, <2>4, <3>1
      <3> QED
        BY <1>14, <3>1, <3>2
    <2>5. ASSUME m < e
          PROVE  t < b
      <3>1. CASE p < len
        <4>1. e \in 1 .. n
          BY <1>10, <3>1
        <4>2. m < n
          BY <1>1, <2>5, <4>1
        <4>3. m + 1 \in 1 .. n /\ t < ts[m + 1]
          BY <2>2, <4>2
        <4>4. ts[m + 1] <= ts[e]
          BY <1>6, <2>5, <4>1, <4>3
        <4> QED
          BY <1>14, <3>1, <4>1, <4>3, <4>4
      <3>2. CASE ~(p < len)
        BY <1>14, <1>17, <3>2
      <3> QED
        BY <3>1, <3>2
    <2>6. ASSUME a <= t, ~(h <= m)
          PROVE  FALSE
      <3>1. m < n /\ m + 1 <= h
        BY <1>1, <1>9, <2>6, SMTT(30)
      <3>2. m + 1 \in 1 .. n /\ t < ts[m + 1]
        BY <2>2, <3>1
      <3>3. ts[m + 1] <= ts[h]
        BY <1>6, <3>1, <3>2
      <3> QED
        BY <1>14, <2>6, <3>2, <3>3
    <2>7. ASSUME t < b, ~(m < e)
          PROVE  FALSE
      <3>1. p < len
        BY <1>1, <1>11, <2>7
      <3>2. e \in 1 .. n /\ e <= m
        BY <1>10, <2>7, <3>1
      <3>3. m \in 1 .. n /\ ts[m] <= t
        BY <2>1, <3>2
      <3>4. ts[e] <= ts[m]
        BY <1>6, <3>2, <3>3
      <3> QED
        BY <1>14, <2>7, <3>1, <3>2, <3>3, <3>4
    <2> QED
      BY <2>3, <2>4, <2>5, <2>6, <2>7
  <1>18. ASSUME NEW q \in 1 .. len, p < q
         PROVE  held.end <= Held(runs, q, horizon).start
    <2>1. p < len /\ p + 1 <= q
      BY <1>1, <1>18 DEF len
    <2>2. PICK g \in 1 .. n : g = head[q] /\ Held(runs, q, horizon).start = ts[g]
      BY <1>8
    <2>3. e <= g
      BY <1>3, <1>7, <1>9, <2>1, <2>2, Zenon DEF len
    <2>4. ts[e] <= ts[g]
      BY <1>6, <1>10, <2>1, <2>2, <2>3
    <2> QED
      BY <1>14, <2>1, <2>2, <2>4
  <1> QED
    BY <1>9, <1>14, <1>15, <1>16, <1>17, <1>18 DEF n, len, held

(* A piece is a longest stretch of the seconds the pieces cover.            *)
LEMMA PieceIsStretch ==
    ASSUME NEW list, NEW win, NEW from, NEW to, Parts(list, win, from, to),
           NEW free \in SUBSET Int, \A v \in Int : Covered(list, v) <=> v \in free,
           NEW l \in 1 .. Len(list), NEW t \in Int, Covers(list[l], t)
    PROVE  {u \in free : Min({t, u}) .. Max({t, u}) \subseteq free}
              = list[l].start .. list[l].end - 1
  <1>1. list \in Seq(Segment) /\ Len(list) \in Nat
    BY DEF Parts
  <1>2. ASSUME NEW k \in 1 .. Len(list)
        PROVE  list[k].start \in Int /\ list[k].end \in Int /\ list[k].start < list[k].end
    <2>1. list[k] \in Segment
      BY <1>1
    <2> QED
      BY <2>1, Zenon DEF Segment, Parts
  <1>3. PICK a \in Int, b \in Int : a = list[l].start /\ b = list[l].end
    BY <1>2
  <1>4. a <= t /\ t < b
    BY <1>3 DEF Covers
  <1>5. ASSUME NEW k \in 1 .. Len(list), k # l
        PROVE  ~Covers(list[k], b) /\ ~Covers(list[k], a - 1)
    <2>1. PICK c \in Int, d \in Int : c = list[k].start /\ d = list[k].end /\ c < d
      BY <1>2
    <2>2. k < l \/ l < k
      BY <1>1, <1>5
    <2>3. k < l => d < a
      BY <1>3, <2>1 DEF Parts
    <2>4. l < k => b < c
      BY <1>3, <2>1 DEF Parts
    <2>5. (d < a \/ b < c) => ~(c <= b /\ b < d) /\ ~(c <= a - 1 /\ a - 1 < d)
      BY <1>4, <2>1
    <2> QED
      BY <2>1, <2>2, <2>3, <2>4, <2>5 DEF Covers
  <1>6. b \notin free /\ a - 1 \notin free
    <2>1. ~Covers(list[l], b) /\ ~Covers(list[l], a - 1)
      BY <1>3 DEF Covers
    <2>2. ~Covered(list, b) /\ ~Covered(list, a - 1)
      BY <1>5, <2>1 DEF Covered
    <2> QED
      BY <2>2
  <1>7. ASSUME NEW v \in a .. b - 1
        PROVE  v \in free
    <2>1. Covers(list[l], v) /\ v \in Int
      BY <1>3 DEF Covers
    <2>2. Covered(list, v)
      BY <2>1 DEF Covered
    <2> QED
      BY <2>1, <2>2
  <1>8. ASSUME NEW u \in Int
        PROVE  Min({t, u}) .. Max({t, u}) = IF t <= u THEN t .. u ELSE u .. t
    BY MinOfTwo, MaxOfTwo
  <1>9. ASSUME NEW u \in a .. b - 1
        PROVE  u \in free /\ Min({t, u}) .. Max({t, u}) \subseteq free
    <2>1. u \in Int /\ u \in free
      BY <1>7
    <2>2. \A v \in (IF t <= u THEN t .. u ELSE u .. t) : v \in a .. b - 1
      BY <1>4, <2>1
    <2> QED
      BY <1>7, <1>8, <2>1, <2>2, Zenon
  <1>10. ASSUME NEW u \in free, Min({t, u}) .. Max({t, u}) \subseteq free
         PROVE  u \in a .. b - 1
    <2>1. u \in Int
      OBVIOUS
    <2>2. b \notin (IF t <= u THEN t .. u ELSE u .. t) /\ a - 1 \notin (IF t <= u THEN t .. u ELSE u .. t)
      BY <1>6, <1>8, <1>10, <2>1, Zenon
    <2> QED
      BY <1>4, <2>1, <2>2
  <1>11. {u \in free : Min({t, u}) .. Max({t, u}) \subseteq free} = a .. b - 1
    BY <1>9, <1>10, Zenon
  <1> QED
    BY <1>3, <1>11, Zenon

(* The pieces that are long enough are kept as they are.                    *)
LEMMA LongKept ==
    ASSUME NEW list, NEW win, NEW from, NEW to, Parts(list, win, from, to)
    PROVE  LET kept == LongEnough(list)
           IN  /\ Parts(kept, win, from, to)
               /\ \A k \in 1 .. Len(kept) : /\ kept[k].end - kept[k].start >= MinDwell
                                            /\ \E l \in 1 .. Len(list) : kept[k] = list[l]
               /\ \A l \in 1 .. Len(list) : list[l].end - list[l].start >= MinDwell =>
                     \E k \in 1 .. Len(kept) : kept[k] = list[l]
  <1> DEFINE wanted == {s \in Range(list) : s.end - s.start >= MinDwell}
             kept == Only(list, wanted)
  <1>1. list \in Seq(Segment)
    BY DEF Parts
  <1>2. \A l \in 1 .. Len(list) : list[l] \in wanted <=> list[l].end - list[l].start >= MinDwell
    BY <1>1 DEF Range
  <1>3. LongEnough(list) = kept
    BY DEF LongEnough
  <1> HIDE DEF wanted
  <1>4. kept \in Seq(Segment)
    BY <1>1, OnlyKeeps
  <1>5. PICK place \in [1 .. Len(kept) -> 1 .. Len(list)] :
            /\ \A p \in 1 .. Len(kept) : kept[p] = list[place[p]] /\ kept[p] \in wanted
            /\ \A p, q \in 1 .. Len(kept) : p < q => place[p] < place[q]
            /\ \A i \in 1 .. Len(list) : list[i] \in wanted => \E p \in 1 .. Len(kept) : place[p] = i
    BY <1>1, OnlyKeeps
  <1> HIDE DEF kept
  <1>6. ASSUME NEW k \in 1 .. Len(kept)
        PROVE  /\ from <= kept[k].start /\ kept[k].start < kept[k].end
               /\ kept[k].end <= to /\ kept[k].win = win
               /\ kept[k].end - kept[k].start >= MinDwell
               /\ \E l \in 1 .. Len(list) : kept[k] = list[l]
    <2>1. PICK l \in 1 .. Len(list) : l = place[k] /\ kept[k] = list[l] /\ list[l] \in wanted
      BY <1>5
    <2>2. /\ from <= list[l].start /\ list[l].start < list[l].end
          /\ list[l].end <= to /\ list[l].win = win
      BY DEF Parts
    <2>3. list[l].end - list[l].start >= MinDwell
      BY <1>2, <2>1
    <2> QED
      BY <2>1, <2>2, <2>3, Zenon
  <1>7. ASSUME NEW k \in 1 .. Len(kept), NEW l \in 1 .. Len(kept), k < l
        PROVE  kept[k].end < kept[l].start
    <2>1. PICK i \in 1 .. Len(list), j \in 1 .. Len(list) : i = place[k] /\ j = place[l]
      OBVIOUS
    <2>2. kept[k] = list[i] /\ kept[l] = list[j] /\ i < j
      BY <1>5, <1>7, <2>1
    <2>3. list[i].end < list[j].start
      BY <2>2 DEF Parts
    <2> QED
      BY <2>2, <2>3, Zenon
  <1>8. ASSUME NEW l \in 1 .. Len(list), list[l].end - list[l].start >= MinDwell
        PROVE  \E k \in 1 .. Len(kept) : kept[k] = list[l]
    <2>1. list[l] \in wanted
      BY <1>2, <1>8
    <2>2. PICK k \in 1 .. Len(kept) : place[k] = l
      BY <1>5, <2>1
    <2> QED
      BY <1>5, <2>2
  <1> QED
    BY <1>3, <1>4, <1>6, <1>7, <1>8 DEF Parts

\* What the absences leave of run p.
Pieces(runs, away, p) == SubtractRanges(Held(runs, p, Horizon), away)
\* The seconds FocusIsAttributedOnce calls free, and those of the run whose first row is h.
FreeSeconds(rows, away) == {t \in Seconds : Before(rows, t) # {} /\ Covering(away, t) = {}}
SecondsOf(rows, away, h) == {t \in FreeSeconds(rows, away) : RunAt(rows, t) = h}

(* The pieces of a run cover its free seconds.                              *)
LEMMA PiecesOfRun ==
    ASSUME NEW rows \in Seq(Row), Horizon \in Nat, InOrder(rows), Within(rows, 0, Horizon),
           NEW away \in Seq(AwaySlice), Inside(away, Horizon),
           NEW runs, NEW head, RunsTo(runs, head, rows, Len(rows)), NEW p \in 1 .. Len(runs)
    PROVE  /\ Parts(Pieces(runs, away, p), runs[p].win, Held(runs, p, Horizon).start,
                    Held(runs, p, Horizon).end)
           /\ \A v \in Int : Covered(Pieces(runs, away, p), v) <=> v \in SecondsOf(rows, away, head[p])
  <1> DEFINE n == Len(rows)
             len == Len(runs)
             held == Held(runs, p, Horizon)
             out == SubtractRanges(held, away)
             free == FreeSeconds(rows, away)
  <1>1. /\ n \in Nat /\ len \in Nat /\ head \in [1 .. len + 1 -> 1 .. n + 1] /\ head[len + 1] = n + 1
        /\ \A q \in 1 .. len : head[q] < head[q + 1]
    BY DEF RunsTo
  <1>2. /\ held \in Segment /\ held.win = runs[p].win
        /\ 0 <= held.start /\ held.end <= Horizon
        /\ \A t \in Int, m \in 0 .. n : t < Horizon /\ NewestAt(rows, t, m) =>
              (Covers(held, t) <=> head[p] <= m /\ m < head[p + 1])
    BY HeldShape
  <1>3. \A i \in 1 .. Len(away) : /\ away[i].start \in Int /\ away[i].end \in Int
                                  /\ away[i].start < away[i].end
    <2> SUFFICES ASSUME NEW i \in 1 .. Len(away)
                 PROVE  /\ away[i].start \in Int /\ away[i].end \in Int
                        /\ away[i].start < away[i].end
      OBVIOUS
    <2>1. away[i] \in AwaySlice
      OBVIOUS
    <2> QED
      BY <2>1, Zenon DEF AwaySlice, Inside
  <1>4. held.start \in Int /\ held.end \in Int
    BY <1>2 DEF Segment
  <1> HIDE DEF held
  <1>5. /\ Parts(out, held.win, held.start, held.end)
        /\ \A t \in Int : Covered(out, t) <=> Covers(held, t) /\ ~Covered(away, t)
    BY <1>2, <1>3, Subtracted
  <1>8. ASSUME NEW m \in 1 .. n
        PROVE  /\ \E i \in 1 .. len : head[i] <= m /\ m < head[i + 1]
               /\ \A i, j \in 1 .. len :
                     /\ head[i] <= m /\ m < head[i + 1] /\ head[j] <= m /\ m < head[j + 1] => i = j
               /\ \A i \in 1 .. len : head[i] <= m /\ m < head[i + 1] =>
                     HeadOf(rows, m) = head[i]
    <2>1. PICK N \in Nat : N = Len(rows)
      BY <1>1
    <2>2. RunsTo(runs, head, rows, N) /\ m \in 1 .. N
      BY <2>1
    <2>3. /\ \E i \in 1 .. Len(runs) : head[i] <= m /\ m < head[i + 1]
          /\ \A i, j \in 1 .. Len(runs) :
                /\ head[i] <= m /\ m < head[i + 1] /\ head[j] <= m /\ m < head[j + 1] => i = j
          /\ \A i \in 1 .. Len(runs) : head[i] <= m /\ m < head[i + 1] =>
                /\ HeadOf(rows, m) = head[i]
                /\ SameWindow(rows[head[i]].win, rows[m].win)
      BY <2>2, RunOfRow, SMTT(30)
    <2> QED
      BY <2>3
  <1> HIDE DEF out, n, len
  <1>6. \A t : Covered(away, t) <=> Covering(away, t) # {}
    BY DEF Covered, Covering, Covers
  <1>7. ASSUME NEW v \in Int
        PROVE  Covered(out, v) <=> v \in free /\ RunAt(rows, v) = head[p]
    <2>1. Seconds = 0 .. Horizon - 1
      BY DEF Seconds
    <2>2. CASE v \in Seconds
      <3>1. v < Horizon
        BY <2>1, <2>2
      <3>2. PICK m \in 0 .. n : IsNewest(rows, v, m)
        <4>1. Timed(rows)
          <5>1. ASSUME NEW i \in 1 .. Len(rows)
                PROVE  rows[i].ts \in Int
            <6>1. rows[i] \in Row
              OBVIOUS
            <6> QED
              BY <6>1, Zenon DEF Row
          <5> QED
            BY <5>1 DEF Timed
        <4> QED
          BY <4>1, NewestExists, Zenon DEF n
      <3>3. Covers(held, v) <=> head[p] <= m /\ m < head[p + 1]
        BY <1>2, <3>1, <3>2 DEF IsNewest
      <3>4. p \in 1 .. len + 1 /\ p + 1 \in 1 .. len + 1
        BY <1>1 DEF len
      <3>5. v \in free <=> m # 0 /\ ~Covered(away, v)
        BY <1>6, <2>2, <3>2, Zenon DEF FreeSeconds, IsNewest
      <3>6. m # 0 => (RunAt(rows, v) = head[p] <=> head[p] <= m /\ m < head[p + 1])
        <4> SUFFICES ASSUME m # 0
                     PROVE  RunAt(rows, v) = head[p] <=> head[p] <= m /\ m < head[p + 1]
          OBVIOUS
        <4>1. m \in 1 .. n
          BY <1>1
        <4>2. RunAt(rows, v) = HeadOf(rows, m)
          BY <3>2, Zenon DEF RunAt, HeadOf, IsNewest
        <4>3. PICK q \in 1 .. len : head[q] <= m /\ m < head[q + 1]
          BY <1>8, <4>1
        <4>4. RunAt(rows, v) = head[q]
          BY <1>8, <4>1, <4>2, <4>3, Zenon
        <4>9. p \in 1 .. len
          BY DEF len
        <4>5. ASSUME head[p] <= m, m < head[p + 1]
              PROVE  p = q
          BY <1>8, <4>1, <4>3, <4>5, <4>9, Zenon
        <4>6. ASSUME head[p] = head[q]
              PROVE  p = q
          <5>1. q \in 1 .. len + 1 /\ q + 1 \in 1 .. len + 1 /\ p \in 1 .. len
            BY <1>1 DEF len
          <5>2. PICK x \in 1 .. n + 1 : x = head[p]
            BY <1>1, <3>4, Zenon
          <5>3. PICK y \in 1 .. n + 1, z \in 1 .. n + 1 : y = head[p + 1] /\ z = head[q + 1]
            BY <1>1, <3>4, <5>1, Zenon
          <5>4. x < y /\ x < z /\ x \in 1 .. n
            BY <1>1, <4>6, <5>1, <5>2, <5>3
          <5>5. head[p] <= x /\ x < head[p + 1] /\ head[q] <= x /\ x < head[q + 1]
            BY <4>6, <5>2, <5>3, <5>4
          <5> QED
            BY <1>8, <4>9, <5>4, <5>5, Zenon
        <4> QED
          BY <4>3, <4>4, <4>5, <4>6
      <3>7. (head[p] <= m /\ m < head[p + 1]) => m # 0
        BY <1>1, <3>4
      <3> QED
        BY <1>5, <3>3, <3>5, <3>6, <3>7
    <2>3. CASE v \notin Seconds
      <3>1. ~Covers(held, v)
        BY <1>2, <1>4, <2>1, <2>3 DEF Covers
      <3> QED
        BY <1>5, <2>3, <3>1 DEF FreeSeconds
    <2> QED
      BY <2>2, <2>3
  <1> QED
    BY <1>2, <1>5, <1>7 DEF Pieces, SecondsOf, out, held

(* The newest row of a free second is of a run.                             *)
LEMMA RunsCover ==
    ASSUME NEW rows \in Seq(Row), Horizon \in Nat, InOrder(rows), NEW away,
           NEW runs, NEW head, RunsTo(runs, head, rows, Len(rows)), NEW t \in FreeSeconds(rows, away)
    PROVE  \E p \in 1 .. Len(runs) : RunAt(rows, t) = head[p]
  <1>1. t \in Int /\ Before(rows, t) # {}
    BY DEF FreeSeconds, Seconds
  <1>2. Timed(rows)
    <2>1. ASSUME NEW i \in 1 .. Len(rows)
          PROVE  rows[i].ts \in Int
      <3>1. rows[i] \in Row
        OBVIOUS
      <3> QED
        BY <3>1 DEF Row
    <2> QED
      BY <2>1 DEF Timed
  <1>3. PICK m \in 0 .. Len(rows) : IsNewest(rows, t, m)
    BY <1>1, <1>2, NewestExists
  <1>4. m \in 1 .. Len(rows) /\ Len(rows) \in Nat
    BY <1>1, <1>3 DEF IsNewest
  <1>5. RunAt(rows, t) = HeadOf(rows, m)
    <2>1. Max(Before(rows, t)) = m
      BY <1>3, <1>4 DEF IsNewest
    <2> QED
      BY <2>1 DEF RunAt, HeadOf
  <1>6. PICK p \in 1 .. Len(runs) : head[p] <= m /\ m < head[p + 1]
    BY <1>4, RunOfRow
  <1>7. HeadOf(rows, m) = head[p]
    BY <1>4, <1>6, RunOfRow
  <1> QED
    BY <1>5, <1>7

\* The segments are the long pieces of the runs, one after the other.
SegmentsAre(list, runs, away) ==
    /\ list \in Seq(Segment) /\ Ordered(list, 0, Horizon)
    /\ \A k \in 1 .. Len(list) :
          \E p \in 1 .. Len(runs) : \E l \in 1 .. Len(Pieces(runs, away, p)) :
             /\ list[k] = Pieces(runs, away, p)[l]
             /\ list[k].end - list[k].start >= MinDwell
    /\ \A p \in 1 .. Len(runs) : \A l \in 1 .. Len(Pieces(runs, away, p)) :
          Pieces(runs, away, p)[l].end - Pieces(runs, away, p)[l].start >= MinDwell
          => \E k \in 1 .. Len(list) : list[k] = Pieces(runs, away, p)[l]

(* And so they are.                                                         *)
LEMMA SegmentsOfRuns ==
    ASSUME NEW rows \in Seq(Row), Horizon \in Nat, InOrder(rows), Within(rows, 0, Horizon),
           NEW away \in Seq(AwaySlice), Inside(away, Horizon),
           NEW head, RunsTo(Collapse(rows), head, rows, Len(rows))
    PROVE  SegmentsAre(FocusSegments(rows, away, Horizon), Collapse(rows), away)
  <1> DEFINE runs == Collapse(rows)
             n == Len(runs)
             f == [i \in DOMAIN runs |-> LongEnough(SubtractRanges(Held(runs, i, Horizon), away))]
             out == FlattenSeq(f)
             From(i) == Held(runs, i, Horizon).start
             To(i) == Held(runs, i, Horizon).end
  <1>1. runs \in Seq(Row)
    BY DEF RunsTo
  <1>2. FocusSegments(rows, away, Horizon) = out
    BY DEF FocusSegments
  <1> HIDE DEF runs
  <1>3. n \in Nat /\ DOMAIN runs = 1 .. n
    BY <1>1
  <1>4. ASSUME NEW i \in 1 .. n
        PROVE  /\ f[i] = LongEnough(Pieces(runs, away, i))
               /\ Parts(Pieces(runs, away, i), runs[i].win, From(i), To(i))
               /\ From(i) \in Int /\ To(i) \in Int /\ 0 <= From(i) /\ To(i) <= Horizon
               /\ \A j \in 1 .. n : i < j => To(i) <= From(j)
    <2>1. RunsTo(runs, head, rows, Len(rows))
      BY DEF runs
    <2>2. Parts(Pieces(runs, away, i), runs[i].win, From(i), To(i))
      BY <2>1, PiecesOfRun
    <2>3. /\ Held(runs, i, Horizon) \in Segment /\ 0 <= From(i) /\ To(i) <= Horizon
          /\ \A j \in 1 .. n : i < j => To(i) <= From(j)
      BY <2>1, HeldShape
    <2>4. f[i] = LongEnough(Pieces(runs, away, i))
      BY <1>3 DEF Pieces
    <2>5. From(i) \in Int /\ To(i) \in Int
      BY <2>3 DEF Segment
    <2> QED
      BY <2>2, <2>3, <2>4, <2>5
  <1>5. f = [i \in 1 .. n |-> f[i]]
    BY <1>3
  <1> HIDE DEF f, From, To, n
  <1>6. ASSUME NEW i \in 1 .. n
        PROVE  /\ Parts(f[i], runs[i].win, From(i), To(i))
               /\ \A k \in 1 .. Len(f[i]) :
                     /\ f[i][k].end - f[i][k].start >= MinDwell
                     /\ \E l \in 1 .. Len(Pieces(runs, away, i)) : f[i][k] = Pieces(runs, away, i)[l]
               /\ \A l \in 1 .. Len(Pieces(runs, away, i)) :
                     Pieces(runs, away, i)[l].end - Pieces(runs, away, i)[l].start >= MinDwell
                     => \E k \in 1 .. Len(f[i]) : f[i][k] = Pieces(runs, away, i)[l]
    <2>1. PICK list : list = Pieces(runs, away, i)
      OBVIOUS
    <2>2. PICK w, a, b : w = runs[i].win /\ a = From(i) /\ b = To(i)
      OBVIOUS
    <2>3. Parts(list, w, a, b) /\ f[i] = LongEnough(list)
      BY <1>4, <2>1, <2>2
    <2>4. PICK kept : kept = LongEnough(list)
      OBVIOUS
    <2>5. /\ Parts(kept, w, a, b)
          /\ \A k \in 1 .. Len(kept) : /\ kept[k].end - kept[k].start >= MinDwell
                                       /\ \E l \in 1 .. Len(list) : kept[k] = list[l]
          /\ \A l \in 1 .. Len(list) : list[l].end - list[l].start >= MinDwell =>
                \E k \in 1 .. Len(kept) : kept[k] = list[l]
      BY <2>3, <2>4, LongKept, Zenon
    <2>6. f[i] = kept
      BY <2>3, <2>4
    <2> QED
      BY <2>1, <2>2, <2>5, <2>6
  <1>7. f \in Seq(Seq(Segment)) /\ Len(f) = n
    <2>1. f \in [1 .. n -> Seq(Segment)]
      BY <1>5, <1>6 DEF Parts
    <2> QED
      BY <1>3, <2>1
  <1>8. out \in Seq(Segment) /\ \E piece, place : Origin(f, out, piece, place)
    BY <1>7, FlattenOrigin
  <1> HIDE DEF out
  <1>9. PICK piece, place : Origin(f, out, piece, place)
    BY <1>8
  <1>10. ASSUME NEW p \in 1 .. Len(out)
         PROVE  /\ piece[p] \in 1 .. n /\ place[p] \in 1 .. Len(f[piece[p]])
                /\ out[p] = f[piece[p]][place[p]]
    BY <1>7, <1>9 DEF Origin
  <1>11. ASSUME NEW i \in 1 .. n, NEW k \in 1 .. Len(f[i])
         PROVE  /\ f[i][k].start \in Int /\ f[i][k].end \in Int
                /\ From(i) <= f[i][k].start /\ f[i][k].start < f[i][k].end /\ f[i][k].end <= To(i)
    <2>1. Parts(f[i], runs[i].win, From(i), To(i))
      BY <1>6
    <2>2. f[i] \in Seq(Segment)
      BY <2>1 DEF Parts
    <2>3. f[i][k] \in Segment
      BY <2>2
    <2> QED
      BY <2>1, <2>3, Zenon DEF Parts, Segment
  <1>12. ASSUME NEW p \in 1 .. Len(out)
         PROVE  /\ 0 <= out[p].start /\ out[p].start < out[p].end /\ out[p].end <= Horizon
                /\ out[p].end - out[p].start >= MinDwell
                /\ \E i \in 1 .. n : \E l \in 1 .. Len(Pieces(runs, away, i)) :
                      out[p] = Pieces(runs, away, i)[l]
    <2>1. PICK i \in 1 .. n : i = piece[p]
      BY <1>10
    <2>2. PICK k \in 1 .. Len(f[i]) : k = place[p] /\ out[p] = f[i][k]
      BY <1>10, <2>1, Zenon
    <2>3. PICK a \in Int, b \in Int : a = f[i][k].start /\ b = f[i][k].end
      BY <1>11, Zenon
    <2>4. PICK x \in Int, y \in Int : x = From(i) /\ y = To(i) /\ 0 <= x /\ y <= Horizon
      BY <1>4
    <2>5. x <= a /\ a < b /\ b <= y
      BY <1>11, <2>3, <2>4, Zenon
    <2>6. 0 <= a /\ a < b /\ b <= Horizon
      BY <2>4, <2>5
    <2>7. out[p].start = a /\ out[p].end = b
      BY <2>2, <2>3, Zenon
    <2>8. /\ f[i][k].end - f[i][k].start >= MinDwell
          /\ \E l \in 1 .. Len(Pieces(runs, away, i)) : f[i][k] = Pieces(runs, away, i)[l]
      BY <1>6
    <2> QED
      BY <2>2, <2>6, <2>7, <2>8, Zenon
  <1>13. ASSUME NEW p \in 1 .. Len(out), NEW q \in 1 .. Len(out), p < q
         PROVE  out[p].end <= out[q].start
    <2>1. PICK i \in 1 .. n, j \in 1 .. n : i = piece[p] /\ j = piece[q]
      BY <1>10
    <2>2. PICK k \in 1 .. Len(f[i]) : k = place[p] /\ out[p] = f[i][k]
      BY <1>10, <2>1, Zenon
    <2>3. PICK l \in 1 .. Len(f[j]) : l = place[q] /\ out[q] = f[j][l]
      BY <1>10, <2>1, Zenon
    <2>4. PICK b \in Int, x \in Int : b = f[i][k].end /\ x = f[j][l].start
      BY <1>11, Zenon
    <2>5. i < j \/ (i = j /\ k < l)
      BY <1>9, <1>13, <2>1, <2>2, <2>3 DEF Origin
    <2>6. CASE i < j
      <3>1. PICK y \in Int, z \in Int : y = To(i) /\ z = From(j) /\ y <= z
        BY <1>4, <2>6, Zenon
      <3>2. b <= y /\ z <= x
        BY <1>11, <2>4, <3>1, Zenon
      <3>3. b <= x
        BY <3>1, <3>2
      <3> QED
        BY <2>2, <2>3, <2>4, <3>3, Zenon
    <2>7. CASE i = j /\ k < l
      <3>1. Parts(f[i], runs[i].win, From(i), To(i))
        BY <1>6, Zenon
      <3>2. f[i][k].end < f[i][l].start
        BY <2>3, <2>7, <3>1, Zenon DEF Parts
      <3>3. b <= x
        BY <2>4, <2>7, <3>2, SMTT(30)
      <3> QED
        BY <2>2, <2>3, <2>4, <3>3, Zenon
    <2> QED
      BY <2>5, <2>6, <2>7
  <1>14. Ordered(out, 0, Horizon)
    BY <1>12, <1>13, Zenon DEF Ordered
  <1>15. ASSUME NEW i \in 1 .. n, NEW l \in 1 .. Len(Pieces(runs, away, i)),
                Pieces(runs, away, i)[l].end - Pieces(runs, away, i)[l].start >= MinDwell
         PROVE  \E p \in 1 .. Len(out) : out[p] = Pieces(runs, away, i)[l]
    <2>1. PICK k \in 1 .. Len(f[i]) : f[i][k] = Pieces(runs, away, i)[l]
      BY <1>6, <1>15
    <2>2. PICK p \in 1 .. Len(out) : piece[p] = i /\ place[p] = k
      BY <1>7, <1>9, Zenon DEF Origin
    <2> QED
      BY <1>10, <2>1, <2>2, Zenon
  <1>16. SegmentsAre(out, runs, away)
    BY <1>8, <1>12, <1>14, <1>15, Zenon DEF SegmentsAre, n
  <1> QED
    BY <1>2, <1>16 DEF runs

(* The segments of a recap, from its focus rows and its absences.           *)
LEMMA FocusOfJournal ==
    ASSUME JournalInv
    PROVE  /\ recap.focus \in Seq(Row) /\ InOrder(recap.focus) /\ Within(recap.focus, 0, Horizon)
           /\ Timed(recap.focus) /\ recap.away \in Seq(AwaySlice) /\ Inside(recap.away, Horizon)
           /\ \E head : /\ RunsTo(Collapse(recap.focus), head, recap.focus, Len(recap.focus))
                        /\ SegmentsAre(recap.segments, Collapse(recap.focus), recap.away)
  <1>1. recap.focus = OfKind(journal, "focus")
    BY DEF JournalInv, compile_day_recap
  <1>2. recap.segments = FocusSegments(recap.focus, recap.away, Horizon)
    BY DEF JournalInv, compile_day_recap
  <1>3. Horizon \in Nat /\ Stored(journal)
    BY HorizonIs DEF JournalInv
  <1>4. /\ recap.focus \in Seq(Row) /\ InOrder(recap.focus) /\ Within(recap.focus, 0, Horizon)
        /\ Timed(recap.focus)
    BY <1>1, <1>3, KindOf
  <1>5. recap.away \in Seq(AwaySlice) /\ Inside(recap.away, Horizon)
    BY AwayOfJournal DEF AwayOf
  <1>6. PICK head : RunsTo(Collapse(recap.focus), head, recap.focus, Len(recap.focus))
    BY <1>4, CollapseRuns
  <1>7. SegmentsAre(recap.segments, Collapse(recap.focus), recap.away)
    <2>1. PICK rows \in Seq(Row) : rows = recap.focus
      BY <1>4
    <2>2. PICK away \in Seq(AwaySlice) : away = recap.away
      BY <1>5
    <2>3. SegmentsAre(FocusSegments(rows, away, Horizon), Collapse(rows), away)
      BY <1>3, <1>4, <1>5, <1>6, <2>1, <2>2, SegmentsOfRuns
    <2> QED
      BY <1>2, <2>1, <2>2, <2>3
  <1> QED
    BY <1>4, <1>5, <1>6, <1>7

-----------------------------------------------------------------------------
(* Focus is attributed once *)

(* For every day: a second of focus is in one segment, of the window        *)
(* focused last, unless its stretch is too short, and no other second is.   *)
THEOREM FocusIsAttributed == Spec => []FocusIsAttributedOnce
  <1>1. JournalInv => FocusIsAttributedOnce
    <2> SUFFICES ASSUME JournalInv
                 PROVE  FocusIsAttributedOnce
      OBVIOUS
    <2> DEFINE rows == recap.focus
               away == recap.away
               segs == recap.segments
               runs == Collapse(rows)
               n == Len(rows)
               len == Len(runs)
               free == {t \in Seconds : Before(rows, t) # {} /\ Covering(away, t) = {}}
               run == [t \in free |-> RunAt(rows, t)]
               Together(t, u) == Min({t, u}) .. Max({t, u}) \subseteq {v \in free : run[v] = run[t]}
               dwelt == {t \in free : Cardinality({u \in free : Together(t, u)}) >= MinDwell}
               Right(t) == LET at == Covering(segs, t)
                           IN  IF t \in dwelt THEN \E i \in at : /\ at = {i}
                                                  /\ SameWindow(segs[i].win, rows[run[t]].win)
                               ELSE at = {}
    <2>1. Horizon \in Nat
      BY HorizonIs DEF JournalInv
    <2>2. /\ rows \in Seq(Row) /\ InOrder(rows) /\ Within(rows, 0, Horizon)
          /\ away \in Seq(AwaySlice) /\ Inside(away, Horizon)
      BY FocusOfJournal
    <2>3. PICK head : RunsTo(runs, head, rows, n) /\ SegmentsAre(segs, runs, away)
      BY FocusOfJournal
    <2>4. SUFFICES ASSUME NEW t \in Seconds
                   PROVE  Right(t)
      BY Zenon DEF FocusIsAttributedOnce
    <2> HIDE DEF rows, away, segs, runs
    <2>5. free = FreeSeconds(rows, away)
      BY DEF FreeSeconds
    <2>6. t \in Int /\ Seconds \in SUBSET Int
      BY <2>1 DEF Seconds
    <2>7. ASSUME NEW p \in 1 .. len
          PROVE  /\ Parts(Pieces(runs, away, p), runs[p].win, Held(runs, p, Horizon).start,
                          Held(runs, p, Horizon).end)
                 /\ \A v \in Int : Covered(Pieces(runs, away, p), v)
                                       <=> v \in SecondsOf(rows, away, head[p])
      BY <2>1, <2>2, <2>3, PiecesOfRun
    <2>8. \A v, h : v \in SecondsOf(rows, away, h) <=> v \in free /\ run[v] = h
      BY <2>5 DEF SecondsOf
    <2>9. segs \in Seq(Segment) /\ Ordered(segs, 0, Horizon)
      BY <2>3 DEF SegmentsAre
    <2>10. /\ Covering(segs, t) = {k \in 1 .. Len(segs) : Covers(segs[k], t)}
           /\ \A k, l \in Covering(segs, t) : k = l
      <3>1. \A k \in 1 .. Len(segs) : segs[k].start \in Int /\ segs[k].end \in Int
        BY <2>9, SegmentsAt
      <3> QED
        BY <2>6, <2>9, <3>1, CoversOnce
    <2>11. free \in SUBSET Int
      BY <2>6, Zenon
    <2> HIDE DEF free, run
    \* A second of a piece is in a stretch of the length of the piece.
    <2>12. ASSUME NEW p \in 1 .. len, NEW l \in 1 .. Len(Pieces(runs, away, p)),
                  Covers(Pieces(runs, away, p)[l], t)
           PROVE  /\ t \in free /\ run[t] = head[p]
                  /\ t \in dwelt <=> Pieces(runs, away, p)[l].end - Pieces(runs, away, p)[l].start
                                        >= MinDwell
      <3> DEFINE mine == {v \in free : run[v] = head[p]}
      <3>1. PICK list : list = Pieces(runs, away, p)
        OBVIOUS
      <3>2. PICK w, a, b : w = runs[p].win /\ a = Held(runs, p, Horizon).start
                           /\ b = Held(runs, p, Horizon).end
        OBVIOUS
      <3>3. Parts(list, w, a, b) /\ l \in 1 .. Len(list) /\ Covers(list[l], t)
        BY <2>7, <2>12, <3>1, <3>2
      <3>4. mine \in SUBSET Int /\ \A v \in Int : Covered(list, v) <=> v \in mine
        BY <2>7, <2>8, <2>11, <3>1, Zenon
      <3>5. t \in mine
        BY <2>6, <3>3, <3>4 DEF Covered
      <3>6. {u \in mine : Min({t, u}) .. Max({t, u}) \subseteq mine} = list[l].start .. list[l].end - 1
        <4> HIDE DEF mine
        <4> QED
          BY <2>6, <3>3, <3>4, PieceIsStretch, Zenon
      <3>7. t \in free /\ run[t] = head[p]
        BY <3>5
      <3>8. {u \in free : Together(t, u)} = {u \in mine : Min({t, u}) .. Max({t, u}) \subseteq mine}
        <4>1. {v \in free : run[v] = run[t]} = mine
          BY <3>7
        <4>2. ASSUME NEW u \in free, Min({t, u}) .. Max({t, u}) \subseteq mine
              PROVE  u \in mine
          <5>1. u \in Int
            BY <2>11
          <5>2. u \in Min({t, u}) .. Max({t, u})
            BY <2>6, <5>1, MinOfTwo, MaxOfTwo
          <5> QED
            BY <4>2, <5>2
        <4>3. \A u : Together(t, u) <=> Min({t, u}) .. Max({t, u}) \subseteq mine
          BY <4>1, Zenon
        <4>4. mine \subseteq free
          OBVIOUS
        <4> HIDE DEF mine, Together
        <4> QED
          BY <4>2, <4>3, <4>4, Zenon
      <3>9. PICK c \in Int, d \in Int : c = list[l].start /\ d = list[l].end /\ c < d
        <4>1. list \in Seq(Segment)
          BY <3>3 DEF Parts
        <4>2. list[l] \in Segment
          BY <3>3, <4>1
        <4>3. list[l].start < list[l].end
          BY <3>3 DEF Parts
        <4> QED
          BY <4>2, <4>3 DEF Segment
      <3>10. {u \in free : Together(t, u)} = c .. d - 1
        BY <3>6, <3>8, <3>9, Zenon
      <3>11. Cardinality(c .. d - 1) = d - c
        <4>0. c < d
          BY <3>9, Zenon
        <4>1. d - 1 \in Int /\ ~(c > d - 1) /\ (d - 1) - c + 1 = d - c
          BY <4>0
        <4>2. Cardinality(c .. d - 1) = IF c > d - 1 THEN 0 ELSE (d - 1) - c + 1
          BY <4>1, FS_Interval
        <4> QED
          BY <4>1, <4>2
      <3> HIDE DEF Together, mine
      <3>12. t \in dwelt <=> d - c >= MinDwell
        BY <3>7, <3>10, <3>11, Zenon
      <3> QED
        BY <3>1, <3>7, <3>9, <3>12
    <2> HIDE DEF dwelt
    <2>13. CASE t \in dwelt
      <3>1. t \in free
        BY <2>13 DEF dwelt
      <3>2. PICK p \in 1 .. len : t \in SecondsOf(rows, away, head[p])
        <4>1. t \in FreeSeconds(rows, away)
          BY <2>5, <3>1
        <4>2. \E p \in 1 .. len : RunAt(rows, t) = head[p]
          BY <2>1, <2>2, <2>3, <4>1, RunsCover
        <4> QED
          BY <4>1, <4>2 DEF SecondsOf
      <3>3. PICK l \in 1 .. Len(Pieces(runs, away, p)) : Covers(Pieces(runs, away, p)[l], t)
        BY <2>6, <2>7, <3>2 DEF Covered
      <3>4. /\ run[t] = head[p]
            /\ Pieces(runs, away, p)[l].end - Pieces(runs, away, p)[l].start >= MinDwell
        BY <2>12, <2>13, <3>3
      <3>5. PICK k \in 1 .. Len(segs) : segs[k] = Pieces(runs, away, p)[l]
        BY <2>3, <3>4 DEF SegmentsAre
      <3>6. SameWindow(Pieces(runs, away, p)[l].win, rows[head[p]].win)
        <4>1. Pieces(runs, away, p)[l].win = runs[p].win
          BY <2>7 DEF Parts
        <4> QED
          BY <2>3, <4>1, HeadOfRun
      <3>7. Covering(segs, t) = {k}
        BY <2>10, <3>3, <3>5
      <3> QED
        BY <2>13, <3>4, <3>5, <3>6, <3>7
    <2>14. CASE t \notin dwelt
      <3>1. ASSUME NEW k \in 1 .. Len(segs), Covers(segs[k], t)
            PROVE  FALSE
        <4>1. PICK p \in 1 .. len : \E l \in 1 .. Len(Pieces(runs, away, p)) :
                 segs[k] = Pieces(runs, away, p)[l] /\ segs[k].end - segs[k].start >= MinDwell
          BY <2>3 DEF SegmentsAre
        <4>2. PICK l \in 1 .. Len(Pieces(runs, away, p)) :
                 segs[k] = Pieces(runs, away, p)[l] /\ segs[k].end - segs[k].start >= MinDwell
          BY <4>1
        <4> QED
          BY <2>12, <2>14, <3>1, <4>2
      <3>2. Covering(segs, t) = {}
        BY <2>10, <3>1
      <3> QED
        BY <2>14, <3>2
    <2> QED
      BY <2>13, <2>14
  <1> QED
    BY <1>1, JournalKeeps, PTL

-----------------------------------------------------------------------------
(* Visits *)

\* The loop of attention_segments.
Visiting == INSTANCE FoldSteps WITH Op <- Visit

\* What attention_segments returns.
AVisit == [start : Int, end : Int, duration : Int, key : {AttentionKey(w) : w \in Window},
           win : Window]

(* Attention is made segment by segment.                                    *)
LEMMA VisitSteps ==
    ASSUME NEW S, NEW fine \in Seq(S)
    PROVE  \E acc : Visiting!Steps(acc, <<>>, fine) /\ AttentionSegments(fine) = acc[Len(fine)]
  <1>1. AttentionSegments(fine) = Visiting!Folded(<<>>, fine)
    BY DEF AttentionSegments, FoldLeft, MapThenFoldSet, Visiting!Folded, Visiting!Rec, Max, Visiting!Greatest
  <1>2. \E acc : Visiting!Steps(acc, <<>>, fine) /\ Visiting!Folded(<<>>, fine) = acc[Len(fine)]
    BY Visiting!FoldHasSteps
  <1> QED
    BY <1>1, <1>2

(* A visit that is lengthened.                                              *)
LEMMA LongerIs ==
    ASSUME NEW visit \in AVisit, NEW s \in Segment
    PROVE  /\ Longer(visit, s) \in AVisit /\ Longer(visit, s).start = visit.start
           /\ Longer(visit, s).end = s.end
           /\ Longer(visit, s).duration = visit.duration + (s.end - s.start)
           /\ Longer(visit, s).key = visit.key
  <1>1. s.start \in Int /\ s.end \in Int
    BY DEF Segment
  <1>2. visit.duration \in Int
    BY DEF AVisit
  <1>3. PICK b \in Int, d \in Int : b = s.end /\ d = visit.duration + (s.end - s.start)
    BY <1>1, <1>2
  <1>4. Longer(visit, s) = [visit EXCEPT !.end = b, !.duration = d]
    BY <1>3 DEF Longer
  <1>5. /\ [visit EXCEPT !.end = b, !.duration = d] \in AVisit
        /\ [visit EXCEPT !.end = b, !.duration = d].start = visit.start
        /\ [visit EXCEPT !.end = b, !.duration = d].end = b
        /\ [visit EXCEPT !.end = b, !.duration = d].duration = d
        /\ [visit EXCEPT !.end = b, !.duration = d].key = visit.key
    BY Zenon DEF AVisit
  <1> QED
    BY <1>3, <1>4, <1>5

(* A segment more lengthens the last visit or opens one.                    *)
LEMMA VisitKeeps ==
    ASSUME NEW acc \in Seq(AVisit), NEW from \in Int, NEW upto \in Int, Ordered(acc, from, upto),
           NEW s \in Segment, from <= upto, upto <= s.start, s.start < s.end
    PROVE  Visit(acc, s) \in Seq(AVisit) /\ Ordered(Visit(acc, s), from, s.end)
  <1> DEFINE n == Len(acc)
             new == Visit(acc, s)
  <1>1. PICK a \in Int, b \in Int, w \in Window : s = [start |-> a, end |-> b, win |-> w]
    BY Zenon DEF Segment
  <1>2. s.start = a /\ s.end = b /\ s.win = w /\ upto <= a /\ a < b
    BY <1>1
  <1>3. n \in Nat
    OBVIOUS
  <1>4. ASSUME NEW k \in 1 .. n
        PROVE  /\ acc[k].start \in Int /\ acc[k].end \in Int
               /\ from <= acc[k].start /\ acc[k].start < acc[k].end /\ acc[k].end <= upto
    <2>1. acc[k] \in AVisit
      OBVIOUS
    <2> QED
      BY <2>1, Zenon DEF AVisit, Ordered
  <1>5. ASSUME NEW k \in 1 .. n, NEW l \in 1 .. n, k < l
        PROVE  acc[k].end <= acc[l].start
    BY <1>5 DEF Ordered
  <1>6. CASE acc # <<>> /\ Last(acc).key = AttentionKey(w)
    <2>1. n \in 1 .. n /\ Last(acc) = acc[n]
      BY <1>3, <1>6 DEF Last
    <2>2. acc[n] \in AVisit
      BY <2>1
    <2> DEFINE last == Longer(acc[n], s)
    <2>3. PICK c \in Int, d \in Int : c = acc[n].start /\ d = acc[n].end
      BY <2>2 DEF AVisit
    <2>4. last \in AVisit /\ last.start = c /\ last.end = b
      BY <1>2, <2>2, <2>3, LongerIs
    <2>6. new = [acc EXCEPT ![n] = last]
      <3>1. acc # <<>> /\ Last(acc).key = AttentionKey(s.win)
        BY <1>2, <1>6
      <3> QED
        BY <2>1, <3>1 DEF Visit
    <2>7. c = acc[n].start /\ from <= c /\ c < d /\ d <= upto
      BY <1>4, <2>1, <2>3
    <2> HIDE DEF last, new, n
    <2>8. /\ new \in Seq(AVisit) /\ Len(new) = n /\ new[n] = last
          /\ \A k \in 1 .. n : k # n => new[k] = acc[k]
      BY <2>1, <2>4, <2>6 DEF n
    <2>9. ASSUME NEW k \in 1 .. n
          PROVE  from <= new[k].start /\ new[k].start < new[k].end /\ new[k].end <= b
      <3>1. CASE k = n
        BY <1>2, <2>4, <2>7, <2>8, <3>1
      <3>2. CASE k # n
        <4>1. PICK x \in Int, y \in Int : x = acc[k].start /\ y = acc[k].end
          BY <1>4
        <4>2. from <= x /\ x < y /\ y <= b
          BY <1>2, <1>4, <4>1
        <4>3. new[k] = acc[k]
          BY <2>8, <3>2
        <4> QED
          BY <4>1, <4>2, <4>3, Zenon
      <3> QED
        BY <3>1, <3>2
    <2>10. ASSUME NEW k \in 1 .. n, NEW l \in 1 .. n, k < l
           PROVE  new[k].end <= new[l].start
      <3>1. k # n
        BY <1>3, <2>10
      <3>2. new[k] = acc[k] /\ new[l].start = acc[l].start
        <4>1. CASE l = n
          BY <2>4, <2>7, <2>8, <3>1, <4>1
        <4>2. CASE l # n
          BY <2>8, <3>1, <4>2
        <4> QED
          BY <4>1, <4>2
      <3>3. acc[k].end <= acc[l].start
        BY <1>5, <2>10
      <3> QED
        BY <3>2, <3>3, Zenon
    <2> QED
      BY <1>2, <2>8, <2>9, <2>10 DEF Ordered, new
  <1>7. CASE ~(acc # <<>> /\ Last(acc).key = AttentionKey(w))
    <2> DEFINE v == [start |-> a, end |-> b, duration |-> b - a, key |-> AttentionKey(w), win |-> w]
    <2>1. v \in AVisit /\ v.start = a /\ v.end = b
      <3>1. b - a \in Int /\ AttentionKey(w) \in {AttentionKey(x) : x \in Window}
        OBVIOUS
      <3> QED
        BY <3>1 DEF AVisit
    <2>2. new = Append(acc, v)
      BY <1>2, <1>7 DEF Visit
    <2> HIDE DEF v
    <2>3. /\ new \in Seq(AVisit) /\ Len(new) = n + 1 /\ new[n + 1] = v
          /\ \A k \in 1 .. n : new[k] = acc[k]
      BY <2>1, <2>2, AppendAt
    <2> HIDE DEF new, n
    <2>4. ASSUME NEW k \in 1 .. n + 1
          PROVE  from <= new[k].start /\ new[k].start < new[k].end /\ new[k].end <= b
      <3>1. CASE k = n + 1
        BY <1>2, <2>1, <2>3, <3>1
      <3>2. CASE k \in 1 .. n
        <4>1. PICK x \in Int, y \in Int : x = acc[k].start /\ y = acc[k].end
          BY <1>4, <3>2
        <4>2. from <= x /\ x < y /\ y <= b
          BY <1>2, <1>4, <3>2, <4>1
        <4>3. new[k] = acc[k]
          BY <2>3, <3>2
        <4> QED
          BY <4>1, <4>2, <4>3, Zenon
      <3> QED
        BY <1>3, <3>1, <3>2
    <2>5. ASSUME NEW k \in 1 .. n + 1, NEW l \in 1 .. n + 1, k < l
          PROVE  new[k].end <= new[l].start
      <3>1. k \in 1 .. n
        BY <1>3, <2>5
      <3>2. new[k] = acc[k]
        BY <2>3, <3>1
      <3>3. CASE l = n + 1
        <4>1. PICK y \in Int : y = acc[k].end /\ y <= upto
          BY <1>4, <3>1
        <4>2. y <= a /\ new[l].start = a
          BY <1>2, <2>1, <2>3, <3>3, <4>1
        <4> QED
          BY <3>2, <4>1, <4>2
      <3>4. CASE l \in 1 .. n
        <4>1. new[l] = acc[l]
          BY <2>3, <3>4
        <4>2. acc[k].end <= acc[l].start
          BY <1>5, <2>5, <3>1, <3>4
        <4> QED
          BY <3>2, <4>1, <4>2, Zenon
      <3> QED
        BY <1>3, <3>3, <3>4
    <2> QED
      BY <1>2, <2>3, <2>4, <2>5 DEF Ordered, new
  <1> QED
    BY <1>2, <1>6, <1>7

(* The visits of a day follow each other.                                   *)
LEMMA VisitsOrdered ==
    ASSUME NEW fine \in Seq(Segment), NEW to \in Nat, Ordered(fine, 0, to)
    PROVE  AttentionSegments(fine) \in Seq(AVisit) /\ Ordered(AttentionSegments(fine), 0, to)
  <1> DEFINE n == Len(fine)
             Till(m) == IF m = 0 THEN 0 ELSE fine[m].end
  <1>1. n \in Nat
    OBVIOUS
  <1>2. PICK acc : /\ acc[0] = <<>> /\ AttentionSegments(fine) = acc[n]
                   /\ \A k \in 1 .. n : acc[k] = Visit(acc[k - 1], fine[k])
    BY VisitSteps DEF Visiting!Steps
  <1>4. ASSUME NEW k \in 1 .. n
        PROVE  /\ fine[k] \in Segment /\ fine[k].start \in Int /\ fine[k].end \in Int
               /\ 0 <= fine[k].start /\ fine[k].start < fine[k].end /\ fine[k].end <= to
    <2>1. fine[k] \in Segment
      OBVIOUS
    <2> QED
      BY <2>1, Zenon DEF Segment, Ordered
  <1>5. ASSUME NEW m \in 0 .. n
        PROVE  Till(m) \in Int /\ 0 <= Till(m) /\ Till(m) <= to
    <2>1. m # 0 => m \in 1 .. n
      BY <1>1
    <2>2. CASE m = 0
      BY <2>2
    <2>3. CASE m # 0
      <3>1. PICK a \in Int, b \in Int : a = fine[m].start /\ b = fine[m].end /\ 0 <= a /\ a < b /\ b <= to
        BY <1>4, <2>1, <2>3
      <3> QED
        BY <2>3, <3>1
    <2> QED
      BY <2>2, <2>3
  <1>6. ASSUME NEW m \in 0 .. n - 1
        PROVE  m + 1 \in 1 .. n /\ Till(m) <= fine[m + 1].start /\ Till(m + 1) = fine[m + 1].end
    <2>1. m + 1 \in 1 .. n /\ m + 1 # 0
      BY <1>1
    <2>2. m # 0 => fine[m].end <= fine[m + 1].start
      BY <1>1, <2>1 DEF Ordered
    <2>3. 0 <= fine[m + 1].start
      BY <1>4, <2>1
    <2> QED
      BY <2>1, <2>2, <2>3
  <1> HIDE DEF Till
  <1> DEFINE T == {m \in 0 .. n : acc[m] \in Seq(AVisit) /\ Ordered(acc[m], 0, Till(m))}
  <1>7. 0 \in T
    <2>1. <<>> \in Seq(AVisit) /\ Len(<<>>) = 0
      OBVIOUS
    <2>2. Ordered(<<>>, 0, Till(0))
      BY <2>1 DEF Ordered
    <2>3. 0 \in 0 .. n
      BY <1>1
    <2> QED
      BY <1>2, <2>1, <2>2, <2>3, Zenon
  <1>8. \A m \in 0 .. n - 1 : m \in T => m + 1 \in T
    <2> SUFFICES ASSUME NEW m \in 0 .. n - 1, acc[m] \in Seq(AVisit), Ordered(acc[m], 0, Till(m))
                 PROVE  acc[m + 1] \in Seq(AVisit) /\ Ordered(acc[m + 1], 0, Till(m + 1))
      BY <1>1
    <2>1. m + 1 \in 1 .. n /\ (m + 1) - 1 = m /\ m \in 0 .. n
      BY <1>1
    <2>2. PICK s \in Segment : s = fine[m + 1] /\ s.start < s.end
      BY <1>4, <2>1
    <2>3. PICK u \in Int : u = Till(m) /\ 0 <= u
      BY <1>5, <2>1
    <2>4. u <= s.start /\ Till(m + 1) = s.end
      BY <1>6, <2>2, <2>3
    <2>5. acc[m + 1] = Visit(acc[m], s)
      BY <1>2, <2>1, <2>2
    <2>6. Visit(acc[m], s) \in Seq(AVisit) /\ Ordered(Visit(acc[m], s), 0, s.end)
      <3>1. PICK g \in Seq(AVisit) : g = acc[m] /\ Ordered(g, 0, u)
        BY <2>3
      <3>2. Visit(g, s) \in Seq(AVisit) /\ Ordered(Visit(g, s), 0, s.end)
        BY <2>2, <2>3, <2>4, <3>1, VisitKeeps
      <3> QED
        BY <3>1, <3>2
    <2> QED
      BY <2>4, <2>5, <2>6
  <1>9. 0 .. n \subseteq T
    <2> HIDE DEF T
    <2> QED
      BY <1>1, <1>7, <1>8, Visiting!UpTo, Zenon
  <1>10. acc[n] \in Seq(AVisit) /\ Ordered(acc[n], 0, Till(n)) /\ n \in 0 .. n
    BY <1>1, <1>9
  <1>11. PICK g \in Seq(AVisit) : g = acc[n]
    BY <1>10
  <1>12. Ordered(g, 0, to)
    <2>1. PICK u \in Int : u = Till(n) /\ u <= to
      BY <1>5, <1>10
    <2>2. Ordered(g, 0, u)
      BY <1>10, <1>11, <2>1
    <2>3. ASSUME NEW k \in 1 .. Len(g)
          PROVE  g[k].end <= to
      <3>1. g[k] \in AVisit
        OBVIOUS
      <3>2. g[k].end \in Int
        BY <3>1, Zenon DEF AVisit
      <3>3. g[k].end <= u
        BY <2>2 DEF Ordered
      <3> QED
        BY <2>1, <3>2, <3>3
    <2> QED
      BY <2>2, <2>3 DEF Ordered
  <1> QED
    BY <1>2, <1>11, <1>12

\* The elements of S have bounds.
Ends(S) == \A x \in S : x.start \in Int /\ x.end \in Int

(* Segments that lie in the window have the bounds TypeOK asks for.         *)
LEMMA Bounded ==
    ASSUME NEW S, Ends(S), NEW list \in Seq(S), Horizon \in Nat,
           \/ Inside(list, Horizon)
           \/ Ordered(list, 0, Horizon)
    PROVE  \A i \in DOMAIN list : /\ list[i].start \in 0 .. Horizon - 1
                                  /\ list[i].end \in list[i].start + 1 .. Horizon
  <1> SUFFICES ASSUME NEW i \in 1 .. Len(list)
               PROVE  /\ list[i].start \in 0 .. Horizon - 1
                      /\ list[i].end \in list[i].start + 1 .. Horizon
    OBVIOUS
  <1>1. list[i] \in S
    OBVIOUS
  <1>2. PICK a \in Int, b \in Int : a = list[i].start /\ b = list[i].end
    BY <1>1 DEF Ends
  <1>3. 0 <= a /\ a < b /\ b <= Horizon
    BY <1>2 DEF Inside, Ordered
  <1>4. a \in 0 .. Horizon - 1 /\ b \in a + 1 .. Horizon
    BY <1>3
  <1> QED
    BY <1>2, <1>4, Zenon

(* Every compiled segment of every day lies in the window and has a         *)
(* duration.                                                                *)
THEOREM TypeCorrect == Spec => []TypeOK
  <1>1. JournalInv => TypeOK
    <2> SUFFICES ASSUME JournalInv
                 PROVE  TypeOK
      OBVIOUS
    <2>1. Horizon \in Nat
      BY HorizonIs DEF JournalInv
    <2>2. recap.away \in Seq(AwaySlice) /\ Inside(recap.away, Horizon)
      BY FocusOfJournal
    <2>3. recap.segments \in Seq(Segment) /\ Ordered(recap.segments, 0, Horizon)
      BY FocusOfJournal DEF SegmentsAre
    <2>4. recap.sessions \in Seq(Session) /\ Ordered(recap.sessions, 0, Horizon)
      BY SessionsOfJournal DEF SessionsOf
    <2>5. recap.attention \in Seq(AVisit) /\ Ordered(recap.attention, 0, Horizon)
      <3>1. recap.attention = AttentionSegments(recap.segments)
        BY DEF JournalInv, compile_day_recap
      <3> QED
        BY <2>1, <2>3, <3>1, VisitsOrdered
    <2> DEFINE Good(list) == \A i \in DOMAIN list : /\ list[i].start \in 0 .. Horizon - 1
                                                    /\ list[i].end \in list[i].start + 1 .. Horizon
    <2>6. Ends(AwaySlice) /\ Ends(Segment) /\ Ends(Session) /\ Ends(AVisit)
      BY Zenon DEF Ends, AwaySlice, Segment, Session, AVisit
    <2>7. Good(recap.away)
      BY <2>1, <2>2, <2>6, Bounded, Zenon
    <2>8. Good(recap.segments) /\ Good(recap.sessions) /\ Good(recap.attention)
      BY <2>1, <2>3, <2>4, <2>5, <2>6, Bounded, Zenon
    <2> HIDE DEF Good
    <2>9. \A list \in {recap.away, recap.segments, recap.sessions, recap.attention} : Good(list)
      BY <2>7, <2>8
    <2> QED
      BY <2>9 DEF JournalInv, TypeOK, Good
  <1> QED
    BY <1>1, JournalKeeps, PTL

-----------------------------------------------------------------------------
(* Totals *)

\* Total as a loop.
Totals == INSTANCE FoldSteps WITH Op <- Add

\* s[k] is the sum of the first k numbers.
Sums(s, numbers) ==
    /\ s \in [0 .. Len(numbers) -> Int] /\ s[0] = 0
    /\ \A k \in 1 .. Len(numbers) : s[k] = s[k - 1] + numbers[k]
    /\ Total(numbers) = s[Len(numbers)]

(* A total is reached number by number.                                     *)
LEMMA TotalSteps ==
    ASSUME NEW numbers \in Seq(Int)
    PROVE  \E s : Sums(s, numbers)
  <1> DEFINE n == Len(numbers)
             last == FoldLeft(Add, 0, numbers)
  <1>1. n \in Nat /\ \A k \in 1 .. n : numbers[k] \in Int
    OBVIOUS
  <1>2. PICK acc : /\ acc[0] = 0 /\ last = acc[n]
                   /\ \A k \in 1 .. n : acc[k] = acc[k - 1] + numbers[k]
    <2>1. last = Totals!Folded(0, numbers)
      BY DEF FoldLeft, MapThenFoldSet, Totals!Folded, Totals!Rec, Max, Totals!Greatest
    <2> HIDE DEF last
    <2>2. \E acc : Totals!Steps(acc, 0, numbers) /\ Totals!Folded(0, numbers) = acc[n]
      BY Totals!FoldHasSteps
    <2>3. PICK acc : Totals!Steps(acc, 0, numbers) /\ Totals!Folded(0, numbers) = acc[n]
      BY <2>2
    <2>4. \A k \in 1 .. n : acc[k] = acc[k - 1] + numbers[k]
      BY <2>3 DEF Totals!Steps, Add
    <2> QED
      BY <2>1, <2>3, <2>4, Zenon DEF Totals!Steps
  <1>3. Total(numbers) = last
    BY DEF Total
  <1> HIDE DEF last
  <1> DEFINE T == {k \in 0 .. n : acc[k] \in Int}
             s == [k \in 0 .. n |-> acc[k]]
  <1>4. 0 .. n \subseteq T
    <2>1. 0 \in T
      BY <1>1, <1>2
    <2>2. \A k \in 0 .. n - 1 : k \in T => k + 1 \in T
      <3> SUFFICES ASSUME NEW k \in 0 .. n - 1, acc[k] \in Int
                   PROVE  acc[k + 1] \in Int /\ k + 1 \in 0 .. n
        OBVIOUS
      <3>1. k + 1 \in 1 .. n /\ (k + 1) - 1 = k /\ k + 1 \in 0 .. n
        BY <1>1
      <3>2. acc[k + 1] = acc[k] + numbers[k + 1] /\ numbers[k + 1] \in Int
        BY <1>1, <1>2, <3>1
      <3> QED
        BY <3>1, <3>2
    <2> HIDE DEF T
    <2> QED
      BY <1>1, <2>1, <2>2, Totals!UpTo, Zenon
  <1>5. s \in [0 .. n -> Int]
    BY <1>4
  <1>6. \A k \in 1 .. n : s[k] = s[k - 1] + numbers[k]
    <2> SUFFICES ASSUME NEW k \in 1 .. n
                 PROVE  s[k] = s[k - 1] + numbers[k]
      BY Zenon
    <2>1. k \in 0 .. n /\ k - 1 \in 0 .. n
      BY <1>1
    <2> QED
      BY <1>2, <2>1
  <1>7. s[0] = 0 /\ s[n] = last
    BY <1>1, <1>2
  <1> HIDE DEF s
  <1> QED
    BY <1>3, <1>5, <1>6, <1>7, Zenon DEF Sums

\* The numbers count sets that are disjoint and make up a whole.
Counted(numbers, Shares, whole) ==
    /\ \A k \in 1 .. Len(numbers) : IsFiniteSet(Shares[k]) /\ Cardinality(Shares[k]) = numbers[k]
    /\ \A k, l \in 1 .. Len(numbers) : k < l => Shares[k] \cap Shares[l] = {}
    /\ \A x : x \in whole <=> \E k \in 1 .. Len(numbers) : x \in Shares[k]

(* Sets that are apart have the elements of both.                           *)
LEMMA Apartness ==
    ASSUME NEW A, NEW B, IsFiniteSet(A), IsFiniteSet(B), A \cap B = {}
    PROVE  /\ IsFiniteSet(A \cup B) /\ Cardinality(A) \in Nat /\ Cardinality(B) \in Nat
           /\ Cardinality(A \cup B) = Cardinality(A) + Cardinality(B)
  <1>1. Cardinality(A) \in Nat /\ Cardinality(B) \in Nat
    BY FS_CardinalityType
  <1>2. /\ IsFiniteSet(A \cup B)
        /\ Cardinality(A \cup B) = Cardinality(A) + Cardinality(B) - Cardinality(A \cap B)
    BY FS_Union, Zenon
  <1>3. PICK a \in Nat, b \in Nat, c \in {0} :
            a = Cardinality(A) /\ b = Cardinality(B) /\ c = Cardinality(A \cap B)
    BY <1>1, FS_EmptySet
  <1>4. Cardinality(A \cup B) = a + b - c
    BY <1>2, <1>3, Zenon
  <1>5. a + b - c = a + b
    BY <1>3
  <1> QED
    BY <1>1, <1>2, <1>3, <1>4, <1>5, Zenon

(* Numbers that count disjoint sets add up to the number of what is in any  *)
(* of them.                                                                 *)
LEMMA TotalCounts ==
    ASSUME NEW numbers \in Seq(Int), NEW Shares, NEW whole, Counted(numbers, Shares, whole)
    PROVE  IsFiniteSet(whole) /\ Total(numbers) = Cardinality(whole)
  <1> DEFINE n == Len(numbers)
             U(m) == UNION {Shares[k] : k \in 1 .. m}
  <1>1. n \in Nat
    OBVIOUS
  <1>2. PICK s : Sums(s, numbers)
    BY TotalSteps
  <1>3. /\ s[0] = 0 /\ Total(numbers) = s[n]
        /\ \A k \in 1 .. n : s[k] = s[k - 1] + numbers[k]
        /\ \A k \in 0 .. n : s[k] \in Int
    BY <1>2, Zenon DEF Sums
  <1> DEFINE T == {m \in 0 .. n : IsFiniteSet(U(m)) /\ Cardinality(U(m)) = s[m]}
  <1>4. 0 \in T
    <2>1. U(0) = {}
      OBVIOUS
    <2>2. IsFiniteSet({}) /\ Cardinality({}) = 0
      BY FS_EmptySet
    <2>3. 0 \in 0 .. n
      BY <1>1
    <2>4. IsFiniteSet(U(0)) /\ Cardinality(U(0)) = s[0]
      BY <1>3, <2>1, <2>2, Zenon
    <2> HIDE DEF U
    <2> QED
      BY <2>3, <2>4
  <1>5. \A m \in 0 .. n - 1 : m \in T => m + 1 \in T
    <2> SUFFICES ASSUME NEW m \in 0 .. n - 1, IsFiniteSet(U(m)), Cardinality(U(m)) = s[m]
                 PROVE  /\ m + 1 \in 0 .. n
                        /\ IsFiniteSet(U(m + 1)) /\ Cardinality(U(m + 1)) = s[m + 1]
      BY Zenon
    <2>1. m + 1 \in 1 .. n /\ (m + 1) - 1 = m /\ m \in 0 .. n /\ m + 1 \in 0 .. n
      BY <1>1
    <2>2. U(m + 1) = U(m) \cup Shares[m + 1]
      <3>1. 1 .. m + 1 = (1 .. m) \cup {m + 1}
        BY <1>1
      <3> QED
        BY <3>1
    <2>3. U(m) \cap Shares[m + 1] = {}
      <3>1. \A k \in 1 .. m : k \in 1 .. n /\ k < m + 1
        BY <1>1
      <3>2. \A k \in 1 .. m : Shares[k] \cap Shares[m + 1] = {}
        BY <2>1, <3>1 DEF Counted
      <3> QED
        BY <3>2
    <2>4. IsFiniteSet(Shares[m + 1]) /\ Cardinality(Shares[m + 1]) = numbers[m + 1]
      BY <2>1 DEF Counted
    <2>5. s[m + 1] = s[m] + numbers[m + 1] /\ s[m] \in Int /\ numbers[m + 1] \in Int
      BY <1>3, <2>1
    <2> HIDE DEF U
    <2>6. /\ IsFiniteSet(U(m) \cup Shares[m + 1])
          /\ Cardinality(U(m) \cup Shares[m + 1]) = Cardinality(U(m)) + Cardinality(Shares[m + 1])
      BY <2>3, <2>4, Apartness, Zenon
    <2> QED
      BY <2>1, <2>2, <2>4, <2>5, <2>6, Zenon
  <1>6. n \in T
    <2> HIDE DEF T
    <2>1. 0 .. n \subseteq T
      BY <1>1, <1>4, <1>5, Totals!UpTo, Zenon
    <2> QED
      BY <1>1, <2>1
  <1>7. whole = U(n)
    BY DEF Counted
  <1> QED
    BY <1>3, <1>6, <1>7

(* The lengths of segments that are apart add up to the seconds they cover. *)
LEMMA LengthsCount ==
    ASSUME NEW S, NEW list \in Seq(S), Apart(list),
           \A k \in 1 .. Len(list) : /\ list[k].start \in Int /\ list[k].end \in Int
                                     /\ list[k].start <= list[k].end,
           NEW whole, \A t : t \in whole <=> t \in Int /\ Covered(list, t)
    PROVE  IsFiniteSet(whole) /\ Total(Lengths(list)) = Cardinality(whole)
  <1> DEFINE n == Len(list)
             Shares == [k \in 1 .. n |-> list[k].start .. list[k].end - 1]
             numbers == Lengths(list)
  <1>1. n \in Nat /\ DOMAIN list = 1 .. n
    OBVIOUS
  <1>2. /\ numbers \in Seq(Int) /\ Len(numbers) = n
        /\ \A k \in 1 .. n : numbers[k] = list[k].end - list[k].start
    <2>1. numbers = [k \in 1 .. n |-> list[k].end - list[k].start]
      BY <1>1 DEF Lengths
    <2> QED
      BY <1>1, <2>1
  <1> HIDE DEF numbers
  <1>3. ASSUME NEW k \in 1 .. n
        PROVE  IsFiniteSet(Shares[k]) /\ Cardinality(Shares[k]) = numbers[k]
    <2>1. PICK a \in Int, b \in Int : a = list[k].start /\ b = list[k].end /\ a <= b
      OBVIOUS
    <2>2. Shares[k] = a .. b - 1 /\ numbers[k] = b - a
      BY <1>2, <2>1
    <2>3. IsFiniteSet(a .. b - 1) /\ Cardinality(a .. b - 1) = IF a > b - 1 THEN 0 ELSE (b - 1) - a + 1
      BY FS_Interval
    <2> QED
      BY <2>1, <2>2, <2>3
  <1>4. ASSUME NEW k \in 1 .. n, NEW l \in 1 .. n, k < l
        PROVE  Shares[k] \cap Shares[l] = {}
    <2>1. PICK a \in Int, b \in Int, c \in Int, d \in Int :
               a = list[k].start /\ b = list[k].end /\ c = list[l].start /\ d = list[l].end
      OBVIOUS
    <2>2. b <= c
      BY <1>4, <2>1 DEF Apart
    <2> QED
      BY <2>1, <2>2
  <1>5. ASSUME NEW x
        PROVE  x \in whole <=> \E k \in 1 .. n : x \in Shares[k]
    <2>1. \A k \in 1 .. n : x \in Shares[k] <=> x \in Int /\ list[k].start <= x /\ x < list[k].end
      <3> SUFFICES ASSUME NEW k \in 1 .. n
                   PROVE  x \in Shares[k] <=> x \in Int /\ list[k].start <= x /\ x < list[k].end
        OBVIOUS
      <3>1. PICK a \in Int, b \in Int : a = list[k].start /\ b = list[k].end
        OBVIOUS
      <3>2. Shares[k] = a .. b - 1
        BY <3>1
      <3> QED
        BY <3>1, <3>2
    <2> HIDE DEF Shares
    <2> QED
      BY <2>1 DEF Covered, Covers
  <1> HIDE DEF Shares
  <1>6. Counted(numbers, Shares, whole)
    BY <1>2, <1>3, <1>4, <1>5 DEF Counted
  <1>7. numbers \in Seq(Int)
    BY <1>2
  <1>8. IsFiniteSet(whole) /\ Total(numbers) = Cardinality(whole)
    BY <1>6, <1>7, TotalCounts
  <1> QED
    BY <1>8 DEF numbers

-----------------------------------------------------------------------------
(* The sweep over the snapshots of Herdr *)

\* The seconds two segments share.
Shared(a, b) == {t \in Int : Covers(a, t) /\ Covers(b, t)}

(* An overlap is the number of the seconds shared.                          *)
LEMMA OverlapCounts ==
    ASSUME NEW a, NEW b, a.start \in Int, a.end \in Int, b.start \in Int, b.end \in Int
    PROVE  /\ IsFiniteSet(Shared(a, b)) /\ Overlap(a, b) \in Int
           /\ Cardinality(Shared(a, b)) = Overlap(a, b)
  <1>1. PICK p \in Int, q \in Int, r \in Int, s \in Int :
             p = a.start /\ q = a.end /\ r = b.start /\ s = b.end
    OBVIOUS
  <1>2. PICK x \in Int : x = Max({a.start, b.start}) /\ x = IF p <= r THEN r ELSE p
    BY <1>1, MaxOfTwo
  <1>3. PICK y \in Int : y = Min({a.end, b.end}) /\ y = IF q <= s THEN q ELSE s
    BY <1>1, MinOfTwo
  <1>4. Shared(a, b) = x .. y - 1
    <2>1. \A t \in Int : Covers(a, t) /\ Covers(b, t) <=> p <= t /\ t < q /\ r <= t /\ t < s
      BY <1>1 DEF Covers
    <2>2. \A t \in Int : p <= t /\ t < q /\ r <= t /\ t < s <=> t \in x .. y - 1
      BY <1>2, <1>3
    <2>3. \A t : t \in x .. y - 1 => t \in Int
      OBVIOUS
    <2> QED
      BY <2>1, <2>2, <2>3, Zenon DEF Shared
  <1>5. Overlap(a, b) = IF 0 <= y - x THEN y - x ELSE 0
    <2>1. Overlap(a, b) = Max({0, y - x})
      BY <1>2, <1>3 DEF Overlap
    <2>2. 0 \in Int /\ y - x \in Int
      BY <1>2, <1>3
    <2> QED
      BY <2>1, <2>2, MaxOfTwo
  <1>6. /\ IsFiniteSet(x .. y - 1)
        /\ Cardinality(x .. y - 1) = IF x > y - 1 THEN 0 ELSE (y - 1) - x + 1
    BY FS_Interval
  <1>7. Cardinality(x .. y - 1) = IF 0 <= y - x THEN y - x ELSE 0
    <2>1. (IF x > y - 1 THEN 0 ELSE (y - 1) - x + 1) = IF 0 <= y - x THEN y - x ELSE 0
      BY <1>2, <1>3
    <2> QED
      BY <1>6, <2>1
  <1>8. (IF 0 <= y - x THEN y - x ELSE 0) \in Int
    BY <1>2, <1>3
  <1> QED
    BY <1>4, <1>5, <1>6, <1>7, <1>8

\* A span of _spans, a terminal segment of _attention, and what the sweep goes on with.
HerdrSpan  == [start : Int, end : Int, repo : STRING, panes : Panes, seen : Int]
Term       == [start : Int, end : Int, win : Window, covered : Int]
SweepState == [next : Int, terms : Seq(Term), spans : Seq(HerdrSpan)]

\* The terminal segments are still those the sweep began with, but for what is covered.
SameTerms(list, terms) ==
    /\ list \in Seq(Term) /\ Len(list) = Len(terms)
    /\ \A k \in 1 .. Len(terms) : /\ list[k].start = terms[k].start /\ list[k].end = terms[k].end
                                  /\ list[k].win = terms[k].win

\* The first k - 1 terminal segments are over when the span begins.
Over(terms, next, span) ==
    /\ next \in 1 .. Len(terms) + 1
    /\ \A k \in 1 .. next - 1 : terms[k].end <= span.start

(* The pointer of the sweep passes no segment that the span still meets.    *)
LEMMA ReachedIsOver ==
    ASSUME NEW terms \in Seq(Segment), NEW acc \in SweepState, SameTerms(acc.terms, terms),
           NEW span \in HerdrSpan, Over(terms, acc.next, span)
    PROVE  Over(terms, Reached(acc, span), span)
  <1> DEFINE n == Len(terms)
             left == {k \in acc.next .. n : acc.terms[k].end > span.start}
  <1>1. n \in Nat /\ Len(acc.terms) = n
    BY DEF SameTerms
  <1>2. PICK next \in 1 .. n + 1 : next = acc.next /\ \A k \in 1 .. next - 1 : terms[k].end <= span.start
    BY DEF Over
  <1>3. PICK a \in Int : a = span.start
    BY DEF HerdrSpan
  <1>4. ASSUME NEW k \in 1 .. n
        PROVE  terms[k].end \in Int /\ acc.terms[k].end = terms[k].end
    <2>1. terms[k] \in Segment
      OBVIOUS
    <2> QED
      BY <2>1 DEF Segment, SameTerms
  <1>5. left \in SUBSET (1 .. n) /\ \A k \in left : next <= k
    BY <1>1, <1>2
  <1>6. ASSUME NEW k \in 1 .. n, k \notin left
        PROVE  terms[k].end <= a
    <2>1. PICK e \in Int : e = terms[k].end /\ acc.terms[k].end = e
      BY <1>4
    <2>2. CASE k < next
      <3>1. k \in 1 .. next - 1
        BY <1>1, <1>2, <2>2
      <3> QED
        BY <1>2, <1>3, <3>1
    <2>3. CASE ~(k < next)
      <3>1. k \in next .. n
        BY <1>1, <1>2, <2>3
      <3>2. ~(e > a)
        BY <1>2, <1>3, <1>6, <2>1, <3>1
      <3> QED
        BY <1>3, <2>1, <3>2
    <2> QED
      BY <2>2, <2>3
  <1>7. Reached(acc, span) = IF left = {} THEN n + 1 ELSE Min(left)
    BY <1>1 DEF Reached
  <1> HIDE DEF left
  <1>8. CASE left = {}
    <2>1. Reached(acc, span) = n + 1 /\ n + 1 \in 1 .. n + 1
      BY <1>1, <1>7, <1>8
    <2>2. \A k \in 1 .. (n + 1) - 1 : k \in 1 .. n
      BY <1>1
    <2>3. \A k \in 1 .. (n + 1) - 1 : terms[k].end <= a
      BY <1>6, <1>8, <2>2
    <2> QED
      BY <1>3, <2>1, <2>3 DEF Over
  <1>9. CASE left # {}
    <2>1. PICK i \in left : \A j \in left : i <= j
      BY <1>1, <1>5, <1>9, HasLeast, Zenon
    <2>2. i \in 1 .. n /\ left \in SUBSET Int
      BY <1>1, <1>5, <2>1
    <2>3. Min(left) = i
      BY <2>1, <2>2, MinIs
    <2>4. Reached(acc, span) = i /\ i \in 1 .. n + 1
      BY <1>1, <1>7, <1>9, <2>2, <2>3
    <2>5. \A k \in 1 .. i - 1 : k \in 1 .. n /\ ~(i <= k)
      BY <1>1, <2>2
    <2>6. \A k \in 1 .. i - 1 : terms[k].end <= a
      BY <1>6, <2>1, <2>5
    <2> QED
      BY <1>3, <2>4, <2>6 DEF Over
  <1> QED
    BY <1>8, <1>9

\* What a span takes of the k-th terminal segment.
Took(acc, span, k) ==
    IF k \in Hits(acc.terms, Reached(acc, span), span) THEN Overlap(span, acc.terms[k]) ELSE 0

(* It takes the seconds it shares with each: none is left out by where the  *)
(* sweep starts or stops.                                                   *)
LEMMA TookIsShared ==
    ASSUME NEW terms \in Seq(Segment), NEW from, NEW to, Ordered(terms, from, to),
           NEW acc \in SweepState, SameTerms(acc.terms, terms),
           NEW span \in HerdrSpan, Over(terms, acc.next, span), NEW k \in 1 .. Len(terms)
    PROVE  /\ IsFiniteSet(Shared(span, terms[k])) /\ Took(acc, span, k) \in Int
           /\ Cardinality(Shared(span, terms[k])) = Took(acc, span, k)
  <1> DEFINE n == Len(terms)
             j == Reached(acc, span)
             hits == Hits(acc.terms, j, span)
  <1>1. n \in Nat /\ Len(acc.terms) = n
    BY DEF SameTerms
  <1>2. Over(terms, j, span)
    BY ReachedIsOver
  <1> HIDE DEF j
  <1>3. PICK a \in Int, b \in Int : a = span.start /\ b = span.end
    BY DEF HerdrSpan
  <1>4. ASSUME NEW l \in 1 .. n
        PROVE  /\ terms[l].start \in Int /\ terms[l].end \in Int
               /\ acc.terms[l].start = terms[l].start /\ acc.terms[l].end = terms[l].end
    <2>1. terms[l] \in Segment
      OBVIOUS
    <2> QED
      BY <2>1 DEF Segment, SameTerms
  <1>5. PICK c \in Int, d \in Int : /\ c = terms[k].start /\ d = terms[k].end
                                    /\ acc.terms[k].start = c /\ acc.terms[k].end = d
    BY <1>4
  <1>6. /\ IsFiniteSet(Shared(span, terms[k])) /\ Overlap(span, terms[k]) \in Int
        /\ Cardinality(Shared(span, terms[k])) = Overlap(span, terms[k])
    BY <1>3, <1>5, OverlapCounts
  <1>7. Overlap(span, acc.terms[k]) = Overlap(span, terms[k])
    BY <1>5 DEF Overlap
  <1>8. CASE k \in hits
    BY <1>6, <1>7, <1>8 DEF Took, j
  <1>9. CASE k \notin hits
    <2>1. d <= a \/ b <= c
      <3>1. PICK i \in 1 .. n + 1 : i = j /\ \A l \in 1 .. i - 1 : terms[l].end <= span.start
        BY <1>2 DEF Over
      <3>2. CASE k < i
        <4>1. k \in 1 .. i - 1
          BY <1>1, <3>1, <3>2
        <4> QED
          BY <1>3, <1>5, <3>1, <4>1
      <3>3. CASE ~(k < i)
        <4>1. k \in i .. n
          BY <1>1, <3>1, <3>3
        <4>2. \E l \in i .. k : ~(acc.terms[l].start < span.end)
          BY <1>1, <1>9, <3>1, <4>1 DEF Hits
        <4>3. PICK l \in i .. k : ~(acc.terms[l].start < span.end)
          BY <4>2
        <4>4. l \in 1 .. n /\ l <= k
          BY <1>1, <3>1, <4>1, <4>3
        <4>5. PICK e \in Int, f \in Int : e = terms[l].start /\ f = terms[l].end /\ acc.terms[l].start = e
          BY <1>4, <4>4
        <4>6. b <= e
          BY <1>3, <4>3, <4>5
        <4>7. e <= c
          <5>1. CASE l = k
            BY <1>5, <4>5, <5>1
          <5>2. CASE l # k
            <6>1. l < k
              BY <4>4, <5>2
            <6>2. f <= c /\ e < f
              BY <1>5, <4>4, <4>5, <6>1 DEF Ordered
            <6> QED
              BY <1>5, <4>5, <6>2
          <5> QED
            BY <5>1, <5>2
        <4> QED
          BY <1>3, <1>5, <4>5, <4>6, <4>7
      <3> QED
        BY <3>2, <3>3
    <2>2. Shared(span, terms[k]) = {}
      BY <1>3, <1>5, <2>1 DEF Shared, Covers
    <2>3. Took(acc, span, k) = 0
      BY <1>9 DEF Took, j
    <2> QED
      BY <2>2, <2>3, FS_EmptySet
  <1> QED
    BY <1>8, <1>9

(* What a span takes is added to what is covered, and its sum is seen.      *)
LEMMA TakeIs ==
    ASSUME NEW acc \in SweepState, NEW span \in HerdrSpan, NEW next \in Int,
           NEW taken \in Seq(Int), Len(taken) = Len(acc.terms)
    PROVE  LET new == Take(acc, next, span, taken)
           IN  /\ new \in SweepState /\ new.next = next /\ Len(new.terms) = Len(acc.terms)
               /\ \A k \in 1 .. Len(acc.terms) :
                     /\ new.terms[k].start = acc.terms[k].start /\ new.terms[k].end = acc.terms[k].end
                     /\ new.terms[k].win = acc.terms[k].win
                     /\ new.terms[k].covered = acc.terms[k].covered + taken[k]
               /\ \E s \in HerdrSpan : /\ new.spans = Append(acc.spans, s)
                                       /\ s.start = span.start /\ s.end = span.end
                                       /\ s.repo = span.repo /\ s.panes = span.panes
                                       /\ s.seen = Total(taken)
  <1> DEFINE new == Take(acc, next, span, taken)
             n == Len(acc.terms)
             More(k) == [acc.terms[k] EXCEPT !.covered = acc.terms[k].covered + taken[k]]
             s == [span EXCEPT !.seen = Total(taken)]
             terms == [k \in 1 .. n |-> More(k)]
  <1>1. acc.terms \in Seq(Term) /\ acc.spans \in Seq(HerdrSpan) /\ n \in Nat /\ DOMAIN acc.terms = 1 .. n
    BY DEF SweepState
  <1>2. ASSUME NEW k \in 1 .. n
        PROVE  /\ More(k) \in Term /\ More(k).start = acc.terms[k].start
               /\ More(k).end = acc.terms[k].end /\ More(k).win = acc.terms[k].win
               /\ More(k).covered = acc.terms[k].covered + taken[k]
    <2>1. PICK term \in Term : term = acc.terms[k]
      BY <1>1
    <2>2. PICK x \in Int : x = taken[k]
      OBVIOUS
    <2>3. PICK y \in Int : y = term.covered + x
      BY <2>1, <2>2 DEF Term
    <2>4. More(k) = [term EXCEPT !.covered = y]
      BY <2>1, <2>2, <2>3
    <2> HIDE DEF More
    <2>5. /\ More(k) \in Term /\ More(k).start = term.start /\ More(k).end = term.end
          /\ More(k).win = term.win /\ More(k).covered = y
      BY <2>1, <2>3, <2>4, Zenon DEF Term
    <2> QED
      BY <2>1, <2>2, <2>3, <2>5
  <1>3. Total(taken) \in Int
    <2>1. PICK sums : Sums(sums, taken)
      BY TotalSteps
    <2> QED
      BY <2>1 DEF Sums
  <1>4. /\ s \in HerdrSpan /\ s.start = span.start /\ s.end = span.end /\ s.repo = span.repo
        /\ s.panes = span.panes /\ s.seen = Total(taken)
    BY <1>3 DEF HerdrSpan
  <1>5. new = [next |-> next, terms |-> terms, spans |-> Append(acc.spans, s)]
    BY <1>1, Zenon DEF Take
  <1> HIDE DEF More, s
  <1>6. terms \in Seq(Term) /\ Len(terms) = n /\ \A k \in 1 .. n : terms[k] = More(k)
    BY <1>1, <1>2
  <1> HIDE DEF terms
  <1>7. Append(acc.spans, s) \in Seq(HerdrSpan)
    BY <1>1, <1>4
  <1>8. new \in SweepState /\ new.next = next /\ new.terms = terms /\ new.spans = Append(acc.spans, s)
    BY <1>5, <1>6, <1>7 DEF SweepState
  <1> HIDE DEF new
  <1>9. \A k \in 1 .. n :
           /\ new.terms[k].start = acc.terms[k].start /\ new.terms[k].end = acc.terms[k].end
           /\ new.terms[k].win = acc.terms[k].win
           /\ new.terms[k].covered = acc.terms[k].covered + taken[k]
    BY <1>2, <1>6, <1>8, Zenon
  <1> QED
    BY <1>4, <1>6, <1>8, <1>9 DEF new

\* The seconds of a terminal segment that the first m spans explain, and the seconds of
\* terminal focus in a span.
Explained(spans, m, term) ==
    {t \in Int : /\ Covers(term, t)
                 /\ \E i \in 1 .. m : spans[i].repo # NoRepo /\ Covers(spans[i], t)}
SeenBy(span, terms) == {t \in Int : Covers(span, t) /\ Covered(terms, t)}

\* A span as the sweep leaves it.
SpanSeen(s, span, terms) ==
    /\ s \in HerdrSpan
    /\ s.start = span.start /\ s.end = span.end /\ s.repo = span.repo /\ s.panes = span.panes
    /\ s.repo # NoRepo => /\ IsFiniteSet(SeenBy(span, terms))
                          /\ s.seen = Cardinality(SeenBy(span, terms))

\* What the sweep has done after m spans.
SweptTo(acc, spans, terms, m) ==
    /\ acc \in SweepState /\ SameTerms(acc.terms, terms)
    /\ \A i \in m + 1 .. Len(spans) : Over(terms, acc.next, spans[i])
    /\ \A k \in 1 .. Len(terms) :
          /\ IsFiniteSet(Explained(spans, m, terms[k]))
          /\ acc.terms[k].covered = Cardinality(Explained(spans, m, terms[k]))
    /\ Len(acc.spans) = m
    /\ \A i \in 1 .. m : SpanSeen(acc.spans[i], spans[i], terms)

(* A span of an unknown repository takes nothing.                           *)
LEMMA SweepUnknown ==
    ASSUME NEW terms \in Seq(Segment), NEW spans \in Seq(HerdrSpan), NEW m \in 0 .. Len(spans) - 1,
           NEW acc, SweptTo(acc, spans, terms, m), spans[m + 1].repo = NoRepo
    PROVE  SweptTo(Sweep(acc, spans[m + 1]), spans, terms, m + 1)
  <1> DEFINE span == spans[m + 1]
             new == Sweep(acc, span)
             n == Len(terms)
  <1>1. /\ acc \in SweepState /\ SameTerms(acc.terms, terms) /\ Len(acc.spans) = m
        /\ acc.spans \in Seq(HerdrSpan)
    BY DEF SweptTo, SweepState
  <1>2. Len(spans) \in Nat /\ m \in Nat /\ m + 1 \in 1 .. Len(spans) /\ span \in HerdrSpan
    OBVIOUS
  <1>3. new = [acc EXCEPT !.spans = Append(acc.spans, span)]
    BY DEF Sweep
  <1> HIDE DEF new, span
  <1>4. /\ Append(acc.spans, span) \in Seq(HerdrSpan) /\ Len(Append(acc.spans, span)) = m + 1
        /\ \A i \in 1 .. m : Append(acc.spans, span)[i] = acc.spans[i]
        /\ Append(acc.spans, span)[m + 1] = span
    BY <1>1, <1>2, AppendAt
  <1>5. /\ new \in SweepState /\ new.next = acc.next /\ new.terms = acc.terms
        /\ new.spans = Append(acc.spans, span)
    BY <1>1, <1>3, <1>4, Zenon DEF SweepState
  <1>6. \A i \in m + 2 .. Len(spans) : Over(terms, new.next, spans[i])
    <2>1. \A i \in m + 2 .. Len(spans) : i \in m + 1 .. Len(spans)
      BY <1>2
    <2> QED
      BY <1>5, <2>1 DEF SweptTo
  <1>7. ASSUME NEW k \in 1 .. n
        PROVE  Explained(spans, m + 1, terms[k]) = Explained(spans, m, terms[k])
    <2>1. span.repo = NoRepo
      BY DEF span
    <2>2. \A i : i \in 1 .. m + 1 <=> i \in 1 .. m \/ i = m + 1
      BY <1>2
    <2>3. ASSUME NEW t
          PROVE  (\E i \in 1 .. m + 1 : spans[i].repo # NoRepo /\ Covers(spans[i], t))
                    <=> (\E i \in 1 .. m : spans[i].repo # NoRepo /\ Covers(spans[i], t))
      BY <2>1, <2>2, Zenon DEF span
    <2> QED
      BY <2>3, Zenon DEF Explained
  <1>8. ASSUME NEW i \in 1 .. m + 1
        PROVE  SpanSeen(new.spans[i], spans[i], terms)
    <2>1. CASE i = m + 1
      <3>1. new.spans[i] = span /\ spans[i] = span /\ span.repo = NoRepo
        BY <1>4, <1>5, <2>1 DEF span
      <3> QED
        BY <1>2, <3>1, Zenon DEF SpanSeen
    <2>2. CASE i # m + 1
      <3>1. i \in 1 .. m
        BY <1>2, <2>2
      <3>2. new.spans[i] = acc.spans[i]
        BY <1>4, <1>5, <3>1
      <3> QED
        BY <3>1, <3>2 DEF SweptTo
    <2> QED
      BY <2>1, <2>2
  <1>9. ASSUME NEW k \in 1 .. n
        PROVE  /\ IsFiniteSet(Explained(spans, m + 1, terms[k]))
               /\ new.terms[k].covered = Cardinality(Explained(spans, m + 1, terms[k]))
    BY <1>5, <1>7 DEF SweptTo
  <1>10. SameTerms(new.terms, terms) /\ Len(new.spans) = m + 1 /\ (m + 1) + 1 = m + 2
    BY <1>1, <1>2, <1>4, <1>5
  <1>11. SweptTo(new, spans, terms, m + 1)
    BY <1>5, <1>6, <1>8, <1>9, <1>10, Zenon DEF SweptTo
  <1> QED
    BY <1>11 DEF new, span

(* What a span sees is the seconds it shares with any terminal segment.     *)
LEMMA TookAddsUp ==
    ASSUME NEW terms \in Seq(Segment), NEW from, NEW to, Ordered(terms, from, to),
           NEW acc \in SweepState, SameTerms(acc.terms, terms),
           NEW span \in HerdrSpan, Over(terms, acc.next, span),
           NEW taken, taken = [k \in 1 .. Len(terms) |-> Took(acc, span, k)]
    PROVE  /\ taken \in Seq(Int) /\ Len(taken) = Len(terms)
           /\ IsFiniteSet(SeenBy(span, terms)) /\ Total(taken) = Cardinality(SeenBy(span, terms))
  <1> DEFINE n == Len(terms)
             Shares == [k \in 1 .. n |-> Shared(span, terms[k])]
  <1>1. n \in Nat
    OBVIOUS
  <1>2. ASSUME NEW k \in 1 .. n
        PROVE  /\ IsFiniteSet(Shares[k]) /\ taken[k] \in Int /\ Cardinality(Shares[k]) = taken[k]
               /\ taken[k] = Took(acc, span, k)
    BY TookIsShared
  <1>3. taken \in Seq(Int) /\ Len(taken) = n
    <2>1. taken \in [1 .. n -> Int]
      BY <1>2
    <2> QED
      BY <1>1, <2>1
  <1>4. ASSUME NEW k \in 1 .. n, NEW l \in 1 .. n, k < l
        PROVE  Shares[k] \cap Shares[l] = {}
    <2>1. PICK a \in Segment, b \in Segment : a = terms[k] /\ b = terms[l]
      OBVIOUS
    <2>2. PICK e \in Int, s \in Int : e = a.end /\ s = b.start
      BY <2>1, Zenon DEF Segment
    <2>3. e <= s
      BY <1>4, <2>1, <2>2 DEF Ordered
    <2>4. \A t \in Int : ~(Covers(a, t) /\ Covers(b, t))
      BY <2>2, <2>3 DEF Covers
    <2>5. Shares[k] = Shared(span, a) /\ Shares[l] = Shared(span, b)
      BY <2>1
    <2> QED
      BY <2>4, <2>5, Zenon DEF Shared
  <1>5. ASSUME NEW x
        PROVE  x \in SeenBy(span, terms) <=> \E k \in 1 .. n : x \in Shares[k]
    <2>1. \A k \in 1 .. n : Shares[k] = Shared(span, terms[k])
      OBVIOUS
    <2> HIDE DEF Shares
    <2> QED
      BY <2>1, Zenon DEF SeenBy, Covered, Shared
  <1> HIDE DEF Shares
  <1>6. Counted(taken, Shares, SeenBy(span, terms))
    BY <1>2, <1>3, <1>4, <1>5 DEF Counted
  <1> QED
    BY <1>3, <1>6, TotalCounts, Zenon

(* A span of a known repository sees its terminal focus, and explains it.   *)
LEMMA SweepKnown ==
    ASSUME NEW terms \in Seq(Segment), NEW from, NEW to, Ordered(terms, from, to),
           NEW spans \in Seq(HerdrSpan), NEW first, NEW last, Ordered(spans, first, last),
           NEW m \in 0 .. Len(spans) - 1,
           NEW acc, SweptTo(acc, spans, terms, m), spans[m + 1].repo # NoRepo
    PROVE  SweptTo(Sweep(acc, spans[m + 1]), spans, terms, m + 1)
  <1> DEFINE span == spans[m + 1]
             n == Len(terms)
             taken == [k \in 1 .. n |-> Took(acc, span, k)]
             next == Reached(acc, span)
             new == Take(acc, next, span, taken)
  <1>1. /\ acc \in SweepState /\ SameTerms(acc.terms, terms) /\ Len(acc.spans) = m
        /\ acc.spans \in Seq(HerdrSpan) /\ Len(acc.terms) = n /\ DOMAIN acc.terms = 1 .. n
    BY DEF SweptTo, SweepState, SameTerms
  <1>2. Len(spans) \in Nat /\ m \in Nat /\ m + 1 \in 1 .. Len(spans) /\ span \in HerdrSpan /\ n \in Nat
    OBVIOUS
  <1>3. Sweep(acc, span) = new
    BY <1>1 DEF Sweep, Took
  <1>4. span.repo # NoRepo
    OBVIOUS
  <1>5. Over(terms, acc.next, span)
    <2>1. m + 1 \in m + 1 .. Len(spans)
      BY <1>2
    <2> QED
      BY <2>1 DEF SweptTo
  <1> HIDE DEF new, span
  <1>6. Over(terms, next, span)
    BY <1>1, <1>2, <1>5, ReachedIsOver
  <1>7. /\ taken \in Seq(Int) /\ Len(taken) = n
        /\ IsFiniteSet(SeenBy(span, terms)) /\ Total(taken) = Cardinality(SeenBy(span, terms))
    BY <1>1, <1>2, <1>5, TookAddsUp
  <1>8. ASSUME NEW k \in 1 .. n
        PROVE  /\ IsFiniteSet(Shared(span, terms[k])) /\ taken[k] \in Int
               /\ Cardinality(Shared(span, terms[k])) = taken[k]
    BY <1>1, <1>2, <1>5, TookIsShared
  <1> HIDE DEF taken
  <1>9. next \in Int
    BY <1>2, <1>6 DEF Over
  <1> HIDE DEF next
  <1>10. /\ new \in SweepState /\ new.next = next /\ Len(new.terms) = n
         /\ \A k \in 1 .. n :
               /\ new.terms[k].start = acc.terms[k].start /\ new.terms[k].end = acc.terms[k].end
               /\ new.terms[k].win = acc.terms[k].win
               /\ new.terms[k].covered = acc.terms[k].covered + taken[k]
         /\ \E s \in HerdrSpan : /\ new.spans = Append(acc.spans, s)
                                 /\ s.start = span.start /\ s.end = span.end
                                 /\ s.repo = span.repo /\ s.panes = span.panes
                                 /\ s.seen = Total(taken)
    BY <1>1, <1>2, <1>7, <1>9, TakeIs DEF new
  <1>11. SameTerms(new.terms, terms)
    <2>1. new.terms \in Seq(Term)
      BY <1>10 DEF SweepState
    <2> QED
      BY <1>1, <1>10, <2>1, Zenon DEF SameTerms
  <1>12. ASSUME NEW i \in m + 2 .. Len(spans)
         PROVE  Over(terms, new.next, spans[i])
    <2>1. i \in 1 .. Len(spans) /\ m + 1 < i
      BY <1>2
    <2>2. PICK a \in Int, b \in Int : a = span.start /\ b = span.end
      BY <1>2 DEF HerdrSpan
    <2>3. spans[i] \in HerdrSpan
      BY <2>1
    <2>4. PICK c \in Int : c = spans[i].start
      BY <2>3, Zenon DEF HerdrSpan
    <2>5. a < b /\ b <= c
      BY <1>2, <2>1, <2>2, <2>4 DEF Ordered, span
    <2>6. ASSUME NEW k \in 1 .. next - 1
          PROVE  terms[k].end <= c
      <3>1. k \in 1 .. n
        BY <1>2, <1>6 DEF Over
      <3>2. terms[k] \in Segment
        BY <3>1
      <3>3. PICK e \in Int : e = terms[k].end
        BY <3>2 DEF Segment
      <3>4. e <= a
        BY <1>6, <2>2, <3>3 DEF Over
      <3> QED
        BY <2>2, <2>4, <2>5, <3>3, <3>4
    <2> QED
      BY <1>6, <1>10, <2>4, <2>6 DEF Over
  <1>13. ASSUME NEW k \in 1 .. n
         PROVE  /\ IsFiniteSet(Explained(spans, m + 1, terms[k]))
                /\ new.terms[k].covered = Cardinality(Explained(spans, m + 1, terms[k]))
    <2> DEFINE old == Explained(spans, m, terms[k])
               more == Shared(span, terms[k])
    <2>1. Explained(spans, m + 1, terms[k]) = old \cup more
      <3>1. \A i : i \in 1 .. m + 1 <=> i \in 1 .. m \/ i = m + 1
        BY <1>2
      <3> QED
        BY <1>4, <3>1, Zenon DEF Explained, Shared, span
    <2>2. old \cap more = {}
      <3>1. ASSUME NEW t \in Int, NEW i \in 1 .. m, Covers(spans[i], t), Covers(span, t)
            PROVE  FALSE
        <4>1. i \in 1 .. Len(spans) /\ i < m + 1
          BY <1>2
        <4>2. spans[i] \in HerdrSpan
          BY <4>1
        <4>3. PICK a \in Int, b \in Int : a = span.start /\ b = spans[i].end
          BY <1>2, <4>2, Zenon DEF HerdrSpan
        <4>4. b <= a
          BY <1>2, <4>1, <4>3 DEF Ordered, span
        <4> QED
          BY <3>1, <4>3, <4>4 DEF Covers
      <3> QED
        BY <3>1, Zenon DEF Explained, Shared
    <2>3. IsFiniteSet(old) /\ acc.terms[k].covered = Cardinality(old)
      BY DEF SweptTo
    <2>4. IsFiniteSet(more) /\ Cardinality(more) = taken[k]
      BY <1>8
    <2> HIDE DEF old, more
    <2>5. /\ IsFiniteSet(old \cup more)
          /\ Cardinality(old \cup more) = Cardinality(old) + Cardinality(more)
      BY <2>2, <2>3, <2>4, Apartness, Zenon
    <2>6. new.terms[k].covered = Cardinality(old) + Cardinality(more)
      BY <1>10, <2>3, <2>4, Zenon
    <2> QED
      BY <2>1, <2>5, <2>6, Zenon
  <1>14. PICK s \in HerdrSpan : /\ new.spans = Append(acc.spans, s)
                                /\ s.start = span.start /\ s.end = span.end
                                /\ s.repo = span.repo /\ s.panes = span.panes
                                /\ s.seen = Total(taken)
    BY <1>10
  <1>15. /\ Len(new.spans) = m + 1 /\ \A i \in 1 .. m : new.spans[i] = acc.spans[i]
         /\ new.spans[m + 1] = s
    BY <1>1, <1>2, <1>14, AppendAt
  <1>16. ASSUME NEW i \in 1 .. m + 1
         PROVE  SpanSeen(new.spans[i], spans[i], terms)
    <2>1. CASE i = m + 1
      <3>1. SpanSeen(s, span, terms)
        BY <1>7, <1>14 DEF SpanSeen
      <3> QED
        BY <1>15, <2>1, <3>1 DEF span
    <2>2. CASE i # m + 1
      <3>1. i \in 1 .. m
        BY <1>2, <2>2
      <3>2. new.spans[i] = acc.spans[i]
        BY <1>15, <3>1
      <3> QED
        BY <3>1, <3>2 DEF SweptTo
    <2> QED
      BY <2>1, <2>2
  <1>17. (m + 1) + 1 = m + 2
    BY <1>2
  <1>18. SweptTo(new, spans, terms, m + 1)
    BY <1>10, <1>11, <1>12, <1>13, <1>15, <1>16, <1>17 DEF SweptTo
  <1> QED
    BY <1>3, <1>18 DEF span

\* The sweep of _attention as a loop.
Sweeping == INSTANCE FoldSteps WITH Op <- Sweep

\* The terminal segments as the sweep begins with them.
Uncovereds(terms) == [k \in DOMAIN terms |-> Uncovered(terms[k])]

(* Before the first span nothing is covered.                                *)
LEMMA SweepBegins ==
    ASSUME NEW terms \in Seq(Segment), NEW spans \in Seq(HerdrSpan)
    PROVE  SweptTo([next |-> 1, spans |-> <<>>, terms |-> Uncovereds(terms)], spans, terms, 0)
  <1> DEFINE n == Len(terms)
             acc == [next |-> 1, spans |-> <<>>, terms |-> Uncovereds(terms)]
  <1>1. n \in Nat /\ DOMAIN terms = 1 .. n
    OBVIOUS
  <1>2. ASSUME NEW k \in 1 .. n
        PROVE  /\ Uncovered(terms[k]) \in Term /\ Uncovered(terms[k]).start = terms[k].start
               /\ Uncovered(terms[k]).end = terms[k].end /\ Uncovered(terms[k]).win = terms[k].win
               /\ Uncovered(terms[k]).covered = 0
    <2>1. terms[k] \in Segment
      OBVIOUS
    <2> QED
      BY <2>1 DEF Segment, Term, Uncovered
  <1>3. /\ Uncovereds(terms) \in Seq(Term) /\ Len(Uncovereds(terms)) = n
        /\ \A k \in 1 .. n : Uncovereds(terms)[k] = Uncovered(terms[k])
    BY <1>1, <1>2 DEF Uncovereds
  <1>4. /\ acc.next = 1 /\ acc.spans = <<>> /\ acc.terms = Uncovereds(terms)
    OBVIOUS
  <1>5. acc \in SweepState
    BY <1>3 DEF SweepState
  <1> HIDE DEF acc
  <1>6. SameTerms(acc.terms, terms)
    BY <1>2, <1>3, <1>4 DEF SameTerms
  <1>7. \A i : Over(terms, acc.next, spans[i])
    BY <1>1, <1>4 DEF Over
  <1>8. ASSUME NEW k \in 1 .. n
        PROVE  /\ IsFiniteSet(Explained(spans, 0, terms[k]))
               /\ acc.terms[k].covered = Cardinality(Explained(spans, 0, terms[k]))
    <2>1. Explained(spans, 0, terms[k]) = {}
      BY DEF Explained
    <2> QED
      BY <1>2, <1>3, <1>4, <2>1, FS_EmptySet, Zenon
  <1>9. SweptTo(acc, spans, terms, 0)
    BY <1>4, <1>5, <1>6, <1>7, <1>8 DEF SweptTo
  <1> QED
    BY <1>9 DEF acc

(* After the last span every span has its terminal focus, and every         *)
(* terminal segment what the spans explain of it.                           *)
LEMMA SweepEnds ==
    ASSUME NEW terms \in Seq(Segment), NEW from, NEW to, Ordered(terms, from, to),
           NEW spans \in Seq(HerdrSpan), NEW first, NEW last, Ordered(spans, first, last)
    PROVE  SweptTo(FoldLeft(Sweep, [next |-> 1, spans |-> <<>>, terms |-> Uncovereds(terms)], spans),
                   spans, terms, Len(spans))
  <1> DEFINE n == Len(spans)
             base == [next |-> 1, spans |-> <<>>, terms |-> Uncovereds(terms)]
             end == FoldLeft(Sweep, base, spans)
  <1>1. n \in Nat
    OBVIOUS
  <1>2. SweptTo(base, spans, terms, 0)
    BY SweepBegins
  <1> HIDE DEF base
  <1>3. PICK acc : /\ acc[0] = base /\ end = acc[n]
                   /\ \A k \in 1 .. n : acc[k] = Sweep(acc[k - 1], spans[k])
    <2>1. end = Sweeping!Folded(base, spans)
      BY DEF FoldLeft, MapThenFoldSet, Sweeping!Folded, Sweeping!Rec, Max, Sweeping!Greatest
    <2> HIDE DEF end
    <2>2. \E acc : Sweeping!Steps(acc, base, spans) /\ Sweeping!Folded(base, spans) = acc[n]
      BY Sweeping!FoldHasSteps
    <2> QED
      BY <2>1, <2>2, Zenon DEF Sweeping!Steps
  <1> HIDE DEF end
  <1> DEFINE T == {m \in 0 .. n : SweptTo(acc[m], spans, terms, m)}
  <1>4. 0 \in T
    BY <1>1, <1>2, <1>3
  <1>5. \A m \in 0 .. n - 1 : m \in T => m + 1 \in T
    <2> SUFFICES ASSUME NEW m \in 0 .. n - 1, SweptTo(acc[m], spans, terms, m)
                 PROVE  m + 1 \in 0 .. n /\ SweptTo(acc[m + 1], spans, terms, m + 1)
      OBVIOUS
    <2>1. m + 1 \in 1 .. n /\ (m + 1) - 1 = m /\ m + 1 \in 0 .. n
      BY <1>1
    <2>2. acc[m + 1] = Sweep(acc[m], spans[m + 1])
      BY <1>3, <2>1
    <2>3. SweptTo(Sweep(acc[m], spans[m + 1]), spans, terms, m + 1)
      BY SweepUnknown, SweepKnown
    <2> QED
      BY <2>1, <2>2, <2>3
  <1>6. n \in T
    <2> HIDE DEF T
    <2>1. 0 .. n \subseteq T
      BY <1>1, <1>4, <1>5, Sweeping!UpTo, Zenon
    <2> QED
      BY <1>1, <2>1
  <1> QED
    BY <1>3, <1>6 DEF end, base

-----------------------------------------------------------------------------
(* The spans *)

\* A snapshot is known at second t.
KnownIn(snaps, t, m) ==
    /\ m \in 1 .. Len(snaps) /\ NewestAt(snaps, t, m) /\ t < snaps[m].ts + MaxHold

\* The spans are the seconds from 0 to the horizon at which a snapshot is known, with what
\* it says.
SpansAre(spans, snaps, horizon) ==
    /\ spans \in Seq(HerdrSpan) /\ Ordered(spans, 0, horizon)
    /\ \A i \in 1 .. Len(spans), t \in Int : Covers(spans[i], t) =>
          \E m \in 1 .. Len(snaps) : /\ KnownIn(snaps, t, m) /\ t \in 0 .. horizon - 1
                                     /\ spans[i].repo = snaps[m].repo
                                     /\ spans[i].panes = snaps[m].panes
    /\ \A t \in 0 .. horizon - 1, m \in 1 .. Len(snaps) : KnownIn(snaps, t, m) => Covered(spans, t)

\* The span of a snapshot, until the next one.
HeldOf(snaps, horizon, i) ==
    HeldSpan(snaps[i], IF i < Len(snaps) THEN snaps[i + 1].ts ELSE horizon, WindowStart, horizon)

(* The span of a snapshot holds the seconds at which it is known.           *)
LEMMA HeldIsKnown ==
    ASSUME NEW snaps \in Seq(Row), NEW horizon \in Nat, InOrder(snaps),
           \A j \in 1 .. Len(snaps) : snaps[j].ts <= horizon, NEW i \in 1 .. Len(snaps)
    PROVE  LET held == HeldOf(snaps, horizon, i)
           IN  /\ held \in HerdrSpan /\ 0 <= held.start /\ held.end <= horizon
               /\ held.repo = snaps[i].repo /\ held.panes = snaps[i].panes
               /\ \A t \in Int : Covers(held, t) <=> t \in 0 .. horizon - 1 /\ KnownIn(snaps, t, i)
               /\ \A j \in 1 .. Len(snaps) : i < j => held.end <= HeldOf(snaps, horizon, j).start
  <1> DEFINE n == Len(snaps)
             Till(j) == IF j < n THEN snaps[j + 1].ts ELSE horizon
             held == HeldOf(snaps, horizon, i)
  <1>1. n \in Nat
    OBVIOUS
  <1>2. ASSUME NEW j \in 1 .. n
        PROVE  /\ snaps[j].ts \in Int /\ snaps[j].repo \in STRING /\ snaps[j].panes \in Panes
    <2>1. snaps[j] \in Row
      OBVIOUS
    <2> QED
      BY <2>1, Zenon DEF Row
  <1>3. ASSUME NEW j \in 1 .. n
        PROVE  /\ Till(j) \in Int
               /\ HeldOf(snaps, horizon, j).start = IF snaps[j].ts <= 0 THEN 0 ELSE snaps[j].ts
    <2>1. j < n => j + 1 \in 1 .. n
      BY <1>1
    <2>2. PICK a \in Int : a = snaps[j].ts
      BY <1>2
    <2>3. HeldOf(snaps, horizon, j).start = Max({a, 0})
      BY <2>2 DEF HeldOf, HeldSpan, WindowStart
    <2>4. Max({a, 0}) = IF a <= 0 THEN 0 ELSE a
      BY <2>2, MaxOfTwo
    <2>5. CASE j < n
      BY <1>2, <2>1, <2>2, <2>3, <2>4, <2>5
    <2>6. CASE ~(j < n)
      BY <2>2, <2>3, <2>4, <2>6
    <2> QED
      BY <2>5, <2>6
  <1>4. PICK a \in Int : a = snaps[i].ts
    BY <1>2
  <1>5. PICK b \in Int : b = Till(i)
    BY <1>3
  <1> HIDE DEF Till
  <1>6. MaxHold \in Nat
    BY ReposAssumption
  <1>7. PICK e \in Int : /\ e = Min({b, a + MaxHold, horizon})
                         /\ e <= b /\ e <= a + MaxHold /\ e <= horizon
                         /\ e = b \/ e = a + MaxHold \/ e = horizon
    <2> DEFINE s == {b, a + MaxHold, horizon}
               x == IF b <= a + MaxHold THEN b ELSE a + MaxHold
               e == IF x <= horizon THEN x ELSE horizon
    <2>1. e \in Int /\ e \in s /\ \A j \in s : e <= j
      BY <1>4, <1>5, <1>6
    <2>2. s \in SUBSET Int
      BY <1>4, <1>5, <1>6
    <2>3. Min(s) = e
      <3> HIDE DEF s, e
      <3> QED
        BY <2>1, <2>2, MinIs
    <2>4. e <= b /\ e <= a + MaxHold /\ e <= horizon /\ (e = b \/ e = a + MaxHold \/ e = horizon)
      BY <1>4, <1>5, <1>6
    <2> QED
      BY <2>1, <2>3, <2>4
  <1>8. PICK f \in Int : f = held.start /\ f = IF a <= 0 THEN 0 ELSE a
    BY <1>3, <1>4
  <1>9. /\ held = [start |-> Max({a, WindowStart}), end |-> Min({b, a + MaxHold, horizon}),
                   repo |-> snaps[i].repo, panes |-> snaps[i].panes, seen |-> 0]
    BY <1>4, <1>5 DEF HeldOf, HeldSpan, Till
  <1>10. /\ held.start = f /\ held.end = e /\ held.repo = snaps[i].repo
         /\ held.panes = snaps[i].panes /\ held.seen = 0
    BY <1>7, <1>8, <1>9
  <1>11. held = [start |-> f, end |-> e, repo |-> snaps[i].repo, panes |-> snaps[i].panes, seen |-> 0]
    BY <1>7, <1>9, <1>10
  <1>12. held \in HerdrSpan
    BY <1>2, <1>11 DEF HerdrSpan
  <1> HIDE DEF held
  <1>13. ASSUME NEW t \in Int
         PROVE  Covers(held, t) <=> t \in 0 .. horizon - 1 /\ KnownIn(snaps, t, i)
    <2>1. Covers(held, t) <=> f <= t /\ t < e
      BY <1>10 DEF Covers
    <2>2. KnownIn(snaps, t, i) <=> a <= t /\ (i < n => t < b) /\ t < a + MaxHold
      <3>1. i # 0 /\ i \in 0 .. n
        BY <1>1
      <3>2. i < n => snaps[i + 1].ts = b
        BY <1>5 DEF Till
      <3> QED
        BY <1>4, <3>1, <3>2 DEF KnownIn, NewestAt
    <2>3. ~(i < n) => b = horizon
      BY <1>5 DEF Till
    <2> QED
      BY <1>4, <1>5, <1>6, <1>7, <1>8, <2>1, <2>2, <2>3
  <1>14. ASSUME NEW j \in 1 .. n, i < j
         PROVE  e <= HeldOf(snaps, horizon, j).start
    <2>1. i + 1 \in 1 .. n /\ i < n /\ i + 1 <= j
      BY <1>1, <1>14
    <2>2. PICK c \in Int : c = snaps[j].ts
      BY <1>2
    <2>3. b <= c
      BY <1>5, <2>1, <2>2 DEF InOrder, Till
    <2>4. HeldOf(snaps, horizon, j).start = IF c <= 0 THEN 0 ELSE c
      BY <1>3, <2>2
    <2> QED
      BY <1>5, <1>7, <2>2, <2>3, <2>4
  <1>15. 0 <= f
    BY <1>8
  <1> QED
    BY <1>7, <1>10, <1>12, <1>13, <1>14, <1>15, Zenon DEF held

(* _spans gives the seconds at which Herdr is known.                        *)
LEMMA SpansOfSnaps ==
    ASSUME NEW snaps \in Seq(Row), NEW horizon \in Nat, InOrder(snaps),
           \A j \in 1 .. Len(snaps) : snaps[j].ts <= horizon
    PROVE  SpansAre(Spans(snaps, WindowStart, horizon), snaps, horizon)
  <1> DEFINE n == Len(snaps)
             held == [i \in 1 .. n |-> HeldOf(snaps, horizon, i)]
             some == {s \in Range(held) : s.end > s.start}
             spans == Only(held, some)
  <1>1. n \in Nat /\ DOMAIN snaps = 1 .. n
    OBVIOUS
  <1>2. Spans(snaps, WindowStart, horizon) = spans
    BY <1>1, Zenon DEF Spans, HeldOf
  <1>3. ASSUME NEW i \in 1 .. n
        PROVE  /\ held[i] \in HerdrSpan /\ 0 <= held[i].start /\ held[i].end <= horizon
               /\ held[i].repo = snaps[i].repo /\ held[i].panes = snaps[i].panes
               /\ \A t \in Int : Covers(held[i], t) <=> t \in 0 .. horizon - 1 /\ KnownIn(snaps, t, i)
               /\ \A j \in 1 .. n : i < j => held[i].end <= held[j].start
    <2>1. \A j \in 1 .. n : held[j] = HeldOf(snaps, horizon, j)
      OBVIOUS
    <2> HIDE DEF held
    <2>2. LET h == HeldOf(snaps, horizon, i)
          IN  /\ h \in HerdrSpan /\ 0 <= h.start /\ h.end <= horizon
              /\ h.repo = snaps[i].repo /\ h.panes = snaps[i].panes
              /\ \A t \in Int : Covers(h, t) <=> t \in 0 .. horizon - 1 /\ KnownIn(snaps, t, i)
              /\ \A j \in 1 .. Len(snaps) : i < j => h.end <= HeldOf(snaps, horizon, j).start
      BY HeldIsKnown
    <2> QED
      BY <2>1, <2>2, Zenon
  <1>4. held \in Seq(HerdrSpan) /\ Len(held) = n /\ DOMAIN held = 1 .. n
    BY <1>1, <1>3
  <1>5. \A i \in 1 .. n : held[i] \in some <=> held[i].end > held[i].start
    BY <1>4 DEF Range
  <1> HIDE DEF held, some
  <1>6. held \in Seq(HerdrSpan)
    BY <1>4
  <1>7. spans \in Seq(HerdrSpan)
    BY <1>6, OnlyKeeps
  <1>71. PICK from \in [1 .. Len(spans) -> 1 .. Len(held)] :
              /\ \A p \in 1 .. Len(spans) : spans[p] = held[from[p]] /\ spans[p] \in some
              /\ \A p, q \in 1 .. Len(spans) : p < q => from[p] < from[q]
              /\ \A i \in 1 .. Len(held) : held[i] \in some => \E p \in 1 .. Len(spans) : from[p] = i
    BY <1>6, OnlyKeeps
  <1> HIDE DEF spans
  <1>8. ASSUME NEW p \in 1 .. Len(spans)
        PROVE  from[p] \in 1 .. n /\ spans[p] = held[from[p]] /\ spans[p].start < spans[p].end
    <2>1. from[p] \in 1 .. n /\ spans[p] = held[from[p]] /\ spans[p] \in some
      BY <1>4, <1>71
    <2>2. PICK a \in Int, b \in Int : a = spans[p].start /\ b = spans[p].end
      BY <1>3, <2>1 DEF HerdrSpan
    <2>3. b > a
      BY <1>5, <2>1, <2>2
    <2> QED
      BY <2>1, <2>2, <2>3
  <1>9. Ordered(spans, 0, horizon)
    <2>1. ASSUME NEW p \in 1 .. Len(spans)
          PROVE  0 <= spans[p].start /\ spans[p].start < spans[p].end /\ spans[p].end <= horizon
      <3>1. /\ 0 <= held[from[p]].start /\ held[from[p]].end <= horizon
        BY <1>3, <1>8, Zenon
      <3> QED
        BY <1>8, <3>1, Zenon
    <2>2. ASSUME NEW p \in 1 .. Len(spans), NEW q \in 1 .. Len(spans), p < q
          PROVE  spans[p].end <= spans[q].start
      <3>1. from[p] < from[q] /\ from[p] \in 1 .. n /\ from[q] \in 1 .. n
        BY <1>71, <1>8, <2>2, Zenon
      <3>2. held[from[p]].end <= held[from[q]].start
        BY <1>3, <3>1
      <3> QED
        BY <1>8, <3>2, Zenon
    <2> QED
      BY <2>1, <2>2 DEF Ordered
  <1>10. ASSUME NEW p \in 1 .. Len(spans), NEW t \in Int, Covers(spans[p], t)
         PROVE  \E m \in 1 .. n : /\ KnownIn(snaps, t, m) /\ t \in 0 .. horizon - 1
                                  /\ spans[p].repo = snaps[m].repo
                                  /\ spans[p].panes = snaps[m].panes
    <2>1. from[p] \in 1 .. n /\ spans[p] = held[from[p]]
      BY <1>8
    <2> QED
      BY <1>3, <1>10, <2>1, Zenon
  <1>11. ASSUME NEW t \in 0 .. horizon - 1, NEW m \in 1 .. n, KnownIn(snaps, t, m)
         PROVE  Covered(spans, t)
    <2>1. t \in Int
      OBVIOUS
    <2>2. Covers(held[m], t)
      BY <1>3, <1>11, <2>1
    <2>3. held[m] \in some
      <3>1. PICK a \in Int, b \in Int : a = held[m].start /\ b = held[m].end
        BY <1>3 DEF HerdrSpan
      <3>2. a <= t /\ t < b
        BY <2>2, <3>1 DEF Covers
      <3>3. b > a
        BY <2>1, <3>1, <3>2
      <3> QED
        BY <1>5, <3>1, <3>3
    <2>4. PICK p \in 1 .. Len(spans) : from[p] = m
      BY <1>4, <1>71, <2>3
    <2>5. spans[p] = held[m]
      BY <1>8, <2>4
    <2> QED
      BY <2>2, <2>5 DEF Covered
  <1>12. SpansAre(spans, snaps, horizon)
    BY <1>7, <1>9, <1>10, <1>11 DEF SpansAre
  <1> QED
    BY <1>2, <1>12

(* Whatever happens to `seen`, the spans stay what they are.                *)
LEMMA SpansStay ==
    ASSUME NEW spans, NEW snaps, NEW horizon, SpansAre(spans, snaps, horizon),
           NEW seen \in Seq(HerdrSpan), Len(seen) = Len(spans),
           \A i \in 1 .. Len(spans) :
               /\ seen[i].start = spans[i].start /\ seen[i].end = spans[i].end
               /\ seen[i].repo = spans[i].repo /\ seen[i].panes = spans[i].panes
    PROVE  SpansAre(seen, snaps, horizon)
  <1>1. \A i \in 1 .. Len(spans) : \A t : Covers(seen[i], t) <=> Covers(spans[i], t)
    BY DEF Covers
  <1>2. Ordered(seen, 0, horizon)
    BY Zenon DEF SpansAre, Ordered
  <1>3. \A t : Covered(seen, t) <=> Covered(spans, t)
    BY <1>1, Zenon DEF Covered
  <1>4. ASSUME NEW i \in 1 .. Len(seen), NEW t \in Int, Covers(seen[i], t)
        PROVE  \E m \in 1 .. Len(snaps) : /\ KnownIn(snaps, t, m) /\ t \in 0 .. horizon - 1
                                           /\ seen[i].repo = snaps[m].repo
                                           /\ seen[i].panes = snaps[m].panes
    <2>1. i \in 1 .. Len(spans) /\ Covers(spans[i], t)
      BY <1>1, <1>4
    <2>2. PICK m \in 1 .. Len(snaps) : /\ KnownIn(snaps, t, m) /\ t \in 0 .. horizon - 1
                                       /\ spans[i].repo = snaps[m].repo
                                       /\ spans[i].panes = snaps[m].panes
      BY <2>1 DEF SpansAre
    <2>3. seen[i].repo = spans[i].repo /\ seen[i].panes = spans[i].panes
      BY <2>1
    <2> QED
      BY <2>2, <2>3
  <1> QED
    BY <1>2, <1>3, <1>4 DEF SpansAre

\* Every span of a known repository has its terminal focus.
KnownSeen(list, terms) ==
    \A k \in 1 .. Len(list) :
        list[k].repo # NoRepo => list[k].seen = Cardinality(SeenBy(list[k], terms))

\* What _attention gives: the spans with their terminal focus, and the terminal segments with
\* what the spans of a known repository explain of them.
AttentionOf(attn, snaps, terms, horizon) ==
    /\ SpansAre(attn.spans, snaps, horizon)
    /\ KnownSeen(attn.spans, terms)
    /\ SameTerms(attn.terms, terms)
    /\ \A k \in 1 .. Len(terms) :
          attn.terms[k].covered = Cardinality(Explained(attn.spans, Len(attn.spans), attn.terms[k]))

(* And so it does.                                                          *)
LEMMA AttentionIs ==
    ASSUME NEW snaps, NEW horizon, NEW spans, SpansAre(spans, snaps, horizon),
           NEW segments \in Seq(Segment), Ordered(Terminals(segments), 0, horizon),
           Terminals(segments) \in Seq(Segment)
    PROVE  AttentionOf(Attention(spans, segments), snaps, Terminals(segments), horizon)
  <1> DEFINE terms == Terminals(segments)
             n == Len(spans)
             attn == Attention(spans, segments)
  <1>1. spans \in Seq(HerdrSpan) /\ Ordered(spans, 0, horizon)
    BY DEF SpansAre
  <1>2. attn = FoldLeft(Sweep, [next |-> 1, spans |-> <<>>, terms |-> Uncovereds(terms)], spans)
    BY DEF Attention, Uncovereds
  <1> HIDE DEF attn, terms
  <1>3. SweptTo(attn, spans, terms, n)
    BY <1>1, <1>2, SweepEnds DEF terms
  <1>4. /\ SameTerms(attn.terms, terms) /\ Len(attn.spans) = n /\ attn.spans \in Seq(HerdrSpan)
        /\ \A i \in 1 .. n : SpanSeen(attn.spans[i], spans[i], terms)
        /\ \A k \in 1 .. Len(terms) : attn.terms[k].covered = Cardinality(Explained(spans, n, terms[k]))
    BY <1>3 DEF SweptTo, SweepState
  <1>5. \A i \in 1 .. n :
            /\ attn.spans[i].start = spans[i].start /\ attn.spans[i].end = spans[i].end
            /\ attn.spans[i].repo = spans[i].repo /\ attn.spans[i].panes = spans[i].panes
    BY <1>4 DEF SpanSeen
  <1>6. SpansAre(attn.spans, snaps, horizon)
    BY <1>4, <1>5, SpansStay, Zenon
  <1>7. \A i \in 1 .. n : \A t : Covers(attn.spans[i], t) <=> Covers(spans[i], t)
    BY <1>5 DEF Covers
  <1>8. ASSUME NEW i \in 1 .. n, attn.spans[i].repo # NoRepo
        PROVE  attn.spans[i].seen = Cardinality(SeenBy(attn.spans[i], terms))
    <2>1. SeenBy(attn.spans[i], terms) = SeenBy(spans[i], terms)
      BY <1>7, Zenon DEF SeenBy
    <2>2. SpanSeen(attn.spans[i], spans[i], terms)
      BY <1>4
    <2> QED
      BY <1>8, <2>1, <2>2 DEF SpanSeen
  <1>9. ASSUME NEW k \in 1 .. Len(terms)
        PROVE  attn.terms[k].covered = Cardinality(Explained(attn.spans, n, attn.terms[k]))
    <2>1. \A t : Covers(attn.terms[k], t) <=> Covers(terms[k], t)
      BY <1>4 DEF SameTerms, Covers
    <2>2. \A t : (\E i \in 1 .. n : attn.spans[i].repo # NoRepo /\ Covers(attn.spans[i], t))
                    <=> (\E i \in 1 .. n : spans[i].repo # NoRepo /\ Covers(spans[i], t))
      BY <1>5, <1>7, Zenon
    <2>3. Explained(attn.spans, n, attn.terms[k]) = Explained(spans, n, terms[k])
      BY <2>1, <2>2, Zenon DEF Explained
    <2> QED
      BY <1>4, <2>3
  <1> QED
    BY <1>4, <1>6, <1>8, <1>9, Zenon DEF AttentionOf, KnownSeen, attn, terms

-----------------------------------------------------------------------------
(* The totals of attribute_repos *)

\* Every span has its terminal focus.
AllSeen(list, terms) ==
    \A k \in 1 .. Len(list) : /\ list[k].seen = Cardinality(SeenBy(list[k], terms))
                              /\ list[k].start <= list[k].end

(* The terminal focus seen in spans that are apart adds up.                 *)
LEMMA SeenCounts ==
    ASSUME NEW terms, NEW list \in Seq(HerdrSpan), Apart(list), AllSeen(list, terms),
           NEW whole, whole = {t \in Int : Covered(list, t) /\ Covered(terms, t)}
    PROVE  IsFiniteSet(whole) /\ Total(Seen(list)) = Cardinality(whole)
  <1> DEFINE n == Len(list)
             Shares == [k \in 1 .. n |-> SeenBy(list[k], terms)]
             numbers == Seen(list)
  <1>1. n \in Nat /\ DOMAIN list = 1 .. n
    OBVIOUS
  <1>2. ASSUME NEW k \in 1 .. n
        PROVE  list[k].start \in Int /\ list[k].end \in Int /\ list[k].seen \in Int
    <2>1. list[k] \in HerdrSpan
      OBVIOUS
    <2> QED
      BY <2>1 DEF HerdrSpan
  <1>3. /\ numbers \in Seq(Int) /\ Len(numbers) = n
        /\ \A k \in 1 .. n : numbers[k] = list[k].seen
    <2>1. numbers = [k \in 1 .. n |-> list[k].seen]
      BY <1>1 DEF Seen
    <2> QED
      BY <1>1, <1>2, <2>1
  <1> HIDE DEF numbers
  <1>4. ASSUME NEW k \in 1 .. n
        PROVE  IsFiniteSet(Shares[k]) /\ Cardinality(Shares[k]) = numbers[k]
    <2>1. PICK a \in Int, b \in Int : a = list[k].start /\ b = list[k].end
      BY <1>2
    <2>5. list[k].seen = Cardinality(SeenBy(list[k], terms))
      BY DEF AllSeen
    <2>2. SeenBy(list[k], terms) \subseteq a .. b - 1
      BY <2>1 DEF SeenBy, Covers
    <2>3. IsFiniteSet(a .. b - 1)
      BY FS_Interval
    <2>4. IsFiniteSet(SeenBy(list[k], terms))
      BY <2>2, <2>3, FS_Subset
    <2> QED
      BY <1>3, <2>4, <2>5
  <1>5. ASSUME NEW k \in 1 .. n, NEW l \in 1 .. n, k < l
        PROVE  Shares[k] \cap Shares[l] = {}
    <2>1. PICK b \in Int, c \in Int : b = list[k].end /\ c = list[l].start
      BY <1>2
    <2>2. b <= c
      BY <1>5, <2>1 DEF Apart
    <2>3. \A t \in Int : ~(Covers(list[k], t) /\ Covers(list[l], t))
      BY <2>1, <2>2 DEF Covers
    <2>4. Shares[k] = SeenBy(list[k], terms) /\ Shares[l] = SeenBy(list[l], terms)
      OBVIOUS
    <2> QED
      BY <2>3, <2>4, Zenon DEF SeenBy
  <1>6. ASSUME NEW x
        PROVE  x \in whole <=> \E k \in 1 .. n : x \in Shares[k]
    <2>1. \A k \in 1 .. n : Shares[k] = SeenBy(list[k], terms)
      OBVIOUS
    <2> HIDE DEF Shares
    <2> QED
      BY <2>1, Zenon DEF SeenBy, Covered
  <1> HIDE DEF Shares
  <1>7. Counted(numbers, Shares, whole)
    BY <1>3, <1>4, <1>5, <1>6 DEF Counted
  <1>8. numbers \in Seq(Int)
    BY <1>3
  <1>9. IsFiniteSet(whole) /\ Total(numbers) = Cardinality(whole)
    BY <1>7, <1>8, TotalCounts
  <1> QED
    BY <1>9 DEF numbers

\* Second t is in a span of a known repository.
Explains(spans, t) == \E i \in 1 .. Len(spans) : spans[i].repo # NoRepo /\ Covers(spans[i], t)

(* And so does what no span explains of the terminal segments.              *)
LEMMA UnexplainedCounts ==
    ASSUME NEW spans, NEW list \in Seq(Term), Apart(list),
           \A k \in 1 .. Len(list) :
               /\ list[k].covered = Cardinality(Explained(spans, Len(spans), list[k]))
               /\ list[k].start <= list[k].end,
           NEW whole, whole = {t \in Int : Covered(list, t) /\ ~Explains(spans, t)}
    PROVE  IsFiniteSet(whole) /\ Total(Unexplained(list)) = Cardinality(whole)
  <1> DEFINE n == Len(list)
             Left(k) == {t \in Int : Covers(list[k], t) /\ ~Explains(spans, t)}
             Shares == [k \in 1 .. n |-> Left(k)]
             numbers == Unexplained(list)
  <1>1. n \in Nat /\ DOMAIN list = 1 .. n
    OBVIOUS
  <1>2. ASSUME NEW k \in 1 .. n
        PROVE  list[k].start \in Int /\ list[k].end \in Int /\ list[k].covered \in Int
    <2>1. list[k] \in Term
      OBVIOUS
    <2> QED
      BY <2>1, Zenon DEF Term
  <1>3. /\ numbers \in Seq(Int) /\ Len(numbers) = n
        /\ \A k \in 1 .. n : numbers[k] = list[k].end - list[k].start - list[k].covered
    <2>1. numbers = [k \in 1 .. n |-> list[k].end - list[k].start - list[k].covered]
      BY <1>1 DEF Unexplained
    <2>2. \A k \in 1 .. n : list[k].end - list[k].start - list[k].covered \in Int
      BY <1>2
    <2> QED
      BY <1>1, <2>1, <2>2
  <1> HIDE DEF numbers
  <1>4. ASSUME NEW k \in 1 .. n
        PROVE  IsFiniteSet(Shares[k]) /\ Cardinality(Shares[k]) = numbers[k]
    <2> DEFINE told == Explained(spans, Len(spans), list[k])
    <2>1. PICK a \in Int, b \in Int, c \in Int :
               a = list[k].start /\ b = list[k].end /\ c = list[k].covered /\ a <= b
      BY <1>2, Zenon
    <2>2. \A t : Covers(list[k], t) <=> a <= t /\ t < b
      BY <2>1 DEF Covers
    <2>3. \A t : t \in a .. b - 1 <=> t \in Int /\ a <= t /\ t < b
      BY <2>1
    <2>4. told \subseteq a .. b - 1 /\ Left(k) = (a .. b - 1) \ told
      BY <2>2, <2>3, Zenon DEF Explained, Explains
    <2>5. IsFiniteSet(a .. b - 1) /\ Cardinality(a .. b - 1) = IF a > b - 1 THEN 0 ELSE (b - 1) - a + 1
      BY FS_Interval
    <2>6. Cardinality(told) = c
      BY <2>1
    <2> HIDE DEF told, Left
    <2>7. /\ IsFiniteSet((a .. b - 1) \ told)
          /\ Cardinality((a .. b - 1) \ told)
                = Cardinality(a .. b - 1) - Cardinality((a .. b - 1) \cap told)
      BY <2>5, FS_Difference, Zenon
    <2>8. (a .. b - 1) \cap told = told
      BY <2>4, Zenon
    <2>9. (IF a > b - 1 THEN 0 ELSE (b - 1) - a + 1) = b - a
      BY <2>1
    <2>10. Cardinality((a .. b - 1) \ told) = b - a - c
      BY <2>5, <2>6, <2>7, <2>8, <2>9, Zenon
    <2>11. Shares[k] = Left(k) /\ numbers[k] = b - a - c
      BY <1>3, <2>1
    <2> HIDE DEF Shares
    <2> QED
      BY <2>4, <2>7, <2>10, <2>11, Zenon
  <1>5. ASSUME NEW k \in 1 .. n, NEW l \in 1 .. n, k < l
        PROVE  Shares[k] \cap Shares[l] = {}
    <2>1. PICK b \in Int, c \in Int : b = list[k].end /\ c = list[l].start
      BY <1>2, Zenon
    <2>2. b <= c
      BY <1>5, <2>1 DEF Apart
    <2>3. \A t \in Int : ~(Covers(list[k], t) /\ Covers(list[l], t))
      BY <2>1, <2>2 DEF Covers
    <2> QED
      BY <2>3, Zenon
  <1>6. ASSUME NEW x
        PROVE  x \in whole <=> \E k \in 1 .. n : x \in Shares[k]
    <2>1. \A k \in 1 .. n : Shares[k] = Left(k)
      OBVIOUS
    <2> HIDE DEF Shares
    <2> QED
      BY <2>1, Zenon DEF Covered
  <1> HIDE DEF Shares
  <1>7. Counted(numbers, Shares, whole)
    BY <1>3, <1>4, <1>5, <1>6 DEF Counted
  <1>8. numbers \in Seq(Int)
    BY <1>3
  <1>9. IsFiniteSet(whole) /\ Total(numbers) = Cardinality(whole)
    BY <1>7, <1>8, TotalCounts
  <1> QED
    BY <1>9 DEF numbers

(* What Only keeps of segments in order is in order.                        *)
LEMMA OnlyOrdered ==
    ASSUME NEW S, NEW list \in Seq(S), NEW wanted, NEW from, NEW to, Ordered(list, from, to)
    PROVE  /\ Only(list, wanted) \in Seq(S) /\ Ordered(Only(list, wanted), from, to)
           /\ Apart(Only(list, wanted))
  <1> DEFINE kept == Only(list, wanted)
  <1>1. kept \in Seq(S)
    BY OnlyKeeps
  <1>2. Apart(list)
    BY DEF Ordered, Apart
  <1>3. Apart(kept)
    BY <1>2, OnlyApart
  <1>4. \A k \in 1 .. Len(kept) : \E i \in 1 .. Len(list) : kept[k] = list[i]
    BY OnlyCovers
  <1> HIDE DEF kept
  <1>5. ASSUME NEW k \in 1 .. Len(kept)
        PROVE  from <= kept[k].start /\ kept[k].start < kept[k].end /\ kept[k].end <= to
    <2>1. PICK i \in 1 .. Len(list) : kept[k] = list[i]
      BY <1>4
    <2>2. from <= list[i].start /\ list[i].start < list[i].end /\ list[i].end <= to
      BY DEF Ordered
    <2> QED
      BY <2>1, <2>2, Zenon
  <1>6. Ordered(kept, from, to)
    BY <1>3, <1>5 DEF Ordered, Apart
  <1> QED
    BY <1>1, <1>3, <1>6 DEF kept

\* Second t is in a span of the list that is of the repository.
OnRepo(list, repo, t) == \E k \in 1 .. Len(list) : list[k].repo = repo /\ Covers(list[k], t)

(* The terminal focus seen on one repository.                               *)
LEMMA SeenOnRepo ==
    ASSUME NEW terms, NEW list \in Seq(HerdrSpan), NEW from, NEW to, Ordered(list, from, to),
           KnownSeen(list, terms),
           NEW repo, repo # NoRepo,
           NEW whole, whole = {t \in Int : OnRepo(list, repo, t) /\ Covered(terms, t)}
    PROVE  IsFiniteSet(whole) /\ Total(Seen(On(list, repo))) = Cardinality(whole)
  <1> DEFINE wanted == {s \in Range(list) : s.repo = repo}
             kept == Only(list, wanted)
  <1>1. On(list, repo) = kept
    BY DEF On
  <1>2. \A k \in 1 .. Len(list) : list[k] \in wanted <=> list[k].repo = repo
    BY DEF Range
  <1> HIDE DEF wanted
  <1>3. kept \in Seq(HerdrSpan) /\ Ordered(kept, from, to) /\ Apart(kept)
    BY OnlyOrdered
  <1>4. /\ \A k \in 1 .. Len(kept) : kept[k] \in wanted /\ \E i \in 1 .. Len(list) : kept[k] = list[i]
        /\ \A t : Covered(kept, t) <=> \E i \in 1 .. Len(list) : list[i] \in wanted /\ Covers(list[i], t)
    BY OnlyCovers
  <1> HIDE DEF kept
  <1>5. ASSUME NEW k \in 1 .. Len(kept)
        PROVE  /\ kept[k].seen = Cardinality(SeenBy(kept[k], terms))
               /\ kept[k].start <= kept[k].end
    <2>1. PICK i \in 1 .. Len(list) : kept[k] = list[i]
      BY <1>4
    <2>2. list[i].repo = repo
      BY <1>2, <1>4, <2>1
    <2>3. list[i].seen = Cardinality(SeenBy(list[i], terms))
      BY <2>2 DEF KnownSeen
    <2>4. list[i] \in HerdrSpan
      OBVIOUS
    <2>5. PICK a \in Int, b \in Int : a = list[i].start /\ b = list[i].end
      BY <2>4, Zenon DEF HerdrSpan
    <2>6. a <= b
      BY <2>5 DEF Ordered
    <2> QED
      BY <2>1, <2>3, <2>5, <2>6
  <1>6. \A t : Covered(kept, t) <=> OnRepo(list, repo, t)
    BY <1>2, <1>4, Zenon DEF OnRepo
  <1>7. whole = {t \in Int : Covered(kept, t) /\ Covered(terms, t)}
    BY <1>6, Zenon
  <1>8. AllSeen(kept, terms)
    BY <1>5 DEF AllSeen
  <1>9. IsFiniteSet(whole) /\ Total(Seen(kept)) = Cardinality(whole)
    BY <1>3, <1>7, <1>8, SeenCounts
  <1> QED
    BY <1>1, <1>9

\* Second t is in a span in which an agent works in the repository.
BusyAt(list, repo, t) == \E k \in 1 .. Len(list) : Busy(list[k], repo) /\ Covers(list[k], t)

(* The time agents work in a repository.                                    *)
LEMMA BusyCounts ==
    ASSUME NEW list \in Seq(HerdrSpan), NEW from, NEW to, Ordered(list, from, to), NEW repo,
           NEW whole, whole = {t \in Int : BusyAt(list, repo, t)}
    PROVE  IsFiniteSet(whole) /\ Total(Lengths(BusyIn(list, repo))) = Cardinality(whole)
  <1> DEFINE wanted == {s \in Range(list) : Busy(s, repo)}
             kept == Only(list, wanted)
  <1>1. BusyIn(list, repo) = kept
    BY DEF BusyIn
  <1>2. \A k \in 1 .. Len(list) : list[k] \in wanted <=> Busy(list[k], repo)
    BY DEF Range
  <1> HIDE DEF wanted
  <1>3. kept \in Seq(HerdrSpan) /\ Ordered(kept, from, to) /\ Apart(kept)
    BY OnlyOrdered
  <1>4. \A t : Covered(kept, t) <=> \E i \in 1 .. Len(list) : list[i] \in wanted /\ Covers(list[i], t)
    BY OnlyCovers
  <1> HIDE DEF kept
  <1>5. ASSUME NEW k \in 1 .. Len(kept)
        PROVE  kept[k].start \in Int /\ kept[k].end \in Int /\ kept[k].start <= kept[k].end
    <2>1. kept[k] \in HerdrSpan
      BY <1>3
    <2>2. PICK a \in Int, b \in Int : a = kept[k].start /\ b = kept[k].end
      BY <2>1, Zenon DEF HerdrSpan
    <2>3. a < b
      BY <1>3, <2>2 DEF Ordered
    <2> QED
      BY <2>2, <2>3
  <1>6. \A t : t \in whole <=> t \in Int /\ Covered(kept, t)
    BY <1>2, <1>4, Zenon DEF BusyAt
  <1>7. IsFiniteSet(whole) /\ Total(Lengths(kept)) = Cardinality(whole)
    BY <1>3, <1>5, <1>6, LengthsCount
  <1> QED
    BY <1>1, <1>7

(* And the part of it during which the user was in a terminal on it.        *)
LEMMA BusySeenCounts ==
    ASSUME NEW terms, NEW list \in Seq(HerdrSpan), NEW from, NEW to, Ordered(list, from, to),
           KnownSeen(list, terms),
           NEW repo, repo # NoRepo,
           NEW whole, whole = {t \in Int : /\ BusyAt(list, repo, t) /\ OnRepo(list, repo, t)
                                           /\ Covered(terms, t)}
    PROVE  IsFiniteSet(whole) /\ Total(Seen(On(BusyIn(list, repo), repo))) = Cardinality(whole)
  <1> DEFINE wanted == {s \in Range(list) : Busy(s, repo)}
             kept == Only(list, wanted)
  <1>1. BusyIn(list, repo) = kept
    BY DEF BusyIn
  <1>2. \A k \in 1 .. Len(list) : list[k] \in wanted <=> Busy(list[k], repo)
    BY DEF Range
  <1> HIDE DEF wanted
  <1>3. kept \in Seq(HerdrSpan) /\ Ordered(kept, from, to)
    BY OnlyOrdered
  <1>4. PICK place \in [1 .. Len(kept) -> 1 .. Len(list)] :
            /\ \A p \in 1 .. Len(kept) : kept[p] = list[place[p]] /\ kept[p] \in wanted
            /\ \A i \in 1 .. Len(list) : list[i] \in wanted => \E p \in 1 .. Len(kept) : place[p] = i
    BY OnlyKeeps
  <1> HIDE DEF kept
  <1>5. ASSUME NEW k \in 1 .. Len(kept), kept[k].repo # NoRepo
        PROVE  kept[k].seen = Cardinality(SeenBy(kept[k], terms))
    <2>1. PICK i \in 1 .. Len(list) : kept[k] = list[i]
      BY <1>4
    <2> QED
      BY <1>5, <2>1 DEF KnownSeen
  <1>6. ASSUME NEW t \in Int
        PROVE  OnRepo(kept, repo, t) <=> BusyAt(list, repo, t) /\ OnRepo(list, repo, t)
    <2>1. ASSUME OnRepo(kept, repo, t)
          PROVE  BusyAt(list, repo, t) /\ OnRepo(list, repo, t)
      <3>1. PICK p \in 1 .. Len(kept) : kept[p].repo = repo /\ Covers(kept[p], t)
        BY <2>1 DEF OnRepo
      <3>2. PICK i \in 1 .. Len(list) : kept[p] = list[i] /\ list[i] \in wanted
        BY <1>4, <3>1
      <3> QED
        BY <1>2, <3>1, <3>2 DEF BusyAt, OnRepo
    <2>2. ASSUME BusyAt(list, repo, t), OnRepo(list, repo, t)
          PROVE  OnRepo(kept, repo, t)
      <3>1. PICK i \in 1 .. Len(list) : Busy(list[i], repo) /\ Covers(list[i], t)
        BY <2>2 DEF BusyAt
      <3>2. PICK j \in 1 .. Len(list) : list[j].repo = repo /\ Covers(list[j], t)
        BY <2>2 DEF OnRepo
      <3>3. i = j
        <4>1. \A k \in 1 .. Len(list) : list[k].start \in Int /\ list[k].end \in Int
          <5>1. \A k \in 1 .. Len(list) : list[k] \in HerdrSpan
            OBVIOUS
          <5> QED
            BY <5>1, Zenon DEF HerdrSpan
        <4>2. /\ Covering(list, t) = {k \in 1 .. Len(list) : Covers(list[k], t)}
              /\ \A k, l \in Covering(list, t) : k = l
          BY <4>1, CoversOnce
        <4> QED
          BY <3>1, <3>2, <4>2
      <3>4. PICK p \in 1 .. Len(kept) : place[p] = i
        BY <1>2, <1>4, <3>1
      <3>5. kept[p] = list[i]
        BY <1>4, <3>4
      <3> QED
        BY <3>1, <3>2, <3>3, <3>5 DEF OnRepo
    <2> QED
      BY <2>1, <2>2
  <1>7. whole = {t \in Int : OnRepo(kept, repo, t) /\ Covered(terms, t)}
    BY <1>6, Zenon
  <1>8. KnownSeen(kept, terms)
    BY <1>5 DEF KnownSeen
  <1>9. IsFiniteSet(whole) /\ Total(Seen(On(kept, repo))) = Cardinality(whole)
    BY <1>3, <1>7, <1>8, SeenOnRepo
  <1> QED
    BY <1>1, <1>9

-----------------------------------------------------------------------------
(* Herdr, second by second *)

(* The snapshots of the recap are in order, the one before the day first.   *)
LEMMA SnapsOfJournal ==
    ASSUME JournalInv
    PROVE  /\ recap.snaps \in Seq(Row) /\ InOrder(recap.snaps) /\ Timed(recap.snaps)
           /\ \A j \in 1 .. Len(recap.snaps) : recap.snaps[j].ts <= Horizon
  <1> DEFINE prior == Prior(day)
             today == OfKind(journal, "herdr")
             snaps == prior \o today
  <1>1. recap.snaps = snaps
    BY DEF JournalInv, compile_day_recap
  <1>2. Horizon \in Nat /\ Stored(journal) /\ day \in Days
    BY HorizonIs DEF JournalInv
  <1>3. prior \in Seq(Row) /\ Len(prior) <= 1 /\ \A i \in DOMAIN prior : prior[i].ts < 0
    BY <1>2, RecapAssumption DEF WindowStart
  <1>4. /\ today \in Seq(Row) /\ Timed(today) /\ InOrder(today) /\ Within(today, 0, Horizon)
    BY <1>2, KindOf
  <1> HIDE DEF prior, today
  <1>5. /\ snaps \in Seq(Row) /\ Len(snaps) = Len(prior) + Len(today)
        /\ \A p \in 1 .. Len(prior) : snaps[p] = prior[p]
        /\ \A k \in 1 .. Len(today) : snaps[Len(prior) + k] = today[k]
    BY <1>3, <1>4, ConcatAt
  <1>6. Len(prior) \in Nat /\ Len(today) \in Nat /\ DOMAIN prior = 1 .. Len(prior)
    BY <1>3, <1>4
  <1> HIDE DEF snaps
  <1>7. ASSUME NEW p \in 1 .. Len(snaps)
        PROVE  \/ p \in 1 .. Len(prior) /\ snaps[p] = prior[p]
               \/ \E k \in 1 .. Len(today) : p = Len(prior) + k /\ snaps[p] = today[k]
    <2>1. CASE p <= Len(prior)
      BY <1>5, <1>6, <2>1
    <2>2. CASE ~(p <= Len(prior))
      <3>1. p - Len(prior) \in 1 .. Len(today) /\ p = Len(prior) + (p - Len(prior))
        BY <1>5, <1>6, <2>2
      <3> QED
        BY <1>5, <3>1, Zenon
    <2> QED
      BY <2>1, <2>2
  <1>8. ASSUME NEW p \in 1 .. Len(snaps)
        PROVE  snaps[p].ts \in Int
    <2>1. snaps[p] \in Row
      BY <1>5
    <2> QED
      BY <2>1 DEF Row
  <1>9. ASSUME NEW k \in 1 .. Len(today)
        PROVE  today[k].ts \in Int /\ 0 <= today[k].ts /\ today[k].ts <= Horizon
    BY <1>4 DEF Timed, Within
  <1>10. ASSUME NEW p \in 1 .. Len(prior)
         PROVE  prior[p].ts \in Int /\ prior[p].ts < 0 /\ p = 1
    <2>1. prior[p] \in Row
      BY <1>3
    <2> QED
      BY <1>3, <1>6, <2>1 DEF Row
  <1>11. ASSUME NEW p \in 1 .. Len(snaps)
         PROVE  snaps[p].ts <= Horizon
    <2>1. CASE p \in 1 .. Len(prior) /\ snaps[p] = prior[p]
      <3>1. PICK a \in Int : a = snaps[p].ts /\ a < 0
        BY <1>10, <2>1
      <3> QED
        BY <1>2, <3>1
    <2>2. CASE \E k \in 1 .. Len(today) : p = Len(prior) + k /\ snaps[p] = today[k]
      BY <1>9, <2>2
    <2> QED
      BY <1>7, <2>1, <2>2
  <1>12. ASSUME NEW p \in 1 .. Len(snaps), NEW q \in 1 .. Len(snaps), p <= q
         PROVE  snaps[p].ts <= snaps[q].ts
    <2>1. CASE q \in 1 .. Len(prior) /\ snaps[q] = prior[q]
      <3>1. q = 1
        BY <1>10, <2>1
      <3>2. p = q
        BY <1>12, <3>1
      <3> QED
        BY <1>8, <3>2
    <2>2. CASE \E k \in 1 .. Len(today) : q = Len(prior) + k /\ snaps[q] = today[k]
      <3>1. PICK k \in 1 .. Len(today) : q = Len(prior) + k /\ snaps[q] = today[k]
        BY <2>2
      <3>2. PICK b \in Int : b = snaps[q].ts /\ b = today[k].ts /\ 0 <= b
        BY <1>9, <3>1
      <3>3. CASE p \in 1 .. Len(prior) /\ snaps[p] = prior[p]
        <4>1. PICK a \in Int : a = snaps[p].ts /\ a < 0
          BY <1>10, <3>3
        <4> QED
          BY <3>2, <4>1
      <3>4. CASE \E l \in 1 .. Len(today) : p = Len(prior) + l /\ snaps[p] = today[l]
        <4>1. PICK l \in 1 .. Len(today) : p = Len(prior) + l /\ snaps[p] = today[l]
          BY <3>4
        <4>2. l <= k
          BY <1>6, <1>12, <3>1, <4>1
        <4>3. today[l].ts <= today[k].ts
          BY <1>4, <4>2 DEF InOrder
        <4> QED
          BY <3>1, <4>1, <4>3
      <3> QED
        BY <1>7, <3>3, <3>4
    <2> QED
      BY <1>7, <2>1, <2>2
  <1> QED
    BY <1>1, <1>5, <1>8, <1>11, <1>12 DEF InOrder, Timed

\* Herdr is known at second t, and says this.
Shows(t, repo, panes) == Known(t) # None /\ Known(t)[1].repo = repo /\ Known(t)[1].panes = panes

(* What the property takes for known is what the spans hold.                *)
LEMMA KnownIs ==
    ASSUME NEW snaps \in Seq(Row), snaps = recap.snaps, InOrder(snaps), Timed(snaps), NEW t \in Int
    PROVE  /\ \A m \in 1 .. Len(snaps) : KnownIn(snaps, t, m) => Shows(t, snaps[m].repo, snaps[m].panes)
           /\ Known(t) # None => \E m \in 1 .. Len(snaps) : KnownIn(snaps, t, m)
  <1> DEFINE n == Len(snaps)
  <1>1. n \in Nat
    OBVIOUS
  <1>2. PICK m \in 0 .. n : IsNewest(snaps, t, m)
    BY NewestExists
  <1>3. ASSUME NEW p \in 0 .. n, NewestAt(snaps, t, p)
        PROVE  p = m
    <2>1. /\ m # 0 => snaps[m].ts <= t
          /\ m < n => t < snaps[m + 1].ts
      BY <1>2 DEF IsNewest, NewestAt
    <2>2. /\ p # 0 => snaps[p].ts <= t
          /\ p < n => t < snaps[p + 1].ts
      BY <1>3 DEF NewestAt
    <2>3. CASE m < p
      <3>1. m + 1 \in 1 .. n /\ p \in 1 .. n /\ m + 1 <= p
        BY <1>1, <2>3
      <3>2. PICK a \in Int, b \in Int : a = snaps[m + 1].ts /\ b = snaps[p].ts
        BY <3>1 DEF Timed
      <3>3. a <= b
        BY <3>1, <3>2 DEF InOrder
      <3>4. t < a /\ b <= t
        BY <1>1, <2>1, <2>2, <3>1, <3>2
      <3> QED
        BY <3>2, <3>3, <3>4
    <2>4. CASE p < m
      <3>1. p + 1 \in 1 .. n /\ m \in 1 .. n /\ p + 1 <= m
        BY <1>1, <2>4
      <3>2. PICK a \in Int, b \in Int : a = snaps[p + 1].ts /\ b = snaps[m].ts
        BY <3>1 DEF Timed
      <3>3. a <= b
        BY <3>1, <3>2 DEF InOrder
      <3>4. t < a /\ b <= t
        BY <1>1, <2>1, <2>2, <3>1, <3>2
      <3> QED
        BY <3>2, <3>3, <3>4
    <2> QED
      BY <2>3, <2>4
  <1>4. Known(t) = IF m # 0 /\ t < snaps[m].ts + MaxHold THEN <<snaps[m]>> ELSE None
    <2>1. (Before(snaps, t) = {}) <=> (m = 0)
      BY <1>2 DEF IsNewest
    <2>2. m # 0 => Max(Before(snaps, t)) = m
      BY <1>2 DEF IsNewest
    <2> QED
      BY <2>1, <2>2, Zenon DEF Known
  <1>5. ASSUME NEW p \in 1 .. n, KnownIn(snaps, t, p)
        PROVE  Shows(t, snaps[p].repo, snaps[p].panes)
    <2>1. p \in 0 .. n /\ NewestAt(snaps, t, p) /\ t < snaps[p].ts + MaxHold /\ p # 0
      BY <1>1, <1>5 DEF KnownIn
    <2>2. p = m
      BY <1>3, <2>1
    <2>3. Known(t) = <<snaps[p]>>
      BY <1>4, <2>1, <2>2
    <2>4. <<snaps[p]>> # None /\ <<snaps[p]>>[1] = snaps[p]
      BY DEF None
    <2> QED
      BY <2>3, <2>4 DEF Shows
  <1>6. ASSUME Known(t) # None
        PROVE  \E p \in 1 .. n : KnownIn(snaps, t, p)
    <2>1. m # 0 /\ t < snaps[m].ts + MaxHold
      BY <1>4, <1>6
    <2>2. m \in 1 .. n
      BY <1>1, <2>1
    <2> QED
      BY <1>2, <2>1, <2>2 DEF KnownIn, IsNewest
  <1> QED
    BY <1>5, <1>6

\* The attribution of the recap, in terms of the seconds.
Attributed(attn) ==
    /\ recap.repos = AttributeRepos(recap.snaps, recap.segments, RepoNames, WindowStart, Horizon)
    /\ attn = Attention(Spans(recap.snaps, WindowStart, Horizon), recap.segments)
    /\ recap.segments \in Seq(Segment) /\ Ordered(recap.segments, 0, Horizon)
    /\ AttentionOf(attn, recap.snaps, Terminals(recap.segments), Horizon)

(* So the recap's attribution is.                                           *)
LEMMA AttributionOfJournal ==
    ASSUME JournalInv
    PROVE  \E attn : Attributed(attn)
  <1> DEFINE spans == Spans(recap.snaps, WindowStart, Horizon)
             attn == Attention(spans, recap.segments)
  <1>1. recap.repos = AttributeRepos(recap.snaps, recap.segments, RepoNames, WindowStart, Horizon)
    BY DEF JournalInv, compile_day_recap
  <1>2. recap.segments \in Seq(Segment) /\ Ordered(recap.segments, 0, Horizon)
    BY FocusOfJournal DEF SegmentsAre
  <1>3. Horizon \in Nat
    BY HorizonIs DEF JournalInv
  <1>4. SpansAre(spans, recap.snaps, Horizon)
    <2>1. PICK snaps \in Seq(Row) : /\ snaps = recap.snaps /\ InOrder(snaps)
                                    /\ \A j \in 1 .. Len(snaps) : snaps[j].ts <= Horizon
      BY SnapsOfJournal
    <2>2. SpansAre(Spans(snaps, WindowStart, Horizon), snaps, Horizon)
      BY <1>3, <2>1, SpansOfSnaps
    <2> QED
      BY <2>1, <2>2
  <1> HIDE DEF spans
  <1>5. PICK segments \in Seq(Segment) : segments = recap.segments
    BY <1>2
  <1>6. /\ Terminals(segments) \in Seq(Segment) /\ Ordered(Terminals(segments), 0, Horizon)
    BY <1>2, <1>5, OnlyOrdered DEF Terminals
  <1>7. AttentionOf(Attention(spans, segments), recap.snaps, Terminals(segments), Horizon)
    BY <1>4, <1>6, AttentionIs
  <1> QED
    BY <1>1, <1>2, <1>5, <1>7 DEF Attributed, spans

(* A second is in a span exactly when Herdr is known, and the span has what *)
(* it says.                                                                 *)
LEMMA SpansSay ==
    ASSUME JournalInv, NEW spans, SpansAre(spans, recap.snaps, Horizon), NEW t \in Int
    PROVE  /\ \A i \in 1 .. Len(spans) : Covers(spans[i], t) =>
                 t \in Seconds /\ Shows(t, spans[i].repo, spans[i].panes)
           /\ t \in Seconds /\ Known(t) # None => \E i \in 1 .. Len(spans) : Covers(spans[i], t)
  <1>1. PICK snaps \in Seq(Row) : snaps = recap.snaps /\ InOrder(snaps) /\ Timed(snaps)
    BY SnapsOfJournal
  <1>2. SpansAre(spans, snaps, Horizon)
    BY <1>1
  <1>3. /\ \A m \in 1 .. Len(snaps) : KnownIn(snaps, t, m) => Shows(t, snaps[m].repo, snaps[m].panes)
        /\ Known(t) # None => \E m \in 1 .. Len(snaps) : KnownIn(snaps, t, m)
    BY <1>1, KnownIs
  <1>4. ASSUME NEW i \in 1 .. Len(spans), Covers(spans[i], t)
        PROVE  t \in Seconds /\ Shows(t, spans[i].repo, spans[i].panes)
    <2>1. PICK m \in 1 .. Len(snaps) : /\ KnownIn(snaps, t, m) /\ t \in 0 .. Horizon - 1
                                       /\ spans[i].repo = snaps[m].repo
                                       /\ spans[i].panes = snaps[m].panes
      BY <1>2, <1>4 DEF SpansAre
    <2>2. Shows(t, snaps[m].repo, snaps[m].panes)
      BY <1>3, <2>1
    <2> QED
      BY <2>1, <2>2 DEF Seconds
  <1>5. ASSUME t \in Seconds, Known(t) # None
        PROVE  \E i \in 1 .. Len(spans) : Covers(spans[i], t)
    <2>1. PICK m \in 1 .. Len(snaps) : KnownIn(snaps, t, m)
      BY <1>3, <1>5
    <2>2. Covered(spans, t)
      BY <1>2, <1>5, <2>1 DEF SpansAre, Seconds
    <2> QED
      BY <2>2 DEF Covered
  <1> QED
    BY <1>4, <1>5

(* The user is in a terminal when a terminal segment holds the second.      *)
LEMMA TerminalSeconds ==
    ASSUME recap.segments \in Seq(Segment), NEW t
    PROVE  Covered(Terminals(recap.segments), t) <=> OnTerminal(t)
  <1> DEFINE segs == recap.segments
             wanted == {s \in Range(segs) : IsTerminal(s.win)}
  <1>1. DOMAIN segs = 1 .. Len(segs)
    OBVIOUS
  <1>2. \A i \in 1 .. Len(segs) : segs[i] \in wanted <=> IsTerminal(segs[i].win)
    BY <1>1 DEF Range
  <1>3. Terminals(segs) = Only(segs, wanted)
    BY DEF Terminals
  <1> HIDE DEF wanted
  <1>4. Covered(Only(segs, wanted), t) <=> \E i \in 1 .. Len(segs) : segs[i] \in wanted /\ Covers(segs[i], t)
    BY OnlyCovers
  <1>5. Covering(segs, t) = {i \in 1 .. Len(segs) : Covers(segs[i], t)}
    BY <1>1 DEF Covering, Covers
  <1>6. OnTerminal(t) <=> \E i \in Covering(segs, t) : IsTerminal(segs[i].win)
    BY Zenon DEF OnTerminal, WindowsAt
  <1> QED
    BY <1>2, <1>3, <1>4, <1>5, <1>6, Zenon

\* The seconds at which an agent works in a repository, and those of them at which the user
\* is in a terminal on it.
WorkingAt(repo)  == {t \in Seconds : Known(t) # None /\ Busy(Known(t)[1], repo)}
AttendedAt(repo) == {t \in WorkingAt(repo) : OnTerminal(t) /\ FocusedRepo(t) = repo}

(* The seconds of the spans are the seconds at which Herdr is known.        *)
LEMMA SpanSeconds ==
    ASSUME JournalInv, NEW attn, Attributed(attn), NEW repo \in RepoNames
    PROVE  LET spans == attn.spans
               terms == Terminals(recap.segments)
           IN  /\ WorkingAt(repo) = {t \in Int : BusyAt(spans, repo, t)}
               /\ AttendedAt(repo) = {t \in Int : /\ BusyAt(spans, repo, t) /\ OnRepo(spans, repo, t)
                                                  /\ Covered(terms, t)}
               /\ {t \in Seconds : FocusedRepo(t) = repo /\ OnTerminal(t)}
                     = {t \in Int : OnRepo(spans, repo, t) /\ Covered(terms, t)}
               /\ \A t \in Seconds : Explains(spans, t) <=> FocusedRepo(t) # NoRepo
  <1> DEFINE spans == attn.spans
             terms == Terminals(recap.segments)
  <1>1. SpansAre(spans, recap.snaps, Horizon) /\ recap.segments \in Seq(Segment)
    BY DEF Attributed, AttentionOf
  <1>2. repo # NoRepo
    BY RecapAssumption
  <1>3. \A t : Covered(terms, t) <=> OnTerminal(t)
    BY <1>1, TerminalSeconds
  <1> HIDE DEF spans, terms
  <1>4. ASSUME NEW t \in Int
        PROVE  /\ \A i \in 1 .. Len(spans) : Covers(spans[i], t) =>
                     t \in Seconds /\ Shows(t, spans[i].repo, spans[i].panes)
               /\ t \in Seconds /\ Known(t) # None => \E i \in 1 .. Len(spans) : Covers(spans[i], t)
    BY <1>1, SpansSay
  <1>5. ASSUME NEW t \in Int
        PROVE  BusyAt(spans, repo, t) <=> t \in WorkingAt(repo)
    <2>1. ASSUME NEW i \in 1 .. Len(spans), Covers(spans[i], t)
          PROVE  /\ t \in Seconds /\ Known(t) # None
                 /\ Busy(Known(t)[1], repo) <=> Busy(spans[i], repo)
      <3>1. t \in Seconds /\ Shows(t, spans[i].repo, spans[i].panes)
        BY <1>4, <2>1
      <3> QED
        BY <3>1, Zenon DEF Shows, Busy
    <2>2. ASSUME BusyAt(spans, repo, t)
          PROVE  t \in WorkingAt(repo)
      <3>1. PICK i \in 1 .. Len(spans) : Busy(spans[i], repo) /\ Covers(spans[i], t)
        BY <2>2 DEF BusyAt
      <3> QED
        BY <2>1, <3>1, Zenon DEF WorkingAt
    <2>3. ASSUME t \in WorkingAt(repo)
          PROVE  BusyAt(spans, repo, t)
      <3>1. t \in Seconds /\ Known(t) # None /\ Busy(Known(t)[1], repo)
        BY <2>3, Zenon DEF WorkingAt
      <3>2. PICK i \in 1 .. Len(spans) : Covers(spans[i], t)
        BY <1>4, <3>1
      <3> QED
        BY <2>1, <3>1, <3>2, Zenon DEF BusyAt
    <2> QED
      BY <2>2, <2>3
  <1>6. ASSUME NEW t \in Int, NEW i \in 1 .. Len(spans), Covers(spans[i], t)
        PROVE  t \in Seconds /\ FocusedRepo(t) = spans[i].repo
    <2>1. t \in Seconds /\ Shows(t, spans[i].repo, spans[i].panes)
      BY <1>4, <1>6
    <2> QED
      BY <2>1, Zenon DEF Shows, FocusedRepo
  <1>7. ASSUME NEW t \in Seconds, FocusedRepo(t) # NoRepo
        PROVE  \E i \in 1 .. Len(spans) : Covers(spans[i], t) /\ spans[i].repo = FocusedRepo(t)
    <2>1. t \in Int
      BY DEF Seconds
    <2>2. Known(t) # None
      BY <1>7, Zenon DEF FocusedRepo
    <2>3. PICK i \in 1 .. Len(spans) : Covers(spans[i], t)
      BY <1>4, <2>1, <2>2
    <2> QED
      BY <1>6, <2>1, <2>3
  <1>8. ASSUME NEW t \in Int
        PROVE  OnRepo(spans, repo, t) <=> t \in Seconds /\ FocusedRepo(t) = repo
    <2>1. ASSUME OnRepo(spans, repo, t)
          PROVE  t \in Seconds /\ FocusedRepo(t) = repo
      <3>1. PICK i \in 1 .. Len(spans) : spans[i].repo = repo /\ Covers(spans[i], t)
        BY <2>1 DEF OnRepo
      <3> QED
        BY <1>6, <3>1
    <2>2. ASSUME t \in Seconds, FocusedRepo(t) = repo
          PROVE  OnRepo(spans, repo, t)
      <3>1. PICK i \in 1 .. Len(spans) : Covers(spans[i], t) /\ spans[i].repo = FocusedRepo(t)
        BY <1>2, <1>7, <2>2
      <3> QED
        BY <2>2, <3>1 DEF OnRepo
    <2> QED
      BY <2>1, <2>2
  <1>9. ASSUME NEW t \in Seconds
        PROVE  Explains(spans, t) <=> FocusedRepo(t) # NoRepo
    <2>1. t \in Int
      BY DEF Seconds
    <2>2. ASSUME Explains(spans, t)
          PROVE  FocusedRepo(t) # NoRepo
      <3>1. PICK i \in 1 .. Len(spans) : spans[i].repo # NoRepo /\ Covers(spans[i], t)
        BY <2>2 DEF Explains
      <3> QED
        BY <1>6, <2>1, <3>1
    <2>3. ASSUME FocusedRepo(t) # NoRepo
          PROVE  Explains(spans, t)
      BY <1>7, <2>3, Zenon DEF Explains
    <2> QED
      BY <2>2, <2>3
  <1>10. Seconds \subseteq Int
    BY DEF Seconds
  <1>11. WorkingAt(repo) \subseteq Int
    BY <1>10, Zenon DEF WorkingAt
  <1>12. WorkingAt(repo) = {t \in Int : BusyAt(spans, repo, t)}
    BY <1>5, <1>11, Zenon
  <1>13. AttendedAt(repo) = {t \in Int : /\ BusyAt(spans, repo, t) /\ OnRepo(spans, repo, t)
                                         /\ Covered(terms, t)}
    <2>1. \A t \in WorkingAt(repo) : t \in Seconds
      BY Zenon DEF WorkingAt
    <2>2. \A t \in WorkingAt(repo) :
             (OnTerminal(t) /\ FocusedRepo(t) = repo) <=> (OnRepo(spans, repo, t) /\ Covered(terms, t))
      BY <1>3, <1>8, <1>11, <2>1, Zenon
    <2> QED
      BY <1>5, <1>11, <2>2, Zenon DEF AttendedAt
  <1>14. {t \in Seconds : FocusedRepo(t) = repo /\ OnTerminal(t)}
            = {t \in Int : OnRepo(spans, repo, t) /\ Covered(terms, t)}
    BY <1>3, <1>8, <1>10, Zenon
  <1> QED
    BY <1>9, <1>12, <1>13, <1>14 DEF spans, terms

-----------------------------------------------------------------------------
(* Agent time is wall time *)

(* For every day: a second in which agents work in a repository counts once *)
(* for it, and is unfocused unless the user is in a terminal on it.         *)
THEOREM AgentTimeIsCounted == Spec => []AgentTimeIsWallTime
  <1>1. JournalInv => AgentTimeIsWallTime
    <2> SUFFICES ASSUME JournalInv, NEW repo \in RepoNames
                 PROVE  /\ recap.repos.working[repo] = Cardinality(WorkingAt(repo))
                        /\ recap.repos.unfocused[repo]
                              = Cardinality({t \in WorkingAt(repo) :
                                                ~(OnTerminal(t) /\ FocusedRepo(t) = repo)})
      BY Zenon DEF AgentTimeIsWallTime, WorkingAt
    <2>1. PICK attn : Attributed(attn)
      BY AttributionOfJournal
    <2> DEFINE terms == Terminals(recap.segments)
               work == Total(Lengths(BusyIn(attn.spans, repo)))
               seen == Total(Seen(On(BusyIn(attn.spans, repo), repo)))
               all == WorkingAt(repo)
               with == AttendedAt(repo)
    <2>2. recap.repos.working[repo] = work /\ recap.repos.unfocused[repo] = Max({0, work - seen})
      BY <2>1 DEF Attributed, AttributeRepos
    <2>3. /\ attn.spans \in Seq(HerdrSpan) /\ Ordered(attn.spans, 0, Horizon)
          /\ KnownSeen(attn.spans, terms)
      BY <2>1 DEF Attributed, AttentionOf, SpansAre
    <2>4. PICK spans \in Seq(HerdrSpan) : spans = attn.spans
      BY <2>3
    <2>5. /\ all = {t \in Int : BusyAt(spans, repo, t)}
          /\ with = {t \in Int : /\ BusyAt(spans, repo, t) /\ OnRepo(spans, repo, t)
                                 /\ Covered(terms, t)}
      BY <2>1, <2>4, SpanSeconds
    <2>6. repo # NoRepo
      BY RecapAssumption
    <2> HIDE DEF work, seen, all, with, terms
    <2>7. IsFiniteSet(all) /\ work = Cardinality(all)
      BY <2>3, <2>4, <2>5, BusyCounts, Zenon DEF work
    <2>8. IsFiniteSet(with) /\ seen = Cardinality(with)
      BY <2>3, <2>4, <2>5, <2>6, BusySeenCounts DEF seen
    <2>9. with \subseteq all /\ all \ with = {t \in WorkingAt(repo) :
                                                  ~(OnTerminal(t) /\ FocusedRepo(t) = repo)}
      BY Zenon DEF with, all, AttendedAt
    <2>10. IsFiniteSet(all \ with) /\ Cardinality(all \ with) = Cardinality(all) - Cardinality(with)
      <3>1. all \cap with = with
        BY <2>9
      <3> QED
        BY <2>7, <3>1, FS_Difference, Zenon
    <2>11. PICK w \in Int, s \in Int, d \in Nat : w = work /\ s = seen /\ d = Cardinality(all \ with)
      BY <2>7, <2>8, <2>10, FS_CardinalityType, SMT
    <2>12. d = w - s
      BY <2>7, <2>8, <2>10, <2>11
    <2>13. Max({0, w - s}) = d
      <3>1. 0 \in Int /\ w - s \in Int /\ 0 <= w - s
        BY <2>11, <2>12
      <3> QED
        BY <2>12, <3>1, MaxOfTwo
    <2> QED
      BY <2>2, <2>7, <2>9, <2>11, <2>13, Zenon DEF all
  <1> QED
    BY <1>1, JournalKeeps, PTL

-----------------------------------------------------------------------------
(* Focus counts for its repository *)

\* At second t a segment is on, whose window is in a set.
WindowIn(segs, wins, t) == \E i \in 1 .. Len(segs) : segs[i].win \in wins /\ Covers(segs[i], t)

TerminalWins     == {w \in Window : IsTerminal(w)}
LinkedWins(repo) == {w \in Window : LinkedRepo(w) = repo}

(* The focus outside terminals on windows that are linked to a repository.  *)
LEMMA OtherFocus ==
    ASSUME NEW segs \in Seq(Segment), NEW from, NEW to, Ordered(segs, from, to), NEW repo,
           NEW whole, whole = {t \in Int : WindowIn(segs, LinkedWins(repo) \ TerminalWins, t)}
    PROVE  /\ IsFiniteSet(whole)
           /\ Total(Lengths(Linked(Others(segs), repo))) = Cardinality(whole)
  <1> DEFINE free == {s \in Range(segs) : ~IsTerminal(s.win)}
             others == Only(segs, free)
             wanted == {s \in Range(others) : LinkedRepo(s.win) = repo}
             kept == Only(others, wanted)
  <1>1. Linked(Others(segs), repo) = kept
    BY DEF Linked, Others
  <1>2. \A i \in 1 .. Len(segs) : segs[i] \in free <=> ~IsTerminal(segs[i].win)
    BY DEF Range
  <1> HIDE DEF free
  <1>3. others \in Seq(Segment) /\ Ordered(others, from, to)
    BY OnlyOrdered
  <1>4. PICK at \in [1 .. Len(others) -> 1 .. Len(segs)] :
            /\ \A p \in 1 .. Len(others) : others[p] = segs[at[p]] /\ others[p] \in free
            /\ \A i \in 1 .. Len(segs) : segs[i] \in free => \E p \in 1 .. Len(others) : at[p] = i
    BY OnlyKeeps
  <1> HIDE DEF others
  <1>5. \A p \in 1 .. Len(others) : others[p] \in wanted <=> LinkedRepo(others[p].win) = repo
    BY <1>3 DEF Range
  <1> HIDE DEF wanted
  <1>6. kept \in Seq(Segment) /\ Ordered(kept, from, to) /\ Apart(kept)
    BY <1>3, OnlyOrdered
  <1>7. \A t : Covered(kept, t) <=> \E p \in 1 .. Len(others) : others[p] \in wanted /\ Covers(others[p], t)
    BY <1>3, OnlyCovers
  <1> HIDE DEF kept
  <1>8. \A i \in 1 .. Len(segs) : segs[i].win \in Window
    BY SegmentsAt
  <1>9. ASSUME NEW t
        PROVE  Covered(kept, t) <=> WindowIn(segs, LinkedWins(repo) \ TerminalWins, t)
    <2>1. ASSUME NEW p \in 1 .. Len(others), others[p] \in wanted, Covers(others[p], t)
          PROVE  WindowIn(segs, LinkedWins(repo) \ TerminalWins, t)
      <3>1. at[p] \in 1 .. Len(segs) /\ others[p] = segs[at[p]] /\ others[p] \in free
        BY <1>4
      <3>2. segs[at[p]].win \in LinkedWins(repo) \ TerminalWins
        BY <1>2, <1>5, <1>8, <2>1, <3>1, Zenon DEF LinkedWins, TerminalWins
      <3> QED
        BY <2>1, <3>1, <3>2 DEF WindowIn
    <2>2. ASSUME NEW i \in 1 .. Len(segs), segs[i].win \in LinkedWins(repo) \ TerminalWins,
                 Covers(segs[i], t)
          PROVE  \E p \in 1 .. Len(others) : others[p] \in wanted /\ Covers(others[p], t)
      <3>1. segs[i] \in free
        BY <1>2, <1>8, <2>2, Zenon DEF TerminalWins
      <3>2. PICK p \in 1 .. Len(others) : at[p] = i
        BY <1>4, <3>1
      <3>3. others[p] = segs[i]
        BY <1>4, <3>2
      <3>4. LinkedRepo(others[p].win) = repo
        BY <2>2, <3>3, Zenon DEF LinkedWins
      <3> QED
        BY <1>5, <2>2, <3>3, <3>4
    <2> QED
      BY <1>7, <2>1, <2>2, Zenon DEF WindowIn
  <1>10. \A t : t \in whole <=> t \in Int /\ Covered(kept, t)
    BY <1>9, Zenon
  <1>11. ASSUME NEW k \in 1 .. Len(kept)
         PROVE  kept[k].start \in Int /\ kept[k].end \in Int /\ kept[k].start <= kept[k].end
    <2>1. kept[k] \in Segment
      BY <1>6
    <2>2. PICK a \in Int, b \in Int : a = kept[k].start /\ b = kept[k].end
      BY <2>1 DEF Segment
    <2>3. a < b
      BY <1>6, <2>2 DEF Ordered
    <2> QED
      BY <2>2, <2>3
  <1>12. IsFiniteSet(whole) /\ Total(Lengths(kept)) = Cardinality(whole)
    BY <1>6, <1>10, <1>11, LengthsCount, Zenon
  <1> QED
    BY <1>1, <1>12

\* The seconds of terminal focus on such windows of which the spans say nothing.
UntoldIn(segs, spans, repo) ==
    {t \in Int : WindowIn(segs, LinkedWins(repo) \cap TerminalWins, t) /\ ~Explains(spans, t)}

(* The terminal focus of which Herdr says nothing, on windows that are      *)
(* linked to a repository.                                                  *)
LEMMA UnexplainedFocus ==
    ASSUME NEW segs \in Seq(Segment), NEW to, Ordered(segs, 0, to), NEW repo,
           NEW attn, NEW snaps, AttentionOf(attn, snaps, Terminals(segs), to),
           NEW whole, whole = UntoldIn(segs, attn.spans, repo)
    PROVE  /\ IsFiniteSet(whole)
           /\ Total(Unexplained(Linked(attn.terms, repo))) = Cardinality(whole)
  <1> DEFINE free == {s \in Range(segs) : IsTerminal(s.win)}
             terms == Only(segs, free)
             list == attn.terms
             wanted == {s \in Range(list) : LinkedRepo(s.win) = repo}
             kept == Only(list, wanted)
  <1>1. Linked(attn.terms, repo) = kept /\ Terminals(segs) = terms
    BY DEF Linked, Terminals
  <1>2. \A i \in 1 .. Len(segs) : segs[i] \in free <=> IsTerminal(segs[i].win)
    BY DEF Range
  <1> HIDE DEF free
  <1>3. terms \in Seq(Segment) /\ Ordered(terms, 0, to)
    BY OnlyOrdered
  <1>4. PICK at \in [1 .. Len(terms) -> 1 .. Len(segs)] :
            /\ \A p \in 1 .. Len(terms) : terms[p] = segs[at[p]] /\ terms[p] \in free
            /\ \A i \in 1 .. Len(segs) : segs[i] \in free => \E p \in 1 .. Len(terms) : at[p] = i
    BY OnlyKeeps
  <1> HIDE DEF terms
  <1>5. /\ list \in Seq(Term) /\ Len(list) = Len(terms)
        /\ \A k \in 1 .. Len(terms) : /\ list[k].start = terms[k].start /\ list[k].end = terms[k].end
                                      /\ list[k].win = terms[k].win
                                      /\ list[k].covered
                                           = Cardinality(Explained(attn.spans, Len(attn.spans), list[k]))
    BY <1>1 DEF AttentionOf, SameTerms
  <1> HIDE DEF list
  <1>6. Ordered(list, 0, to)
    BY <1>3, <1>5, Zenon DEF Ordered
  <1>7. \A p \in 1 .. Len(list) : list[p] \in wanted <=> LinkedRepo(list[p].win) = repo
    BY <1>5 DEF Range
  <1> HIDE DEF wanted
  <1>8. kept \in Seq(Term) /\ Ordered(kept, 0, to) /\ Apart(kept)
    BY <1>5, <1>6, OnlyOrdered
  <1>9. /\ \A k \in 1 .. Len(kept) : \E i \in 1 .. Len(list) : kept[k] = list[i]
        /\ \A t : Covered(kept, t) <=> \E p \in 1 .. Len(list) : list[p] \in wanted /\ Covers(list[p], t)
    BY <1>5, OnlyCovers
  <1> HIDE DEF kept
  <1>10. \A i \in 1 .. Len(segs) : segs[i].win \in Window
    BY SegmentsAt
  <1>11. \A p \in 1 .. Len(terms) : \A t : Covers(list[p], t) <=> Covers(terms[p], t)
    BY <1>5 DEF Covers
  <1>12. ASSUME NEW t
         PROVE  Covered(kept, t) <=> WindowIn(segs, LinkedWins(repo) \cap TerminalWins, t)
    <2>1. ASSUME NEW p \in 1 .. Len(list), list[p] \in wanted, Covers(list[p], t)
          PROVE  WindowIn(segs, LinkedWins(repo) \cap TerminalWins, t)
      <3>1. p \in 1 .. Len(terms)
        BY <1>5
      <3>2. at[p] \in 1 .. Len(segs) /\ terms[p] = segs[at[p]] /\ terms[p] \in free
        BY <1>4, <3>1
      <3>3. list[p].win = segs[at[p]].win /\ Covers(segs[at[p]], t)
        BY <1>5, <1>11, <2>1, <3>1, <3>2, Zenon
      <3>4. segs[at[p]].win \in LinkedWins(repo) \cap TerminalWins
        BY <1>2, <1>7, <1>10, <2>1, <3>2, <3>3, Zenon DEF LinkedWins, TerminalWins
      <3> QED
        BY <3>2, <3>3, <3>4 DEF WindowIn
    <2>2. ASSUME NEW i \in 1 .. Len(segs), segs[i].win \in LinkedWins(repo) \cap TerminalWins,
                 Covers(segs[i], t)
          PROVE  \E p \in 1 .. Len(list) : list[p] \in wanted /\ Covers(list[p], t)
      <3>1. segs[i] \in free
        BY <1>2, <2>2, Zenon DEF TerminalWins
      <3>2. PICK p \in 1 .. Len(terms) : at[p] = i
        BY <1>4, <3>1
      <3>3. terms[p] = segs[i]
        BY <1>4, <3>2
      <3>4. list[p].win = segs[i].win /\ Covers(list[p], t) /\ p \in 1 .. Len(list)
        BY <1>5, <1>11, <2>2, <3>2, <3>3, Zenon
      <3>5. LinkedRepo(list[p].win) = repo
        BY <2>2, <3>4, Zenon DEF LinkedWins
      <3> QED
        BY <1>7, <3>4, <3>5
    <2> QED
      BY <1>9, <2>1, <2>2, Zenon DEF WindowIn
  <1>13. ASSUME NEW k \in 1 .. Len(kept)
         PROVE  /\ kept[k].covered = Cardinality(Explained(attn.spans, Len(attn.spans), kept[k]))
                /\ kept[k].start <= kept[k].end
    <2>1. PICK i \in 1 .. Len(list) : kept[k] = list[i]
      BY <1>9
    <2>2. list[i] \in Term /\ i \in 1 .. Len(terms)
      BY <1>5
    <2>3. PICK a \in Int, b \in Int : a = list[i].start /\ b = list[i].end
      BY <2>2, Zenon DEF Term
    <2>4. a < b
      BY <1>6, <2>3 DEF Ordered
    <2> QED
      BY <1>5, <2>1, <2>2, <2>3, <2>4
  <1>14. whole = {t \in Int : Covered(kept, t) /\ ~Explains(attn.spans, t)}
    BY <1>12, Zenon DEF UntoldIn
  <1>15. IsFiniteSet(whole) /\ Total(Unexplained(kept)) = Cardinality(whole)
    BY <1>8, <1>13, <1>14, UnexplainedCounts, Zenon
  <1> QED
    BY <1>1, <1>15

(* The rows RunOf names are those of the run.                               *)
LEMMA RunOfIs ==
    ASSUME NEW rows \in Seq(Row), NEW n \in Nat, n = Len(rows), NEW runs, NEW head,
           RunsTo(runs, head, rows, n), NEW p \in 1 .. Len(runs), NEW m \in 1 .. n,
           head[p] <= m, m < head[p + 1], NEW t, Max(Before(rows, t)) = m
    PROVE  RunOf(rows, t) = head[p] .. head[p + 1] - 1
  <1> DEFINE len == Len(runs)
             Near(i) == IF i <= m THEN i .. m ELSE m .. i
             all == {i \in 1 .. n : \A j \in Near(i) : SameWindow(rows[j].win, rows[m].win)}
  <1>1. /\ len \in Nat /\ head \in [1 .. len + 1 -> 1 .. n + 1] /\ head[1] = 1 /\ head[len + 1] = n + 1
        /\ \A q \in 1 .. len : /\ head[q] < head[q + 1]
                               /\ \A j \in head[q] .. head[q + 1] - 1 : SameWindow(rows[j].win, runs[q].win)
        /\ \A q \in 1 .. len : q < len => ~SameWindow(rows[head[q + 1]].win, runs[q].win)
    BY DEF RunsTo, RunIs
  <1>2. RunOf(rows, t) = all
    <2>1. DOMAIN rows = 1 .. n
      OBVIOUS
    <2>2. \A i \in 1 .. n : Min({i, m}) .. Max({i, m}) = Near(i)
      BY MinOfTwo, MaxOfTwo
    <2> HIDE DEF Near
    <2> QED
      BY <2>1, <2>2, Zenon DEF RunOf
  <1> HIDE DEF len
  <1>3. PICK h \in 1 .. n + 1, e \in 1 .. n + 1 : h = head[p] /\ e = head[p + 1] /\ h <= m /\ m < e
    BY <1>1 DEF len
  <1>4. \A j \in h .. e - 1 : SameWindow(rows[j].win, rows[m].win)
    BY <1>1, <1>3 DEF SameWindow, len
  <1>5. e \in all => FALSE
    <2> SUFFICES ASSUME e \in all
                 PROVE  FALSE
      OBVIOUS
    <2>1. p < len
      BY <1>1, <1>3 DEF len
    <2>2. SameWindow(rows[e].win, rows[m].win)
      BY <1>3
    <2> QED
      BY <1>1, <1>3, <2>1, <2>2 DEF SameWindow, len
  <1>6. h # 1 => h - 1 \notin all
    <2> SUFFICES ASSUME h # 1, h - 1 \in all
                 PROVE  FALSE
      OBVIOUS
    <2>1. p - 1 \in 1 .. len /\ p - 1 < len /\ (p - 1) + 1 = p /\ p - 1 \in 1 .. len + 1
      BY <1>1, <1>3 DEF len
    <2>2. PICK g \in 1 .. n + 1 : g = head[p - 1]
      BY <1>1, <2>1
    <2>3. g < h /\ h - 1 \in g .. h - 1
      <3>1. head[p - 1] < head[(p - 1) + 1]
        BY <1>1, <2>1
      <3> QED
        BY <1>3, <2>1, <2>2, <3>1
    <2>4. SameWindow(rows[h - 1].win, runs[p - 1].win) /\ ~SameWindow(rows[h].win, runs[p - 1].win)
      BY <1>1, <1>3, <2>1, <2>2, <2>3
    <2>5. SameWindow(rows[h - 1].win, rows[m].win) /\ SameWindow(rows[h].win, rows[m].win)
      BY <1>3
    <2> QED
      BY <2>4, <2>5 DEF SameWindow
  <1>7. ASSUME NEW i \in all
        PROVE  i \in h .. e - 1
    <2>1. i < h => h - 1 \in all /\ h # 1
      BY <1>3
    <2>2. e <= i => e \in all
      BY <1>3
    <2> QED
      BY <1>3, <1>5, <1>6, <2>1, <2>2
  <1>8. ASSUME NEW i \in h .. e - 1
        PROVE  i \in all
    BY <1>3, <1>4
  <1> HIDE DEF all
  <1> QED
    BY <1>2, <1>3, <1>7, <1>8

(* The link of a window in focus is what the rows of the stay tell of it.   *)
LEMMA RepoOfWindow ==
    ASSUME JournalInv, NEW t \in Seconds, NEW w \in WindowsAt(t)
    PROVE  LinkedRepo(w) = RepoToldAt(t)
  <1>1. PICK rows \in Seq(Row), away \in Seq(AwaySlice) : rows = recap.focus /\ away = recap.away
    BY FocusOfJournal
  <1>2. /\ InOrder(rows) /\ Within(rows, 0, Horizon) /\ Timed(rows) /\ Inside(away, Horizon)
    BY <1>1, FocusOfJournal
  <1>3. PICK runs, head : RunsTo(runs, head, rows, Len(rows)) /\ SegmentsAre(recap.segments, runs, away)
    BY <1>1, FocusOfJournal
  <1>4. Horizon \in Nat /\ t \in Int /\ t < Horizon
    BY HorizonIs DEF JournalInv, Seconds
  <1>5. PICK k \in 1 .. Len(recap.segments) : w = recap.segments[k].win /\ Covers(recap.segments[k], t)
    BY <1>3 DEF WindowsAt, Covering, Covers, SegmentsAre
  <1>6. PICK p \in 1 .. Len(runs) : \E l \in 1 .. Len(Pieces(runs, away, p)) :
            recap.segments[k] = Pieces(runs, away, p)[l]
    BY <1>3 DEF SegmentsAre
  <1>7. PICK l \in 1 .. Len(Pieces(runs, away, p)) : recap.segments[k] = Pieces(runs, away, p)[l]
    BY <1>6
  <1>8. Parts(Pieces(runs, away, p), runs[p].win, Held(runs, p, Horizon).start,
              Held(runs, p, Horizon).end)
    BY <1>2, <1>3, <1>4, PiecesOfRun
  <1>9. w = runs[p].win
    BY <1>5, <1>7, <1>8 DEF Parts
  <1>10. PICK held : held = Held(runs, p, Horizon)
    OBVIOUS
  <1>11. /\ held \in Segment
         /\ \A u \in Int, m \in 0 .. Len(rows) : u < Horizon /\ NewestAt(rows, u, m) =>
               (Covers(held, u) <=> head[p] <= m /\ m < head[p + 1])
    BY <1>2, <1>3, <1>4, <1>10, HeldShape
  <1>12. Covers(held, t)
    <2>1. PICK piece : piece = Pieces(runs, away, p)[l] /\ piece \in Segment /\ Covers(piece, t)
      BY <1>5, <1>7, <1>8 DEF Parts
    <2>2. held.start <= piece.start /\ piece.end <= held.end
      BY <1>8, <1>10, <2>1 DEF Parts
    <2> QED
      BY <1>4, <1>11, <2>1, <2>2 DEF Covers, Segment
  <1>13. PICK m \in 0 .. Len(rows) : IsNewest(rows, t, m)
    BY <1>2, <1>4, NewestExists
  <1>14. head[p] <= m /\ m < head[p + 1]
    BY <1>4, <1>11, <1>12, <1>13 DEF IsNewest
  <1>15. m \in 1 .. Len(rows)
    <2>1. Len(runs) \in Nat /\ head \in [1 .. Len(runs) + 1 -> 1 .. Len(rows) + 1]
      BY <1>3 DEF RunsTo
    <2>2. head[p] \in 1 .. Len(rows) + 1
      BY <2>1
    <2> QED
      BY <1>14, <2>2
  <1>16. RunOf(rows, t) = head[p] .. head[p + 1] - 1
    <2>1. Max(Before(rows, t)) = m
      BY <1>13, <1>15 DEF IsNewest
    <2>2. PICK n \in Nat : n = Len(rows) /\ RunsTo(runs, head, rows, n) /\ m \in 1 .. n
      BY <1>3, <1>15
    <2> QED
      BY <1>14, <2>1, <2>2, RunOfIs
  <1>17. \A f \in Field : w[f] = Told(recap.focus, RunOf(recap.focus, t), f)
    <2>1. RunIs(runs[p], rows, head[p], head[p + 1])
      BY <1>3 DEF RunsTo
    <2>2. \A f \in Field : runs[p].win[f] = Told(rows, head[p] .. head[p + 1] - 1, f)
      BY <2>1, Zenon DEF RunIs
    <2> QED
      BY <1>1, <1>9, <1>16, <2>2, Zenon
  <1>18. /\ w.cwd = Told(recap.focus, RunOf(recap.focus, t), "cwd")
         /\ w.match = Told(recap.focus, RunOf(recap.focus, t), "match")
    BY <1>17 DEF Field
  <1> QED
    BY <1>18 DEF LinkedRepo, RepoToldAt

\* The seconds that count for a repository.
CountsFor(repo) ==
    {t \in Seconds : \E w \in WindowsAt(t) : IF IsTerminal(w) /\ FocusedRepo(t) # NoRepo
                                              THEN FocusedRepo(t) = repo ELSE LinkedRepo(w) = repo}

\* Those Herdr tells of, those it does not, and those outside terminals.
HerdrOn(repo)  == {t \in Seconds : FocusedRepo(t) = repo /\ OnTerminal(t)}
Untold(repo) == {t \in Seconds : /\ WindowIn(recap.segments, LinkedWins(repo) \cap TerminalWins, t)
                                 /\ FocusedRepo(t) = NoRepo}
Beside(repo) == {t \in Seconds : WindowIn(recap.segments, LinkedWins(repo) \ TerminalWins, t)}

(* A second that counts is of one of the three kinds.                       *)
LEMMA CountsApart ==
    ASSUME Horizon \in Nat, recap.segments \in Seq(Segment), Ordered(recap.segments, 0, Horizon),
           NEW repo, repo # NoRepo
    PROVE  /\ CountsFor(repo) = HerdrOn(repo) \cup (Untold(repo) \cup Beside(repo))
           /\ HerdrOn(repo) \cap (Untold(repo) \cup Beside(repo)) = {}
           /\ Untold(repo) \cap Beside(repo) = {}
  <1> DEFINE segs == recap.segments
  <1>1. \A i \in 1 .. Len(segs) : segs[i].win \in Window /\ segs[i].start \in Int /\ segs[i].end \in Int
    BY SegmentsAt
  <1>2. ASSUME NEW t \in Seconds
        PROVE  /\ OnTerminal(t) <=> WindowIn(segs, TerminalWins, t)
               /\ \A w : w \in WindowsAt(t) <=> WindowIn(segs, {w}, t)
               /\ \A v, w \in WindowsAt(t) : v = w
               /\ \A w \in WindowsAt(t) : w \in Window
    <2>1. t \in Int
      BY DEF Seconds
    <2>2. /\ Covering(segs, t) = {k \in 1 .. Len(segs) : Covers(segs[k], t)}
          /\ \A k, l \in Covering(segs, t) : k = l
      BY <1>1, <2>1, CoversOnce, Zenon
    <2>3. WindowsAt(t) = {segs[i].win : i \in Covering(segs, t)}
      BY Zenon DEF WindowsAt
    <2>4. \A w : w \in WindowsAt(t) <=> \E i \in 1 .. Len(segs) : segs[i].win = w /\ Covers(segs[i], t)
      BY <2>2, <2>3, Zenon
    <2>5. \A v, w \in WindowsAt(t) : v = w
      BY <2>2, <2>3, Zenon
    <2>6. \A w \in WindowsAt(t) : w \in Window
      BY <1>1, <2>4, Zenon
    <2>7. OnTerminal(t) <=> WindowIn(segs, TerminalWins, t)
      BY <2>4, <2>6, Zenon DEF OnTerminal, WindowIn, TerminalWins
    <2>8. \A w : w \in WindowsAt(t) <=> WindowIn(segs, {w}, t)
      BY <2>4, Zenon DEF WindowIn
    <2> QED
      BY <2>5, <2>6, <2>7, <2>8
  <1>3. ASSUME NEW t \in Seconds, NEW wins
        PROVE  WindowIn(segs, wins, t) <=> \E w \in WindowsAt(t) : w \in wins
    <2>1. ASSUME NEW i \in 1 .. Len(segs), segs[i].win \in wins, Covers(segs[i], t)
          PROVE  \E w \in WindowsAt(t) : w \in wins
      <3>1. WindowIn(segs, {segs[i].win}, t)
        BY <2>1 DEF WindowIn
      <3> QED
        BY <1>2, <2>1, <3>1
    <2>2. ASSUME NEW w \in WindowsAt(t), w \in wins
          PROVE  WindowIn(segs, wins, t)
      <3>1. WindowIn(segs, {w}, t)
        BY <1>2
      <3>2. PICK i \in 1 .. Len(segs) : segs[i].win \in {w} /\ Covers(segs[i], t)
        BY <3>1 DEF WindowIn
      <3> QED
        BY <2>2, <3>2 DEF WindowIn
    <2> QED
      BY <2>1, <2>2, Zenon DEF WindowIn
  <1>4. ASSUME NEW t \in Seconds
        PROVE  /\ t \in CountsFor(repo) <=> t \in HerdrOn(repo) \/ t \in Untold(repo) \/ t \in Beside(repo)
               /\ ~(t \in HerdrOn(repo) /\ (t \in Untold(repo) \/ t \in Beside(repo)))
               /\ ~(t \in Untold(repo) /\ t \in Beside(repo))
    <2>1. t \in HerdrOn(repo) <=> FocusedRepo(t) = repo /\ OnTerminal(t)
      BY DEF HerdrOn
    <2>2. t \in Untold(repo) <=> /\ \E w \in WindowsAt(t) : w \in LinkedWins(repo) \cap TerminalWins
                                 /\ FocusedRepo(t) = NoRepo
      BY <1>3 DEF Untold
    <2>3. t \in Beside(repo) <=> \E w \in WindowsAt(t) : w \in LinkedWins(repo) \ TerminalWins
      BY <1>3 DEF Beside
    <2>4. t \in CountsFor(repo) <=>
             \E w \in WindowsAt(t) : IF IsTerminal(w) /\ FocusedRepo(t) # NoRepo
                                     THEN FocusedRepo(t) = repo ELSE LinkedRepo(w) = repo
      BY Zenon DEF CountsFor
    <2>5. OnTerminal(t) <=> \E w \in WindowsAt(t) : IsTerminal(w)
      BY DEF OnTerminal
    <2>6. CASE WindowsAt(t) = {}
      BY <2>1, <2>2, <2>3, <2>4, <2>5, <2>6
    <2>7. CASE WindowsAt(t) # {}
      <3>1. PICK w : w \in WindowsAt(t)
        BY <2>7
      <3>2. \A v \in WindowsAt(t) : v = w
        BY <1>2, <3>1
      <3>3. w \in Window
        BY <1>2, <3>1
      <3>4. (w \in TerminalWins <=> IsTerminal(w)) /\ (w \in LinkedWins(repo) <=> LinkedRepo(w) = repo)
        BY <3>3, Zenon DEF TerminalWins, LinkedWins
      <3>5. t \in HerdrOn(repo) <=> FocusedRepo(t) = repo /\ IsTerminal(w)
        BY <2>1, <2>5, <3>1, <3>2, Zenon
      <3>6. t \in Untold(repo) <=> LinkedRepo(w) = repo /\ IsTerminal(w) /\ FocusedRepo(t) = NoRepo
        BY <2>2, <3>1, <3>2, <3>4, Zenon
      <3>7. t \in Beside(repo) <=> LinkedRepo(w) = repo /\ ~IsTerminal(w)
        BY <2>3, <3>1, <3>2, <3>4, Zenon
      <3>8. t \in CountsFor(repo) <=> IF IsTerminal(w) /\ FocusedRepo(t) # NoRepo
                                      THEN FocusedRepo(t) = repo ELSE LinkedRepo(w) = repo
        BY <2>4, <3>1, <3>2, Zenon
      <3> QED
        BY <3>5, <3>6, <3>7, <3>8, Zenon
    <2> QED
      BY <2>6, <2>7
  <1>5. /\ CountsFor(repo) \subseteq Seconds /\ HerdrOn(repo) \subseteq Seconds
        /\ Untold(repo) \subseteq Seconds /\ Beside(repo) \subseteq Seconds
    BY Zenon DEF CountsFor, HerdrOn, Untold, Beside
  <1>6. CountsFor(repo) = HerdrOn(repo) \cup (Untold(repo) \cup Beside(repo))
    BY <1>4, <1>5, Zenon
  <1> QED
    BY <1>4, <1>5, <1>6, Zenon

(* For every day: the focus of a repository is the seconds that count for   *)
(* it, each once, and without a snapshot of Herdr what all rows of a stay   *)
(* tell together decides that.                                              *)
THEOREM FocusIsCounted == Spec => []FocusCountsForItsRepo
  <1>1. JournalInv => FocusCountsForItsRepo
    <2>0. ASSUME JournalInv, NEW repo \in RepoNames
          PROVE  CountsFor(repo) = {t \in Seconds :
                    \E w \in WindowsAt(t) : IF IsTerminal(w) /\ FocusedRepo(t) # NoRepo
                                             THEN FocusedRepo(t) = repo ELSE RepoToldAt(t) = repo}
      <3>1. \A t \in Seconds : \A w \in WindowsAt(t) : LinkedRepo(w) = RepoToldAt(t)
        BY <2>0, RepoOfWindow
      <3> QED
        BY <3>1, Zenon DEF CountsFor
    <2> SUFFICES ASSUME JournalInv, NEW repo \in RepoNames
                 PROVE  recap.repos.focus[repo] = Cardinality(CountsFor(repo))
      BY <2>0, Zenon DEF FocusCountsForItsRepo
    <2>1. PICK attn : Attributed(attn)
      BY AttributionOfJournal
    <2> DEFINE terms == Terminals(recap.segments)
               told == Total(Seen(On(attn.spans, repo)))
               untold == Total(Unexplained(Linked(attn.terms, repo)))
               beside == Total(Lengths(Linked(Others(recap.segments), repo)))
    <2>2. recap.repos.focus[repo] = told + untold + beside
      BY <2>1 DEF Attributed, AttributeRepos
    <2>3. /\ attn.spans \in Seq(HerdrSpan) /\ Ordered(attn.spans, 0, Horizon)
          /\ KnownSeen(attn.spans, terms) /\ AttentionOf(attn, recap.snaps, terms, Horizon)
      BY <2>1 DEF Attributed, AttentionOf, SpansAre
    <2>4. PICK spans \in Seq(HerdrSpan) : spans = attn.spans
      BY <2>3
    <2>5. PICK segs \in Seq(Segment) : segs = recap.segments /\ Ordered(segs, 0, Horizon)
      BY <2>1 DEF Attributed
    <2>6. repo # NoRepo /\ Horizon \in Nat
      BY RecapAssumption, HorizonIs DEF JournalInv
    <2>7. /\ HerdrOn(repo) = {t \in Int : OnRepo(spans, repo, t) /\ Covered(terms, t)}
          /\ \A t \in Seconds : Explains(spans, t) <=> FocusedRepo(t) # NoRepo
      BY <2>1, <2>4, SpanSeconds DEF HerdrOn
    <2>8. ASSUME NEW t \in Int, NEW wins, WindowIn(segs, wins, t)
          PROVE  t \in Seconds
      <3>1. PICK i \in 1 .. Len(segs) : Covers(segs[i], t)
        BY <2>8 DEF WindowIn
      <3>2. segs[i] \in Segment
        OBVIOUS
      <3>3. PICK a \in Int, b \in Int : a = segs[i].start /\ b = segs[i].end
        BY <3>2 DEF Segment
      <3>4. 0 <= a /\ b <= Horizon /\ a <= t /\ t < b
        BY <2>5, <3>1, <3>3 DEF Ordered, Covers
      <3> QED
        BY <2>6, <3>3, <3>4 DEF Seconds
    <2>9. Seconds \subseteq Int
      BY DEF Seconds
    <2>10. Untold(repo) = {t \in Int : /\ WindowIn(segs, LinkedWins(repo) \cap TerminalWins, t)
                                       /\ ~Explains(spans, t)}
      BY <2>5, <2>7, <2>8, <2>9, Zenon DEF Untold
    <2>11. Beside(repo) = {t \in Int : WindowIn(segs, LinkedWins(repo) \ TerminalWins, t)}
      BY <2>5, <2>8, <2>9, Zenon DEF Beside
    <2> HIDE DEF told, untold, beside, terms
    <2>12. IsFiniteSet(HerdrOn(repo)) /\ told = Cardinality(HerdrOn(repo))
      BY <2>3, <2>4, <2>6, <2>7, SeenOnRepo DEF told
    <2>13. IsFiniteSet(Untold(repo)) /\ untold = Cardinality(Untold(repo))
      <3>1. AttentionOf(attn, recap.snaps, Terminals(segs), Horizon)
        BY <2>3, <2>5 DEF terms
      <3>2. Untold(repo) = UntoldIn(segs, attn.spans, repo)
        BY <2>4, <2>10 DEF UntoldIn
      <3>3. Ordered(segs, 0, Horizon)
        BY <2>5
      <3>4. /\ IsFiniteSet(Untold(repo))
            /\ Total(Unexplained(Linked(attn.terms, repo))) = Cardinality(Untold(repo))
        BY <3>1, <3>2, <3>3, UnexplainedFocus, Zenon
      <3> QED
        BY <3>4 DEF untold
    <2>14. IsFiniteSet(Beside(repo)) /\ beside = Cardinality(Beside(repo))
      BY <2>5, <2>11, OtherFocus, Zenon DEF beside
    <2>15. /\ CountsFor(repo) = HerdrOn(repo) \cup (Untold(repo) \cup Beside(repo))
           /\ HerdrOn(repo) \cap (Untold(repo) \cup Beside(repo)) = {}
           /\ Untold(repo) \cap Beside(repo) = {}
      BY <2>5, <2>6, CountsApart
    <2>16. /\ IsFiniteSet(Untold(repo) \cup Beside(repo))
           /\ Cardinality(Untold(repo) \cup Beside(repo)) = untold + beside
           /\ untold \in Nat /\ beside \in Nat
      BY <2>13, <2>14, <2>15, Apartness, Zenon
    <2>17. Cardinality(CountsFor(repo)) = told + (untold + beside) /\ told \in Nat
      BY <2>12, <2>15, <2>16, Apartness, Zenon
    <2>18. told + (untold + beside) = told + untold + beside
      BY <2>16, <2>17
    <2> QED
      BY <2>2, <2>17, <2>18
  <1> QED
    BY <1>1, JournalKeeps, PTL
-----------------------------------------------------------------------------
(* Totals of what is kept, and of visits *)

(* A number more adds itself to a total.                                    *)
LEMMA TotalAppend ==
    ASSUME NEW a \in Seq(Int), NEW b \in Seq(Int), Len(b) = Len(a) + 1,
           \A k \in 1 .. Len(a) : b[k] = a[k]
    PROVE  Total(a) \in Int /\ Total(b) = Total(a) + b[Len(a) + 1]
  <1> DEFINE n == Len(a)
  <1>1. n \in Nat /\ Len(b) = n + 1 /\ \A k \in 1 .. n : b[k] = a[k]
    OBVIOUS
  <1>2. PICK s : Sums(s, a)
    BY TotalSteps
  <1>3. PICK z : Sums(z, b)
    BY TotalSteps
  <1>4. /\ s[0] = 0 /\ Total(a) = s[n]
        /\ \A k \in 1 .. n : s[k] = s[k - 1] + a[k]
        /\ \A k \in 0 .. n : s[k] \in Int
    BY <1>1, <1>2, Zenon DEF Sums
  <1>5. /\ z[0] = 0 /\ Total(b) = z[n + 1]
        /\ \A k \in 1 .. n + 1 : z[k] = z[k - 1] + b[k]
    BY <1>1, <1>3 DEF Sums
  <1> HIDE DEF n
  <1> DEFINE T == {k \in 0 .. n : z[k] = s[k]}
  <1>6. 0 .. n \subseteq T
    <2>1. 0 \in T
      BY <1>1, <1>4, <1>5
    <2>2. \A k \in 0 .. n - 1 : k \in T => k + 1 \in T
      <3> SUFFICES ASSUME NEW k \in 0 .. n - 1, z[k] = s[k]
                   PROVE  z[k + 1] = s[k + 1] /\ k + 1 \in 0 .. n
        OBVIOUS
      <3>1. k + 1 \in 1 .. n /\ k + 1 \in 1 .. n + 1 /\ (k + 1) - 1 = k /\ k + 1 \in 0 .. n
        BY <1>1
      <3>2. s[k + 1] = s[k] + a[k + 1] /\ z[k + 1] = z[k] + b[k + 1] /\ b[k + 1] = a[k + 1]
        BY <1>1, <1>4, <1>5, <3>1, Zenon
      <3> QED
        BY <3>1, <3>2
    <2> HIDE DEF T
    <2> QED
      BY <1>1, <2>1, <2>2, Totals!UpTo, Zenon
  <1>7. n \in 0 .. n /\ n + 1 \in 1 .. n + 1 /\ (n + 1) - 1 = n
    BY <1>1
  <1>8. z[n] = s[n] /\ z[n + 1] = z[n] + b[n + 1] /\ s[n] \in Int
    BY <1>4, <1>5, <1>6, <1>7, Zenon
  <1> QED
    BY <1>4, <1>5, <1>8 DEF n

(* A total moves with its last number.                                      *)
LEMMA TotalDiffers ==
    ASSUME NEW n \in Nat \ {0}, NEW a \in Seq(Int), NEW b \in Seq(Int), Len(a) = n, Len(b) = n,
           \A k \in 1 .. n : k # n => b[k] = a[k]
    PROVE  Total(a) \in Int /\ Total(b) = Total(a) + (b[n] - a[n])
  <1> DEFINE front == [k \in 1 .. n - 1 |-> a[k]]
  <1>1. n - 1 \in Nat /\ a[n] \in Int /\ b[n] \in Int
    OBVIOUS
  <1>2. front \in Seq(Int) /\ Len(front) = n - 1 /\ \A k \in 1 .. n - 1 : front[k] = a[k]
    <2>1. \A k \in 1 .. n - 1 : a[k] \in Int
      OBVIOUS
    <2> QED
      BY <1>1, <2>1
  <1> HIDE DEF front
  <1>3. \A k \in 1 .. n - 1 : a[k] = front[k] /\ b[k] = front[k]
    BY <1>2
  <1>4. (n - 1) + 1 = n
    OBVIOUS
  <1>5. Total(front) \in Int /\ Total(a) = Total(front) + a[n]
    BY <1>2, <1>3, <1>4, TotalAppend, Zenon
  <1>6. Total(b) = Total(front) + b[n]
    BY <1>2, <1>3, <1>4, TotalAppend
  <1>7. PICK x \in Int, y \in Int, z \in Int : x = Total(front) /\ y = a[n] /\ z = b[n]
    BY <1>1, <1>5
  <1>8. Total(a) = x + y /\ Total(b) = x + z
    BY <1>5, <1>6, <1>7
  <1> QED
    BY <1>7, <1>8

\* The values of the elements of a list, and of those that are wanted.
Values(f, list) == [i \in DOMAIN list |-> f[list[i]]]
Wanted(f, list, wanted) == [i \in DOMAIN list |-> IF list[i] \in wanted THEN f[list[i]] ELSE 0]

(* What is kept of a list has the total of what is wanted of it.            *)
LEMMA TotalOnly ==
    ASSUME NEW S, NEW list \in Seq(S), NEW wanted, NEW f \in [S -> Int]
    PROVE  /\ Wanted(f, list, wanted) \in Seq(Int)
           /\ Total(Values(f, Only(list, wanted))) = Total(Wanted(f, list, wanted))
  <1> DEFINE n == Len(list)
             all == Wanted(f, list, wanted)
             pieces == [i \in DOMAIN list |-> IF list[i] \in wanted THEN <<list[i]>> ELSE <<>>]
  <1>1. n \in Nat /\ DOMAIN list = 1 .. n /\ \A i \in 1 .. n : list[i] \in S /\ f[list[i]] \in Int
    OBVIOUS
  <1>2. /\ all \in Seq(Int) /\ Len(all) = n
        /\ \A i \in 1 .. n : all[i] = IF list[i] \in wanted THEN f[list[i]] ELSE 0
    <2>1. all = [i \in 1 .. n |-> IF list[i] \in wanted THEN f[list[i]] ELSE 0]
      BY <1>1 DEF Wanted
    <2>2. \A i \in 1 .. n : (IF list[i] \in wanted THEN f[list[i]] ELSE 0) \in Int
      BY <1>1
    <2> QED
      BY <1>1, <2>1, <2>2
  <1>3. /\ pieces \in Seq(Seq(S)) /\ Len(pieces) = n
        /\ \A i \in 1 .. n : pieces[i] = IF list[i] \in wanted THEN <<list[i]>> ELSE <<>>
    <2>1. \A i \in 1 .. n : (IF list[i] \in wanted THEN <<list[i]>> ELSE <<>>) \in Seq(S)
      BY <1>1
    <2> QED
      BY <1>1, <2>1
  <1>4. Only(list, wanted) = FlattenSeq(pieces)
    BY DEF Only
  <1> HIDE DEF all, pieces, n
  <1>5. PICK flat \in [0 .. n -> Seq(S)] :
            /\ flat[0] = <<>> /\ FlattenSeq(pieces) = flat[n]
            /\ \A i \in 1 .. n : flat[i] = flat[i - 1] \o pieces[i]
    BY <1>3, FlattenHasSteps
  <1>6. PICK s : Sums(s, all)
    BY <1>2, TotalSteps
  <1>7. /\ s[0] = 0 /\ Total(all) = s[n]
        /\ \A k \in 1 .. n : s[k] = s[k - 1] + all[k]
    BY <1>2, <1>6 DEF Sums
  <1>8. ASSUME NEW g \in Seq(S)
        PROVE  /\ Values(f, g) \in Seq(Int) /\ Len(Values(f, g)) = Len(g)
               /\ \A k \in 1 .. Len(g) : Values(f, g)[k] = f[g[k]]
    <2>1. DOMAIN g = 1 .. Len(g) /\ Len(g) \in Nat /\ \A k \in 1 .. Len(g) : f[g[k]] \in Int
      OBVIOUS
    <2> QED
      BY <2>1 DEF Values
  <1> DEFINE T == {m \in 0 .. n : Total(Values(f, flat[m])) = s[m]}
  <1>9. 0 \in T
    <2>1. Len(<<>>) = 0 /\ <<>> \in Seq(S)
      OBVIOUS
    <2>2. Values(f, <<>>) \in Seq(Int) /\ Len(Values(f, <<>>)) = 0
      BY <1>8, <2>1, Zenon
    <2>3. PICK z : Sums(z, Values(f, <<>>))
      BY <2>2, TotalSteps
    <2>4. Total(Values(f, <<>>)) = 0
      BY <2>2, <2>3 DEF Sums
    <2>5. 0 \in 0 .. n
      BY <1>1
    <2> QED
      BY <1>5, <1>7, <2>4, <2>5
  <1>10. \A m \in 0 .. n - 1 : m \in T => m + 1 \in T
    <2> SUFFICES ASSUME NEW m \in 0 .. n - 1, Total(Values(f, flat[m])) = s[m]
                 PROVE  Total(Values(f, flat[m + 1])) = s[m + 1] /\ m + 1 \in 0 .. n
      OBVIOUS
    <2>1. m + 1 \in 1 .. n /\ (m + 1) - 1 = m /\ m \in 0 .. n /\ m + 1 \in 0 .. n
      BY <1>1
    <2>2. PICK g \in Seq(S) : g = flat[m]
      BY <2>1
    <2>3. flat[m + 1] = g \o pieces[m + 1] /\ s[m + 1] = s[m] + all[m + 1]
      BY <1>5, <1>7, <2>1, <2>2, Zenon
    <2>4. Total(Values(f, g)) = s[m]
      BY <2>2
    <2>5. CASE list[m + 1] \in wanted
      <3>1. PICK x \in S : x = list[m + 1] /\ f[x] \in Int
        BY <1>1, <2>1
      <3>2. pieces[m + 1] = <<x>> /\ all[m + 1] = f[x]
        BY <1>2, <1>3, <2>1, <2>5, <3>1, Zenon
      <3>3. PICK h \in Seq(S) : /\ h = flat[m + 1] /\ Len(h) = Len(g) + 1 /\ h[Len(g) + 1] = x
                                /\ \A k \in 1 .. Len(g) : h[k] = g[k]
        <4>1. g \o <<x>> = Append(g, x)
          OBVIOUS
        <4>2. flat[m + 1] = Append(g, x)
          BY <2>3, <3>2, <4>1
        <4>3. /\ Append(g, x) \in Seq(S) /\ Len(Append(g, x)) = Len(g) + 1
              /\ Append(g, x)[Len(g) + 1] = x
              /\ \A k \in 1 .. Len(g) : Append(g, x)[k] = g[k]
          BY AppendAt
        <4> QED
          BY <4>2, <4>3, Zenon
      <3>4. \A k \in 1 .. Len(g) : k \in 1 .. Len(h)
        BY <3>3
      <3>5. Len(g) + 1 \in 1 .. Len(h)
        BY <3>3
      <3>6. ASSUME NEW k \in 1 .. Len(g)
            PROVE  Values(f, h)[k] = Values(f, g)[k]
        <4>1. Values(f, h)[k] = f[h[k]] /\ Values(f, g)[k] = f[g[k]]
          BY <1>8, <3>4
        <4>2. h[k] = g[k]
          BY <3>3
        <4> QED
          BY <4>1, <4>2, Zenon
      <3>7. Values(f, h)[Len(g) + 1] = f[x]
        BY <1>8, <3>3, <3>5, Zenon
      <3>8. /\ Values(f, g) \in Seq(Int) /\ Len(Values(f, g)) = Len(g)
            /\ Values(f, h) \in Seq(Int) /\ Len(Values(f, h)) = Len(g) + 1
        BY <1>8, <3>3, Zenon
      <3>9. Total(Values(f, h)) = Total(Values(f, g)) + f[x]
        BY <3>6, <3>7, <3>8, TotalAppend, Zenon
      <3> QED
        BY <2>1, <2>3, <2>4, <3>2, <3>3, <3>9, Zenon
    <2>6. CASE list[m + 1] \notin wanted
      <3>1. pieces[m + 1] = <<>> /\ all[m + 1] = 0
        BY <1>2, <1>3, <2>1, <2>6, Zenon
      <3>2. g \o <<>> = g
        OBVIOUS
      <3>3. s[m] \in Int
        BY <1>2, <1>6, <2>1, Zenon DEF Sums
      <3> QED
        BY <2>1, <2>3, <2>4, <3>1, <3>2, <3>3
    <2> QED
      BY <2>5, <2>6
  <1>11. n \in T
    <2> HIDE DEF T
    <2>1. n \in Nat
      BY <1>1
    <2>2. 0 .. n \subseteq T
      BY <1>9, <1>10, <2>1, Totals!UpTo, Zenon
    <2> QED
      BY <2>1, <2>2
  <1>12. Total(Values(f, flat[n])) = Total(all)
    BY <1>7, <1>11
  <1> QED
    BY <1>2, <1>4, <1>5, <1>12 DEF all

\* The time of the keys in visits, and in segments.
KeyTime(visits, keys) == [i \in DOMAIN visits |-> IF visits[i].key \in keys THEN visits[i].duration ELSE 0]
KeySpan(s, keys) == IF AttentionKey(s.win) \in keys THEN s.end - s.start ELSE 0
KeySpans(list, keys) == [i \in DOMAIN list |-> KeySpan(list[i], keys)]

\* Visits have a duration, and the key of their window.
Named(visits, wins) ==
    \A k \in 1 .. Len(visits) : /\ visits[k].duration > 0 /\ visits[k].win \in wins
                                /\ visits[k].key = AttentionKey(visits[k].win)

(* The times of the keys are a list of numbers.                             *)
LEMMA KeyTimeIs ==
    ASSUME NEW visits \in Seq(AVisit), NEW keys
    PROVE  /\ KeyTime(visits, keys) \in Seq(Int) /\ Len(KeyTime(visits, keys)) = Len(visits)
           /\ \A k \in 1 .. Len(visits) :
                 KeyTime(visits, keys)[k] = IF visits[k].key \in keys THEN visits[k].duration ELSE 0
  <1>1. DOMAIN visits = 1 .. Len(visits) /\ Len(visits) \in Nat
    OBVIOUS
  <1>2. \A k \in 1 .. Len(visits) : visits[k].duration \in Int
    <2>1. \A k \in 1 .. Len(visits) : visits[k] \in AVisit
      OBVIOUS
    <2> QED
      BY <2>1 DEF AVisit
  <1> DEFINE g == [k \in 1 .. Len(visits) |-> IF visits[k].key \in keys THEN visits[k].duration ELSE 0]
  <1>3. KeyTime(visits, keys) = g
    BY <1>1 DEF KeyTime
  <1>4. g \in Seq(Int) /\ Len(g) = Len(visits)
    <2>1. \A k \in 1 .. Len(visits) : (IF visits[k].key \in keys THEN visits[k].duration ELSE 0) \in Int
      BY <1>2
    <2> QED
      BY <1>1, <2>1
  <1> QED
    BY <1>3, <1>4

(* A segment adds its length to the time of its key, in the last visit or   *)
(* in a new one.                                                            *)
LEMMA VisitAdds ==
    ASSUME NEW acc \in Seq(AVisit), NEW wins, Named(acc, wins), NEW keys,
           NEW s \in Segment, s.start < s.end, s.win \in wins
    PROVE  /\ Visit(acc, s) \in Seq(AVisit) /\ Named(Visit(acc, s), wins)
           /\ Total(KeyTime(acc, keys)) \in Int
           /\ Total(KeyTime(Visit(acc, s), keys)) = Total(KeyTime(acc, keys)) + KeySpan(s, keys)
  <1> DEFINE n == Len(acc)
             new == Visit(acc, s)
             old == KeyTime(acc, keys)
             more == KeyTime(new, keys)
             hit == AttentionKey(s.win) \in keys
  <1>1. PICK a \in Int, b \in Int, w \in Window : s = [start |-> a, end |-> b, win |-> w]
    BY Zenon DEF Segment
  <1>2. s.start = a /\ s.end = b /\ s.win = w /\ a < b /\ w \in wins
    BY <1>1
  <1>3. n \in Nat
    OBVIOUS
  <1>4. KeySpan(s, keys) = IF AttentionKey(w) \in keys THEN b - a ELSE 0
    BY <1>2 DEF KeySpan
  <1>5. /\ old \in Seq(Int) /\ Len(old) = n
        /\ \A k \in 1 .. n : old[k] = IF acc[k].key \in keys THEN acc[k].duration ELSE 0
    BY KeyTimeIs
  <1>6. CASE acc # <<>> /\ Last(acc).key = AttentionKey(w)
    <2> DEFINE last == Longer(acc[n], s)
    <2>1. n \in 1 .. n /\ Last(acc) = acc[n] /\ n \in Nat \ {0}
      BY <1>3, <1>6 DEF Last
    <2>2. acc[n] \in AVisit
      BY <2>1
    <2>3. PICK d \in Int : d = acc[n].duration /\ d > 0
      BY <2>1, <2>2, Zenon DEF AVisit, Named
    <2>4. /\ last \in AVisit /\ last.duration = d + (b - a) /\ last.key = AttentionKey(w)
      <3>1. acc[n].key = AttentionKey(w)
        BY <1>6, <2>1
      <3>2. last \in AVisit /\ last.duration = acc[n].duration + (s.end - s.start) /\ last.key = acc[n].key
        BY <2>2, LongerIs
      <3> QED
        BY <1>2, <2>3, <3>1, <3>2, Zenon
    <2>5. last.win = acc[n].win
      BY <2>2 DEF Longer, AVisit
    <2>6. new = [acc EXCEPT ![n] = last]
      <3>1. acc # <<>> /\ Last(acc).key = AttentionKey(s.win)
        BY <1>2, <1>6
      <3> QED
        BY <2>1, <3>1 DEF Visit
    <2> HIDE DEF last, new, n
    <2>7. /\ new \in Seq(AVisit) /\ Len(new) = n /\ new[n] = last
          /\ \A k \in 1 .. n : k # n => new[k] = acc[k]
      BY <2>1, <2>4, <2>6 DEF n
    <2>8. Named(new, wins)
      <3> SUFFICES ASSUME NEW k \in 1 .. n
                   PROVE  /\ new[k].duration > 0 /\ new[k].win \in wins
                          /\ new[k].key = AttentionKey(new[k].win)
        BY <2>7 DEF Named
      <3>1. /\ acc[k].duration > 0 /\ acc[k].win \in wins /\ acc[k].key = AttentionKey(acc[k].win)
        BY DEF Named, n
      <3>2. CASE k = n
        <4>1. d + (b - a) > 0
          BY <1>2, <2>3
        <4>2. last.win \in wins /\ last.key = AttentionKey(last.win)
          <5>1. acc[n].key = AttentionKey(w)
            BY <1>6, <2>1
          <5> QED
            BY <2>4, <2>5, <3>1, <3>2, <5>1, Zenon
        <4> QED
          BY <2>4, <2>7, <3>2, <4>1, <4>2
      <3>3. CASE k # n
        BY <2>7, <3>1, <3>3
      <3> QED
        BY <3>2, <3>3
    <2>9. /\ more \in Seq(Int) /\ Len(more) = n
          /\ \A k \in 1 .. n : more[k] = IF new[k].key \in keys THEN new[k].duration ELSE 0
      BY <2>7, KeyTimeIs
    <2> HIDE DEF old, more
    <2>10. \A k \in 1 .. n : k # n => more[k] = old[k]
      BY <1>5, <2>7, <2>9, Zenon
    <2>11. Total(old) \in Int /\ Total(more) = Total(old) + (more[n] - old[n])
      BY <1>5, <2>1, <2>9, <2>10, TotalDiffers DEF n
    <2>12. more[n] - old[n] = KeySpan(s, keys)
      <3>1. acc[n].key = AttentionKey(w) /\ new[n].key = AttentionKey(w)
        BY <1>6, <2>1, <2>4, <2>7
      <3>2. new[n].duration = d + (b - a)
        BY <2>4, <2>7
      <3>3. CASE AttentionKey(w) \in keys
        <4>1. more[n] = d + (b - a) /\ old[n] = d
          BY <1>5, <2>1, <2>3, <2>9, <3>1, <3>2, <3>3, Zenon
        <4> QED
          BY <1>4, <3>3, <4>1
      <3>4. CASE AttentionKey(w) \notin keys
        <4>1. more[n] = 0 /\ old[n] = 0
          BY <1>5, <2>1, <2>9, <3>1, <3>4
        <4> QED
          BY <1>4, <3>4, <4>1
      <3> QED
        BY <3>3, <3>4
    <2> QED
      BY <2>7, <2>8, <2>11, <2>12 DEF new, old, more
  <1>7. CASE ~(acc # <<>> /\ Last(acc).key = AttentionKey(w))
    <2> DEFINE v == [start |-> a, end |-> b, duration |-> b - a, key |-> AttentionKey(w), win |-> w]
    <2>1. v \in AVisit /\ v.duration = b - a /\ v.key = AttentionKey(w) /\ v.win = w
      <3>1. b - a \in Int /\ AttentionKey(w) \in {AttentionKey(x) : x \in Window}
        OBVIOUS
      <3> QED
        BY <3>1 DEF AVisit
    <2>2. new = Append(acc, v)
      BY <1>2, <1>7 DEF Visit
    <2> HIDE DEF v
    <2>3. /\ new \in Seq(AVisit) /\ Len(new) = n + 1 /\ new[n + 1] = v
          /\ \A k \in 1 .. n : new[k] = acc[k]
      BY <2>1, <2>2, AppendAt
    <2> HIDE DEF new, n
    <2>4. Named(new, wins)
      <3> SUFFICES ASSUME NEW k \in 1 .. n + 1
                   PROVE  /\ new[k].duration > 0 /\ new[k].win \in wins
                          /\ new[k].key = AttentionKey(new[k].win)
        BY <2>3 DEF Named
      <3>1. CASE k = n + 1
        BY <1>2, <2>1, <2>3, <3>1
      <3>2. CASE k \in 1 .. n
        BY <2>3, <3>2 DEF Named, n
      <3> QED
        BY <1>3, <3>1, <3>2
    <2>5. /\ more \in Seq(Int) /\ Len(more) = n + 1
          /\ \A k \in 1 .. n + 1 : more[k] = IF new[k].key \in keys THEN new[k].duration ELSE 0
      BY <2>3, KeyTimeIs
    <2> HIDE DEF old, more
    <2>6. ASSUME NEW k \in 1 .. n
          PROVE  more[k] = old[k]
      <3>1. k \in 1 .. n + 1
        BY <1>3
      <3> QED
        BY <1>5, <2>3, <2>5, <3>1, Zenon
    <2>7. Total(old) \in Int /\ Total(more) = Total(old) + more[n + 1]
      BY <1>3, <1>5, <2>5, <2>6, TotalAppend, Zenon
    <2>8. more[n + 1] = KeySpan(s, keys)
      <3>1. n + 1 \in 1 .. n + 1
        BY <1>3
      <3> QED
        BY <1>4, <2>1, <2>3, <2>5, <3>1, Zenon
    <2> QED
      BY <2>3, <2>4, <2>7, <2>8 DEF new, old, more
  <1> QED
    BY <1>6, <1>7

(* Folding segments into visits keeps the time of every set of keys.        *)
LEMMA VisitsCount ==
    ASSUME NEW fine \in Seq(Segment), NEW wins, NEW keys,
           \A k \in 1 .. Len(fine) : fine[k].start < fine[k].end /\ fine[k].win \in wins
    PROVE  LET visits == AttentionSegments(fine)
           IN  /\ visits \in Seq(AVisit) /\ Named(visits, wins)
               /\ Total(KeyTime(visits, keys)) = Total(KeySpans(fine, keys))
  <1> DEFINE n == Len(fine)
             all == KeySpans(fine, keys)
  <1>1. n \in Nat /\ DOMAIN fine = 1 .. n
    OBVIOUS
  <1>2. PICK acc : /\ acc[0] = <<>> /\ AttentionSegments(fine) = acc[n]
                   /\ \A k \in 1 .. n : acc[k] = Visit(acc[k - 1], fine[k])
    BY VisitSteps DEF Visiting!Steps
  <1>4. \A k \in 1 .. n : fine[k] \in Segment /\ fine[k].start < fine[k].end /\ fine[k].win \in wins
    OBVIOUS
  <1>5. /\ all \in Seq(Int) /\ Len(all) = n
        /\ \A k \in 1 .. n : all[k] = KeySpan(fine[k], keys)
    <2>1. ASSUME NEW k \in 1 .. n
          PROVE  KeySpan(fine[k], keys) \in Int
      <3>1. PICK a \in Int, b \in Int : a = fine[k].start /\ b = fine[k].end
        BY <1>4 DEF Segment
      <3> QED
        BY <3>1 DEF KeySpan
    <2>2. all = [k \in 1 .. n |-> KeySpan(fine[k], keys)]
      BY <1>1 DEF KeySpans
    <2> QED
      BY <1>1, <2>1, <2>2
  <1> HIDE DEF all
  <1>6. PICK s : Sums(s, all)
    BY <1>5, TotalSteps
  <1>7. /\ s[0] = 0 /\ Total(all) = s[n]
        /\ \A k \in 1 .. n : s[k] = s[k - 1] + all[k]
    BY <1>5, <1>6 DEF Sums
  <1> HIDE DEF n
  <1> DEFINE T == {m \in 0 .. n : /\ acc[m] \in Seq(AVisit) /\ Named(acc[m], wins)
                                  /\ Total(KeyTime(acc[m], keys)) = s[m]}
  <1>8. 0 \in T
    <2>1. <<>> \in Seq(AVisit) /\ Len(<<>>) = 0
      OBVIOUS
    <2>2. KeyTime(<<>>, keys) \in Seq(Int) /\ Len(KeyTime(<<>>, keys)) = 0
      BY <2>1, KeyTimeIs, Zenon
    <2>3. PICK z : Sums(z, KeyTime(<<>>, keys))
      BY <2>2, TotalSteps
    <2>4. Total(KeyTime(<<>>, keys)) = 0
      BY <2>2, <2>3 DEF Sums
    <2>5. Named(<<>>, wins)
      BY <2>1 DEF Named
    <2>6. 0 \in 0 .. n
      BY <1>1
    <2> QED
      BY <1>2, <1>7, <2>1, <2>4, <2>5, <2>6, Zenon
  <1>9. \A m \in 0 .. n - 1 : m \in T => m + 1 \in T
    <2> SUFFICES ASSUME NEW m \in 0 .. n - 1, acc[m] \in Seq(AVisit), Named(acc[m], wins),
                        Total(KeyTime(acc[m], keys)) = s[m]
                 PROVE  /\ m + 1 \in 0 .. n
                        /\ acc[m + 1] \in Seq(AVisit) /\ Named(acc[m + 1], wins)
                        /\ Total(KeyTime(acc[m + 1], keys)) = s[m + 1]
      OBVIOUS
    <2>1. m + 1 \in 1 .. n /\ (m + 1) - 1 = m /\ m + 1 \in 0 .. n
      BY <1>1
    <2>2. PICK x \in Segment : x = fine[m + 1] /\ x.start < x.end /\ x.win \in wins
      BY <1>4, <2>1
    <2>3. PICK g \in Seq(AVisit) : g = acc[m]
      OBVIOUS
    <2>4. acc[m + 1] = Visit(g, x) /\ s[m + 1] = s[m] + KeySpan(x, keys)
      BY <1>2, <1>5, <1>7, <2>1, <2>2, <2>3
    <2>5. /\ Visit(g, x) \in Seq(AVisit) /\ Named(Visit(g, x), wins)
          /\ Total(KeyTime(Visit(g, x), keys)) = Total(KeyTime(g, keys)) + KeySpan(x, keys)
      BY <2>2, <2>3, VisitAdds
    <2> QED
      BY <2>1, <2>3, <2>4, <2>5
  <1>10. n \in T
    <2> HIDE DEF T
    <2>1. n \in Nat
      BY <1>1
    <2>2. 0 .. n \subseteq T
      BY <1>8, <1>9, <2>1, Visiting!UpTo, Zenon
    <2> QED
      BY <2>1, <2>2
  <1> QED
    BY <1>2, <1>7, <1>10 DEF all

(* The time of the visits that are wanted.                                  *)
LEMMA DurationsOnly ==
    ASSUME NEW visits \in Seq(AVisit), NEW wanted, NEW numbers,
           numbers = [i \in 1 .. Len(visits) |-> IF visits[i] \in wanted THEN visits[i].duration ELSE 0]
    PROVE  Total(Durations(Only(visits, wanted))) = Total(numbers)
  <1> DEFINE f == [v \in AVisit |-> v.duration]
             kept == Only(visits, wanted)
  <1>1. f \in [AVisit -> Int]
    BY DEF AVisit
  <1>2. kept \in Seq(AVisit)
    BY OnlyKeeps
  <1>3. Values(f, kept) = Durations(kept)
    <2> HIDE DEF kept
    <2>1. \A i \in DOMAIN kept : kept[i] \in AVisit
      BY <1>2
    <2>2. \A i \in DOMAIN kept : f[kept[i]] = kept[i].duration
      BY <2>1
    <2> HIDE DEF f
    <2> QED
      BY <2>2 DEF Values, Durations
  <1>4. Wanted(f, visits, wanted) = numbers
    <2>1. \A i \in 1 .. Len(visits) : f[visits[i]] = visits[i].duration
      OBVIOUS
    <2>2. DOMAIN visits = 1 .. Len(visits)
      OBVIOUS
    <2> HIDE DEF f
    <2> QED
      BY <2>1, <2>2 DEF Wanted
  <1> HIDE DEF f
  <1>5. Total(Values(f, kept)) = Total(Wanted(f, visits, wanted))
    BY <1>1, TotalOnly
  <1> QED
    BY <1>3, <1>4, <1>5

(* The lengths of the segments that are wanted.                             *)
LEMMA LengthsOnly ==
    ASSUME NEW list \in Seq(Segment), NEW wanted, NEW numbers,
           numbers = [i \in 1 .. Len(list) |-> IF list[i] \in wanted THEN list[i].end - list[i].start ELSE 0]
    PROVE  Total(Lengths(Only(list, wanted))) = Total(numbers)
  <1> DEFINE f == [s \in Segment |-> s.end - s.start]
             kept == Only(list, wanted)
  <1>1. f \in [Segment -> Int]
    BY DEF Segment
  <1>2. kept \in Seq(Segment)
    BY OnlyKeeps
  <1>3. Values(f, kept) = Lengths(kept)
    <2> HIDE DEF kept
    <2>1. \A i \in DOMAIN kept : kept[i] \in Segment
      BY <1>2
    <2>2. \A i \in DOMAIN kept : f[kept[i]] = kept[i].end - kept[i].start
      BY <2>1
    <2> HIDE DEF f
    <2> QED
      BY <2>2 DEF Values, Lengths
  <1>4. Wanted(f, list, wanted) = numbers
    <2>1. \A i \in 1 .. Len(list) : f[list[i]] = list[i].end - list[i].start
      OBVIOUS
    <2>2. DOMAIN list = 1 .. Len(list)
      OBVIOUS
    <2> HIDE DEF f
    <2> QED
      BY <2>1, <2>2 DEF Wanted
  <1> HIDE DEF f
  <1>5. Total(Values(f, kept)) = Total(Wanted(f, list, wanted))
    BY <1>1, TotalOnly
  <1> QED
    BY <1>3, <1>4, <1>5

\* The visits and the segments of one key, as TotalsAddUp has them.
VisitsTo(visits, key) == Only(visits, {v \in Range(visits) : v.key = key})
SegmentsTo(fine, key) == Only(fine, {s \in Range(fine) : AttentionKey(s.win) = key})

(* Of windows with one attention key, all are terminals or none is.         *)
LEMMA Alike ==
    ASSUME NEW v \in Window, NEW w \in Window, AttentionKey(v) = AttentionKey(w)
    PROVE  IsTerminal(v) <=> IsTerminal(w)
  <1>1. AttentionKey(v)[1] = v.app /\ AttentionKey(w)[1] = w.app
    BY DEF AttentionKey
  <1> QED
    BY <1>1 DEF IsTerminal

(* The visits of a key take the time of its segments, whatever was cut out  *)
(* between these.                                                           *)
LEMMA KeyAddsUp ==
    ASSUME NEW fine \in Seq(Segment), NEW visits, visits = AttentionSegments(fine), NEW key,
           \A k \in 1 .. Len(fine) : fine[k].start < fine[k].end
    PROVE  Total(Durations(VisitsTo(visits, key))) = Total(Lengths(SegmentsTo(fine, key)))
  <1> DEFINE mine == {v \in Range(visits) : v.key = key}
             same == {s \in Range(fine) : AttentionKey(s.win) = key}
  <1>1. \A k \in 1 .. Len(fine) : fine[k].start < fine[k].end /\ fine[k].win \in Window
    BY SegmentsAt
  <1>2. visits \in Seq(AVisit) /\ Total(KeyTime(visits, {key})) = Total(KeySpans(fine, {key}))
    BY <1>1, VisitsCount, Zenon
  <1>3. /\ KeyTime(visits, {key})
              = [i \in 1 .. Len(visits) |-> IF visits[i] \in mine THEN visits[i].duration ELSE 0]
    <2>1. DOMAIN visits = 1 .. Len(visits)
      BY <1>2
    <2>2. \A i \in 1 .. Len(visits) : visits[i] \in mine <=> visits[i].key \in {key}
      BY <2>1 DEF Range
    <2> HIDE DEF mine
    <2> QED
      BY <2>1, <2>2 DEF KeyTime
  <1>4. KeySpans(fine, {key})
           = [i \in 1 .. Len(fine) |-> IF fine[i] \in same THEN fine[i].end - fine[i].start ELSE 0]
    <2>1. DOMAIN fine = 1 .. Len(fine)
      OBVIOUS
    <2>2. \A i \in 1 .. Len(fine) : fine[i] \in same <=> AttentionKey(fine[i].win) \in {key}
      BY <2>1 DEF Range
    <2> HIDE DEF same
    <2> QED
      BY <2>1, <2>2 DEF KeySpans, KeySpan
  <1> HIDE DEF mine, same
  <1>5. Total(Durations(Only(visits, mine))) = Total(KeyTime(visits, {key}))
    BY <1>2, <1>3, DurationsOnly
  <1>6. Total(Lengths(Only(fine, same))) = Total(KeySpans(fine, {key}))
    BY <1>4, LengthsOnly
  <1>7. Total(Durations(Only(visits, mine))) = Total(Lengths(Only(fine, same)))
    BY <1>2, <1>5, <1>6
  <1> QED
    BY <1>7 DEF mine, same, VisitsTo, SegmentsTo

(* The time of the terminal stays is the terminal focus.                    *)
LEMMA StaysAddUp ==
    ASSUME NEW fine \in Seq(Segment), NEW visits, visits = AttentionSegments(fine),
           \A k \in 1 .. Len(fine) : fine[k].start < fine[k].end
    PROVE  TerminalStays(Only(visits, {v \in Range(visits) : IsTerminal(v.win)})).total
              = Total(Lengths(Terminals(fine)))
  <1> DEFINE mine == {v \in Range(visits) : IsTerminal(v.win)}
             kept == Only(visits, mine)
             long == {v \in Range(kept) : v.duration > 0}
             same == {s \in Range(fine) : IsTerminal(s.win)}
             keys == {AttentionKey(w) : w \in {x \in Window : IsTerminal(x)}}
  <1>0. \A k \in 1 .. Len(fine) : fine[k].start < fine[k].end /\ fine[k].win \in Window
    BY SegmentsAt
  <1>1. /\ visits \in Seq(AVisit) /\ Named(visits, Window)
        /\ Total(KeyTime(visits, keys)) = Total(KeySpans(fine, keys))
    BY <1>0, VisitsCount
  <1>2. \A w \in Window : AttentionKey(w) \in keys <=> IsTerminal(w)
    BY Alike, Zenon
  <1> HIDE DEF keys
  <1>3. KeyTime(visits, keys)
           = [i \in 1 .. Len(visits) |-> IF visits[i] \in mine THEN visits[i].duration ELSE 0]
    <2>1. DOMAIN visits = 1 .. Len(visits)
      BY <1>1
    <2>2. ASSUME NEW i \in 1 .. Len(visits)
          PROVE  visits[i] \in mine <=> visits[i].key \in keys
      <3>1. visits[i] \in mine <=> IsTerminal(visits[i].win)
        BY <2>1, Zenon DEF Range
      <3>2. visits[i].win \in Window /\ visits[i].key = AttentionKey(visits[i].win)
        BY <1>1 DEF Named
      <3> QED
        BY <1>2, <3>1, <3>2, Zenon
    <2> HIDE DEF mine
    <2> QED
      BY <2>1, <2>2 DEF KeyTime
  <1>4. KeySpans(fine, keys)
           = [i \in 1 .. Len(fine) |-> IF fine[i] \in same THEN fine[i].end - fine[i].start ELSE 0]
    <2>1. DOMAIN fine = 1 .. Len(fine)
      OBVIOUS
    <2>2. ASSUME NEW i \in 1 .. Len(fine)
          PROVE  fine[i] \in same <=> AttentionKey(fine[i].win) \in keys
      <3>1. fine[i] \in same <=> IsTerminal(fine[i].win)
        BY <2>1, Zenon DEF Range
      <3>2. fine[i].win \in Window
        BY <1>0
      <3> QED
        BY <1>2, <3>1, <3>2, Zenon
    <2> HIDE DEF same
    <2> QED
      BY <2>1, <2>2 DEF KeySpans, KeySpan
  <1>5. Terminals(fine) = Only(fine, same)
    BY DEF Terminals
  <1> HIDE DEF same
  <1>6. Total(Lengths(Terminals(fine))) = Total(KeySpans(fine, keys))
    BY <1>4, <1>5, LengthsOnly
  <1> HIDE DEF mine
  <1>7. Total(Durations(kept)) = Total(KeyTime(visits, keys))
    BY <1>1, <1>3, DurationsOnly
  <1>8. kept \in Seq(AVisit) /\ \A p \in 1 .. Len(kept) : kept[p].duration > 0
    <2>1. kept \in Seq(AVisit)
      BY <1>1, OnlyKeeps
    <2>0. visits \in Seq(AVisit)
      BY <1>1
    <2>2. PICK from \in [1 .. Len(kept) -> 1 .. Len(visits)] :
               \A p \in 1 .. Len(kept) : kept[p] = visits[from[p]] /\ kept[p] \in mine
      BY <2>0, OnlyKeeps
    <2> HIDE DEF kept
    <2> QED
      BY <1>1, <2>1, <2>2, Zenon DEF Named
  <1>9. TerminalStays(kept).total = Total(Durations(Only(kept, long)))
    BY DEF TerminalStays
  <1> HIDE DEF kept
  <1>10. Total(Durations(Only(kept, long))) = Total(Durations(kept))
    <2>1. DOMAIN kept = 1 .. Len(kept)
      BY <1>8
    <2>2. \A p \in 1 .. Len(kept) : kept[p] \in long
      BY <1>8, <2>1 DEF Range
    <2> HIDE DEF long
    <2>3. Durations(kept) = [p \in 1 .. Len(kept) |-> IF kept[p] \in long THEN kept[p].duration ELSE 0]
      BY <2>1, <2>2 DEF Durations
    <2> QED
      BY <1>8, <2>3, DurationsOnly
  <1>11. TerminalStays(kept).total = Total(Lengths(Terminals(fine)))
    BY <1>1, <1>6, <1>7, <1>9, <1>10
  <1> QED
    BY <1>11 DEF kept, mine
-----------------------------------------------------------------------------
(* Hours *)

(* A product with a natural number is monotone.                             *)
LEMMA Monotone ==
    ASSUME NEW a \in Int, NEW b \in Int, NEW h \in Nat, a <= b
    PROVE  a * h <= b * h
  OBVIOUS

(* The hour of a second begins before it, and ends after it.                *)
LEMMA DivBounds ==
    ASSUME NEW t \in Int, NEW h \in Nat \ {0}
    PROVE  t \div h \in Int /\ (t \div h) * h <= t /\ t < (t \div h + 1) * h
  OBVIOUS

(* And is the only hour that does.                                          *)
LEMMA DivIs ==
    ASSUME NEW t \in Int, NEW h \in Nat \ {0}, NEW q \in Int
    PROVE  t \div h = q <=> q * h <= t /\ t < (q + 1) * h
  <1>1. PICK p \in Int : p = t \div h /\ p * h <= t /\ t < (p + 1) * h
    BY DivBounds
  <1>2. q + 1 <= p => (q + 1) * h <= p * h
    BY Monotone
  <1>3. p + 1 <= q => (p + 1) * h <= q * h
    BY Monotone
  <1>4. PICK a \in Int, b \in Int, c \in Int, d \in Int :
             a = q * h /\ b = (q + 1) * h /\ c = p * h /\ d = (p + 1) * h
    OBVIOUS
  <1>5. q = p \/ q + 1 <= p \/ p + 1 <= q
    OBVIOUS
  <1>6. q = p => a = c /\ b = d
    BY <1>4
  <1> QED
    BY <1>1, <1>2, <1>3, <1>4, <1>5, <1>6

\* The slices hour_apps adds, with labels out of a set.
ASlice(labels) == [label : labels, hour : Int, length : Int]

\* The seconds of a segment in an hour.
HourOf(seg, hour) == {t \in Int : Covers(seg, t) /\ t \div Hour = hour}

(* A segment is cut into one slice for each hour it meets, as long as it is *)
\* The list has a slice for every hour of the segment, as long as what the hour has of it.
SlicesOf(list, seg, label) ==
    /\ \A k \in 1 .. Len(list) :
          /\ list[k].label = label /\ list[k].hour = seg.start \div Hour + k - 1
          /\ IsFiniteSet(HourOf(seg, list[k].hour))
          /\ Cardinality(HourOf(seg, list[k].hour)) = list[k].length
    /\ \A t \in Int : Covers(seg, t) => \E k \in 1 .. Len(list) : list[k].hour = t \div Hour

(* in that hour.                                                            *)
LEMMA SlicesAre ==
    ASSUME NEW labels, NEW label \in labels, NEW seg, seg.start \in Int, seg.end \in Int,
           seg.start < seg.end, NEW list, list = Slices(seg, label)
    PROVE  list \in Seq(ASlice(labels)) /\ SlicesOf(list, seg, label)
  <1>1. PICK a \in Int, b \in Int : a = seg.start /\ b = seg.end /\ a < b
    OBVIOUS
  <1>2. Hour \in Nat \ {0}
    BY DwellAssumption
  <1>3. PICK p \in Int : p = a \div Hour /\ p * Hour <= a /\ a < (p + 1) * Hour
    BY <1>2, DivBounds
  <1>4. b - 1 \in Int
    OBVIOUS
  <1>5. PICK q \in Int : q = (b - 1) \div Hour /\ q * Hour <= b - 1 /\ b - 1 < (q + 1) * Hour
    BY <1>2, <1>4, DivBounds
  <1>6. p <= q
    <2> SUFFICES ASSUME q + 1 <= p
                 PROVE  FALSE
      OBVIOUS
    <2>1. (q + 1) * Hour <= p * Hour
      BY <1>2, Monotone
    <2>2. PICK x \in Int, y \in Int : x = (q + 1) * Hour /\ y = p * Hour
      BY <1>2
    <2> QED
      BY <1>1, <1>3, <1>5, <2>1, <2>2
  <1> DEFINE n == q - p + 1
             Lo(k) == Max({a, (p + k - 1) * Hour})
             Hi(k) == Min({b, (p + k) * Hour})
             made == [k \in 1 .. n |-> [label |-> label, hour |-> p + k - 1, length |-> Hi(k) - Lo(k)]]
  <1>7. n \in Nat
    BY <1>6
  <1>8. list = made
    <2> DEFINE hours == [k \in 1 .. n |-> p + k - 1]
               H == [k \in 1 .. (b - 1) \div Hour - a \div Hour + 1 |-> a \div Hour + k - 1]
               G == [k \in DOMAIN hours |->
                        [label |-> label, hour |-> hours[k],
                         length |-> Min({b, (hours[k] + 1) * Hour}) - Max({a, hours[k] * Hour})]]
    <2>1. H = hours
      BY <1>3, <1>5
    <2>2. list = [k \in DOMAIN H |->
                        [label |-> label, hour |-> H[k],
                         length |-> Min({b, (H[k] + 1) * Hour}) - Max({a, H[k] * Hour})]]
      BY <1>1, Zenon DEF Slices
    <2>3. list = G
      BY <2>1, <2>2, Zenon
    <2>4. DOMAIN hours = 1 .. n /\ \A k \in 1 .. n : hours[k] = p + k - 1 /\ hours[k] + 1 = p + k
      BY <1>7
    <2> HIDE DEF hours
    <2>5. \A k \in 1 .. n : G[k] = made[k]
      BY <2>4, Zenon
    <2> QED
      BY <2>3, <2>4, <2>5, Zenon
  <1>9. ASSUME NEW k \in 1 .. n
        PROVE  /\ Hi(k) - Lo(k) \in Int
               /\ IsFiniteSet(HourOf(seg, p + k - 1))
               /\ Cardinality(HourOf(seg, p + k - 1)) = Hi(k) - Lo(k)
    <2>1. PICK h \in Int : h = p + k - 1 /\ p <= h /\ h <= q /\ h + 1 = p + k
      BY <1>7
    <2>2. PICK x \in Int, y \in Int : x = h * Hour /\ y = (h + 1) * Hour
      BY <1>2
    <2>3. x <= b - 1
      <3>1. h * Hour <= q * Hour
        BY <1>2, <2>1, Monotone
      <3>2. PICK z \in Int : z = q * Hour
        BY <1>2
      <3> QED
        BY <1>5, <2>2, <3>1, <3>2
    <2>4. a < y
      <3>1. (p + 1) * Hour <= (h + 1) * Hour
        BY <1>2, <2>1, Monotone
      <3>2. PICK z \in Int : z = (p + 1) * Hour
        BY <1>2
      <3> QED
        BY <1>3, <2>2, <3>1, <3>2
    <2>5. x < y
      <3>1. y = x + Hour
        BY <1>2, <2>2
      <3> QED
        BY <1>2, <3>1
    <2>6. PICK lo \in Int : lo = Lo(k) /\ lo = IF a <= x THEN x ELSE a
      <3>1. (p + k - 1) * Hour = x
        BY <2>1, <2>2
      <3> QED
        BY <2>2, <3>1, MaxOfTwo
    <2>7. PICK hi \in Int : hi = Hi(k) /\ hi = IF b <= y THEN b ELSE y
      <3>1. (p + k) * Hour = y
        BY <2>1, <2>2
      <3> QED
        BY <2>2, <3>1, MinOfTwo
    <2>8. lo < hi
      <3>1. a < b /\ x < b
        BY <1>1, <2>3
      <3>2. lo = a \/ lo = x
        BY <2>6
      <3>3. hi = b \/ hi = y
        BY <2>7
      <3> QED
        BY <2>4, <2>5, <3>1, <3>2, <3>3
    <2>9. HourOf(seg, h) = lo .. hi - 1
      <3>1. ASSUME NEW t \in Int
            PROVE  Covers(seg, t) /\ t \div Hour = h <=> lo <= t /\ t <= hi - 1
        <4>1. Covers(seg, t) <=> a <= t /\ t < b
          BY <1>1 DEF Covers
        <4>2. t \div Hour = h <=> x <= t /\ t < y
          BY <1>2, <2>2, DivIs
        <4> QED
          BY <2>6, <2>7, <4>1, <4>2
      <3> QED
        BY <3>1 DEF HourOf
    <2>10. IsFiniteSet(lo .. hi - 1) /\ Cardinality(lo .. hi - 1) = hi - lo
      <3>1. hi - 1 \in Int /\ ~(lo > hi - 1) /\ (hi - 1) - lo + 1 = hi - lo
        BY <2>8
      <3>2. /\ IsFiniteSet(lo .. hi - 1)
            /\ Cardinality(lo .. hi - 1) = IF lo > hi - 1 THEN 0 ELSE (hi - 1) - lo + 1
        BY <3>1, FS_Interval, Zenon
      <3> QED
        BY <3>1, <3>2
    <2> QED
      BY <2>1, <2>6, <2>7, <2>9, <2>10
  <1> HIDE DEF Lo, Hi
  <1>10. /\ made \in Seq(ASlice(labels)) /\ Len(made) = n
         /\ \A k \in 1 .. n : /\ made[k].label = label /\ made[k].hour = p + k - 1
                              /\ made[k].length = Hi(k) - Lo(k)
    <2>1. \A k \in 1 .. n : [label |-> label, hour |-> p + k - 1, length |-> Hi(k) - Lo(k)] \in ASlice(labels)
      BY <1>9 DEF ASlice
    <2> QED
      BY <1>7, <2>1
  <1> HIDE DEF made
  <1>11. ASSUME NEW t \in Int, Covers(seg, t)
         PROVE  \E k \in 1 .. n : made[k].hour = t \div Hour
    <2>1. a <= t /\ t <= b - 1
      BY <1>1, <1>11 DEF Covers
    <2>2. PICK h \in Int : h = t \div Hour /\ h * Hour <= t /\ t < (h + 1) * Hour
      BY <1>2, DivBounds
    <2>3. p <= h
      <3> SUFFICES ASSUME h + 1 <= p
                   PROVE  FALSE
        OBVIOUS
      <3>1. (h + 1) * Hour <= p * Hour
        BY <1>2, Monotone
      <3>2. PICK x \in Int, y \in Int : x = (h + 1) * Hour /\ y = p * Hour
        BY <1>2
      <3> QED
        BY <1>3, <2>1, <2>2, <3>1, <3>2
    <2>4. h <= q
      <3> SUFFICES ASSUME q + 1 <= h
                   PROVE  FALSE
        OBVIOUS
      <3>1. (q + 1) * Hour <= h * Hour
        BY <1>2, Monotone
      <3>2. PICK x \in Int, y \in Int : x = (q + 1) * Hour /\ y = h * Hour
        BY <1>2
      <3> QED
        BY <1>5, <2>1, <2>2, <3>1, <3>2
    <2>5. h - p + 1 \in 1 .. n /\ p + (h - p + 1) - 1 = h
      BY <2>3, <2>4
    <2> QED
      BY <1>10, <2>2, <2>5
  <1>12. p = seg.start \div Hour
    BY <1>1, <1>3
  <1> HIDE DEF n
  <1> QED
    BY <1>8, <1>9, <1>10, <1>11, <1>12 DEF SlicesOf

\* Labelled segments, as hour_apps adds them.
Labels == STRING \cup {"meeting", "tab_open", "away"}
Dated(x) == /\ x.label \in Labels /\ x.seg.start \in Int /\ x.seg.end \in Int
            /\ 0 <= x.seg.start /\ x.seg.start < x.seg.end /\ x.seg.end <= Horizon

\* A list whose elements are dated.
AllDated(all) == \A i \in 1 .. Len(all) : Dated(all[i])

\* The slices of hour_apps, and those of an hour and a label.
HoursOf(all) == FlattenSeq([i \in DOMAIN all |-> Slices(all[i].seg, all[i].label)])
ShownIn(hours, hour, label) == Only(hours, {s \in Range(hours) : s.hour = hour /\ s.label = label})
SliceLengths(shown) == [i \in DOMAIN shown |-> shown[i].length]

\* What the property counts.
SawIn(all, hour, label) ==
    {x \in Seconds \X DOMAIN all : /\ x[1] \div Hour = hour /\ all[x[2]].label = label
                                   /\ all[x[2]].seg.start <= x[1] /\ x[1] < all[x[2]].seg.end}

(* Cutting segments at the hours leaves in each hour what it saw.           *)
LEMMA HoursAddUp ==
    ASSUME NEW S, NEW all \in Seq(S), AllDated(all), Horizon \in Nat, NEW hour, NEW label,
           NEW hours, hours = HoursOf(all), NEW shown, shown = ShownIn(hours, hour, label)
    PROVE  Total(SliceLengths(shown)) = Cardinality(SawIn(all, hour, label))
  <1> DEFINE n == Len(all)
             f == [i \in DOMAIN all |-> Slices(all[i].seg, all[i].label)]
             wanted == {s \in Range(hours) : s.hour = hour /\ s.label = label}
             A == ASlice(Labels)
             long == [x \in A |-> x.length]
             numbers == Wanted(long, hours, wanted)
             saw == SawIn(all, hour, label)
  <1>1. n \in Nat /\ DOMAIN all = 1 .. n
    OBVIOUS
  <1>2. ASSUME NEW i \in 1 .. n
        PROVE  f[i] \in Seq(A) /\ SlicesOf(f[i], all[i].seg, all[i].label)
    <2>1. f[i] = Slices(all[i].seg, all[i].label)
      BY <1>1
    <2>2. Dated(all[i])
      BY DEF AllDated
    <2> HIDE DEF f, A
    <2>0. PICK name \in Labels : name = all[i].label
      BY <2>2 DEF Dated
    <2>3. PICK seg, list : seg = all[i].seg /\ list = f[i]
      OBVIOUS
    <2>4. /\ seg.start \in Int /\ seg.end \in Int /\ seg.start < seg.end
          /\ list = Slices(seg, name)
      BY <2>0, <2>1, <2>2, <2>3 DEF Dated
    <2>5. list \in Seq(ASlice(Labels)) /\ SlicesOf(list, seg, name)
      BY <2>4, SlicesAre
    <2> QED
      BY <2>0, <2>3, <2>5 DEF A
  <1>3. f \in Seq(Seq(A)) /\ Len(f) = n
    <2>1. \A i \in 1 .. n : f[i] \in Seq(A)
      BY <1>2
    <2>2. f = [i \in 1 .. n |-> f[i]]
      BY <1>1
    <2> HIDE DEF f
    <2> QED
      BY <1>1, <2>1, <2>2
  <1> HIDE DEF f
  <1>4. hours \in Seq(A) /\ hours = FlattenSeq(f)
    <2>1. FlattenSeq(f) \in Seq(A)
      BY <1>3, FlattenOrigin
    <2> QED
      BY <2>1 DEF f, HoursOf
  <1>5. PICK piece, place : Origin(f, hours, piece, place)
    BY <1>3, <1>4, FlattenOrigin
  <1>50. Len(f) = n
    BY <1>3
  <1> HIDE DEF n, A
  <1>6. /\ \A p \in 1 .. Len(hours) :
              /\ piece[p] \in 1 .. n /\ place[p] \in 1 .. Len(f[piece[p]])
              /\ hours[p] = f[piece[p]][place[p]]
        /\ \A i \in 1 .. n : \A k \in 1 .. Len(f[i]) :
              \E p \in 1 .. Len(hours) : piece[p] = i /\ place[p] = k
        /\ \A p, q \in 1 .. Len(hours) :
              p < q => piece[p] < piece[q] \/ (piece[p] = piece[q] /\ place[p] < place[q])
    BY <1>5, <1>50 DEF Origin
  <1>7. long \in [A -> Int]
    BY DEF ASlice, A
  <1> HIDE DEF wanted
  <1>8. \A p \in 1 .. Len(hours) : hours[p] \in wanted <=> hours[p].hour = hour /\ hours[p].label = label
    <2>0. DOMAIN hours = 1 .. Len(hours)
      BY <1>4
    <2>1. \A p \in 1 .. Len(hours) : hours[p] \in Range(hours)
      BY <2>0, Zenon DEF Range
    <2> QED
      BY <2>1 DEF wanted
  <1>9. shown \in Seq(A) /\ shown = Only(hours, wanted)
    <2>1. shown = Only(hours, wanted)
      BY DEF wanted, ShownIn
    <2> QED
      BY <1>4, <2>1, OnlyKeeps
  <1>10. SliceLengths(shown) = Values(long, shown)
    <2>1. \A i \in DOMAIN shown : shown[i] \in A
      BY <1>9
    <2>2. \A i \in DOMAIN shown : long[shown[i]] = shown[i].length
      BY <2>1
    <2> HIDE DEF long
    <2> QED
      BY <2>2 DEF Values, SliceLengths
  <1>11. \A p \in 1 .. Len(hours) : long[hours[p]] = hours[p].length
    <2>1. \A p \in 1 .. Len(hours) : hours[p] \in A
      BY <1>4
    <2> QED
      BY <2>1
  <1> HIDE DEF long, A
  <1>12. numbers \in Seq(Int) /\ Total(Values(long, shown)) = Total(numbers)
    BY <1>4, <1>7, <1>9, TotalOnly
  <1>13. /\ Len(numbers) = Len(hours) /\ Len(hours) \in Nat
         /\ \A p \in 1 .. Len(hours) : numbers[p] = IF hours[p] \in wanted THEN hours[p].length ELSE 0
    <2>1. DOMAIN hours = 1 .. Len(hours) /\ Len(hours) \in Nat
      BY <1>4
    <2>2. numbers = [p \in 1 .. Len(hours) |-> IF hours[p] \in wanted THEN long[hours[p]] ELSE 0]
      BY <2>1 DEF Wanted
    <2> HIDE DEF numbers
    <2>3. Len(numbers) = Len(hours)
      BY <2>1, <2>2
    <2> QED
      BY <1>11, <2>1, <2>2, <2>3
  <1> HIDE DEF numbers, n
  <1> DEFINE Shares == [p \in 1 .. Len(hours) |->
                           IF hours[p] \in wanted
                           THEN HourOf(all[piece[p]].seg, hour) \X {piece[p]} ELSE {}]
  <1>14. ASSUME NEW p \in 1 .. Len(hours)
         PROVE  IsFiniteSet(Shares[p]) /\ Cardinality(Shares[p]) = numbers[p]
    <2>1. CASE hours[p] \in wanted
      <3>0. PICK i \in 1 .. n : i = piece[p]
        BY <1>6
      <3>1. PICK k \in 1 .. Len(f[i]) : k = place[p] /\ hours[p] = f[i][k]
        BY <1>6, <3>0
      <3>2. f[i][k].hour = hour /\ f[i][k].length = numbers[p]
        BY <1>8, <1>13, <2>1, <3>1
      <3> DEFINE secs == HourOf(all[i].seg, hour)
      <3>3. IsFiniteSet(secs) /\ Cardinality(secs) = numbers[p]
        BY <1>2, <3>2, Zenon DEF SlicesOf
      <3> HIDE DEF secs
      <3>4. IsFiniteSet({i}) /\ Cardinality({i}) = 1
        BY FS_Singleton, Zenon
      <3>5. /\ IsFiniteSet(secs \X {i})
            /\ Cardinality(secs \X {i}) = Cardinality(secs) * Cardinality({i})
        BY <3>3, <3>4, FS_Product
      <3>6. numbers[p] \in Int
        BY <1>12, <1>13
      <3>7. Cardinality(secs \X {i}) = numbers[p] * 1
        BY <3>3, <3>4, <3>5, Zenon
      <3>8. numbers[p] * 1 = numbers[p]
        BY <3>6
      <3>9. Shares[p] = secs \X {i}
        BY <2>1, <3>0 DEF secs
      <3> QED
        BY <3>5, <3>7, <3>8, <3>9, Zenon
    <2>2. CASE hours[p] \notin wanted
      <3>1. Shares[p] = {} /\ numbers[p] = 0
        BY <1>13, <2>2
      <3> QED
        BY <3>1, FS_EmptySet, Zenon
    <2> QED
      BY <2>1, <2>2
  <1>15. ASSUME NEW p \in 1 .. Len(hours), NEW q \in 1 .. Len(hours), p < q
         PROVE  Shares[p] \cap Shares[q] = {}
    <2> SUFFICES ASSUME hours[p] \in wanted, hours[q] \in wanted, piece[p] = piece[q]
                 PROVE  FALSE
      OBVIOUS
    <2>0. PICK i \in 1 .. n : i = piece[p]
      BY <1>6
    <2>00. /\ place[p] \in 1 .. Len(f[i]) /\ hours[p] = f[i][place[p]]
           /\ place[q] \in 1 .. Len(f[i]) /\ hours[q] = f[i][place[q]]
      BY <1>6, <2>0
    <2>1. PICK k \in 1 .. Len(f[i]), l \in 1 .. Len(f[i]) :
               k = place[p] /\ l = place[q] /\ hours[p] = f[i][k] /\ hours[q] = f[i][l]
      BY <2>00, Zenon
    <2>2. i \in Int /\ k \in Int /\ l \in Int
      OBVIOUS
    <2>3. k < l
      BY <1>6, <1>15, <2>0, <2>1, <2>2
    <2>4. f[i][k].hour = f[i][l].hour
      BY <1>8, <2>1, Zenon
    <2>5. f[i][k].hour = all[i].seg.start \div Hour + k - 1 /\ f[i][l].hour = all[i].seg.start \div Hour + l - 1
      BY <1>2, Zenon DEF SlicesOf
    <2>6. PICK a \in Int : a = all[i].seg.start \div Hour
      <3>1. all[i].seg.start \in Int
        BY DEF AllDated, Dated, n
      <3>2. Hour \in Nat \ {0}
        BY DwellAssumption
      <3> QED
        BY <3>1, <3>2, DivBounds, Zenon
    <2>7. f[i][k].hour = a + k - 1 /\ f[i][l].hour = a + l - 1
      BY <2>5, <2>6
    <2>8. a + k - 1 = a + l - 1
      BY <2>4, <2>7, Zenon
    <2> QED
      BY <2>2, <2>3, <2>6, <2>8
  <1>16. ASSUME NEW x
         PROVE  x \in saw <=> \E p \in 1 .. Len(hours) : x \in Shares[p]
    <2>1. ASSUME NEW t \in Seconds, NEW i \in 1 .. n, x = <<t, i>>, x \in saw
          PROVE  \E p \in 1 .. Len(hours) : x \in Shares[p]
      <3>1. t \div Hour = hour /\ all[i].label = label /\ Covers(all[i].seg, t) /\ t \in Int
        <4>1. x[1] = t /\ x[2] = i
          BY <2>1
        <4>2. /\ x[1] \div Hour = hour /\ all[x[2]].label = label
              /\ all[x[2]].seg.start <= x[1] /\ x[1] < all[x[2]].seg.end
          BY <2>1 DEF SawIn
        <4>3. t \in Int
          BY DEF Seconds
        <4> QED
          BY <4>1, <4>2, <4>3, Zenon DEF Covers
      <3>2. PICK k \in 1 .. Len(f[i]) : f[i][k].hour = hour
        BY <1>2, <3>1, Zenon DEF SlicesOf
      <3>3. PICK p \in 1 .. Len(hours) : piece[p] = i /\ place[p] = k
        BY <1>6
      <3>4. hours[p] = f[i][k] /\ f[i][k].label = label
        BY <1>2, <1>6, <3>1, <3>3, Zenon DEF SlicesOf
      <3>5. hours[p] \in wanted
        BY <1>8, <3>2, <3>4
      <3>6. t \in HourOf(all[i].seg, hour)
        BY <3>1 DEF HourOf
      <3>7. Shares[p] = HourOf(all[i].seg, hour) \X {i}
        BY <3>3, <3>5
      <3> QED
        BY <2>1, <3>6, <3>7
    <2>2. ASSUME NEW p \in 1 .. Len(hours), x \in Shares[p]
          PROVE  x \in saw
      <3>1. hours[p] \in wanted /\ x \in HourOf(all[piece[p]].seg, hour) \X {piece[p]}
        BY <2>2
      <3>0. PICK i \in 1 .. n : i = piece[p]
        BY <1>6
      <3>2. PICK k \in 1 .. Len(f[i]) : hours[p] = f[i][k]
        BY <1>6, <3>0
      <3>3. PICK t \in HourOf(all[i].seg, hour) : x = <<t, i>>
        BY <3>0, <3>1
      <3>4. t \in Int /\ Covers(all[i].seg, t) /\ t \div Hour = hour
        BY DEF HourOf
      <3>5. all[i].label = label
        BY <1>2, <1>8, <3>1, <3>2 DEF SlicesOf
      <3>6. /\ all[i].seg.start \in Int /\ all[i].seg.end \in Int /\ 0 <= all[i].seg.start
            /\ all[i].seg.end <= Horizon
        BY Zenon DEF AllDated, Dated, n
      <3>7. all[i].seg.start <= t /\ t < all[i].seg.end
        BY <3>4 DEF Covers
      <3>8. t \in Seconds /\ i \in DOMAIN all
        BY <1>1, <3>4, <3>6, <3>7 DEF Seconds
      <3>9. x \in Seconds \X DOMAIN all /\ x[1] = t /\ x[2] = i
        BY <3>3, <3>8
      <3> QED
        BY <3>4, <3>5, <3>7, <3>9, Zenon DEF SawIn
    <2>3. x \in saw => \E t \in Seconds, i \in 1 .. n : x = <<t, i>>
      BY <1>1 DEF SawIn
    <2> HIDE DEF Shares, saw
    <2> QED
      BY <2>1, <2>2, <2>3
  <1> HIDE DEF Shares, saw
  <1>17. Counted(numbers, Shares, saw)
    BY <1>13, <1>14, <1>15, <1>16 DEF Counted
  <1>18. Total(numbers) = Cardinality(saw)
    BY <1>12, <1>17, TotalCounts
  <1> QED
    BY <1>10, <1>12, <1>18 DEF saw

-----------------------------------------------------------------------------
(* The totals of a recap *)

\* What hour_apps adds up.
Piece == [seg : Segment \cup Session \cup AwaySlice, label : Labels]

(* Segments of the window that are labelled are dated.                      *)
LEMMA LabelledDated ==
    ASSUME Horizon \in Nat, NEW T \in {Segment, Session, AwaySlice}, NEW list \in Seq(T),
           Inside(list, Horizon), NEW names \in [1 .. Len(list) -> Labels],
           NEW made, made = [i \in DOMAIN list |-> [seg |-> list[i], label |-> names[i]]]
    PROVE  made \in Seq(Piece) /\ AllDated(made)
  <1>1. DOMAIN list = 1 .. Len(list) /\ Len(list) \in Nat /\ \A i \in 1 .. Len(list) : list[i] \in T
    OBVIOUS
  <1>2. \A i \in 1 .. Len(list) : list[i].start \in Int /\ list[i].end \in Int
    BY <1>1, Zenon DEF Segment, Session, AwaySlice
  <1>3. \A i \in 1 .. Len(list) : [seg |-> list[i], label |-> names[i]] \in Piece
    BY <1>1 DEF Piece
  <1>4. /\ made \in Seq(Piece) /\ Len(made) = Len(list)
        /\ \A i \in 1 .. Len(list) : made[i].seg = list[i] /\ made[i].label = names[i]
    BY <1>1, <1>3
  <1> QED
    BY <1>2, <1>4, Zenon DEF AllDated, Dated, Inside

(* Lists that are dated are put together to one.                            *)
LEMMA ConcatDated ==
    ASSUME NEW a \in Seq(Piece), NEW b \in Seq(Piece), AllDated(a), AllDated(b)
    PROVE  a \o b \in Seq(Piece) /\ AllDated(a \o b)
  <1>1. /\ a \o b \in Seq(Piece) /\ Len(a \o b) = Len(a) + Len(b)
        /\ \A p \in 1 .. Len(a) : (a \o b)[p] = a[p]
        /\ \A k \in 1 .. Len(b) : (a \o b)[Len(a) + k] = b[k]
    BY ConcatAt
  <1>2. ASSUME NEW i \in 1 .. Len(a) + Len(b)
        PROVE  Dated((a \o b)[i])
    <2>1. CASE i \in 1 .. Len(a)
      BY <1>1, <2>1 DEF AllDated
    <2>2. CASE i \notin 1 .. Len(a)
      <3>1. PICK k \in 1 .. Len(b) : i = Len(a) + k
        <4>1. i - Len(a) \in 1 .. Len(b) /\ i = Len(a) + (i - Len(a))
          BY <2>2
        <4> QED
          BY <4>1, Zenon
      <3> QED
        BY <1>1, <3>1 DEF AllDated
    <2> QED
      BY <2>1, <2>2
  <1> QED
    BY <1>1, <1>2 DEF AllDated

(* What hour_apps adds up lies in the day.                                  *)
LEMMA LabelledOfJournal ==
    ASSUME JournalInv
    PROVE  /\ Labelled(recap.segments, recap.away, recap.sessions) \in Seq(Piece)
           /\ AllDated(Labelled(recap.segments, recap.away, recap.sessions))
  <1>1. PICK segs \in Seq(Segment), calls \in Seq(Session), away \in Seq(AwaySlice) :
            /\ segs = recap.segments /\ calls = recap.sessions /\ away = recap.away
            /\ Inside(segs, Horizon) /\ Inside(calls, Horizon) /\ Inside(away, Horizon)
    <2>1. recap.segments \in Seq(Segment) /\ Ordered(recap.segments, 0, Horizon)
      BY FocusOfJournal DEF SegmentsAre
    <2>2. recap.sessions \in Seq(Session) /\ Ordered(recap.sessions, 0, Horizon)
      BY SessionsOfJournal DEF SessionsOf
    <2>3. recap.away \in Seq(AwaySlice) /\ Inside(recap.away, Horizon)
      BY FocusOfJournal
    <2>4. Inside(recap.segments, Horizon) /\ Inside(recap.sessions, Horizon)
      BY <2>1, <2>2 DEF Ordered, Inside
    <2> QED
      BY <2>1, <2>2, <2>3, <2>4
  <1>2. Horizon \in Nat
    BY HorizonIs DEF JournalInv
  <1> DEFINE left == NoMeeting(away)
             A == [i \in DOMAIN segs |-> [seg |-> segs[i], label |-> segs[i].win.app]]
             B == [i \in DOMAIN calls |-> [seg |-> calls[i], label |-> SessionLabel(calls[i])]]
             C == [i \in DOMAIN left |-> [seg |-> left[i], label |-> "away"]]
  <1>3. left \in Seq(AwaySlice) /\ Inside(left, Horizon)
    <2> DEFINE wanted == {s \in Range(away) : s.presence # "meeting"}
    <2>1. left = Only(away, wanted)
      BY DEF NoMeeting
    <2> HIDE DEF wanted, left
    <2>2. left \in Seq(AwaySlice)
      BY <2>1, OnlyKeeps
    <2>3. PICK from \in [1 .. Len(left) -> 1 .. Len(away)] :
              \A p \in 1 .. Len(left) : left[p] = away[from[p]] /\ left[p] \in wanted
      BY <2>1, OnlyKeeps
    <2> QED
      BY <1>1, <2>2, <2>3, Zenon DEF Inside
  <1>4. A \in Seq(Piece) /\ AllDated(A)
    <2> DEFINE names == [i \in 1 .. Len(segs) |-> segs[i].win.app]
    <2>1. names \in [1 .. Len(segs) -> Labels]
      <3>1. \A i \in 1 .. Len(segs) : segs[i] \in Segment
        OBVIOUS
      <3>2. \A i \in 1 .. Len(segs) : segs[i].win.app \in Labels
        BY <3>1 DEF Segment, Window, Field, Labels
      <3> QED
        BY <3>2
    <2>2. A = [i \in DOMAIN segs |-> [seg |-> segs[i], label |-> names[i]]]
      OBVIOUS
    <2> HIDE DEF names, A
    <2> QED
      BY <1>1, <1>2, <2>1, <2>2, LabelledDated, Zenon
  <1>5. B \in Seq(Piece) /\ AllDated(B)
    <2> DEFINE names == [i \in 1 .. Len(calls) |-> SessionLabel(calls[i])]
    <2>1. names \in [1 .. Len(calls) -> Labels]
      BY DEF SessionLabel, Labels
    <2>2. B = [i \in DOMAIN calls |-> [seg |-> calls[i], label |-> names[i]]]
      OBVIOUS
    <2> HIDE DEF names, B
    <2> QED
      BY <1>1, <1>2, <2>1, <2>2, LabelledDated, Zenon
  <1> HIDE DEF left
  <1>6. C \in Seq(Piece) /\ AllDated(C)
    <2> DEFINE names == [i \in 1 .. Len(left) |-> "away"]
    <2>1. names \in [1 .. Len(left) -> Labels]
      BY DEF Labels
    <2>2. C = [i \in DOMAIN left |-> [seg |-> left[i], label |-> names[i]]]
      BY <1>3
    <2> HIDE DEF names, C
    <2> QED
      BY <1>2, <1>3, <2>1, <2>2, LabelledDated, Zenon
  <1> HIDE DEF A, B, C
  <1>7. Labelled(recap.segments, recap.away, recap.sessions) = A \o B \o C
    BY <1>1, Zenon DEF Labelled, A, B, C, left
  <1>8. PICK ab : ab = A \o B /\ ab \in Seq(Piece) /\ AllDated(ab)
    BY <1>4, <1>5, ConcatDated, Zenon
  <1>9. ab \o C \in Seq(Piece) /\ AllDated(ab \o C)
    BY <1>6, <1>8, ConcatDated, Zenon
  <1> QED
    BY <1>7, <1>8, <1>9, Zenon

(* For every day: folding segments into visits changes no total, terminal   *)
(* stays are the terminal focus, and each hour has what it saw.             *)
THEOREM TotalsAreSums == Spec => []TotalsAddUp
  <1>1. JournalInv => TotalsAddUp
    <2> SUFFICES ASSUME JournalInv
                 PROVE  TotalsAddUp
      OBVIOUS
    <2> DEFINE OfKey(key)  == Only(recap.segments, {s \in Range(recap.segments) : AttentionKey(s.win) = key})
               Visits(key) == Only(recap.attention, {v \in Range(recap.attention) : v.key = key})
               all == Labelled(recap.segments, recap.away, recap.sessions)
               Shown(hour, label) ==
                   Only(recap.hours, {s \in Range(recap.hours) : s.hour = hour /\ s.label = label})
    <2>1. /\ recap.attention = AttentionSegments(recap.segments)
          /\ recap.hours = HourApps(recap.segments, recap.away, recap.sessions)
          /\ recap.stays = TerminalStays(Only(recap.attention,
                               {v \in Range(recap.attention) : IsTerminal(v.win)}))
      BY DEF JournalInv, compile_day_recap
    <2>2. PICK fine \in Seq(Segment) : fine = recap.segments /\ Ordered(fine, 0, Horizon)
      BY FocusOfJournal DEF SegmentsAre
    <2>3. \A k \in 1 .. Len(fine) : fine[k].start < fine[k].end
      BY <2>2 DEF Ordered
    <2>4. ASSUME NEW key
          PROVE  Total(Durations(Visits(key))) = Total(Lengths(OfKey(key)))
      <3>1. PICK visits : visits = AttentionSegments(fine) /\ visits = recap.attention
        BY <2>1, <2>2
      <3>3. Total(Durations(VisitsTo(visits, key))) = Total(Lengths(SegmentsTo(fine, key)))
        BY <2>3, <3>1, KeyAddsUp, Zenon
      <3> QED
        BY <2>2, <3>1, <3>3, Zenon DEF VisitsTo, SegmentsTo
    <2>5. recap.stays.total = Total(Lengths(Terminals(recap.segments)))
      <3>1. PICK visits : visits = AttentionSegments(fine) /\ visits = recap.attention
        BY <2>1, <2>2
      <3>3. TerminalStays(Only(visits, {v \in Range(visits) : IsTerminal(v.win)})).total
               = Total(Lengths(Terminals(fine)))
        BY <2>3, <3>1, StaysAddUp, Zenon
      <3> QED
        BY <2>1, <2>2, <3>1, <3>3, Zenon
    <2>6. ASSUME NEW hour, NEW label
          PROVE  Total([i \in DOMAIN Shown(hour, label) |-> Shown(hour, label)[i].length])
                    = Cardinality(SawIn(all, hour, label))
      <3>1. PICK list \in Seq(Piece) : list = all /\ AllDated(list)
        BY LabelledOfJournal
      <3>2. PICK hours : hours = recap.hours /\ hours = HoursOf(list)
        BY <2>1, <3>1, Zenon DEF HourApps, HoursOf
      <3>3. PICK shown : shown = Shown(hour, label) /\ shown = ShownIn(hours, hour, label)
        BY <3>2, Zenon DEF ShownIn
      <3>4. Horizon \in Nat
        BY HorizonIs DEF JournalInv
      <3>5. Total(SliceLengths(shown)) = Cardinality(SawIn(list, hour, label))
        <4> HIDE DEF all, Shown
        <4> QED
          BY <3>1, <3>2, <3>3, <3>4, HoursAddUp
      <3> QED
        BY <3>1, <3>3, <3>5, Zenon DEF SliceLengths
    <2>7. \A key \in {recap.attention[i].key : i \in DOMAIN recap.attention} :
             Total(Durations(Visits(key))) = Total(Lengths(OfKey(key)))
      BY <2>4, Zenon
    <2>8. \A hour \in 0 .. DayEnd \div Hour, label \in {all[i].label : i \in DOMAIN all} :
             Total([i \in DOMAIN Shown(hour, label) |-> Shown(hour, label)[i].length])
                = Cardinality(SawIn(all, hour, label))
      BY <2>6, Zenon
    <2> QED
      BY <2>5, <2>7, <2>8, Zenon DEF TotalsAddUp, SawIn
  <1> QED
    BY <1>1, JournalKeeps, PTL
=============================================================================
