--------------------------- MODULE FlattenTheorems ---------------------------
(***************************************************************************)
(* Lemmas about FlattenSeq, by which the models write the nested loops     *)
(* that append to one list of felts: what it holds at which place, and     *)
(* when two lists are equal only if what went into them is.                *)
(*                                                                         *)
(* FlattenSeq is a recursive function, a CHOOSE to the provers, and the    *)
(* induction theorems of the library take an operator; so induction is     *)
(* here a theorem about sets of numbers.                                   *)
(***************************************************************************)
EXTENDS SequencesExt, SequenceTheorems, WellFoundedInduction, TLAPS

\* A set of numbers that holds 0 and the successors of its elements holds them all.
THEOREM NatSetInduction ==
  ASSUME NEW P, 0 \in P, \A n \in Nat : n \in P => n + 1 \in P
  PROVE  Nat \subseteq P
<1> SUFFICES ASSUME ~ (Nat \subseteq P) PROVE FALSE
  OBVIOUS
<1> DEFINE X == Nat \ P
           R == {ss \in Nat \X Nat : ss[1] < ss[2]}
<1>1. IsWellFoundedOn(R, Nat)
  BY NatLessThanWellFounded DEF OpToRel
<1>2. X \subseteq Nat /\ X # {}
  OBVIOUS
<1>3. PICK x \in X : \A y \in X : <<y, x>> \notin R
  <2> HIDE DEF X, R
  <2> QED BY <1>1, <1>2, WFMin
<1>4. x \in Nat /\ x \notin P /\ x # 0 /\ x - 1 \in Nat /\ (x - 1) + 1 = x
  BY <1>3
<1>5. x - 1 \notin P
  BY <1>4
<1>6. <<x - 1, x>> \in R
  BY <1>4
<1> QED BY <1>3, <1>4, <1>5, <1>6

\* The same up to a bound.
LEMMA SegmentInduction ==
  ASSUME NEW n \in Nat, NEW P, 0 \in P, \A i \in Nat : i < n /\ i \in P => i + 1 \in P
  PROVE  0 .. n \subseteq P
<1> DEFINE Q == {i \in Nat : i <= n => i \in P}
<1>1. 0 \in Q
  OBVIOUS
<1>2. \A i \in Nat : i \in Q => i + 1 \in Q
  <2> SUFFICES ASSUME NEW i \in Nat, i \in Q, i + 1 <= n PROVE i + 1 \in P
    OBVIOUS
  <2>1. i < n /\ i \in P
    OBVIOUS
  <2> QED BY <2>1
<1>3. Nat \subseteq Q
  <2> HIDE DEF Q
  <2> QED BY <1>1, <1>2, NatSetInduction
<1> QED BY <1>3
-----------------------------------------------------------------------------
(* What FlattenSeq computes.                                               *)

\* What FlattenSeq is applied to.
Lists(S) == Seq(Seq(S))

\* What a list of lists is.
LEMMA ListFacts ==
  ASSUME NEW S, NEW seqs \in Lists(S)
  PROVE  /\ Len(seqs) \in Nat
         /\ DOMAIN seqs = 1 .. Len(seqs)
         /\ \A i \in 1 .. Len(seqs) : seqs[i] \in Seq(S)
         /\ Len(seqs) = 0 => seqs = <<>>
BY LenProperties, ElementOfSeq, EmptySeq DEF Lists

\* A function to sequences is a list of lists.
LEMMA FunctionIsLists ==
  ASSUME NEW S, NEW n \in Nat, NEW l \in [1 .. n -> Seq(S)]
  PROVE  l \in Lists(S) /\ Len(l) = n
BY DEF Lists

\* f[i] is the concatenation of the first i of the sequences.
Flattening(f, seqs, S) ==
  /\ f \in [0 .. Len(seqs) -> Seq(S)]
  /\ f[0] = <<>>
  /\ \A i \in 1 .. Len(seqs) : f[i] = f[i - 1] \o seqs[i]

\* There is one such f.
LEMMA FlatteningExists ==
  ASSUME NEW S, NEW seqs \in Lists(S)
  PROVE  \E f : Flattening(f, seqs, S)
<1> DEFINE n == Len(seqs)
           Up(f, k) == /\ f \in [0 .. k -> Seq(S)]
                       /\ f[0] = <<>>
                       /\ \A i \in 1 .. k : f[i] = f[i - 1] \o seqs[i]
           P == {k \in Nat : \E f : Up(f, k)}
<1>1. n \in Nat
  BY ListFacts
<1>2. 0 \in P
  <2>1. Up([i \in 0 .. 0 |-> <<>>], 0)
    OBVIOUS
  <2> QED BY <2>1
<1>3. ASSUME NEW k \in Nat, k < n, k \in P PROVE k + 1 \in P
  <2>1. PICK f : Up(f, k)
    BY <1>3
  <2> DEFINE g == [i \in 0 .. k + 1 |-> IF i = k + 1 THEN f[k] \o seqs[k + 1] ELSE f[i]]
  <2>2. seqs[k + 1] \in Seq(S)
    BY <1>1, <1>3, ListFacts
  <2>3. f[k] \o seqs[k + 1] \in Seq(S)
    BY <2>1, <2>2, ConcatProperties
  <2>4. g \in [0 .. k + 1 -> Seq(S)] /\ g[0] = <<>>
    BY <2>1, <2>2, <2>3
  <2>5. ASSUME NEW i \in 1 .. k + 1 PROVE g[i] = g[i - 1] \o seqs[i]
    <3>1. CASE i = k + 1
      <4>1. g[k + 1] = f[k] \o seqs[k + 1] /\ (k + 1) - 1 = k /\ g[k] = f[k]
        OBVIOUS
      <4> QED BY <3>1, <4>1
    <3>2. CASE i # k + 1
      <4>1. i \in 1 .. k /\ i - 1 \in 0 .. k /\ i - 1 # k + 1
        BY <2>2, <3>2
      <4>2. f[i] = f[i - 1] \o seqs[i]
        BY <2>1, <4>1
      <4>3. g[i] = f[i] /\ g[i - 1] = f[i - 1]
        BY <3>2, <4>1
      <4> QED BY <4>2, <4>3
    <3> QED BY <3>1, <3>2
  <2>6. Up(g, k + 1)
    <3> HIDE DEF g
    <3> QED BY <2>4, <2>5
  <2> HIDE DEF g, Up
  <2> QED BY <2>6
<1>4. n \in P
  <2> HIDE DEF P, n
  <2>1. 0 .. n \subseteq P
    BY <1>1, <1>2, <1>3, SegmentInduction
  <2> QED BY <1>1, <2>1
<1> QED BY <1>4 DEF Flattening

\* There is one flattening.
LEMMA FlatteningUnique ==
  ASSUME NEW S, NEW seqs \in Lists(S), NEW f, NEW g,
         Flattening(f, seqs, S), Flattening(g, seqs, S)
  PROVE  f = g
<1> DEFINE n == Len(seqs)
           P == {k \in 0 .. n : f[k] = g[k]}
<1>1. n \in Nat
  BY ListFacts
<1>2. 0 \in P
  BY <1>1 DEF Flattening
<1>3. ASSUME NEW k \in Nat, k < n, k \in P PROVE k + 1 \in P
  <2>1. k + 1 \in 1 .. n /\ (k + 1) - 1 = k /\ f[k] = g[k]
    BY <1>1, <1>3
  <2>2. f[k + 1] = f[k] \o seqs[k + 1] /\ g[k + 1] = g[k] \o seqs[k + 1]
    BY <2>1 DEF Flattening
  <2>3. f[k + 1] = g[k + 1] /\ k + 1 \in 0 .. n
    BY <1>1, <2>1, <2>2
  <2> QED BY <2>3
<1>4. 0 .. n \subseteq P
  <2> HIDE DEF P, n
  <2> QED BY <1>1, <1>2, <1>3, SegmentInduction
<1>5. \A k \in 0 .. n : f[k] = g[k]
  BY <1>4
<1>6. f \in [0 .. n -> Seq(S)] /\ g \in [0 .. n -> Seq(S)]
  BY DEF Flattening
<1> QED BY <1>5, <1>6

\* FlattenSeq is the last of the concatenations.
LEMMA FlattenSeqIs ==
  ASSUME NEW S, NEW seqs \in Lists(S), NEW f, Flattening(f, seqs, S)
  PROVE  FlattenSeq(seqs) = f[Len(seqs)]
<1> DEFINE n == Len(seqs)
           Step(h) == [i \in 1 .. n |-> IF i = 1 THEN seqs[i] ELSE h[i - 1] \o seqs[i]]
           flatten == CHOOSE h : h = Step(h)
<1>1. n \in Nat
  BY ListFacts
<1>2. CASE n = 0
  <2>1. FlattenSeq(seqs) = seqs
    BY <1>2 DEF FlattenSeq
  <2>2. seqs = <<>>
    BY <1>2, ListFacts
  <2> QED BY <1>2, <2>1, <2>2 DEF Flattening
<1>3. CASE n # 0
  <2>1. FlattenSeq(seqs) = flatten[n]
    BY <1>3 DEF FlattenSeq
  <2>2. \E h : h = Step(h)
    <3> DEFINE g == [i \in 1 .. n |-> f[i]]
    <3>1. ASSUME NEW i \in 1 .. n PROVE g[i] = Step(g)[i]
      <4>1. CASE i = 1
        <5>0. 1 \in 1 .. n /\ 1 - 1 = 0
          BY <1>1, <1>3
        <5>1. f[1] = f[0] \o seqs[1] /\ f[0] = <<>> /\ seqs[1] \in Seq(S)
          <6>1. f[1] = f[1 - 1] \o seqs[1] /\ f[0] = <<>>
            BY <5>0 DEF Flattening
          <6> QED BY <5>0, <6>1, ListFacts
        <5>2. f[1] = seqs[1]
          BY <5>1, ConcatEmptySeq
        <5> QED BY <4>1, <5>2
      <4>2. CASE i # 1
        <5>1. i - 1 \in 1 .. n
          BY <1>1, <4>2
        <5>2. f[i] = f[i - 1] \o seqs[i]
          BY DEF Flattening
        <5> QED BY <4>2, <5>1, <5>2
      <4> QED BY <4>1, <4>2
    <3>2. g = Step(g)
      BY <3>1
    <3> HIDE DEF g, Step
    <3> QED BY <3>2
  <2>3. flatten = Step(flatten)
    <3> HIDE DEF Step
    <3> QED BY <2>2
  <2> DEFINE g == [i \in 0 .. n |-> IF i = 0 THEN <<>> ELSE flatten[i]]
             P == {k \in 0 .. n : g[k] = f[k]}
  <2>4. \A i \in 1 .. n : flatten[i] = IF i = 1 THEN seqs[i] ELSE flatten[i - 1] \o seqs[i]
    BY <2>3
  <2> HIDE DEF flatten
  <2>5. 0 \in P
    BY <1>1 DEF Flattening
  <2>6. ASSUME NEW k \in Nat, k < n, k \in P PROVE k + 1 \in P
    <3>1. k + 1 \in 1 .. n /\ (k + 1) - 1 = k
      BY <1>1, <2>6
    <3>2. f[k + 1] = f[k] \o seqs[k + 1]
      BY <3>1 DEF Flattening
    <3>a. g[k + 1] = flatten[k + 1] /\ k + 1 \in 0 .. n
      BY <1>1, <3>1
    <3>3. CASE k = 0
      <4>1. f[1] = seqs[1]
        <5>1. f[0] = <<>> /\ seqs[1] \in Seq(S)
          BY <1>1, <1>3, ListFacts DEF Flattening
        <5> QED BY <3>2, <3>3, <5>1, ConcatEmptySeq
      <4>2. 1 \in 1 .. n
        BY <3>1, <3>3
      <4>3. flatten[1] = seqs[1]
        BY <2>4, <4>2
      <4> QED BY <3>3, <3>a, <4>1, <4>3
    <3>4. CASE k # 0
      <4>1. flatten[k + 1] = flatten[k] \o seqs[k + 1]
        <5>1. k + 1 # 1
          BY <3>4
        <5>2. flatten[k + 1] = flatten[(k + 1) - 1] \o seqs[k + 1]
          <6> HIDE DEF g, P
          <6> QED BY <2>4, <3>1, <5>1
        <5> QED BY <3>1, <5>2
      <4>2. flatten[k] = f[k]
        BY <1>1, <2>6, <3>4
      <4> QED BY <3>a, <3>2, <4>1, <4>2
    <3> QED BY <3>3, <3>4
  <2>7. 0 .. n \subseteq P
    <3> HIDE DEF P, n
    <3> QED BY <1>1, <2>5, <2>6, SegmentInduction
  <2>8. g[n] = f[n]
    BY <1>1, <2>7
  <2> QED BY <1>1, <1>3, <2>1, <2>8
<1> QED BY <1>2, <1>3

\* c is a with b after it.
Concatenates(c, a, b, S) ==
  /\ a \in Seq(S) /\ b \in Seq(S) /\ c \in Seq(S)
  /\ Len(a) \in Nat /\ Len(b) \in Nat /\ Len(c) \in Nat
  /\ Len(c) = Len(a) + Len(b)
  /\ \A k \in 1 .. Len(a) : c[k] = a[k]
  /\ \A k \in 1 .. Len(b) : c[Len(a) + k] = b[k]

\* What each of the concatenations adds to the one before.
LEMMA FlatteningStep ==
  ASSUME NEW S, NEW seqs \in Lists(S), NEW f, Flattening(f, seqs, S),
         NEW i \in 1 .. Len(seqs)
  PROVE  Concatenates(f[i], f[i - 1], seqs[i], S)
<1> DEFINE a == f[i - 1]
           b == seqs[i]
<1>1. i - 1 \in 0 .. Len(seqs) /\ i \in 0 .. Len(seqs)
  BY ListFacts
<1>2. a \in Seq(S) /\ f[i] \in Seq(S) /\ f[i] = a \o b
  BY <1>1 DEF Flattening
<1>3. b \in Seq(S)
  BY ListFacts
<1> HIDE DEF a, b
<1>4. Len(a) \in Nat /\ Len(b) \in Nat /\ Len(f[i]) \in Nat
  BY <1>2, <1>3, LenProperties
<1>5. /\ Len(f[i]) = Len(a) + Len(b)
      /\ \A k \in 1 .. Len(a) + Len(b) : f[i][k] = IF k <= Len(a) THEN a[k] ELSE b[k - Len(a)]
  BY <1>2, <1>3, ConcatProperties
<1>6. ASSUME NEW k \in 1 .. Len(a) PROVE f[i][k] = a[k]
  BY <1>4, <1>5
<1>7. ASSUME NEW k \in 1 .. Len(b) PROVE f[i][Len(a) + k] = b[k]
  <2>1. Len(a) + k \in 1 .. Len(a) + Len(b) /\ ~(Len(a) + k <= Len(a))
        /\ (Len(a) + k) - Len(a) = k
    BY <1>4
  <2> QED BY <1>5, <2>1
<1> QED BY <1>2, <1>3, <1>4, <1>5, <1>6, <1>7 DEF a, b, Concatenates

\* Every concatenation is a prefix of the later ones.
LEMMA FlatteningPrefix ==
  ASSUME NEW S, NEW seqs \in Lists(S), NEW f, Flattening(f, seqs, S),
         NEW i \in 0 .. Len(seqs), NEW k \in 1 .. Len(f[i])
  PROVE  /\ Len(f[i]) <= Len(f[Len(seqs)])
         /\ f[Len(seqs)][k] = f[i][k]
<1> DEFINE n == Len(seqs)
           Q(m) == /\ Len(f[m]) \in Nat
                   /\ Len(f[i]) <= Len(f[m])
                   /\ f[m][k] = f[i][k]
           P == {j \in 0 .. n - i : Q(i + j)}
<1>1. n \in Nat /\ i \in Nat /\ n - i \in Nat /\ f[i] \in Seq(S) /\ Len(f[i]) \in Nat
  BY ListFacts, LenProperties DEF Flattening
<1>2. 0 \in P
  <2>1. i + 0 = i /\ Len(f[i]) <= Len(f[i])
    BY <1>1
  <2> QED BY <1>1, <2>1
<1>3. ASSUME NEW j \in Nat, j < n - i, j \in P PROVE j + 1 \in P
  <2> DEFINE m == i + j + 1
  <2>1. m \in 1 .. n /\ m - 1 = i + j /\ i + (j + 1) = m /\ j + 1 \in 0 .. n - i
    BY <1>1, <1>3
  <2>2. Q(m - 1)
    BY <1>3, <2>1
  <2> HIDE DEF m, P
  <2>3. Concatenates(f[m], f[m - 1], seqs[m], S)
    BY <2>1, FlatteningStep
  <2>4. Len(f[m]) \in Nat /\ k \in 1 .. Len(f[m - 1]) /\ Len(f[i]) <= Len(f[m])
    <3>1. /\ Len(f[m]) \in Nat /\ Len(f[m - 1]) \in Nat /\ Len(seqs[m]) \in Nat
          /\ Len(f[m]) = Len(f[m - 1]) + Len(seqs[m])
      BY <2>3 DEF Concatenates
    <3>2. Len(f[i]) <= Len(f[m - 1]) /\ Len(f[i]) \in Nat /\ k \in 1 .. Len(f[i])
      BY <1>1, <2>2
    <3> HIDE DEF Q
    <3>3. Len(f[i]) <= Len(f[m])
      <4>1. \A a, b, c, d \in Nat : a <= b /\ c = b + d => a <= c
        OBVIOUS
      <4> QED BY <3>1, <3>2, <4>1, Zenon
    <3>4. k \in 1 .. Len(f[m - 1])
      BY <3>1, <3>2
    <3> QED BY <3>1, <3>3, <3>4
  <2>5. f[m][k] = f[i][k]
    BY <2>2, <2>3, <2>4 DEF Concatenates
  <2> QED BY <2>1, <2>4, <2>5 DEF P
<1>4. n - i \in P
  <2> HIDE DEF P, n
  <2>1. 0 .. n - i \subseteq P
    BY <1>1, <1>2, <1>3, SegmentInduction
  <2> QED BY <1>1, <2>1
<1>5. Q(n)
  <2>1. i + (n - i) = n
    BY <1>1
  <2> QED BY <1>4, <2>1
<1> QED BY <1>5
-----------------------------------------------------------------------------
(* When lists are equal.                                                   *)

\* Sequences of one value each: FlattenSeq lists the values.
LEMMA FlattenSingletons ==
  ASSUME NEW S, NEW seqs \in Lists(S), \A i \in 1 .. Len(seqs) : Len(seqs[i]) = 1
  PROVE  /\ FlattenSeq(seqs) \in Seq(S)
         /\ Len(FlattenSeq(seqs)) = Len(seqs)
         /\ \A i \in 1 .. Len(seqs) : FlattenSeq(seqs)[i] = seqs[i][1]
<1> DEFINE n == Len(seqs)
<1>1. PICK f : Flattening(f, seqs, S)
  BY FlatteningExists
<1>2. n \in Nat /\ \A i \in 1 .. n : i - 1 \in 0 .. n /\ i \in 0 .. n
  BY ListFacts
<1>3. \A i \in 0 .. n : Len(f[i]) = i
  <2> DEFINE P == {i \in 0 .. n : Len(f[i]) = i}
  <2>1. 0 \in P
    BY <1>1, <1>2 DEF Flattening
  <2>2. ASSUME NEW i \in Nat, i < n, i \in P PROVE i + 1 \in P
    <3>1. i + 1 \in 1 .. n /\ (i + 1) - 1 = i /\ i + 1 \in 0 .. n
      BY <1>2, <2>2
    <3>2. Concatenates(f[i + 1], f[i], seqs[i + 1], S)
      <4>1. Concatenates(f[i + 1], f[(i + 1) - 1], seqs[i + 1], S)
        BY <1>1, <3>1, FlatteningStep
      <4> QED BY <3>1, <4>1
    <3>3. Len(f[i + 1]) = Len(f[i]) + Len(seqs[i + 1])
      BY <3>2 DEF Concatenates
    <3> QED BY <2>2, <3>1, <3>3
  <2>3. 0 .. n \subseteq P
    <3> HIDE DEF P, n
    <3> QED BY <1>2, <2>1, <2>2, SegmentInduction
  <2> QED BY <2>3
<1>4. ASSUME NEW i \in 1 .. n PROVE f[n][i] = seqs[i][1]
  <2>1. i - 1 \in 0 .. n /\ i \in 0 .. n /\ i \in Nat
    BY <1>2
  <2>2. Len(f[i - 1]) = i - 1 /\ Len(f[i]) = i
    BY <1>3, <2>1
  <2>3. f[i][(i - 1) + 1] = seqs[i][1]
    <3>1. Len(seqs[i]) = 1 /\ Concatenates(f[i], f[i - 1], seqs[i], S)
      BY <1>1, FlatteningStep
    <3> QED BY <2>2, <3>1 DEF Concatenates
  <2>4. i \in 1 .. Len(f[i]) /\ (i - 1) + 1 = i
    BY <2>1, <2>2
  <2> QED BY <1>1, <2>1, <2>3, <2>4, FlatteningPrefix
<1>5. FlattenSeq(seqs) = f[n] /\ n \in 0 .. n
  BY <1>1, <1>2, FlattenSeqIs
<1>6. f[n] \in Seq(S) /\ Len(f[n]) = n
  BY <1>1, <1>3, <1>5 DEF Flattening
<1> QED BY <1>4, <1>5, <1>6

\* Sequences of one width: how long the list is.
LEMMA FlattenWidth ==
  ASSUME NEW S, NEW seqs \in Lists(S), NEW w \in {2, 3, 4},
         \A i \in 1 .. Len(seqs) : Len(seqs[i]) = w
  PROVE  /\ FlattenSeq(seqs) \in Seq(S)
         /\ Len(FlattenSeq(seqs)) = w * Len(seqs)
<1> DEFINE n == Len(seqs)
<1>1. PICK f : Flattening(f, seqs, S)
  BY FlatteningExists
<1>2. n \in Nat /\ n \in 0 .. n
  BY ListFacts
<1>3. \A i \in 0 .. n : Len(f[i]) = w * i
  <2> DEFINE P == {i \in 0 .. n : Len(f[i]) = w * i}
  <2>1. 0 \in P
    BY <1>1, <1>2 DEF Flattening
  <2>2. ASSUME NEW i \in Nat, i < n, i \in P PROVE i + 1 \in P
    <3>1. i + 1 \in 1 .. n /\ (i + 1) - 1 = i /\ i + 1 \in 0 .. n
      BY <1>2, <2>2
    <3>2. Concatenates(f[i + 1], f[i], seqs[i + 1], S)
      <4>1. Concatenates(f[i + 1], f[(i + 1) - 1], seqs[i + 1], S)
        BY <1>1, <3>1, FlatteningStep
      <4> QED BY <3>1, <4>1
    <3>3. Len(f[i + 1]) = Len(f[i]) + Len(seqs[i + 1])
      BY <3>2 DEF Concatenates
    <3>4. Len(f[i]) = w * i /\ Len(seqs[i + 1]) = w
      BY <2>2, <3>1
    <3>5. w * i + w = w * (i + 1)
      OBVIOUS
    <3> QED BY <3>1, <3>3, <3>4, <3>5
  <2>3. 0 .. n \subseteq P
    <3> HIDE DEF P, n
    <3> QED BY <1>2, <2>1, <2>2, SegmentInduction
  <2> QED BY <2>3
<1>4. FlattenSeq(seqs) = f[n] /\ f[n] \in Seq(S)
  BY <1>1, <1>2, FlattenSeqIs DEF Flattening
<1> QED BY <1>2, <1>3, <1>4

\* As many sequences, each of which has its length fixed by its first w values: no
\* list can be cut in two ways.
THEOREM FlattenSeparates ==
  ASSUME NEW S, NEW s \in Lists(S), NEW t \in Lists(S), NEW w \in Nat,
         Len(s) = Len(t),
         FlattenSeq(s) = FlattenSeq(t),
         \A i \in 1 .. Len(s) :
           /\ Len(s[i]) >= w /\ Len(t[i]) >= w
           /\ (\A k \in 1 .. w : s[i][k] = t[i][k]) => Len(s[i]) = Len(t[i])
  PROVE  s = t
<1> DEFINE n == Len(s)
<1>1. PICK f : Flattening(f, s, S)
  BY FlatteningExists
<1>2. PICK g : Flattening(g, t, S)
  BY FlatteningExists
<1>3. n \in Nat /\ n \in 0 .. n /\ f[n] = g[n]
  BY <1>1, <1>2, FlattenSeqIs, ListFacts
<1>4. ASSUME NEW i \in 1 .. n, f[i - 1] = g[i - 1]
      PROVE  f[i] = g[i] /\ s[i] = t[i]
  <2> DEFINE p == Len(f[i - 1])
  <2>a. i \in 0 .. n
    BY <1>3
  <2>b. Concatenates(f[i], f[i - 1], s[i], S)
    BY <1>1, FlatteningStep
  <2>c. Concatenates(g[i], f[i - 1], t[i], S)
    <3>1. Concatenates(g[i], g[i - 1], t[i], S)
      BY <1>2, FlatteningStep
    <3> QED BY <1>4, <3>1
  <2>1. /\ p \in Nat /\ Len(f[i]) \in Nat /\ s[i] \in Seq(S) /\ Len(s[i]) \in Nat
        /\ Len(f[i]) = p + Len(s[i])
        /\ \A k \in 1 .. Len(s[i]) : f[i][p + k] = s[i][k]
    BY <2>b DEF Concatenates
  <2>2. /\ Len(g[i]) \in Nat /\ t[i] \in Seq(S) /\ Len(t[i]) \in Nat
        /\ Len(g[i]) = p + Len(t[i])
        /\ \A k \in 1 .. Len(t[i]) : g[i][p + k] = t[i][k]
    BY <2>c DEF Concatenates
  <2>3. \A k \in 1 .. Len(f[i]) : f[n][k] = f[i][k]
    BY <1>1, <2>a, FlatteningPrefix
  <2>4. \A k \in 1 .. Len(g[i]) : f[n][k] = g[i][k]
    <3>1. \A k \in 1 .. Len(g[i]) : g[Len(t)][k] = g[i][k]
      BY <1>2, <2>a, FlatteningPrefix
    <3> QED BY <1>3, <3>1
  <2> HIDE DEF p
  <2>5. ASSUME NEW k \in 1 .. Len(s[i]), k \in 1 .. Len(t[i])
        PROVE  s[i][k] = t[i][k]
    <3>1. p + k \in 1 .. Len(f[i]) /\ p + k \in 1 .. Len(g[i])
      BY <2>1, <2>2, <2>5
    <3> QED BY <2>1, <2>2, <2>3, <2>4, <2>5, <3>1
  <2>6. Len(s[i]) = Len(t[i])
    <3>1. \A k \in 1 .. w : s[i][k] = t[i][k]
      <4> SUFFICES ASSUME NEW k \in 1 .. w PROVE s[i][k] = t[i][k]
        OBVIOUS
      <4>1. k \in 1 .. Len(s[i]) /\ k \in 1 .. Len(t[i])
        BY <2>1, <2>2
      <4> QED BY <2>5, <4>1
    <3> QED BY <3>1
  <2>7. s[i] = t[i]
    BY <2>1, <2>2, <2>5, <2>6, SeqEqual
  <2>8. f[i] = g[i]
    <3>1. f[i] = f[i - 1] \o s[i]
      BY <1>1 DEF Flattening
    <3>2. g[i] = g[i - 1] \o t[i]
      BY <1>2 DEF Flattening
    <3> QED BY <1>4, <2>7, <3>1, <3>2
  <2> QED BY <2>7, <2>8
<1>5. \A i \in 0 .. n : f[i] = g[i]
  <2> DEFINE P == {i \in 0 .. n : f[i] = g[i]}
  <2>1. 0 \in P
    BY <1>1, <1>2, <1>3 DEF Flattening
  <2>2. ASSUME NEW i \in Nat, i < n, i \in P PROVE i + 1 \in P
    <3>1. i + 1 \in 1 .. n /\ (i + 1) - 1 = i /\ i + 1 \in 0 .. n
      BY <1>3, <2>2
    <3>2. f[i] = g[i]
      BY <2>2
    <3>3. f[i + 1] = g[i + 1]
      <4> HIDE DEF P, n
      <4> QED BY <1>4, <3>1, <3>2
    <3> QED BY <3>1, <3>3
  <2>3. 0 .. n \subseteq P
    <3> HIDE DEF P, n
    <3> QED BY <1>3, <2>1, <2>2, SegmentInduction
  <2> QED BY <2>3
<1>6. ASSUME NEW i \in 1 .. n PROVE s[i] = t[i]
  <2>1. i - 1 \in 0 .. n
    BY <1>3
  <2>2. f[i - 1] = g[i - 1]
    BY <1>5, <2>1
  <2> QED BY <1>4, <2>2
<1>7. s \in Seq(Seq(S)) /\ t \in Seq(Seq(S))
  BY DEF Lists
<1> QED BY <1>6, <1>7, SeqEqual

\* Two lists of sequences of one width are equal only if the sequences are.
LEMMA WidthSeparates ==
  ASSUME NEW S, NEW s \in Lists(S), NEW t \in Lists(S), NEW w \in {2, 3, 4},
         \A i \in 1 .. Len(s) : Len(s[i]) = w,
         \A i \in 1 .. Len(t) : Len(t[i]) = w,
         FlattenSeq(s) = FlattenSeq(t)
  PROVE  s = t
<1>1. Len(FlattenSeq(s)) = w * Len(s) /\ Len(FlattenSeq(t)) = w * Len(t)
  BY FlattenWidth
<1>2. Len(s) = Len(t)
  <2>1. Len(s) \in Nat /\ Len(t) \in Nat /\ w * Len(s) = w * Len(t)
    BY <1>1, ListFacts
  <2> QED BY <2>1
<1>3. \A i \in 1 .. Len(s) :
        /\ Len(s[i]) >= w /\ Len(t[i]) >= w
        /\ (\A k \in 1 .. w : s[i][k] = t[i][k]) => Len(s[i]) = Len(t[i])
  BY <1>2
<1>4. w \in Nat
  OBVIOUS
<1> QED BY <1>2, <1>3, <1>4, FlattenSeparates, Zenon

\* A list that begins with a given element.
LEMMA ConsFacts ==
  ASSUME NEW S, NEW list \in Seq(S), NEW e
  PROVE  /\ Len(<<e>> \o list) = 1 + Len(list)
         /\ (<<e>> \o list)[1] = e
         /\ \A i \in 1 .. Len(list) : (<<e>> \o list)[1 + i] = list[i]
<1> DEFINE T == S \cup {e}
<1>1. <<e>> \in Seq(T) /\ Len(<<e>>) = 1 /\ <<e>>[1] = e
  OBVIOUS
<1>2. list \in Seq(T) /\ Len(list) \in Nat
  BY LenProperties
<1>3. /\ Len(<<e>> \o list) = Len(<<e>>) + Len(list)
      /\ \A i \in 1 .. Len(<<e>>) + Len(list) :
           (<<e>> \o list)[i] = IF i <= Len(<<e>>) THEN <<e>>[i] ELSE list[i - Len(<<e>>)]
  <2> HIDE DEF T
  <2> QED BY <1>1, <1>2, ConcatProperties
<1> DEFINE l == <<e>> \o list
<1>4. Len(l) = 1 + Len(list) /\ \A i \in 1 .. 1 + Len(list) :
        l[i] = IF i <= 1 THEN e ELSE list[i - 1]
  BY <1>1, <1>3
<1> HIDE DEF l
<1>5. l[1] = e
  BY <1>2, <1>4
<1>6. ASSUME NEW i \in 1 .. Len(list) PROVE l[1 + i] = list[i]
  <2>1. 1 + i \in 1 .. 1 + Len(list) /\ ~(1 + i <= 1) /\ (1 + i) - 1 = i
    BY <1>2
  <2> QED BY <1>4, <2>1
<1> QED BY <1>4, <1>5, <1>6 DEF l

\* A list that ends with a given element.
LEMMA SnocFacts ==
  ASSUME NEW S, NEW list \in Seq(S), NEW e
  PROVE  /\ list \o <<e>> \in Seq(S \cup {e})
         /\ Len(list \o <<e>>) = Len(list) + 1
         /\ \A i \in 1 .. Len(list) : (list \o <<e>>)[i] = list[i]
<1> DEFINE T == S \cup {e}
<1>1. <<e>> \in Seq(T) /\ Len(<<e>>) = 1
  OBVIOUS
<1>2. list \in Seq(T) /\ Len(list) \in Nat
  BY LenProperties
<1>3. /\ list \o <<e>> \in Seq(T)
      /\ Len(list \o <<e>>) = Len(list) + Len(<<e>>)
      /\ \A i \in 1 .. Len(list) + Len(<<e>>) :
           (list \o <<e>>)[i] = IF i <= Len(list) THEN list[i] ELSE <<e>>[i - Len(list)]
  <2> HIDE DEF T
  <2> QED BY <1>1, <1>2, ConcatProperties
<1> QED BY <1>1, <1>2, <1>3

\* FlattenSeq of lists of S is a list of S.
LEMMA FlattenTyped ==
  ASSUME NEW S, NEW seqs \in Lists(S)
  PROVE  FlattenSeq(seqs) \in Seq(S)
<1>1. PICK f : Flattening(f, seqs, S)
  BY FlatteningExists
<1>2. FlattenSeq(seqs) = f[Len(seqs)] /\ Len(seqs) \in 0 .. Len(seqs)
  BY <1>1, FlattenSeqIs, ListFacts
<1> QED BY <1>1, <1>2 DEF Flattening

\* Two lists with a front of one length are equal only if front and rest are.
LEMMA ConcatSeparates ==
  ASSUME NEW S, NEW a \in Seq(S), NEW b \in Seq(S), NEW c \in Seq(S), NEW d \in Seq(S),
         Len(a) = Len(b), a \o c = b \o d
  PROVE  a = b /\ c = d
<1>1. Len(a) \in Nat /\ Len(c) \in Nat /\ Len(d) \in Nat
  BY LenProperties
<1>2. /\ Len(a \o c) = Len(a) + Len(c)
      /\ \A i \in 1 .. Len(a) + Len(c) :
           (a \o c)[i] = IF i <= Len(a) THEN a[i] ELSE c[i - Len(a)]
  BY ConcatProperties
<1>3. /\ Len(b \o d) = Len(b) + Len(d)
      /\ \A i \in 1 .. Len(b) + Len(d) :
           (b \o d)[i] = IF i <= Len(b) THEN b[i] ELSE d[i - Len(b)]
  BY ConcatProperties
<1> DEFINE e == a \o c
<1>4. /\ \A i \in 1 .. Len(a) + Len(c) : e[i] = IF i <= Len(a) THEN a[i] ELSE c[i - Len(a)]
      /\ \A i \in 1 .. Len(a) + Len(d) : e[i] = IF i <= Len(a) THEN b[i] ELSE d[i - Len(a)]
      /\ Len(c) = Len(d)
  BY <1>1, <1>2, <1>3
<1> HIDE DEF e
<1>5. ASSUME NEW i \in 1 .. Len(a) PROVE a[i] = b[i]
  <2>1. i \in 1 .. Len(a) + Len(c) /\ i <= Len(a)
    BY <1>1
  <2> QED BY <1>4, <2>1
<1>6. ASSUME NEW i \in 1 .. Len(c) PROVE c[i] = d[i]
  <2>1. Len(a) + i \in 1 .. Len(a) + Len(c) /\ ~(Len(a) + i <= Len(a))
        /\ (Len(a) + i) - Len(a) = i
    BY <1>1
  <2> QED BY <1>4, <2>1
<1> QED BY <1>4, <1>5, <1>6, SeqEqual

\* Two lists with a first element are equal only if it is the same, and so is the rest.
LEMMA ConsSeparates ==
  ASSUME NEW S, NEW a \in Seq(S), NEW b \in Seq(S), NEW x, NEW y,
         <<x>> \o a = <<y>> \o b
  PROVE  x = y /\ a = b
<1> DEFINE T == S \cup {x, y}
<1>1. <<x>> \in Seq(T) /\ <<y>> \in Seq(T) /\ a \in Seq(T) /\ b \in Seq(T)
  OBVIOUS
<1>2. Len(<<x>>) = 1 /\ Len(<<y>>) = 1
  OBVIOUS
<1> HIDE DEF T
<1>3. <<x>> = <<y>> /\ a = b
  BY <1>1, <1>2, ConcatSeparates
<1> QED BY <1>3
=============================================================================
