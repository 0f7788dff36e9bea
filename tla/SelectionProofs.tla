--------------------------- MODULE SelectionProofs ---------------------------
(***************************************************************************)
(* What a loop that keeps some elements of a list makes, for any list, and *)
(* the induction over data that shows it.  The library's induction         *)
(* theorems are about operators, which the provers cannot instantiate; the *)
(* lemmas here say the same of sets of numbers, so that a proof by         *)
(* induction names the numbers for which its statement holds.              *)
(***************************************************************************)
EXTENDS Selection, SequencesExt, SequenceTheorems, WellFoundedInduction, TLAPS

\* A set of numbers that is not empty has a least one.
LEMMA Least ==
  ASSUME NEW T, T \subseteq Nat, T # {}
  PROVE  \E x \in T : \A y \in T : x <= y
<1> DEFINE R == {ss \in Nat \X Nat : ss[1] < ss[2]}
<1>1. IsWellFoundedOn(R, Nat)
  BY NatLessThanWellFounded, Zenon DEF OpToRel
<1>2. \A x, y \in Nat : y < x => <<y, x>> \in R
  OBVIOUS
<1> HIDE DEF R
<1>3. PICK x \in T : \A y \in T : ~(<<y, x>> \in R)
  BY <1>1, WFMin
<1>4. ASSUME NEW y \in T PROVE x <= y
  <2>1. x \in Nat /\ y \in Nat /\ ~(<<y, x>> \in R)
    BY <1>3
  <2>2. ~(y < x)
    BY <1>2, <2>1
  <2>. QED
    BY <2>1, <2>2
<1>. QED
  BY <1>3, <1>4

\* Induction up to a bound: a set that has 0, and with every number the next one.
LEMMA Induct ==
  ASSUME NEW N \in Nat, NEW T, 0 \in T, \A i \in 1 .. N : i - 1 \in T => i \in T
  PROVE  \A i \in 0 .. N : i \in T
<1> DEFINE U == (0 .. N) \ T
<1>1. SUFFICES ASSUME U # {} PROVE FALSE
  OBVIOUS
<1>2. PICK n \in U : \A y \in U : n <= y
  <2>1. U \subseteq Nat
    OBVIOUS
  <2> HIDE DEF U
  <2>. QED BY <1>1, <2>1, Least
<1>3. n \in 1 .. N /\ n - 1 \in 0 .. N /\ ~(n <= n - 1)
  BY <1>2
<1>4. n - 1 \in T
  BY <1>2, <1>3
<1>. QED
  BY <1>2, <1>3, <1>4

\* g is defined by recursion up to N, from a first value and functions from each
\* value to the next.
Recurs(g, N, S, start, next) ==
  g \in [0 .. N -> S] /\ g[0] = start /\ \A i \in 1 .. N : g[i] = next[i][g[i - 1]]

\* There is such a function.
LEMMA Recursion ==
  ASSUME NEW N \in Nat, NEW S, NEW start \in S, NEW next \in [1 .. N -> [S -> S]]
  PROVE  \E g : Recurs(g, N, S, start, next)
<1> DEFINE Up(n, g) ==
             g \in [0 .. n -> S] /\ g[0] = start /\ \A i \in 1 .. n : g[i] = next[i][g[i - 1]]
           T == {n \in 0 .. N : \E g : Up(n, g)}
<1>1. 0 \in T
  <2>1. Up(0, [i \in 0 .. 0 |-> start])
    OBVIOUS
  <2> HIDE DEF Up
  <2>2. \E g : Up(0, g)
    BY <2>1
  <2>. QED BY <2>2
<1>2. ASSUME NEW n \in 1 .. N, n - 1 \in T PROVE n \in T
  <2>1. PICK h : Up(n - 1, h)
    BY <1>2
  <2> DEFINE g == [i \in 0 .. n |-> IF i = n THEN next[n][h[n - 1]] ELSE h[i]]
  <2>2. n - 1 \in 0 .. n - 1 /\ next[n] \in [S -> S]
    OBVIOUS
  <2>3. h[n - 1] \in S
    BY <2>1, <2>2
  <2>4. g \in [0 .. n -> S]
    <3>1. \A i \in 0 .. n : i # n => i \in 0 .. n - 1
      OBVIOUS
    <3>. QED BY <2>1, <2>2, <2>3, <3>1
  <2>5. g[0] = start
    BY <2>1
  <2>6. ASSUME NEW i \in 1 .. n PROVE g[i] = next[i][g[i - 1]]
    <3>1. i - 1 \in 0 .. n /\ i - 1 # n /\ g[i - 1] = h[i - 1]
      OBVIOUS
    <3>2. CASE i = n
      BY <3>1, <3>2
    <3>3. CASE i # n
      <4>1. i \in 1 .. n - 1 /\ i \in 0 .. n
        BY <3>3
      <4>2. g[i] = h[i]
        BY <3>3, <4>1
      <4>3. h[i] = next[i][h[i - 1]]
        BY <2>1, <4>1
      <4>. QED BY <3>1, <4>2, <4>3
    <3>. QED BY <3>2, <3>3
  <2>7. Up(n, g)
    BY <2>4, <2>5, <2>6
  <2> HIDE DEF Up, g
  <2>8. \E h1 : Up(n, h1)
    BY <2>7
  <2>. QED
    BY <2>8
<1>3. N \in T
  <2> HIDE DEF T
  <2>1. \A i \in 0 .. N : i \in T
    BY <1>1, <1>2, Induct
  <2>. QED BY <2>1
<1>. QED
  BY <1>3 DEF Recurs

\* The recursion of Select.
Selects(g, S, s, positions) ==
  /\ g \in [0 .. Len(s) -> Seq(S)] /\ g[0] = <<>> /\ Select(s, positions) = g[Len(s)]
  /\ \A i \in 1 .. Len(s) :
       g[i] = IF i \in positions THEN Append(g[i - 1], s[i]) ELSE g[i - 1]
\* The recursion of Select goes through the list once.
LEMMA SelectRecursion ==
  ASSUME NEW S, NEW s \in Seq(S), NEW positions
  PROVE  \E g : Selects(g, S, s, positions)
<1> DEFINE N == Len(s)
           step(u, i) == IF i = 0 THEN <<>>
             ELSE IF i \in positions THEN Append(u[i - 1], s[i]) ELSE u[i - 1]
           next == [i \in 1 .. N |->
             [x \in Seq(S) |-> IF i \in positions THEN Append(x, s[i]) ELSE x]]
           f == CHOOSE f : f = [i \in 0 .. N |-> step(f, i)]
<1>1. N \in Nat /\ (\A i \in 1 .. N : s[i] \in S) /\ <<>> \in Seq(S)
  BY LenProperties, ElementOfSeq
<1>2. next \in [1 .. N -> [Seq(S) -> Seq(S)]]
  BY <1>1, AppendProperties
<1>3. PICK g : Recurs(g, N, Seq(S), <<>>, next)
  <2> HIDE DEF N, next
  <2>. QED BY <1>1, <1>2, Recursion
<1>b. g \in [0 .. N -> Seq(S)] /\ g[0] = <<>> /\ \A i \in 1 .. N : g[i] = next[i][g[i - 1]]
  <2> HIDE DEF N, next
  <2>. QED BY <1>3 DEF Recurs
<1>4. ASSUME NEW i \in 1 .. N
      PROVE  g[i] = IF i \in positions THEN Append(g[i - 1], s[i]) ELSE g[i - 1]
  <2>1. i - 1 \in 0 .. N
    BY <1>1
  <2>2. g[i - 1] \in Seq(S)
    <3> HIDE DEF N, next
    <3>. QED BY <1>b, <2>1
  <2>. QED BY <1>b, <2>2
<1>5. g = [i \in 0 .. N |-> step(g, i)]
  <2>1. \A i \in 0 .. N : i # 0 => i \in 1 .. N
    BY <1>1
  <2> HIDE DEF next, N
  <2>. QED BY <1>b, <1>4, <2>1, Zenon
<1>6. f = [i \in 0 .. N |-> step(f, i)]
  BY <1>5, Zenon
<1>7. \A i \in 0 .. N : f[i] = g[i]
  <2> DEFINE T == {i \in 0 .. N : f[i] = g[i]}
  <2>1. 0 \in T
    <3>1. 0 \in 0 .. N /\ step(f, 0) = <<>>
      BY <1>1
    <3> HIDE DEF f
    <3>2. f[0] = step(f, 0)
      BY <1>6, <3>1
    <3>. QED BY <1>b, <3>1, <3>2
  <2>2. ASSUME NEW i \in 1 .. N, i - 1 \in T PROVE i \in T
    <3>1. i \in 0 .. N /\ i # 0
      BY SMTT(40)
    <3>2. f[i] = step(f, i)
      BY <1>6, <3>1, Zenon
    <3>3. f[i - 1] = g[i - 1]
      BY <2>2
    <3> HIDE DEF f
    <3>. QED BY <1>4, <3>1, <3>2, <3>3
  <2> HIDE DEF T
  <2>3. \A i \in 0 .. N : i \in T
    BY <1>1, <2>1, <2>2, Induct
  <2>. QED BY <2>3 DEF T
<1>8. Select(s, positions) = f[N]
  BY DEF Select
<1>9. Select(s, positions) = g[N]
  <2> HIDE DEF f
  <2>. QED BY <1>1, <1>7, <1>8
<1>. QED
  BY <1>b, <1>4, <1>9 DEF Selects

\* What is selected: the elements at the positions, each once, in their order.
LEMMA SelectFacts ==
  ASSUME NEW S, NEW s \in Seq(S), NEW positions
  PROVE  /\ Select(s, positions) \in Seq(S)
         /\ \E pos \in [1 .. Len(Select(s, positions)) -> positions \cap (1 .. Len(s))] :
              /\ \A k \in 1 .. Len(Select(s, positions)) : Select(s, positions)[k] = s[pos[k]]
              /\ \A k, l \in 1 .. Len(Select(s, positions)) : k < l => pos[k] < pos[l]
              /\ \A i \in positions \cap (1 .. Len(s)) :
                   \E k \in 1 .. Len(Select(s, positions)) : pos[k] = i
<1>1. PICK g \in [0 .. Len(s) -> Seq(S)] :
        /\ g[0] = <<>> /\ Select(s, positions) = g[Len(s)]
        /\ \A i \in 1 .. Len(s) :
             g[i] = IF i \in positions THEN Append(g[i - 1], s[i]) ELSE g[i - 1]
  <2>1. PICK g : Selects(g, S, s, positions)
    BY SelectRecursion
  <2>. QED BY <2>1 DEF Selects
<1> DEFINE Chosen(u, n, pos) ==
             /\ pos \in [1 .. Len(u) -> positions \cap (1 .. n)]
             /\ \A k \in 1 .. Len(u) : u[k] = s[pos[k]]
             /\ \A k, l \in 1 .. Len(u) : k < l => pos[k] < pos[l]
             /\ \A i \in positions \cap (1 .. n) : \E k \in 1 .. Len(u) : pos[k] = i
           T == {n \in 0 .. Len(s) : \E pos : Chosen(g[n], n, pos)}
<1>2. Len(s) \in Nat /\ \A i \in 1 .. Len(s) : s[i] \in S
  BY LenProperties, ElementOfSeq
<1>3. 0 \in T
  <2>1. Len(g[0]) = 0
    BY <1>1
  <2>2. Chosen(g[0], 0, [k \in 1 .. 0 |-> 0])
    BY <2>1
  <2>. QED BY <1>2, <2>2
<1>4. ASSUME NEW n \in 1 .. Len(s), n - 1 \in T PROVE n \in T
  <2>1. PICK pos : Chosen(g[n - 1], n - 1, pos)
    BY <1>4
  <2>2. g[n - 1] \in Seq(S) /\ n \in 0 .. Len(s) /\ n - 1 \in 0 .. Len(s)
    BY <1>2
  <2> DEFINE u == g[n - 1]
             L == Len(g[n - 1])
  <2>3. L \in Nat
    BY <2>2, LenProperties
  <2>4. CASE n \notin positions
    <3>1. g[n] = u
      BY <1>1, <2>4
    <3>2. positions \cap (1 .. n) = positions \cap (1 .. n - 1)
      BY <2>4
    <3>3. Chosen(g[n], n, pos)
      BY <2>1, <3>1, <3>2
    <3>. QED BY <2>2, <3>3
  <2>5. CASE n \in positions
    <3> DEFINE v == Append(u, s[n])
               more == [k \in 1 .. L + 1 |-> IF k = L + 1 THEN n ELSE pos[k]]
    <3>1. g[n] = v
      BY <1>1, <2>5
    <3>2. Len(v) = L + 1 /\ v[L + 1] = s[n] /\ \A k \in 1 .. L : v[k] = u[k]
      BY <1>2, <2>2, AppendProperties
    <3>3. \A k \in 1 .. L : pos[k] \in positions \cap (1 .. n - 1)
      BY <2>1
    <3>a. more[L + 1] = n /\ \A k \in 1 .. L : more[k] = pos[k]
      BY <2>3
    <3>b. \A k \in 1 .. L + 1 : k = L + 1 \/ k \in 1 .. L
      BY <2>3
    <3>4. more \in [1 .. L + 1 -> positions \cap (1 .. n)]
      BY <2>3, <2>5, <3>3
    <3> HIDE DEF more, v
    <3>5. \A k \in 1 .. L + 1 : v[k] = s[more[k]]
      BY <2>1, <3>2, <3>a, <3>b
    <3>6. \A k, l \in 1 .. L + 1 : k < l => more[k] < more[l]
      <4>1. \A k, l \in 1 .. L + 1 : k < l => k \in 1 .. L
        BY <2>3
      <4>2. \A k, l \in 1 .. L : k < l => more[k] < more[l]
        BY <2>1, <3>a
      <4>3. \A k \in 1 .. L : more[k] < more[L + 1]
        BY <3>3, <3>a
      <4>. QED BY <4>1, <4>2, <4>3, <3>b
    <3>7. ASSUME NEW i \in positions \cap (1 .. n)
          PROVE  \E k \in 1 .. L + 1 : more[k] = i
      <4>1. CASE i = n
        BY <2>3, <3>a, <4>1
      <4>2. CASE i # n
        <5>1. i \in positions \cap (1 .. n - 1)
          BY <4>2
        <5>2. PICK k \in 1 .. L : pos[k] = i
          BY <2>1, <5>1
        <5>3. k \in 1 .. L + 1 /\ more[k] = i
          BY <2>3, <3>a, <5>2
        <5>. QED BY <5>3
      <4>. QED BY <4>1, <4>2
    <3>8. Chosen(g[n], n, more)
      BY <3>1, <3>2, <3>4, <3>5, <3>6, <3>7
    <3>. QED BY <2>2, <3>8
  <2>. QED BY <2>4, <2>5
<1>5. Len(s) \in T
  <2> HIDE DEF T
  <2>1. \A n \in 0 .. Len(s) : n \in T
    BY <1>2, <1>3, <1>4, Induct
  <2>. QED BY <1>2, <2>1
<1>6. PICK pos : Chosen(g[Len(s)], Len(s), pos)
  BY <1>5
<1>7. Select(s, positions) = g[Len(s)] /\ g[Len(s)] \in Seq(S)
  BY <1>1, <1>2
<1>. QED
  BY <1>6, <1>7, SMTT(40)
-----------------------------------------------------------------------------
(* A sequence of sequences, one after the other. *)

\* The recursion of FlattenSeq, which starts with the first sequence.
Flattens(g, S, seqs) ==
  /\ g \in [0 .. Len(seqs) -> Seq(S)] /\ g[0] = <<>> /\ FlattenSeq(seqs) = g[Len(seqs)]
  /\ \A i \in 1 .. Len(seqs) : g[i] = g[i - 1] \o seqs[i]
\* FlattenSeq follows that recursion.
LEMMA FlattenRecursion ==
  ASSUME NEW S, NEW seqs \in Seq(Seq(S))
  PROVE  \E g : Flattens(g, S, seqs)
<1> DEFINE N == Len(seqs)
           step(u, i) == IF i = 1 THEN seqs[i] ELSE u[i - 1] \o seqs[i]
           next == [i \in 1 .. N |-> [x \in Seq(S) |-> x \o seqs[i]]]
           f == CHOOSE f : f = [i \in 1 .. N |-> step(f, i)]
<1>1. N \in Nat /\ (\A i \in 1 .. N : seqs[i] \in Seq(S)) /\ <<>> \in Seq(S)
  BY LenProperties, ElementOfSeq
<1>2. next \in [1 .. N -> [Seq(S) -> Seq(S)]]
  BY <1>1, ConcatProperties
<1>3. PICK g : Recurs(g, N, Seq(S), <<>>, next)
  <2> HIDE DEF N, next
  <2>. QED BY <1>1, <1>2, Recursion
<1>4. g \in [0 .. N -> Seq(S)] /\ g[0] = <<>> /\ \A i \in 1 .. N : g[i] = next[i][g[i - 1]]
  <2> HIDE DEF N, next
  <2>. QED BY <1>3 DEF Recurs
<1>5. ASSUME NEW i \in 1 .. N PROVE g[i] = g[i - 1] \o seqs[i]
  <2>1. i - 1 \in 0 .. N
    BY <1>1
  <2>2. g[i - 1] \in Seq(S)
    <3> HIDE DEF N, next
    <3>. QED BY <1>4, <2>1
  <2>. QED BY <1>4, <2>2
<1>8. N # 0 => g[1] = seqs[1]
  <2>1. SUFFICES ASSUME N # 0 PROVE g[1] = seqs[1]
    OBVIOUS
  <2>2. 1 \in 1 .. N /\ seqs[1] \in Seq(S)
    BY <1>1, <2>1
  <2>3. g[1] = g[1 - 1] \o seqs[1]
    BY <1>5, <2>2
  <2>4. 1 - 1 = 0 /\ g[0] = <<>>
    BY <1>4
  <2>5. g[1] = <<>> \o seqs[1]
    BY <2>3, <2>4, Zenon
  <2>. QED BY <2>2, <2>5
<1>6. CASE N = 0
  <2>1. FlattenSeq(seqs) = seqs /\ seqs = <<>>
    BY <1>6, EmptySeq DEF FlattenSeq
  <2>. QED BY <1>4, <1>5, <1>6, <2>1 DEF Flattens
<1>7. CASE N # 0
  <2> DEFINE h == [i \in 1 .. N |-> g[i]]
  <2>1. h = [i \in 1 .. N |-> step(h, i)]
    <3>1. ASSUME NEW i \in 1 .. N PROVE h[i] = step(h, i)
      <4>1. CASE i = 1
        BY <1>7, <1>8, <4>1
      <4>2. CASE i # 1
        <5>1. i - 1 \in 1 .. N
          BY <1>1, <4>2
        <5>. QED BY <1>5, <4>2, Zenon, <5>1
      <4>. QED BY <4>1, <4>2
    <3> HIDE DEF step
    <3>. QED BY <3>1
  <2>2. f = [i \in 1 .. N |-> step(f, i)]
    BY <2>1, Zenon
  <2>3. \A i \in 1 .. N : f[i] = g[i]
    <3> DEFINE T == {i \in 0 .. N : i # 0 => f[i] = g[i]}
    <3>1. 0 \in T
      BY <1>1
    <3>2. ASSUME NEW i \in 1 .. N, i - 1 \in T PROVE i \in T
      <4>a. i \in 0 .. N
        BY <1>1
      <4>1. f[i] = step(f, i)
        <5> HIDE DEF f, step
        <5>. QED BY <2>2
      <4>2. i - 1 # 0 => f[i - 1] = g[i - 1]
        BY <3>2
      <4>3. CASE i = 1
        <5> HIDE DEF f
        <5>. QED BY <1>7, <1>8, <4>a, <4>1, <4>3
      <4>4. CASE i # 1
        <5>1. i - 1 # 0
          BY <1>1, <4>4
        <5>2. f[i] = f[i - 1] \o seqs[i]
          <6> HIDE DEF f
          <6>. QED BY <4>1, <4>4
        <5> HIDE DEF f
        <5>. QED BY <1>5, <4>a, <4>2, <5>1, <5>2
      <4>. QED BY <4>3, <4>4
    <3> HIDE DEF T
    <3>3. \A i \in 0 .. N : i \in T
      BY <1>1, <3>1, <3>2, Induct
    <3>4. \A i \in 1 .. N : i \in 0 .. N /\ i # 0
      BY <1>1
    <3> HIDE DEF f
    <3>. QED BY <3>3, <3>4 DEF T
  <2>4. FlattenSeq(seqs) = f[N]
    BY <1>7 DEF FlattenSeq
  <2>5. FlattenSeq(seqs) = g[N]
    <3> HIDE DEF f
    <3>. QED BY <1>1, <1>7, <2>3, <2>4
  <2>. QED BY <1>4, <1>5, <2>5 DEF Flattens
<1>. QED BY <1>6, <1>7

\* Every element is one of those of the sequences, and every one of those is there.
LEMMA FlattenFacts ==
  ASSUME NEW S, NEW seqs \in Seq(Seq(S))
  PROVE  /\ FlattenSeq(seqs) \in Seq(S)
         /\ \A k \in 1 .. Len(FlattenSeq(seqs)) :
              \E i \in 1 .. Len(seqs) : \E j \in 1 .. Len(seqs[i]) :
                FlattenSeq(seqs)[k] = seqs[i][j]
         /\ \A i \in 1 .. Len(seqs) : \A j \in 1 .. Len(seqs[i]) :
              \E k \in 1 .. Len(FlattenSeq(seqs)) : FlattenSeq(seqs)[k] = seqs[i][j]
<1>1. PICK g : Flattens(g, S, seqs)
  BY FlattenRecursion
<1>2. /\ g \in [0 .. Len(seqs) -> Seq(S)] /\ g[0] = <<>> /\ FlattenSeq(seqs) = g[Len(seqs)]
      /\ \A i \in 1 .. Len(seqs) : g[i] = g[i - 1] \o seqs[i]
  BY <1>1 DEF Flattens
<1> DEFINE From(u, n) == \A k \in 1 .. Len(u) :
             \E i \in 1 .. n : \E j \in 1 .. Len(seqs[i]) : u[k] = seqs[i][j]
           There(u, n) == \A i \in 1 .. n : \A j \in 1 .. Len(seqs[i]) :
             \E k \in 1 .. Len(u) : u[k] = seqs[i][j]
           T == {n \in 0 .. Len(seqs) : From(g[n], n) /\ There(g[n], n)}
<1>3. Len(seqs) \in Nat /\ \A i \in 1 .. Len(seqs) : seqs[i] \in Seq(S) /\ Len(seqs[i]) \in Nat
  BY LenProperties, ElementOfSeq
<1>4. 0 \in T
  BY <1>2, <1>3
<1>5. ASSUME NEW n \in 1 .. Len(seqs), n - 1 \in T PROVE n \in T
  <2> DEFINE u == g[n - 1]
             w == seqs[n]
             v == g[n]
  <2>1. n \in 0 .. Len(seqs) /\ n - 1 \in 0 .. Len(seqs) /\ n \in Nat
    BY <1>3
  <2>2. u \in Seq(S) /\ w \in Seq(S) /\ v = u \o w /\ Len(u) \in Nat /\ Len(w) \in Nat
    BY <1>2, <1>3, <2>1, LenProperties
  <2>3. From(u, n - 1) /\ There(u, n - 1)
    BY <1>5
  <2>a. w = seqs[n]
    OBVIOUS
  <2> HIDE DEF u, w, v
  <2>4. /\ Len(v) = Len(u) + Len(w) /\ \A k \in 1 .. Len(u) : v[k] = u[k]
        /\ \A k \in 1 .. Len(w) : v[Len(u) + k] = w[k]
    BY <2>2, ConcatProperties
  <2>5. ASSUME NEW k \in 1 .. Len(v)
        PROVE  \E i \in 1 .. n : \E j \in 1 .. Len(seqs[i]) : v[k] = seqs[i][j]
    <3>1. CASE k <= Len(u)
      <4>1. k \in 1 .. Len(u)
        BY <2>2, <2>4, <3>1
      <4>2. PICK i \in 1 .. n - 1 : \E j \in 1 .. Len(seqs[i]) : u[k] = seqs[i][j]
        BY <2>3, <4>1
      <4>3. i \in 1 .. n
        BY <2>1
      <4>. QED BY <2>4, <4>1, <4>2, <4>3
    <3>2. CASE ~(k <= Len(u))
      <4>1. k - Len(u) \in 1 .. Len(w) /\ Len(u) + (k - Len(u)) = k
        BY <2>2, <2>4, <3>2
      <4>2. v[k] = w[k - Len(u)]
        BY <2>4, <4>1
      <4>3. n \in 1 .. n
        BY <2>1
      <4>. QED BY <2>a, <4>1, <4>2, <4>3
    <3>. QED BY <3>1, <3>2
  <2>6. ASSUME NEW i \in 1 .. n, NEW j \in 1 .. Len(seqs[i])
        PROVE  \E k \in 1 .. Len(v) : v[k] = seqs[i][j]
    <3>1. CASE i = n
      <4>1. j \in 1 .. Len(w) /\ Len(u) + j \in 1 .. Len(v)
        BY <2>a, <2>2, <2>4, <3>1
      <4>2. v[Len(u) + j] = seqs[i][j]
        BY <2>a, <2>4, <3>1, <4>1
      <4>. QED BY <4>1, <4>2
    <3>2. CASE i # n
      <4>1. i \in 1 .. n - 1
        BY <2>1, <3>2
      <4>2. PICK k \in 1 .. Len(u) : u[k] = seqs[i][j]
        BY <2>3, <4>1
      <4>3. k \in 1 .. Len(v) /\ v[k] = u[k]
        BY <2>2, <2>4
      <4>. QED BY <4>2, <4>3
    <3>. QED BY <3>1, <3>2
  <2>7. From(v, n) /\ There(v, n)
    BY <2>5, <2>6
  <2>8. From(g[n], n) /\ There(g[n], n)
    BY <2>7 DEF v
  <2>. QED BY <2>1, <2>8
<1>6. Len(seqs) \in T
  <2> HIDE DEF T
  <2>1. \A n \in 0 .. Len(seqs) : n \in T
    BY <1>3, <1>4, <1>5, Induct
  <2>. QED BY <1>3, <2>1
<1>7. FlattenSeq(seqs) \in Seq(S)
  BY <1>2, <1>3, SMTT(40)
<1>8. From(FlattenSeq(seqs), Len(seqs)) /\ There(FlattenSeq(seqs), Len(seqs))
  BY <1>2, <1>6
<1>. QED
  BY <1>7, <1>8
=============================================================================
