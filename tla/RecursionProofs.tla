-------------------------- MODULE RecursionProofs --------------------------
(***************************************************************************)
(* Lemmas the other proofs share: least and greatest elements of sets of   *)
(* numbers, steps that build a function one value at a time, and what the  *)
(* concatenation of a sequence of sequences holds.                         *)
(***************************************************************************)
EXTENDS Integers, SequencesExt, SequenceTheorems, WellFoundedInduction, TLAPS

\* A set of numbers that is not empty has a least one.
LEMMA LeastOf ==
  ASSUME NEW S, S \subseteq Nat, S # {}
  PROVE  \E x \in S : \A y \in S : x <= y
<1>1. PICK x \in S : \A y \in S : ~ (<<y, x>> \in OpToRel(<, Nat))
  BY NatLessThanWellFounded, WFMin
<1>2. \A y \in S : x <= y
  <2> SUFFICES ASSUME NEW y \in S PROVE x <= y
    OBVIOUS
  <2>1. x \in Nat /\ y \in Nat
    OBVIOUS
  <2>2. ~ (y < x)
    BY <1>1, <2>1 DEF OpToRel
  <2> QED
    BY <2>1, <2>2
<1> QED
  BY <1>2

\* Steps through S from base: f has the value after each.
Steps(f, base, g, n) ==
  f = [k \in 0 .. n |-> IF k = 0 THEN base ELSE g[<<k, f[k - 1]>>]]

LEMMA StepsExist ==
  ASSUME NEW l \in Nat, NEW S, NEW base \in S, NEW g \in [(1 .. l) \X S -> S]
  PROVE  \E f \in [0 .. l -> S] : Steps(f, base, g, l)
<1> DEFINE Bad == {n \in 0 .. l : ~ \E f \in [0 .. n -> S] : Steps(f, base, g, n)}
<1> SUFFICES ASSUME Bad # {} PROVE FALSE
  OBVIOUS
<1>1. PICK n \in Bad : \A m \in Bad : n <= m
  <2>1. Bad \subseteq Nat
    OBVIOUS
  <2> HIDE DEF Bad
  <2> QED
    BY <2>1, LeastOf
<1>2. n \in 0 .. l /\ ~ \E f \in [0 .. n -> S] : Steps(f, base, g, n)
  BY <1>1
<1>3. CASE n = 0
  <2>1. Steps([k \in 0 .. 0 |-> base], base, g, 0) /\ [k \in 0 .. 0 |-> base] \in [0 .. 0 -> S]
    BY DEF Steps
  <2> QED
    BY <1>2, <1>3, <2>1
<1>4. CASE n # 0
  <2>1. n - 1 \in 0 .. l /\ n \in 1 .. l /\ ~ (n - 1 \in Bad)
    BY <1>1, <1>2, <1>4
  <2>2. PICK e \in [0 .. n - 1 -> S] : Steps(e, base, g, n - 1)
    BY <2>1
  <2> DEFINE h == [k \in 0 .. n |-> IF k = n THEN g[<<n, e[n - 1]>>] ELSE e[k]]
  <2>3. \A k \in 0 .. n - 1 : h[k] = e[k]
    BY <2>1
  <2>4. h \in [0 .. n -> S]
    <3>1. g[<<n, e[n - 1]>>] \in S
      BY <2>1, <2>2
    <3> QED
      BY <2>1, <2>2, <3>1
  <2>5. Steps(h, base, g, n)
    <3> SUFFICES ASSUME NEW k \in 0 .. n
                 PROVE  h[k] = IF k = 0 THEN base ELSE g[<<k, h[k - 1]>>]
      BY DEF Steps
    <3>1. CASE k = n
      <4>1. h[n] = g[<<n, e[n - 1]>>] /\ h[n - 1] = e[n - 1] /\ n # 0
        BY <1>4, <2>1, <2>3
      <4> HIDE DEF h
      <4> QED
        BY <3>1, <4>1
    <3>2. CASE k # n
      <4>1. k \in 0 .. n - 1 /\ (k # 0 => k - 1 \in 0 .. n - 1)
        BY <2>1, <3>2
      <4>2. e[k] = IF k = 0 THEN base ELSE g[<<k, e[k - 1]>>]
        BY <2>2, <4>1 DEF Steps
      <4> HIDE DEF h
      <4> QED
        BY <2>3, <4>1, <4>2
    <3> QED
      BY <3>1, <3>2
  <2> HIDE DEF h
  <2> QED
    BY <1>2, <2>4, <2>5
<1> QED
  BY <1>3, <1>4

\* A set of positions that is not empty has a first one.
LEMMA FirstIn ==
  ASSUME NEW S, S \subseteq Nat, S # {}
  PROVE  Min(S) \in S /\ \A y \in S : Min(S) <= y
<1>1. \E x \in S : \A y \in S : x =< y
  BY LeastOf
<1> QED
  BY <1>1 DEF Min

\* A set of numbers up to n that is not empty has a last one.
LEMMA LastIn ==
  ASSUME NEW n \in Nat, NEW S, S \subseteq 0 .. n, S # {}
  PROVE  Max(S) \in S /\ \A y \in S : Max(S) >= y
<1> DEFINE T == {n - x : x \in S}
<1>1. T \subseteq Nat /\ T # {}
  OBVIOUS
<1>2. PICK m \in T : \A y \in T : m <= y
  <2> HIDE DEF T
  <2> QED
    BY <1>1, LeastOf
<1>3. PICK x \in S : m = n - x
  BY <1>2
<1>4. \A y \in S : x >= y
  <2> SUFFICES ASSUME NEW y \in S PROVE x >= y
    OBVIOUS
  <2>1. n - y \in T /\ x \in 0 .. n /\ y \in 0 .. n
    BY <1>3
  <2>2. n - x <= n - y
    BY <1>2, <1>3, <2>1
  <2> QED
    BY <2>1, <2>2
<1>5. \E z \in S : \A y \in S : z >= y
  BY <1>4
<1> QED
  BY <1>5 DEF Max

-----------------------------------------------------------------------------
(* Sequences laid end to end.                                              *)

\* Where each of the sequences begins, one before its first element: off[k] is the
\* length of the first k together.
Offsets(off, seqs) ==
  /\ off \in [0 .. Len(seqs) -> Nat] /\ off[0] = 0
  /\ \A k \in 1 .. Len(seqs) : off[k] = off[k - 1] + Len(seqs[k])

\* The first n of the sequences are in s, one behind the other.
Laid(s, off, seqs, n) ==
  /\ Len(s) = off[n]
  /\ \A k \in 1 .. n : \A j \in 1 .. Len(seqs[k]) : s[off[k - 1] + j] = seqs[k][j]

LEMMA OffsetsExist ==
  ASSUME NEW S, NEW seqs \in Seq(Seq(S))
  PROVE  \E off : Offsets(off, seqs)
<1> DEFINE n == Len(seqs)
           g == [e \in (1 .. n) \X Nat |-> e[2] + Len(seqs[e[1]])]
<1>1. n \in Nat /\ \A k \in 1 .. n : Len(seqs[k]) \in Nat
  OBVIOUS
<1>2. g \in [(1 .. n) \X Nat -> Nat]
  BY <1>1
<1>3. PICK f \in [0 .. n -> Nat] : Steps(f, 0, g, n)
  <2> HIDE DEF g, n
  <2> QED
    BY <1>1, <1>2, StepsExist
<1>4. ASSUME NEW k \in 0 .. n
      PROVE  f[k] = IF k = 0 THEN 0 ELSE f[k - 1] + Len(seqs[k])
  <2>1. f[k] = IF k = 0 THEN 0 ELSE g[<<k, f[k - 1]>>]
    BY <1>3 DEF Steps
  <2>2. k # 0 => k \in 1 .. n /\ f[k - 1] \in Nat
    <3> HIDE DEF g, n
    <3> QED
      BY <1>1, <1>3
  <2>3. k # 0 => g[<<k, f[k - 1]>>] = f[k - 1] + Len(seqs[k])
    <3> HIDE DEF n
    <3> QED
      BY <2>2
  <2> QED
    BY <2>1, <2>3
<1>5. Offsets(f, seqs)
  <2> HIDE DEF g
  <2> QED
    BY <1>1, <1>3, <1>4 DEF Offsets
<1> QED
  BY <1>5

\* Later sequences begin later.
LEMMA OffsetsRise ==
  ASSUME NEW S, NEW seqs \in Seq(Seq(S)), NEW off, Offsets(off, seqs),
         NEW a \in 0 .. Len(seqs), NEW b \in a .. Len(seqs)
  PROVE  off[a] <= off[b]
<1> DEFINE Bad == {k \in a .. Len(seqs) : ~ (off[a] <= off[k])}
<1>1. /\ Len(seqs) \in Nat /\ a \in Nat
      /\ \A k \in 0 .. Len(seqs) : off[k] \in Nat
      /\ \A k \in 1 .. Len(seqs) : off[k] = off[k - 1] + Len(seqs[k]) /\ Len(seqs[k]) \in Nat
  BY DEF Offsets
<1>2. Bad = {}
  <2> SUFFICES ASSUME Bad # {} PROVE FALSE
    OBVIOUS
  <2>1. Bad \subseteq Nat
    BY <1>1
  <2>2. PICK k \in Bad : \A m \in Bad : k <= m
    <3> HIDE DEF Bad
    <3> QED
      BY <2>1, LeastOf
  <2>3. k \in a .. Len(seqs) /\ ~ (off[a] <= off[k]) /\ k # a
    BY <1>1, <2>2
  <2>4. k - 1 \in a .. Len(seqs) /\ ~ (k - 1 \in Bad) /\ k \in 1 .. Len(seqs)
    BY <1>1, <2>1, <2>2, <2>3
  <2>5. off[a] <= off[k - 1]
    BY <2>4
  <2>6. off[k] = off[k - 1] + Len(seqs[k]) /\ Len(seqs[k]) \in Nat
        /\ off[a] \in Nat /\ off[k] \in Nat /\ off[k - 1] \in Nat
    BY <1>1, <2>4
  <2> HIDE DEF Bad
  <2> QED
    BY <2>3, <2>5, <2>6
<1> QED
  BY <1>2

\* One more laid behind the others.
LEMMA LaidFurther ==
  ASSUME NEW S, NEW seqs \in Seq(Seq(S)), NEW off, Offsets(off, seqs),
         NEW n \in 0 .. Len(seqs) - 1, NEW s \in Seq(S), Laid(s, off, seqs, n)
  PROVE  s \o seqs[n + 1] \in Seq(S) /\ Laid(s \o seqs[n + 1], off, seqs, n + 1)
<1> DEFINE t == seqs[n + 1]
           r == s \o t
<1>1. /\ Len(seqs) \in Nat /\ n + 1 \in 1 .. Len(seqs) /\ n \in Nat
      /\ \A k \in 1 .. Len(seqs) : seqs[k] \in Seq(S)
  OBVIOUS
<1>2. t \in Seq(S) /\ Len(t) \in Nat /\ Len(s) \in Nat
  BY <1>1
<1>3. /\ r \in Seq(S) /\ Len(r) = Len(s) + Len(t)
      /\ \A i \in 1 .. Len(r) : r[i] = IF i <= Len(s) THEN s[i] ELSE t[i - Len(s)]
  <2> HIDE DEF t
  <2> QED
    BY <1>2, ConcatProperties
<1> HIDE DEF r
<1>4. /\ Len(s) = off[n] /\ off[n + 1] = off[n] + Len(t)
      /\ \A k \in 0 .. Len(seqs) : off[k] \in Nat
      /\ \A k \in 1 .. Len(seqs) : off[k] = off[k - 1] + Len(seqs[k])
  <2>1. /\ \A k \in 0 .. Len(seqs) : off[k] \in Nat
        /\ \A k \in 1 .. Len(seqs) : off[k] = off[k - 1] + Len(seqs[k])
    BY DEF Offsets
  <2>2. off[n + 1] = off[(n + 1) - 1] + Len(seqs[n + 1]) /\ (n + 1) - 1 = n
    BY <1>1, <2>1
  <2> QED
    BY <2>1, <2>2 DEF Laid
<1>5. ASSUME NEW k \in 1 .. n + 1, NEW j \in 1 .. Len(seqs[k])
      PROVE  r[off[k - 1] + j] = seqs[k][j]
  <2>1. CASE k = n + 1
    <3>1. k - 1 = n /\ seqs[k] = t /\ j \in 1 .. Len(t)
      BY <1>1, <2>1
    <3>2. off[n] + j \in 1 .. Len(r) /\ off[n] + j > Len(s) /\ (off[n] + j) - Len(s) = j
      BY <1>2, <1>3, <1>4, <3>1
    <3> HIDE DEF t
    <3> QED
      BY <1>3, <3>1, <3>2
  <2>2. CASE k # n + 1
    <3>1. k \in 1 .. n /\ k \in 1 .. Len(seqs) /\ k - 1 \in 0 .. Len(seqs) /\ j \in Nat
      BY <1>1, <2>2
    <3>2. s[off[k - 1] + j] = seqs[k][j]
      BY <3>1 DEF Laid
    <3>3. off[k] <= off[n]
      <4>1. CASE k = n
        BY <4>1, <1>4, <3>1
      <4>2. CASE k # n
        BY <4>2, <1>1, <1>4, <3>1, OffsetsRise
      <4> QED
        BY <4>1, <4>2
    <3>4. off[k - 1] + j <= off[k] /\ off[k - 1] \in Nat /\ off[k] \in Nat /\ j >= 1
      <4>1. off[k] = off[k - 1] + Len(seqs[k]) /\ off[k - 1] \in Nat /\ Len(seqs[k]) \in Nat
        BY <1>1, <1>4, <3>1
      <4> QED
        BY <4>1
    <3>5. off[k - 1] + j \in 1 .. Len(r) /\ off[k - 1] + j <= Len(s)
      <4>1. Len(r) = Len(s) + Len(t) /\ Len(s) = off[n] /\ Len(s) \in Nat /\ Len(t) \in Nat
        BY <1>2, <1>3, <1>4
      <4>2. ASSUME NEW a \in Nat, NEW b \in Nat, NEW c \in Nat, NEW d \in Nat,
                   NEW i \in Nat, i >= 1, a + i <= b, b <= c
            PROVE  a + i \in 1 .. c + d /\ a + i <= c
        BY <4>2
      <4> HIDE DEF t
      <4>3. PICK a \in Nat, b \in Nat, c \in Nat, d \in Nat :
              a = off[k - 1] /\ b = off[k] /\ c = Len(s) /\ d = Len(t)
        BY <3>4, <4>1
      <4>4. j \in Nat /\ j >= 1 /\ a + j <= b /\ b <= c
        BY <3>1, <3>3, <3>4, <4>1, <4>3
      <4>5. a + j \in 1 .. c + d /\ a + j <= c
        BY <4>2, <4>4
      <4> QED
        BY <4>1, <4>3, <4>5
    <3> QED
      BY <1>3, <3>2, <3>5
  <2> QED
    BY <2>1, <2>2
<1> QED
  BY <1>1, <1>2, <1>3, <1>4, <1>5 DEF Laid, r

\* The concatenation holds each of the sequences where its offset says.
LEMMA FlattenLaid ==
  ASSUME NEW S, NEW seqs \in Seq(Seq(S)), NEW off, Offsets(off, seqs)
  PROVE  FlattenSeq(seqs) \in Seq(S) /\ Laid(FlattenSeq(seqs), off, seqs, Len(seqs))
<1>1. Len(seqs) \in Nat /\ \A k \in 1 .. Len(seqs) : seqs[k] \in Seq(S)
  OBVIOUS
<1>2. CASE Len(seqs) = 0
  <2>1. seqs = <<>>
    BY <1>2, EmptySeq
  <2>2. FlattenSeq(seqs) = <<>>
    BY <1>2, <2>1 DEF FlattenSeq
  <2>3. <<>> \in Seq(S) /\ Len(<<>>) = 0
    OBVIOUS
  <2> QED
    BY <1>2, <2>2, <2>3 DEF Laid, Offsets
<1>3. CASE Len(seqs) # 0
  <2> DEFINE n == Len(seqs)
             Is(f) == f = [i \in 1 .. n |-> IF i = 1 THEN seqs[i] ELSE f[i - 1] \o seqs[i]]
             flatten == CHOOSE f : Is(f)
  <2>1. FlattenSeq(seqs) = flatten[n]
    BY <1>3 DEF FlattenSeq
  <2>2. \E f : Is(f)
    <3> DEFINE g == [e \in (1 .. n) \X Seq(S) |-> IF e[1] = 1 THEN seqs[1] ELSE e[2] \o seqs[e[1]]]
    <3>1. n \in Nat /\ <<>> \in Seq(S) /\ n >= 1
      BY <1>1, <1>3
    <3>2. g \in [(1 .. n) \X Seq(S) -> Seq(S)]
      <4> SUFFICES ASSUME NEW e \in (1 .. n) \X Seq(S)
                   PROVE  (IF e[1] = 1 THEN seqs[1] ELSE e[2] \o seqs[e[1]]) \in Seq(S)
        BY Zenon
      <4>1. e[1] \in 1 .. n /\ e[2] \in Seq(S) /\ seqs[1] \in Seq(S) /\ seqs[e[1]] \in Seq(S)
        BY <1>1, <3>1
      <4>2. e[2] \o seqs[e[1]] \in Seq(S)
        BY <4>1, ConcatProperties
      <4> QED
        BY <4>1, <4>2
    <3>3. PICK f \in [0 .. n -> Seq(S)] : Steps(f, <<>>, g, n)
      <4> HIDE DEF g, n
      <4> QED
        BY <3>1, <3>2, StepsExist
    <3> DEFINE h == [i \in 1 .. n |-> f[i]]
    <3>4. ASSUME NEW i \in 1 .. n
          PROVE  h[i] = IF i = 1 THEN seqs[i] ELSE h[i - 1] \o seqs[i]
      <4>1. i \in 0 .. n /\ i # 0 /\ i - 1 \in 0 .. n /\ (i # 1 => i - 1 \in 1 .. n)
        BY <3>1
      <4>2. f[i] = g[<<i, f[i - 1]>>] /\ f[i - 1] \in Seq(S)
        <5> HIDE DEF g, n
        <5> QED
          BY <3>3, <4>1 DEF Steps
      <4>3. g[<<i, f[i - 1]>>] = IF i = 1 THEN seqs[1] ELSE f[i - 1] \o seqs[i]
        <5> HIDE DEF n
        <5> QED
          BY <4>2
      <4> HIDE DEF n, g
      <4> QED
        BY <4>1, <4>2, <4>3
    <3>5. Is(h)
      <4> HIDE DEF n
      <4> QED
        BY <3>4
    <3> QED
      BY <3>5
  <2>3. Is(flatten)
    <3> HIDE DEF Is
    <3> QED
      BY <2>2
  <2>4. /\ flatten[1] = seqs[1]
        /\ \A i \in 1 .. n : i # 1 => flatten[i] = flatten[i - 1] \o seqs[i]
    <3>1. 1 \in 1 .. n
      BY <1>1, <1>3
    <3> HIDE DEF n, flatten
    <3> QED
      BY <2>3, <3>1
  <2> HIDE DEF flatten, Is
  <2> DEFINE Good(k) == flatten[k] \in Seq(S) /\ Laid(flatten[k], off, seqs, k)
             Bad == {k \in 1 .. n : ~ Good(k)}
  <2>5. Good(1)
    <3>1. 1 \in 1 .. n /\ off[1] = off[1 - 1] + Len(seqs[1]) /\ off[0] = 0 /\ 1 - 1 = 0
          /\ Len(seqs[1]) \in Nat /\ seqs[1] \in Seq(S)
      BY <1>1, <1>3 DEF Offsets
    <3>2. \A k \in 1 .. 1 : k = 1
      OBVIOUS
    <3>3. \A k \in 1 .. 1 : \A j \in 1 .. Len(seqs[k]) : flatten[1][off[k - 1] + j] = seqs[k][j]
      <4> SUFFICES ASSUME NEW j \in 1 .. Len(seqs[1])
                   PROVE  flatten[1][off[1 - 1] + j] = seqs[1][j]
        BY <3>2
      <4>1. off[1 - 1] + j = j
        BY <3>1
      <4> QED
        BY <2>4, <4>1
    <3>4. Len(flatten[1]) = off[1]
      BY <2>4, <3>1
    <3> QED
      BY <2>4, <3>1, <3>3, <3>4 DEF Laid
  <2>6. ASSUME NEW k \in 1 .. n - 1, Good(k) PROVE Good(k + 1)
    <3>1. k \in 0 .. Len(seqs) - 1 /\ k + 1 \in 1 .. n /\ k + 1 # 1 /\ (k + 1) - 1 = k
      BY <1>1
    <3>2. flatten[k + 1] = flatten[k] \o seqs[k + 1]
      BY <2>4, <3>1
    <3> QED
      BY <2>6, <3>1, <3>2, LaidFurther
  <2>7. Bad = {}
    <3> SUFFICES ASSUME Bad # {} PROVE FALSE
      OBVIOUS
    <3>1. PICK k \in Bad : \A m \in Bad : k <= m
      <4>1. Bad \subseteq Nat
        OBVIOUS
      <4> HIDE DEF Bad
      <4> QED
        BY <4>1, LeastOf
    <3> HIDE DEF Good
    <3>2. k \in 1 .. n /\ ~ Good(k)
      BY <3>1
    <3>3. k # 1
      BY <2>5, <3>2
    <3>4. k - 1 \in 1 .. n - 1 /\ ~ (k - 1 \in Bad)
      BY <1>1, <3>1, <3>2, <3>3
    <3>5. Good(k - 1) /\ (k - 1) + 1 = k
      BY <1>1, <3>2, <3>4
    <3> QED
      BY <2>6, <3>2, <3>4, <3>5
  <2>8. Good(n)
    <3> HIDE DEF Good
    <3>1. n \in 1 .. n
      BY <1>1, <1>3
    <3> QED
      BY <2>7, <3>1
  <2> QED
    BY <2>1, <2>8
<1> QED
  BY <1>2, <1>3

=============================================================================
