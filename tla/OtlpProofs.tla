----------------------------- MODULE OtlpProofs -----------------------------
(***************************************************************************)
(* Lemmas about the operators of Otlp, for any request: sums, flattened    *)
(* sequences, the spans that take effect in a text and the text spliced    *)
(* around them, the numbering of the records.                              *)
(***************************************************************************)
EXTENDS Otlp, SequenceTheorems, FiniteSetTheorems, WellFoundedInduction, TLAPS

\* A set of naturals that is not empty has a smallest element.
LEMMA Smallest ==
    ASSUME NEW S \in SUBSET Nat, S # {}
    PROVE  Min(S) \in S /\ \A y \in S : Min(S) <= y
<1> DEFINE R == {p \in Nat \X Nat : p[1] < p[2]}
<1>1. IsWellFoundedOn(R, Nat)
  BY NatLessThanWellFounded DEF OpToRel
<1>2. PICK x \in S : \A y \in S : <<y, x>> \notin R
  <2> HIDE DEF R
  <2> QED BY <1>1, WFMin
<1>3. ASSUME NEW y \in S PROVE x <= y
  <2>1. y \in Nat /\ x \in Nat
    OBVIOUS
  <2>2. ~(y < x)
    BY <1>2, <2>1
  <2> QED BY <2>1, <2>2
<1> QED BY <1>3 DEF Min

\* A set of naturals with 0 and the successor of each of its elements has all.
LEMMA NatInd ==
    ASSUME NEW S \in SUBSET Nat, 0 \in S, \A n \in S : n + 1 \in S
    PROVE  S = Nat
<1> SUFFICES ASSUME Nat \ S # {} PROVE FALSE
  OBVIOUS
<1>1. Min(Nat \ S) \in Nat \ S /\ \A y \in Nat \ S : Min(Nat \ S) <= y
  BY Smallest
<1>2. Min(Nat \ S) - 1 \in S
  BY <1>1
<1> QED BY <1>1, <1>2

\* g is what n steps make of b, each value from the one before.
Folds(g, n, b, A, step) ==
    /\ g \in [0 .. n -> A] /\ g[0] = b
    /\ \A i \in 1 .. n : g[i] = step[<<g[i - 1], i>>]

\* A step from each value to the next makes a function of the number of steps.
LEMMA FoldExists ==
    ASSUME NEW A, NEW N \in Nat, NEW b \in A, NEW step \in [A \X (1 .. N) -> A]
    PROVE  \E g : Folds(g, N, b, A, step)
<1> DEFINE S == {n \in Nat : n <= N => \E g : Folds(g, n, b, A, step)}
<1>1. 0 \in S
  <2>1. Folds([i \in 0 .. 0 |-> b], 0, b, A, step)
    BY DEF Folds
  <2> QED BY <2>1
<1>2. ASSUME NEW n \in S PROVE n + 1 \in S
  <2> SUFFICES ASSUME n + 1 <= N PROVE \E g : Folds(g, n + 1, b, A, step)
    OBVIOUS
  <2>1. PICK g : Folds(g, n, b, A, step)
    BY <1>2
  <2> DEFINE h == [i \in 0 .. n + 1 |-> IF i = n + 1 THEN step[<<g[n], n + 1>>] ELSE g[i]]
  <2>2. step[<<g[n], n + 1>>] \in A
    BY <2>1 DEF Folds
  <2>3. h \in [0 .. n + 1 -> A] /\ h[0] = b
    BY <2>1, <2>2 DEF Folds
  <2>4. ASSUME NEW i \in 1 .. n + 1 PROVE h[i] = step[<<h[i - 1], i>>]
    <3>1. h[i - 1] = g[i - 1]
      OBVIOUS
    <3>2. CASE i = n + 1
      <4>1. i - 1 = n /\ h[i] = step[<<g[n], n + 1>>] /\ h[n] = g[n]
        BY <3>2
      <4> QED BY <3>2, <4>1
    <3>3. CASE i # n + 1
      <4>1. i \in 1 .. n /\ h[i] = g[i]
        BY <3>3
      <4> QED BY <2>1, <3>1, <4>1 DEF Folds
    <3> QED BY <3>2, <3>3
  <2> QED BY <2>3, <2>4 DEF Folds
<1>3. S = Nat
  <2> HIDE DEF S
  <2>1. S \in SUBSET Nat
    BY DEF S
  <2> QED BY <1>1, <1>2, <2>1, NatInd
<1>4. N \in S
  BY <1>3
<1>5. \E g : Folds(g, N, b, A, step)
  BY <1>4
<1> QED BY <1>5

-----------------------------------------------------------------------------
(* Sums *)

\* A sequence of naturals has a sum, reached through its partial sums.
LEMMA SumIs ==
    ASSUME NEW N \in Nat, NEW c \in [1 .. N -> Nat]
    PROVE  \E s \in [0 .. N -> Nat] : /\ s[0] = 0 /\ SumOf(c) = s[N]
                                      /\ \A i \in 1 .. N : s[i] = s[i - 1] + c[i]
<1>0. c \in Seq(Nat) /\ Len(c) = N
  <2>1. c \in Seq(Nat)
    BY SeqDef
  <2> QED BY <2>1, LenProperties
<1> DEFINE add == [p \in Nat \X (1 .. N) |-> p[1] + c[p[2]]]
           F(s) == [i \in 0 .. Len(c) |-> IF i = 0 THEN 0 ELSE s[i - 1] + c[i]]
           sum == CHOOSE s : s = F(s)
<1>1. PICK g \in [0 .. N -> Nat] : g[0] = 0 /\ \A i \in 1 .. N : g[i] = add[<<g[i - 1], i>>]
  <2>1. add \in [Nat \X (1 .. N) -> Nat] /\ 0 \in Nat
    OBVIOUS
  <2> HIDE DEF add
  <2>2. PICK g : Folds(g, N, 0, Nat, add)
    BY <2>1, FoldExists
  <2> QED BY <2>2 DEF Folds
<1>2. g = F(g)
  <2>1. ASSUME NEW i \in 1 .. N PROVE g[i] = g[i - 1] + c[i]
    <3>1. <<g[i - 1], i>> \in Nat \X (1 .. N)
      OBVIOUS
    <3>2. add[<<g[i - 1], i>>] = g[i - 1] + c[i]
      BY <3>1
    <3> QED BY <1>1, <3>2
  <2>2. DOMAIN g = 0 .. Len(c) /\ g = [i \in DOMAIN g |-> g[i]]
    BY <1>0
  <2>3. \A i \in 0 .. Len(c) : g[i] = F(g)[i]
    BY <1>0, <1>1, <2>1
  <2> QED BY <2>2, <2>3
<1>3. sum = F(sum)
  BY <1>2
<1>4. SumOf(c) = sum[N]
  BY <1>0 DEF SumOf
<1> HIDE DEF sum
<1>5. DOMAIN sum = 0 .. N /\ sum[0] = 0 /\ \A i \in 1 .. N : sum[i] = sum[i - 1] + c[i]
  BY <1>0, <1>3
<1>6. \A i \in 0 .. N : sum[i] \in Nat
  <2> DEFINE S == {n \in Nat : n <= N => sum[n] \in Nat}
  <2>1. 0 \in S
    BY <1>5
  <2>2. ASSUME NEW n \in S PROVE n + 1 \in S
    BY <1>5
  <2>3. S = Nat
    <3> HIDE DEF S
    <3>1. S \in SUBSET Nat
      BY DEF S
    <3> QED BY <2>1, <2>2, <3>1, NatInd
  <2> QED BY <2>3
<1>7. sum = [i \in 0 .. N |-> sum[i]]
  BY <1>0, <1>3
<1>8. sum \in [0 .. N -> Nat]
  BY <1>6, <1>7
<1> QED BY <1>4, <1>5, <1>8

\* Partial sums are determined by their steps.
LEMMA SumUnique ==
    ASSUME NEW N \in Nat, NEW n \in 0 .. N, NEW c \in [1 .. N -> Nat],
           NEW s \in [0 .. n -> Nat], NEW t \in [0 .. N -> Nat], s[0] = t[0],
           \A i \in 1 .. n : s[i] = s[i - 1] + c[i] /\ t[i] = t[i - 1] + c[i]
    PROVE  \A i \in 0 .. n : s[i] = t[i]
<1> DEFINE S == {m \in Nat : m <= n => s[m] = t[m]}
<1>1. 0 \in S
  OBVIOUS
<1>2. ASSUME NEW m \in S PROVE m + 1 \in S
  <2> SUFFICES ASSUME m + 1 <= n PROVE s[m + 1] = t[m + 1]
    OBVIOUS
  <2>1. m + 1 \in 1 .. n /\ (m + 1) - 1 = m /\ s[m] = t[m]
    OBVIOUS
  <2> QED BY <2>1
<1>3. S = Nat
  <2> HIDE DEF S
  <2>1. S \in SUBSET Nat
    BY DEF S
  <2> QED BY <1>1, <1>2, <2>1, NatInd
<1>4. \A m \in Nat : m \in S
  BY <1>3
<1>5. ASSUME NEW i \in 0 .. n PROVE s[i] = t[i]
  <2>1. i \in Nat /\ i <= n /\ i \in S
    BY <1>4
  <2> QED BY <2>1
<1> QED BY <1>5

\* The sum of a sequence up to each place: Upto(c, i) is what comes before.
Upto(c, i) == SumOf(SubSeq(c, 1, i))

\* The partial sums of a sequence are the sums of its prefixes.
LEMMA SumPrefix ==
    ASSUME NEW N \in Nat, NEW c \in [1 .. N -> Nat]
    PROVE  /\ \A i \in 0 .. N : Upto(c, i) \in Nat
           /\ Upto(c, 0) = 0 /\ Upto(c, N) = SumOf(c)
           /\ \A i \in 1 .. N : Upto(c, i) = Upto(c, i - 1) + c[i]
<1>0. c \in Seq(Nat) /\ Len(c) = N
  <2>1. c \in Seq(Nat)
    BY SeqDef
  <2> QED BY <2>1, LenProperties
<1>1. PICK s \in [0 .. N -> Nat] : /\ s[0] = 0 /\ SumOf(c) = s[N]
                                   /\ \A i \in 1 .. N : s[i] = s[i - 1] + c[i]
  BY SumIs
<1>2. ASSUME NEW n \in 0 .. N PROVE Upto(c, n) = s[n]
  <2> DEFINE d == SubSeq(c, 1, n)
  <2>1. d = [i \in 1 .. n |-> c[i]]
    BY <1>0
  <2>2. d \in [1 .. n -> Nat] /\ n \in Nat
    <3>1. \A i \in 1 .. n : c[i] \in Nat
      OBVIOUS
    <3> HIDE DEF d
    <3> QED BY <2>1, <3>1
  <2> HIDE DEF d
  <2>3. PICK t \in [0 .. n -> Nat] : /\ t[0] = 0 /\ SumOf(d) = t[n]
                                     /\ \A i \in 1 .. n : t[i] = t[i - 1] + d[i]
    BY <2>2, SumIs
  <2>4. \A i \in 1 .. n : t[i] = t[i - 1] + c[i] /\ s[i] = s[i - 1] + c[i]
    <3>1. \A i \in 1 .. n : d[i] = c[i]
      BY ONLY <2>1
    <3>2. \A i \in 1 .. n : i \in 1 .. N
      OBVIOUS
    <3> QED BY ONLY <1>1, <2>3, <3>1, <3>2
  <2>5. \A i \in 0 .. n : t[i] = s[i]
    <3>1. t[0] = s[0] /\ t \in [0 .. n -> Nat] /\ n \in Nat
      BY <1>1, <2>2, <2>3
    <3> QED BY <1>1, <2>4, <3>1, SumUnique
  <2> QED BY <2>3, <2>5 DEF Upto, d
<1> QED BY <1>1, <1>2

-----------------------------------------------------------------------------
(* Flattened sequences *)

\* A concatenation has the elements of the one, then those of the other.
LEMMA ConcatAt ==
    ASSUME NEW A, NEW s \in Seq(A), NEW t \in Seq(A)
    PROVE  /\ s \o t \in Seq(A) /\ Len(s) \in Nat /\ Len(t) \in Nat /\ Len(s \o t) = Len(s) + Len(t)
           /\ \A k \in 1 .. Len(s) : (s \o t)[k] = s[k]
           /\ \A k \in 1 .. Len(t) : (s \o t)[Len(s) + k] = t[k]
<1>1. Len(s) \in Nat /\ Len(t) \in Nat
  BY LenProperties
<1>2. /\ s \o t \in Seq(A) /\ Len(s \o t) = Len(s) + Len(t)
      /\ \A i \in 1 .. Len(s) + Len(t) : (s \o t)[i] = IF i <= Len(s) THEN s[i] ELSE t[i - Len(s)]
  BY ConcatProperties
<1>3. ASSUME NEW k \in 1 .. Len(s) PROVE (s \o t)[k] = s[k]
  <2>1. k \in 1 .. Len(s) + Len(t) /\ k <= Len(s)
    BY <1>1
  <2> QED BY <1>2, <2>1
<1>4. ASSUME NEW k \in 1 .. Len(t) PROVE (s \o t)[Len(s) + k] = t[k]
  <2>1. Len(s) + k \in 1 .. Len(s) + Len(t) /\ ~(Len(s) + k <= Len(s)) /\ (Len(s) + k) - Len(s) = k
    BY <1>1
  <2> QED BY <1>2, <2>1
<1> QED BY <1>1, <1>2, <1>3, <1>4

\* f holds what the first sequences of ss make, one after the other.
Flattens(f, ss, N, A) ==
    /\ f \in [0 .. N -> Seq(A)] /\ f[0] = <<>>
    /\ \A i \in 1 .. N : f[i] = f[i - 1] \o ss[i]

\* FlattenSeq is reached sequence by sequence.
LEMMA FlattenIs ==
    ASSUME NEW A, NEW N \in Nat, NEW ss \in [1 .. N -> Seq(A)]
    PROVE  \E f : Flattens(f, ss, N, A) /\ FlattenSeq(ss) = f[N]
<1>0. Len(ss) = N
  OBVIOUS
<1> DEFINE add == [p \in Seq(A) \X (1 .. N) |-> p[1] \o ss[p[2]]]
           G(h) == [i \in 1 .. Len(ss) |-> IF i = 1 THEN ss[i] ELSE h[i - 1] \o ss[i]]
           flatten == CHOOSE h : h = G(h)
<1>1. PICK f : Flattens(f, ss, N, A)
  <2>1. add \in [Seq(A) \X (1 .. N) -> Seq(A)] /\ <<>> \in Seq(A)
    <3>1. ASSUME NEW p \in Seq(A) \X (1 .. N) PROVE p[1] \o ss[p[2]] \in Seq(A)
      <4>1. p[1] \in Seq(A) /\ ss[p[2]] \in Seq(A)
        OBVIOUS
      <4> QED BY <4>1, ConcatProperties
    <3> QED BY <3>1
  <2>2. \A t \in Seq(A) : \A i \in 1 .. N : add[<<t, i>>] = t \o ss[i]
    OBVIOUS
  <2> HIDE DEF add
  <2>3. PICK f : Folds(f, N, <<>>, Seq(A), add)
    BY <2>1, FoldExists
  <2>4. f \in [0 .. N -> Seq(A)] /\ f[0] = <<>> /\ \A i \in 1 .. N : f[i] = add[<<f[i - 1], i>>]
    BY <2>3 DEF Folds
  <2>5. ASSUME NEW i \in 1 .. N PROVE f[i] = f[i - 1] \o ss[i]
    <3>1. i - 1 \in 0 .. N
      OBVIOUS
    <3>2. f[i - 1] \in Seq(A)
      BY <2>4, <3>1
    <3> QED BY <2>2, <2>4, <3>2
  <2> QED BY <2>4, <2>5 DEF Flattens
<1>2. CASE N = 0
  <2>1. FlattenSeq(ss) = ss
    BY <1>0, <1>2 DEF FlattenSeq
  <2>2. ss = <<>>
    BY <1>2
  <2> QED BY <1>1, <1>2, <2>1, <2>2 DEF Flattens
<1>3. CASE N # 0
  <2> DEFINE h == [i \in 1 .. N |-> f[i]]
  <2>1. f \in [0 .. N -> Seq(A)] /\ f[0] = <<>> /\ \A i \in 1 .. N : f[i] = f[i - 1] \o ss[i]
    BY <1>1 DEF Flattens
  <2>2. ASSUME NEW i \in 1 .. N PROVE h[i] = IF i = 1 THEN ss[i] ELSE h[i - 1] \o ss[i]
    <3>1. h[i] = f[i - 1] \o ss[i]
      BY <2>1
    <3>2. CASE i = 1
      <4>1. ss[i] \in Seq(A) /\ f[i - 1] = <<>>
        BY <2>1, <3>2
      <4> QED BY <3>1, <3>2, <4>1
    <3>3. CASE i # 1
      BY <3>1, <3>3
    <3> QED BY <3>2, <3>3
  <2>3. h = G(h)
    BY <1>0, <2>2
  <2> HIDE DEF h
  <2>4. flatten = G(flatten)
    BY <2>3
  <2>5. FlattenSeq(ss) = flatten[N]
    BY <1>0, <1>3 DEF FlattenSeq
  <2> HIDE DEF flatten
  <2>6. \A i \in 1 .. N : flatten[i] = IF i = 1 THEN ss[i] ELSE flatten[i - 1] \o ss[i]
    BY <1>0, <2>4
  <2> DEFINE S == {n \in Nat : n + 1 <= N => flatten[n + 1] = h[n + 1]}
  <2>7. 0 \in S
    BY <1>3, <2>2, <2>6
  <2>8. ASSUME NEW n \in S PROVE n + 1 \in S
    <3> SUFFICES ASSUME n + 2 <= N PROVE flatten[n + 2] = h[n + 2]
      OBVIOUS
    <3>1. n + 2 \in 1 .. N /\ n + 2 # 1 /\ (n + 2) - 1 = n + 1 /\ flatten[n + 1] = h[n + 1]
      OBVIOUS
    <3> QED BY <2>2, <2>6, <3>1
  <2>9. S = Nat
    <3> HIDE DEF S
    <3>1. S \in SUBSET Nat
      BY DEF S
    <3> QED BY <2>7, <2>8, <3>1, NatInd
  <2>10. N - 1 \in S
    <3> HIDE DEF S
    <3>1. N - 1 \in Nat
      BY <1>3
    <3> QED BY <2>9, <3>1
  <2>11. flatten[N] = h[N]
    BY <1>3, <2>10
  <2>12. h[N] = f[N]
    BY <1>3 DEF h
  <2> QED BY <1>1, <2>5, <2>11, <2>12
<1> QED BY <1>2, <1>3

\* How long each sequence is.
Lens(ss) == [i \in DOMAIN ss |-> Len(ss[i])]

\* Each element of each sequence has its place in f, after those of the sequences
\* before, and no other place is taken.
Flattened(f, ss, N, A) ==
    /\ Lens(ss) \in [1 .. N -> Nat]
    /\ f \in Seq(A) /\ Len(f) = SumOf(Lens(ss))
    /\ \A i \in 1 .. N : \A j \in 1 .. Len(ss[i]) :
          Upto(Lens(ss), i - 1) + j \in 1 .. Len(f) /\ f[Upto(Lens(ss), i - 1) + j] = ss[i][j]
    /\ \A m \in 1 .. Len(f) : \E i \in 1 .. N : \E j \in 1 .. Len(ss[i]) : m = Upto(Lens(ss), i - 1) + j

\* What FlattenSeq makes.
LEMMA FlattenAt ==
    ASSUME NEW A, NEW N \in Nat, NEW ss \in [1 .. N -> Seq(A)]
    PROVE  Flattened(FlattenSeq(ss), ss, N, A)
<1> DEFINE c == Lens(ss)
<1>1. c \in [1 .. N -> Nat]
  <2>1. \A i \in 1 .. N : Len(ss[i]) \in Nat
    BY LenProperties
  <2> QED BY <2>1 DEF Lens
<1>2. PICK f : Flattens(f, ss, N, A) /\ FlattenSeq(ss) = f[N]
  BY FlattenIs
<1>3. f \in [0 .. N -> Seq(A)] /\ f[0] = <<>> /\ \A i \in 1 .. N : f[i] = f[i - 1] \o ss[i]
  BY <1>2 DEF Flattens
<1>4. \A i \in 1 .. N : c[i] = Len(ss[i])
  BY DEF Lens
<1> HIDE DEF c
<1> DEFINE U(i) == Upto(c, i)
<1>5. /\ \A i \in 0 .. N : U(i) \in Nat
      /\ U(0) = 0 /\ U(N) = SumOf(c)
      /\ \A i \in 1 .. N : U(i) = U(i - 1) + c[i]
  BY <1>1, SumPrefix
<1> HIDE DEF U
<1> DEFINE P(n) == /\ Len(f[n]) = U(n)
                   /\ \A i \in 1 .. n : \A j \in 1 .. Len(ss[i]) :
                         U(i - 1) + j \in 1 .. U(n) /\ f[n][U(i - 1) + j] = ss[i][j]
                   /\ \A m \in 1 .. U(n) : \E i \in 1 .. n : \E j \in 1 .. Len(ss[i]) : m = U(i - 1) + j
           S == {n \in Nat : n <= N => P(n)}
<1>6. 0 \in S
  BY <1>3, <1>5
<1>7. ASSUME NEW n \in S PROVE n + 1 \in S
  <2> HIDE DEF P
  <2> SUFFICES ASSUME n + 1 <= N PROVE P(n + 1)
    OBVIOUS
  <2>1. P(n) /\ n \in 0 .. N /\ n + 1 \in 1 .. N /\ (n + 1) - 1 = n
    OBVIOUS
  <2>2. f[n + 1] = f[n] \o ss[n + 1] /\ f[n] \in Seq(A) /\ ss[n + 1] \in Seq(A)
    BY <1>3, <2>1
  <2>3. U(n + 1) = U(n) + Len(ss[n + 1]) /\ U(n) \in Nat /\ Len(ss[n + 1]) \in Nat /\ Len(f[n]) = U(n)
    BY <1>4, <1>5, <2>1, <2>2, LenProperties DEF P
  <2>4. /\ Len(f[n + 1]) = U(n + 1)
        /\ \A k \in 1 .. U(n) : f[n + 1][k] = f[n][k]
        /\ \A k \in 1 .. Len(ss[n + 1]) : f[n + 1][U(n) + k] = ss[n + 1][k]
    <3>1. /\ Len(f[n + 1]) = Len(f[n]) + Len(ss[n + 1])
          /\ \A k \in 1 .. Len(f[n]) : f[n + 1][k] = f[n][k]
          /\ \A k \in 1 .. Len(ss[n + 1]) : f[n + 1][Len(f[n]) + k] = ss[n + 1][k]
      <4>1. PICK p \in Seq(A), q \in Seq(A) : p = f[n] /\ q = ss[n + 1] /\ f[n + 1] = p \o q
        BY <2>2
      <4>2. /\ Len(p \o q) = Len(p) + Len(q)
            /\ \A k \in 1 .. Len(p) : (p \o q)[k] = p[k]
            /\ \A k \in 1 .. Len(q) : (p \o q)[Len(p) + k] = q[k]
        BY ONLY p \in Seq(A), q \in Seq(A), ConcatAt
      <4> QED BY ONLY <4>1, <4>2
    <3> QED BY <2>3, <3>1
  <2>5. ASSUME NEW i \in 1 .. n + 1, NEW j \in 1 .. Len(ss[i])
        PROVE  U(i - 1) + j \in 1 .. U(n + 1) /\ f[n + 1][U(i - 1) + j] = ss[i][j]
    <3>1. CASE i = n + 1
      <4>1. ss[i] = ss[n + 1] /\ U(i - 1) = U(n)
        BY <2>1, <3>1
      <4>2. j \in 1 .. Len(ss[n + 1])
        BY <4>1
      <4>3. U(n) + j \in 1 .. U(n + 1)
        BY ONLY <2>3, <4>2
      <4>4. f[n + 1][U(n) + j] = ss[n + 1][j]
        BY ONLY <2>4, <4>2
      <4> QED BY ONLY <4>1, <4>3, <4>4
    <3>2. CASE i # n + 1
      <4>1. i \in 1 .. n
        BY <2>1, <3>2
      <4>2. U(i - 1) + j \in 1 .. U(n) /\ f[n][U(i - 1) + j] = ss[i][j]
        BY <2>1, <4>1 DEF P
      <4>3. f[n + 1][U(i - 1) + j] = ss[i][j]
        BY ONLY <2>4, <4>2
      <4>4. U(i - 1) + j \in 1 .. U(n + 1)
        BY ONLY <2>3, <4>2
      <4> QED BY <4>3, <4>4
    <3> QED BY <3>1, <3>2
  <2>6. ASSUME NEW m \in 1 .. U(n + 1)
        PROVE  \E i \in 1 .. n + 1 : \E j \in 1 .. Len(ss[i]) : m = U(i - 1) + j
    <3>1. CASE m <= U(n)
      <4>1. m \in 1 .. U(n)
        BY <2>3, <3>1
      <4>2. PICK i \in 1 .. n : \E j \in 1 .. Len(ss[i]) : m = U(i - 1) + j
        BY <2>1, <4>1 DEF P
      <4>3. i \in 1 .. n + 1
        BY <2>1
      <4> QED BY <4>2, <4>3
    <3>2. CASE m > U(n)
      <4>1. m - U(n) \in 1 .. Len(ss[n + 1]) /\ m = U((n + 1) - 1) + (m - U(n))
        BY <2>1, <2>3, <3>2
      <4>2. n + 1 \in 1 .. n + 1
        BY <2>1
      <4> QED BY <4>1, <4>2
    <3> QED BY <2>3, <3>1, <3>2
  <2> QED BY <2>4, <2>5, <2>6 DEF P
<1>8. S = Nat
  <2> HIDE DEF S
  <2>1. S \in SUBSET Nat
    BY DEF S
  <2> QED BY <1>6, <1>7, <2>1, NatInd
<1>9. N \in S
  BY <1>8
<1>10. P(N) /\ f[N] \in Seq(A)
  BY <1>3, <1>9
<1> QED BY <1>1, <1>2, <1>5, <1>10 DEF c, U, Flattened

\* What flattened sequences have, they have in one of them.
LEMMA FlattenHas ==
    ASSUME NEW A, NEW N \in Nat, NEW ss \in [1 .. N -> Seq(A)], NEW m \in 1 .. Len(FlattenSeq(ss))
    PROVE  \E i \in 1 .. N : \E j \in 1 .. Len(ss[i]) : FlattenSeq(ss)[m] = ss[i][j]
<1> DEFINE f == FlattenSeq(ss)
<1>1. Flattened(f, ss, N, A)
  BY FlattenAt
<1> HIDE DEF f
<1>2. PICK i \in 1 .. N : \E j \in 1 .. Len(ss[i]) : m = Upto(Lens(ss), i - 1) + j
  BY <1>1 DEF Flattened, f
<1>3. PICK j \in 1 .. Len(ss[i]) : m = Upto(Lens(ss), i - 1) + j
  BY <1>2
<1>4. f[m] = ss[i][j]
  BY <1>1, <1>3 DEF Flattened
<1> QED BY <1>4 DEF f

\* g is f with every element changed; so is each sequence of tt, from ss.
IsImage(g, f, o) == g = [m \in DOMAIN f |-> o[f[m]]]
Mapped(tt, ss, o, N) ==
    \A i \in 1 .. N : Len(tt[i]) = Len(ss[i]) /\ \A j \in 1 .. Len(ss[i]) : tt[i][j] = o[ss[i][j]]

\* Flattening and a change of every element commute.
LEMMA FlattenMap ==
    ASSUME NEW A, NEW B, NEW N \in Nat, NEW ss \in [1 .. N -> Seq(A)], NEW tt \in [1 .. N -> Seq(B)],
           NEW o \in [A -> B], Mapped(tt, ss, o, N)
    PROVE  IsImage(FlattenSeq(tt), FlattenSeq(ss), o)
<1> DEFINE f == FlattenSeq(ss)
           g == FlattenSeq(tt)
<1>0. Flattened(f, ss, N, A) /\ Flattened(g, tt, N, B)
  BY FlattenAt
<1>1. Lens(tt) = Lens(ss)
  BY DEF Lens, Mapped
<1>2. /\ f \in Seq(A) /\ Len(f) = SumOf(Lens(ss))
      /\ \A i \in 1 .. N : \A j \in 1 .. Len(ss[i]) : f[Upto(Lens(ss), i - 1) + j] = ss[i][j]
      /\ \A m \in 1 .. Len(f) : \E i \in 1 .. N : \E j \in 1 .. Len(ss[i]) : m = Upto(Lens(ss), i - 1) + j
  BY <1>0 DEF Flattened
<1>3. /\ g \in Seq(B) /\ Len(g) = SumOf(Lens(tt))
      /\ \A i \in 1 .. N : \A j \in 1 .. Len(tt[i]) : g[Upto(Lens(tt), i - 1) + j] = tt[i][j]
  BY <1>0 DEF Flattened
<1> HIDE DEF f, g
<1>4. ASSUME NEW m \in 1 .. Len(f) PROVE g[m] = o[f[m]]
  <2>0. PICK i \in 1 .. N : \E j \in 1 .. Len(ss[i]) : m = Upto(Lens(ss), i - 1) + j
    BY <1>2
  <2>1. PICK j \in 1 .. Len(ss[i]) : m = Upto(Lens(ss), i - 1) + j
    BY <2>0
  <2>2. f[m] = ss[i][j]
    BY <1>2, <2>1
  <2>3. j \in 1 .. Len(tt[i]) /\ tt[i][j] = o[ss[i][j]]
    BY DEF Mapped
  <2>4. g[m] = tt[i][j]
    BY <1>1, <1>3, <2>1, <2>3
  <2> QED BY <2>2, <2>3, <2>4
<1>5. DOMAIN f = 1 .. Len(f) /\ DOMAIN g = 1 .. Len(f) /\ g = [m \in DOMAIN g |-> g[m]]
  BY <1>1, <1>2, <1>3
<1>6. g = [m \in DOMAIN f |-> o[f[m]]]
  BY <1>4, <1>5
<1> QED BY <1>6 DEF IsImage, f, g

\* Partial sums of ones.
LEMMA SumOfOnes ==
    ASSUME NEW N \in Nat, NEW c \in [1 .. N -> Nat], \A i \in 1 .. N : c[i] = 1
    PROVE  SumOf(c) = N /\ \A i \in 0 .. N : Upto(c, i) = i
<1> DEFINE U(i) == Upto(c, i)
<1>1. U(0) = 0 /\ U(N) = SumOf(c) /\ \A i \in 1 .. N : U(i) = U(i - 1) + c[i]
  BY SumPrefix
<1> HIDE DEF U
<1> DEFINE S == {n \in Nat : n <= N => U(n) = n}
<1>2. 0 \in S
  BY <1>1
<1>3. ASSUME NEW n \in S PROVE n + 1 \in S
  <2> SUFFICES ASSUME n + 1 <= N PROVE U(n + 1) = n + 1
    OBVIOUS
  <2>1. n + 1 \in 1 .. N /\ (n + 1) - 1 = n /\ U(n) = n
    OBVIOUS
  <2> QED BY <1>1, <2>1
<1>4. S = Nat
  <2> HIDE DEF S
  <2>1. S \in SUBSET Nat
    BY DEF S
  <2> QED BY <1>2, <1>3, <2>1, NatInd
<1>5. ASSUME NEW i \in 0 .. N PROVE U(i) = i
  <2>1. i \in S
    BY <1>4
  <2> QED BY <2>1
<1>6. U(N) = N
  BY <1>5
<1> QED BY <1>1, <1>5, <1>6 DEF U

\* Sequences of one element each flatten to the sequence of these elements.
LEMMA FlattenOnes ==
    ASSUME NEW A, NEW N \in Nat, NEW x \in [1 .. N -> A], NEW ss, ss = [i \in 1 .. N |-> <<x[i]>>]
    PROVE  FlattenSeq(ss) = x
<1>1. ss \in [1 .. N -> Seq(A)] /\ \A i \in 1 .. N : Len(ss[i]) = 1 /\ ss[i][1] = x[i]
  <2>1. ASSUME NEW i \in 1 .. N PROVE ss[i] \in Seq(A) /\ Len(ss[i]) = 1 /\ ss[i][1] = x[i]
    OBVIOUS
  <2> QED BY <2>1
<1> DEFINE f == FlattenSeq(ss)
<1>2. /\ Lens(ss) \in [1 .. N -> Nat]
      /\ f \in Seq(A) /\ Len(f) = SumOf(Lens(ss))
      /\ \A i \in 1 .. N : \A j \in 1 .. Len(ss[i]) : f[Upto(Lens(ss), i - 1) + j] = ss[i][j]
  <2>1. Flattened(f, ss, N, A)
    BY <1>1, FlattenAt
  <2> HIDE DEF f
  <2> QED BY <2>1 DEF Flattened
<1> HIDE DEF f
<1>3. \A i \in 1 .. N : Lens(ss)[i] = 1
  BY <1>1 DEF Lens
<1>4. Len(f) = N /\ \A i \in 0 .. N : Upto(Lens(ss), i) = i
  BY <1>2, <1>3, SumOfOnes
<1>5. ASSUME NEW i \in 1 .. N PROVE f[i] = x[i]
  <2>1. i - 1 \in 0 .. N /\ (i - 1) + 1 = i /\ 1 \in 1 .. Len(ss[i])
    BY <1>1
  <2>2. f[Upto(Lens(ss), i - 1) + 1] = ss[i][1]
    BY <1>2, <2>1
  <2>3. Upto(Lens(ss), i - 1) = i - 1
    BY <1>4, <2>1
  <2> QED BY <1>1, <2>1, <2>2, <2>3
<1>6. f = [i \in 1 .. N |-> f[i]] /\ x = [i \in 1 .. N |-> x[i]]
  <2>1. f = [i \in 1 .. Len(f) |-> f[i]]
    BY <1>2
  <2> QED BY <1>4, <2>1
<1>7. f = x
  BY <1>5, <1>6
<1> QED BY <1>7 DEF f

-----------------------------------------------------------------------------
(* Lengths *)

\* The length of a varint is a number.
LEMMA VarintLenNat == ASSUME NEW v PROVE varint_len(v) \in Nat
<1> DEFINE S == {k \in 1 .. 3 : v >= 2 ^ (7 * k)}
<1>1. IsFiniteSet(1 .. 3)
  <2>1. 1 \in Int /\ 3 \in Int
    OBVIOUS
  <2> QED BY <2>1, FS_Interval, Zenon
<1>2. S \subseteq 1 .. 3
  OBVIOUS
<1>3. IsFiniteSet(S)
  BY <1>1, <1>2, FS_Subset
<1>4. Cardinality(S) \in Nat
  BY <1>3, FS_CardinalityType
<1> HIDE DEF S
<1>5. varint_len(v) = 1 + Cardinality(S)
  BY DEF varint_len, S
<1> QED BY <1>4, <1>5

\* A field whose length prefix, if it has one, is a number.
Sized(f) == f.kind \in {"num", "bad"} \/ f.size \in Nat

\* Such a field takes a number of bytes.
LEMMA EncodedLenNat == ASSUME NEW f, Sized(f) PROVE EncodedLen(f) \in Nat
<1>1. CASE f.kind = "num"
  <2>1. varint_len(8 * f.no) \in Nat
    BY VarintLenNat
  <2> QED BY <1>1, <2>1 DEF EncodedLen
<1>2. CASE f.kind = "bad"
  BY <1>2 DEF EncodedLen
<1>3. CASE f.kind # "num" /\ f.kind # "bad"
  <2>1. f.size \in Nat
    BY <1>3 DEF Sized
  <2>2. varint_len(8 * f.no + 2) \in Nat /\ varint_len(f.size) \in Nat
    BY VarintLenNat
  <2>3. EncodedLen(f) = header_len(f.no, f.size) + f.size
    BY <1>3 DEF EncodedLen
  <2> QED BY <2>1, <2>2, <2>3 DEF header_len
<1> QED BY <1>1, <1>2, <1>3

\* So does a message of such fields.
LEMMA EncodedLensNat ==
    ASSUME NEW N \in Nat, NEW fields, DOMAIN fields = 1 .. N, \A i \in 1 .. N : Sized(fields[i])
    PROVE  EncodedLens(fields) \in Nat
<1> DEFINE c == [i \in 1 .. N |-> EncodedLen(fields[i])]
<1>1. c \in [1 .. N -> Nat]
  <2>1. \A i \in 1 .. N : EncodedLen(fields[i]) \in Nat
    BY EncodedLenNat
  <2> QED BY <2>1
<1>2. EncodedLens(fields) = SumOf(c)
  BY DEF EncodedLens
<1> HIDE DEF c
<1>3. Upto(c, N) \in Nat /\ Upto(c, N) = SumOf(c)
  BY <1>1, SumPrefix
<1> QED BY <1>2, <1>3

\* The parts of a text: ranges of it, or masks from the table.
IsPart(x) == x.lo \in Nat /\ x.hi \in Nat /\ x.lo <= x.hi /\ (x.mask = "raw" \/ x.mask \in DOMAIN MaskLen)

\* They take a number of bytes.
LEMMA PartLensNat ==
    ASSUME NEW N \in Nat, NEW parts, DOMAIN parts = 1 .. N, \A i \in 1 .. N : IsPart(parts[i])
    PROVE  PartLens(parts) \in Nat
<1> DEFINE c == [i \in 1 .. N |-> PartLen(parts[i])]
<1>1. c \in [1 .. N -> Nat]
  <2>1. ASSUME NEW i \in 1 .. N PROVE PartLen(parts[i]) \in Nat
    <3>1. IsPart(parts[i])
      OBVIOUS
    <3>2. CASE parts[i].mask = "raw"
      BY <3>1, <3>2 DEF PartLen, IsPart
    <3>3. CASE parts[i].mask # "raw"
      BY <3>1, <3>3, OtlpAssumption DEF PartLen, IsPart
    <3> QED BY <3>2, <3>3
  <2> QED BY <2>1
<1>2. PartLens(parts) = SumOf(c)
  BY DEF PartLens
<1> HIDE DEF c
<1>3. Upto(c, N) \in Nat /\ Upto(c, N) = SumOf(c)
  BY <1>1, SumPrefix
<1> QED BY <1>2, <1>3

\* A text that no mask changed has its own length.
LEMMA PartLensRaw ==
    ASSUME NEW len \in Nat
    PROVE  PartLens(IF len = 0 THEN <<>> ELSE <<Raw(0, len)>>) = len
<1> DEFINE parts == IF len = 0 THEN <<>> ELSE <<Raw(0, len)>>
           N == IF len = 0 THEN 0 ELSE 1
           c == [i \in 1 .. N |-> PartLen(parts[i])]
<1>1. DOMAIN parts = 1 .. N /\ N \in Nat
  <2>1. CASE len = 0
    BY <2>1
  <2>2. CASE len # 0
    BY <2>2
  <2> QED BY <2>1, <2>2
<1>2. PartLens(parts) = SumOf(c)
  <2> HIDE DEF N
  <2> QED BY <1>1 DEF PartLens
<1>3. \A i \in 1 .. N : c[i] = len
  BY DEF PartLen, Raw
<1>4. c \in [1 .. N -> Nat]
  BY <1>3
<1>5. N = 0 => len = 0
  OBVIOUS
<1>6. N = 0 \/ N = 1
  OBVIOUS
<1> HIDE DEF c, N, parts
<1>7. /\ Upto(c, 0) = 0 /\ Upto(c, N) = SumOf(c)
      /\ \A i \in 1 .. N : Upto(c, i) = Upto(c, i - 1) + c[i]
  BY <1>1, <1>4, SumPrefix
<1>8. CASE N = 0
  BY <1>2, <1>5, <1>7, <1>8 DEF parts
<1>9. CASE N = 1
  <2>1. 1 \in 1 .. N /\ 1 - 1 = 0
    BY <1>9
  <2>2. Upto(c, 1) = Upto(c, 0) + c[1] /\ c[1] = len
    BY <1>3, <1>7, <2>1
  <2> QED BY <1>2, <1>7, <1>9, <2>2 DEF parts
<1> QED BY <1>6, <1>8, <1>9

-----------------------------------------------------------------------------
(* The spans that take effect *)

\* A redaction covers a range of its text.
IsSpan(s) == s.lo \in Nat /\ s.hi \in Nat /\ s.lo <= s.hi

\* The order in which spans are looked at.
Before(spans, m, n) ==
    \/ spans[m].lo < spans[n].lo
    \/ spans[m].lo = spans[n].lo /\ spans[m].hi < spans[n].hi
    \/ spans[m].lo = spans[n].lo /\ spans[m].hi = spans[n].hi /\ m < n

\* Some spans have a first one.
LEMMA FirstSpan ==
    ASSUME NEW spans, NEW S \in SUBSET Nat, S # {}, \A n \in S : IsSpan(spans[n])
    PROVE  \E n \in S : \A m \in S \ {n} : Before(spans, n, m)
<1> DEFINE los == {spans[n].lo : n \in S}
           l == Min(los)
           S1 == {n \in S : spans[n].lo = l}
           his == {spans[n].hi : n \in S1}
           h == Min(his)
           S2 == {n \in S1 : spans[n].hi = h}
           b == Min(S2)
<1>0. \A n \in S : n \in Nat /\ spans[n].lo \in Nat /\ spans[n].hi \in Nat
  BY DEF IsSpan
<1>1. l \in los /\ \A x \in los : l <= x
  <2>1. los \in SUBSET Nat /\ los # {}
    BY <1>0
  <2> HIDE DEF los
  <2> QED BY <2>1, Smallest
<1> HIDE DEF l
<1>2. h \in his /\ \A x \in his : h <= x
  <2>1. S1 # {}
    BY <1>1
  <2>2. his \in SUBSET Nat /\ his # {}
    BY <1>0, <2>1
  <2> HIDE DEF his
  <2> QED BY <2>2, Smallest
<1> HIDE DEF h
<1>3. b \in S2 /\ \A x \in S2 : b <= x
  <2>1. S2 \in SUBSET Nat /\ S2 # {}
    BY <1>2
  <2> HIDE DEF S2
  <2> QED BY <2>1, Smallest
<1> HIDE DEF b
<1>4. b \in S /\ spans[b].lo = l /\ spans[b].hi = h
  BY <1>3
<1>5. ASSUME NEW m \in S \ {b} PROVE Before(spans, b, m)
  <2>1. spans[m].lo \in Nat /\ spans[m].hi \in Nat /\ m \in Nat /\ l \in Nat /\ h \in Nat /\ b \in Nat /\ b # m
    BY <1>0, <1>4
  <2>2. l <= spans[m].lo
    BY <1>1
  <2>3. CASE l < spans[m].lo
    BY <1>4, <2>3 DEF Before
  <2>4. CASE l = spans[m].lo
    <3>1. m \in S1
      BY <2>4
    <3>2. h <= spans[m].hi
      BY <1>2, <3>1
    <3>3. CASE h < spans[m].hi
      BY <1>4, <2>4, <3>3 DEF Before
    <3>4. CASE h = spans[m].hi
      <4>1. b <= m
        BY <1>3, <3>1, <3>4
      <4> QED BY <1>4, <2>1, <2>4, <3>4, <4>1 DEF Before
    <3> QED BY <2>1, <3>2, <3>3, <3>4
  <2> QED BY <2>1, <2>2, <2>3, <2>4
<1> QED BY <1>4, <1>5

\* A span is masked, or starts inside one that is, which starts no later.
Covered(s, out) == \E i \in DOMAIN out : out[i] = s \/ (out[i].lo <= s.lo /\ s.lo < out[i].hi)

\* Spans that follow each other, none starting before the one before it ends.
Ordered(out) == \A i \in 2 .. Len(out) : out[i - 1].hi <= out[i].lo

\* The end of the last span.
EndOf(out) == IF out = <<>> THEN 0 ELSE out[Len(out)].hi

\* One more span after the others.
LEMMA AppendSpan ==
    ASSUME NEW A, NEW out \in Seq(A), NEW s \in A, Ordered(out), EndOf(out) <= s.lo
    PROVE  /\ Append(out, s) \in Seq(A) /\ Ordered(Append(out, s)) /\ EndOf(Append(out, s)) = s.hi
           /\ Len(Append(out, s)) = Len(out) + 1 /\ Append(out, s)[Len(out) + 1] = s
           /\ \A i \in 1 .. Len(out) : Append(out, s)[i] = out[i]
<1> DEFINE r == Append(out, s)
           L == Len(out)
<1>1. /\ r \in Seq(A) /\ Len(r) = L + 1 /\ r[L + 1] = s /\ L \in Nat
      /\ \A i \in 1 .. L : r[i] = out[i]
  BY AppendProperties
<1> HIDE DEF r
<1>2. EndOf(r) = s.hi
  BY <1>1 DEF EndOf
<1>3. ASSUME NEW i \in 2 .. Len(r) PROVE r[i - 1].hi <= r[i].lo
  <2>1. i - 1 \in 1 .. L
    BY <1>1
  <2>2. CASE i = L + 1
    <3>1. out # <<>> /\ EndOf(out) = out[L].hi
      BY <1>1, <2>1 DEF EndOf
    <3> QED BY <1>1, <2>1, <2>2, <3>1
  <2>3. CASE i # L + 1
    <3>1. i \in 2 .. L /\ i \in 1 .. L
      BY <1>1, <2>3
    <3> QED BY <1>1, <2>1, <3>1 DEF Ordered
  <2> QED BY <2>2, <2>3
<1>4. Ordered(r)
  BY <1>3 DEF Ordered
<1> QED BY <1>1, <1>2, <1>4 DEF r

\* The spans of one text.
Here(spans, path) == {n \in DOMAIN spans : spans[n].at = path}

\* What the walk has made of the spans it has seen: those `left` come after.
Walking(w, spans, here) ==
    /\ w \in [left : SUBSET here, cursor : Nat, out : Seq({spans[n] : n \in here})]
    /\ w.cursor = EndOf(w.out) /\ Ordered(w.out)
    /\ \A n \in here \ w.left : Covered(spans[n], w.out)
    /\ \A i \in 1 .. Len(w.out) : \A m \in w.left : w.out[i].lo <= spans[m].lo

\* One span more.
Took(w, n, spans) ==
    IF Free(spans[n], w.cursor)
    THEN [left |-> w.left \ {n}, cursor |-> spans[n].hi, out |-> Append(w.out, spans[n])]
    ELSE [w EXCEPT !.left = w.left \ {n}]

\* The first of the spans that are left is masked or is already covered.
LEMMA TookWalking ==
    ASSUME NEW spans, NEW here, \A k \in here : IsSpan(spans[k]), NEW w, Walking(w, spans, here),
           NEW n \in w.left, \A m \in w.left \ {n} : Before(spans, n, m)
    PROVE  Walking(Took(w, n, spans), spans, here) /\ Took(w, n, spans).left = w.left \ {n}
<1> DEFINE X == {spans[k] : k \in here}
           s == spans[n]
           t == Took(w, n, spans)
<1>0. /\ w \in [left : SUBSET here, cursor : Nat, out : Seq(X)]
      /\ w.left \subseteq here /\ w.out \in Seq(X) /\ w.cursor = EndOf(w.out) /\ w.cursor \in Nat
      /\ Ordered(w.out) /\ n \in here /\ s \in X
      /\ \A k \in here \ w.left : Covered(spans[k], w.out)
      /\ \A i \in 1 .. Len(w.out) : \A m \in w.left : w.out[i].lo <= spans[m].lo
  BY DEF Walking
<1>1. s.lo \in Nat /\ s.hi \in Nat /\ s.lo <= s.hi
  BY <1>0 DEF IsSpan
<1>2. \A m \in w.left \ {n} : s.lo <= spans[m].lo
  <2>1. ASSUME NEW m \in w.left \ {n} PROVE s.lo <= spans[m].lo
    <3>1. spans[m].lo \in Nat
      BY <1>0 DEF IsSpan
    <3>2. Before(spans, n, m)
      OBVIOUS
    <3> QED BY <1>1, <3>1, <3>2 DEF Before
  <2> QED BY <2>1
<1>L. Len(w.out) \in Nat /\ DOMAIN w.out = 1 .. Len(w.out)
  BY <1>0, LenProperties
<1>3. CASE Free(s, w.cursor)
  <2> DEFINE r == Append(w.out, s)
             L == Len(w.out)
  <2>1. t = [left |-> w.left \ {n}, cursor |-> s.hi, out |-> r]
    BY <1>3 DEF Took
  <2>2. EndOf(w.out) <= s.lo
    BY <1>0, <1>1, <1>3 DEF Free
  <2>3. /\ r \in Seq(X) /\ Ordered(r) /\ EndOf(r) = s.hi
        /\ Len(r) = L + 1 /\ r[L + 1] = s /\ \A i \in 1 .. L : r[i] = w.out[i]
    <3> HIDE DEF X
    <3> QED BY <1>0, <2>2, AppendSpan
  <2> HIDE DEF r
  <2>4. DOMAIN r = 1 .. L + 1
    BY <2>3
  <2>5. ASSUME NEW k \in here \ (w.left \ {n}) PROVE Covered(spans[k], r)
    <3>1. CASE k = n
      BY <1>L, <2>3, <2>4, <3>1 DEF Covered
    <3>2. CASE k # n
      <4>1. k \in here \ w.left
        BY <3>2
      <4>2. PICK i \in DOMAIN w.out : w.out[i] = spans[k] \/ (w.out[i].lo <= spans[k].lo /\ spans[k].lo < w.out[i].hi)
        BY <1>0, <4>1 DEF Covered
      <4>3. i \in 1 .. L /\ i \in DOMAIN r /\ r[i] = w.out[i]
        BY <1>L, <2>3, <2>4
      <4> QED BY <4>2, <4>3 DEF Covered
    <3> QED BY <3>1, <3>2
  <2>6. ASSUME NEW i \in 1 .. Len(r), NEW m \in w.left \ {n} PROVE r[i].lo <= spans[m].lo
    <3>1. CASE i = L + 1
      BY <1>2, <2>3, <3>1
    <3>2. CASE i # L + 1
      <4>1. i \in 1 .. L
        BY <1>L, <2>3, <3>2
      <4> QED BY <1>0, <2>3, <4>1
    <3> QED BY <3>1, <3>2
  <2>7. w.left \ {n} \in SUBSET here
    BY <1>0
  <2> HIDE DEF X
  <2>8. t \in [left : SUBSET here, cursor : Nat, out : Seq(X)] /\ t.left = w.left \ {n}
    BY <1>1, <2>1, <2>3, <2>7
  <2>9. Walking(t, spans, here)
    BY <1>1, <2>1, <2>3, <2>5, <2>6, <2>7, <2>8 DEF Walking, X
  <2> QED BY <2>8, <2>9
<1>4. CASE ~Free(s, w.cursor)
  <2>1. t = [w EXCEPT !.left = w.left \ {n}]
    BY <1>4 DEF Took
  <2>2. t = [left |-> w.left \ {n}, cursor |-> w.cursor, out |-> w.out]
    BY <1>0, <2>1
  <2>3. s.lo < EndOf(w.out)
    BY <1>0, <1>1, <1>4 DEF Free
  <2>4. Covered(s, w.out)
    <3>1. w.out # <<>> /\ EndOf(w.out) = w.out[Len(w.out)].hi
      BY <1>1, <2>3 DEF EndOf
    <3>2. Len(w.out) \in 1 .. Len(w.out)
      BY <1>0, <1>L, <3>1, EmptySeq
    <3>3. w.out[Len(w.out)].lo <= s.lo
      BY <1>0, <3>2
    <3> QED BY <1>L, <2>3, <3>1, <3>2, <3>3 DEF Covered
  <2>5. \A k \in here \ (w.left \ {n}) : Covered(spans[k], w.out)
    BY <1>0, <2>4
  <2>6. w.left \ {n} \in SUBSET here
    BY <1>0
  <2> HIDE DEF X
  <2>7. t \in [left : SUBSET here, cursor : Nat, out : Seq(X)] /\ t.left = w.left \ {n}
    BY <1>0, <2>2, <2>6
  <2>8. Walking(t, spans, here)
    BY <1>0, <2>2, <2>5, <2>6, <2>7 DEF Walking, X
  <2> QED BY <2>7, <2>8
<1> QED BY <1>3, <1>4

\* The spans that take effect follow each other, and every span is one of them or
\* starts inside one.
LEMMA EffectiveIs ==
    ASSUME NEW M \in Nat, NEW spans, DOMAIN spans = 1 .. M, NEW path,
           \A n \in Here(spans, path) : IsSpan(spans[n])
    PROVE  /\ EffectiveSpans(spans, path) \in Seq({spans[n] : n \in Here(spans, path)})
           /\ Ordered(EffectiveSpans(spans, path))
           /\ \A n \in Here(spans, path) : Covered(spans[n], EffectiveSpans(spans, path))
<1> DEFINE here == {n \in DOMAIN spans : spans[n].at = path}
           Key(n) == <<spans[n].lo, spans[n].hi, n>>
           Less(m, n) == \E k \in 1 .. 3 : Key(m)[k] < Key(n)[k] /\ \A j \in 1 .. k - 1 : Key(m)[j] = Key(n)[j]
           Least(S) == CHOOSE n \in S : \A m \in S \ {n} : Less(n, m)
           c == Cardinality(here)
           X == {spans[n] : n \in here}
           A == [left : SUBSET here, cursor : Nat, out : Seq(X)]
           start == [left |-> here, cursor |-> 0, out |-> <<>>]
           F(h) == [k \in 0 .. c |-> IF k = 0 THEN start ELSE Took(h[k - 1], Least(h[k - 1].left), spans)]
           walk == CHOOSE h : h = F(h)
<1>0. EffectiveSpans(spans, path) = walk[c].out
  BY DEF EffectiveSpans, Took
<1>1. here = Here(spans, path) /\ here \in SUBSET Nat /\ \A n \in here : IsSpan(spans[n])
  BY DEF Here
<1>2. IsFiniteSet(here) /\ c \in Nat
  <2>1. IsFiniteSet(1 .. M) /\ here \subseteq 1 .. M
    <3>1. 1 \in Int /\ M \in Int
      OBVIOUS
    <3>2. IsFiniteSet(1 .. M)
      BY <3>1, FS_Interval
    <3> QED BY <3>2
  <2>2. IsFiniteSet(here)
    BY <2>1, FS_Subset
  <2> QED BY <2>2, FS_CardinalityType
<1>3. ASSUME NEW m, NEW n PROVE Less(m, n) <=> Before(spans, m, n)
  <2> DEFINE P(k) == Key(m)[k] < Key(n)[k] /\ \A j \in 1 .. k - 1 : Key(m)[j] = Key(n)[j]
  <2>1. Less(m, n) <=> P(1) \/ P(2) \/ P(3)
    <3> HIDE DEF P
    <3>1. Less(m, n) <=> \E k \in 1 .. 3 : P(k)
      BY DEF P
    <3>2. 1 .. 3 = {1, 2, 3}
      OBVIOUS
    <3> HIDE DEF Less
    <3> QED BY <3>1, <3>2
  <2>2. 1 .. 1 - 1 = {} /\ 1 .. 2 - 1 = {1} /\ 1 .. 3 - 1 = {1, 2}
    OBVIOUS
  <2>3. /\ Key(m)[1] = spans[m].lo /\ Key(m)[2] = spans[m].hi /\ Key(m)[3] = m
        /\ Key(n)[1] = spans[n].lo /\ Key(n)[2] = spans[n].hi /\ Key(n)[3] = n
    OBVIOUS
  <2> HIDE DEF Less, Key
  <2>4. P(1) <=> spans[m].lo < spans[n].lo
    BY <2>2, <2>3
  <2>5. P(2) <=> spans[m].hi < spans[n].hi /\ spans[m].lo = spans[n].lo
    BY <2>2, <2>3
  <2>6. P(3) <=> m < n /\ spans[m].lo = spans[n].lo /\ spans[m].hi = spans[n].hi
    BY <2>2, <2>3
  <2> HIDE DEF P
  <2> QED BY <2>1, <2>4, <2>5, <2>6 DEF Before
<1> HIDE DEF here, Less
<1>4. ASSUME NEW S \in SUBSET here, S # {}
      PROVE  Least(S) \in S /\ \A m \in S \ {Least(S)} : Before(spans, Least(S), m)
  <2>1. PICK n \in S : \A m \in S \ {n} : Before(spans, n, m)
    <3>1. S \in SUBSET Nat /\ S # {} /\ \A n \in S : IsSpan(spans[n])
      BY <1>1, <1>4
    <3> HIDE DEF X
    <3> QED BY <3>1, FirstSpan
  <2>2. \A m \in S \ {n} : Less(n, m)
    BY <1>3, <2>1
  <2>3. Least(S) \in S /\ \A m \in S \ {Least(S)} : Less(Least(S), m)
    BY <2>2
  <2> HIDE DEF Least
  <2> QED BY <1>3, <2>3
<1> HIDE DEF Least, c
<1> DEFINE Good(w) == Walking(w, spans, here)
<1>5. Good(start) /\ start.left = here
  <2>1. <<>> \in Seq(X) /\ Len(<<>>) = 0 /\ EndOf(<<>>) = 0
    BY DEF EndOf
  <2> HIDE DEF X
  <2>2. start \in A
    BY <2>1
  <2>3. Ordered(<<>>)
    BY DEF Ordered
  <2>4. Walking(start, spans, here)
    BY <2>1, <2>2, <2>3 DEF Walking, X
  <2> QED BY <2>2, <2>4
<1>6. ASSUME NEW w, Good(w), w.left # {}
      PROVE  /\ Good(Took(w, Least(w.left), spans))
             /\ Cardinality(Took(w, Least(w.left), spans).left) = Cardinality(w.left) - 1
  <2>1. w.left \in SUBSET here
    BY <1>6 DEF Walking
  <2>2. Least(w.left) \in w.left /\ \A m \in w.left \ {Least(w.left)} : Before(spans, Least(w.left), m)
    BY <1>4, <1>6, <2>1
  <2>3. PICK n \in w.left : n = Least(w.left)
    BY <2>2
  <2>4. Good(Took(w, n, spans)) /\ Took(w, n, spans).left = w.left \ {n}
    <3>1. \A m \in w.left \ {n} : Before(spans, n, m)
      BY <2>2, <2>3
    <3>2. Walking(w, spans, here)
      BY <1>6
    <3>3. Walking(Took(w, n, spans), spans, here) /\ Took(w, n, spans).left = w.left \ {n}
      <4>1. \A k \in here : IsSpan(spans[k])
        BY <1>1
      <4> QED BY ONLY <3>1, <3>2, <4>1, n \in w.left, TookWalking
    <3> QED BY <3>3
  <2>5. Cardinality(w.left \ {n}) = Cardinality(w.left) - 1
    <3>1. IsFiniteSet(w.left)
      BY <1>2, <2>1, FS_Subset
    <3> QED BY <3>1, FS_RemoveElement
  <2> QED BY <2>3, <2>4, <2>5
<1> HIDE DEF Good
<1> DEFINE step == [p \in {w \in A : Good(w)} \X (1 .. c) |->
                      IF p[1].left = {} THEN p[1] ELSE Took(p[1], Least(p[1].left), spans)]
           G == {w \in A : Good(w)}
<1>7. PICK g \in [0 .. c -> G] : g[0] = start /\ \A i \in 1 .. c : g[i] = step[<<g[i - 1], i>>]
  <2>1. start \in G
    BY <1>5 DEF Good
  <2>2. step \in [G \X (1 .. c) -> G]
    <3>1. ASSUME NEW p \in G \X (1 .. c)
          PROVE  (IF p[1].left = {} THEN p[1] ELSE Took(p[1], Least(p[1].left), spans)) \in G
      <4>1. p[1] \in G /\ Good(p[1])
        OBVIOUS
      <4>2. \A w : Good(w) => w \in A
        BY DEF Good, Walking
      <4> HIDE DEF A
      <4> QED BY <1>6, <4>1, <4>2
    <3> HIDE DEF G
    <3> QED BY <3>1 DEF G
  <2> HIDE DEF G, step, start
  <2>3. PICK g : Folds(g, c, start, G, step)
    BY <1>2, <2>1, <2>2, FoldExists
  <2> QED BY <2>3 DEF Folds
<1>8. \A i \in 0 .. c : g[i] \in G /\ Good(g[i]) /\ g[i].left \in SUBSET here
  <2>1. ASSUME NEW w \in G PROVE Good(w) /\ w.left \in SUBSET here
    BY DEF Good
  <2> HIDE DEF G
  <2> QED BY <2>1
<1>9. ASSUME NEW i \in 1 .. c
      PROVE  g[i] = IF g[i - 1].left = {} THEN g[i - 1] ELSE Took(g[i - 1], Least(g[i - 1].left), spans)
  <2>1. i - 1 \in 0 .. c
    BY <1>2
  <2>2. g[i - 1] \in G
    BY <1>8, <2>1
  <2>3. \A w \in G : step[<<w, i>>] = IF w.left = {} THEN w ELSE Took(w, Least(w.left), spans)
    OBVIOUS
  <2> HIDE DEF G, step
  <2> QED BY <1>7, <2>2, <2>3
<1> HIDE DEF G, step
<1>10. \A i \in 0 .. c : Cardinality(g[i].left) = c - i
  <2> DEFINE S == {n \in Nat : n <= c => Cardinality(g[n].left) = c - n}
  <2>1. 0 \in S
    BY <1>2, <1>5, <1>7 DEF c
  <2>2. ASSUME NEW n \in S PROVE n + 1 \in S
    <3> SUFFICES ASSUME n + 1 <= c PROVE Cardinality(g[n + 1].left) = c - (n + 1)
      OBVIOUS
    <3>1. n \in 0 .. c /\ n + 1 \in 1 .. c /\ (n + 1) - 1 = n /\ Cardinality(g[n].left) = c - n
      BY <1>2
    <3>2. c - n # 0
      BY <1>2, <3>1
    <3>3. g[n].left # {}
      BY <3>1, <3>2, FS_EmptySet
    <3>4. g[n + 1] = Took(g[n], Least(g[n].left), spans)
      BY <1>9, <3>1, <3>3
    <3>5. Cardinality(g[n + 1].left) = Cardinality(g[n].left) - 1
      BY <1>6, <1>8, <3>1, <3>3, <3>4
    <3> QED BY <1>2, <3>1, <3>5
  <2>3. S = Nat
    <3> HIDE DEF S
    <3>1. S \in SUBSET Nat
      BY DEF S
    <3> QED BY <2>1, <2>2, <3>1, NatInd
  <2>4. ASSUME NEW i \in 0 .. c PROVE Cardinality(g[i].left) = c - i
    <3>1. i \in S
      BY <2>3
    <3> QED BY <3>1
  <2> QED BY <2>4
<1>11. ASSUME NEW i \in 1 .. c PROVE g[i] = Took(g[i - 1], Least(g[i - 1].left), spans)
  <2>1. i - 1 \in 0 .. c /\ c - (i - 1) # 0
    BY <1>2
  <2>2. g[i - 1].left # {}
    BY <1>10, <2>1, FS_EmptySet
  <2> QED BY <1>9, <2>2
<1>12. g = F(g)
  <2>1. g = [k \in 0 .. c |-> g[k]]
    BY <1>7
  <2>2. ASSUME NEW k \in 0 .. c
        PROVE  g[k] = IF k = 0 THEN start ELSE Took(g[k - 1], Least(g[k - 1].left), spans)
    BY <1>2, <1>7, <1>11
  <2> HIDE DEF start
  <2> QED BY <2>1, <2>2
<1>13. walk = F(walk)
  BY <1>12
<1> HIDE DEF walk
<1>14. walk[0] = start /\ \A i \in 1 .. c : walk[i] = Took(walk[i - 1], Least(walk[i - 1].left), spans)
  <2>1. \A k \in 0 .. c : walk[k] = IF k = 0 THEN start ELSE Took(walk[k - 1], Least(walk[k - 1].left), spans)
    <3> HIDE DEF start
    <3> QED BY <1>13
  <2> HIDE DEF start
  <2> QED BY <1>2, <2>1
<1>15. walk[c] = g[c]
  <2> DEFINE S == {n \in Nat : n <= c => walk[n] = g[n]}
  <2>1. 0 \in S
    BY <1>7, <1>14
  <2>2. ASSUME NEW n \in S PROVE n + 1 \in S
    <3> SUFFICES ASSUME n + 1 <= c PROVE walk[n + 1] = g[n + 1]
      OBVIOUS
    <3>1. n + 1 \in 1 .. c /\ (n + 1) - 1 = n /\ walk[n] = g[n]
      BY <1>2
    <3> QED BY <1>11, <1>14, <3>1
  <2>3. S = Nat
    <3> HIDE DEF S
    <3>1. S \in SUBSET Nat
      BY DEF S
    <3> QED BY <2>1, <2>2, <3>1, NatInd
  <2>4. c \in S
    BY <1>2, <2>3
  <2> QED BY <1>2, <2>4
<1>16. g[c].left = {}
  <2>1. c \in 0 .. c /\ c - c = 0
    BY <1>2
  <2>2. Cardinality(g[c].left) = 0 /\ g[c].left \in SUBSET here
    BY <1>8, <1>10, <2>1
  <2>3. IsFiniteSet(g[c].left)
    BY <1>2, <2>2, FS_Subset
  <2> QED BY <2>2, <2>3, FS_EmptySet
<1>17. Good(g[c])
  BY <1>2, <1>8
<1>18. Walking(g[c], spans, here)
  BY <1>17 DEF Good
<1> QED BY <1>0, <1>1, <1>15, <1>16, <1>18 DEF Walking

-----------------------------------------------------------------------------
(* The spliced text *)

\* What a text is made of.
Parts == {x \in [mask : {"raw"} \cup DOMAIN MaskLen, lo : Nat, hi : Nat] : x.lo <= x.hi}

\* Each part starts where the one before it ends.
Tiled(parts) == \A i \in DOMAIN parts : parts[i].lo = IF i = 1 THEN 0 ELSE parts[i - 1].hi

\* The parts that are masks.
MasksIn(parts) == {x \in Range(parts) : x.mask # "raw"}

\* One part more, which starts where the others end.
LEMMA AppendPart ==
    ASSUME NEW t \in Seq(Parts), Tiled(t), NEW x \in Parts, x.lo = EndOf(t)
    PROVE  /\ Append(t, x) \in Seq(Parts) /\ Tiled(Append(t, x)) /\ EndOf(Append(t, x)) = x.hi
           /\ MasksIn(Append(t, x)) = MasksIn(t) \cup (IF x.mask = "raw" THEN {} ELSE {x})
<1> DEFINE r == Append(t, x)
           L == Len(t)
<1>1. /\ r \in Seq(Parts) /\ Len(r) = L + 1 /\ r[L + 1] = x /\ L \in Nat
      /\ \A i \in 1 .. L : r[i] = t[i]
      /\ DOMAIN r = 1 .. L + 1 /\ DOMAIN t = 1 .. L
  BY AppendProperties
<1> HIDE DEF r
<1>2. EndOf(r) = x.hi
  BY <1>1 DEF EndOf
<1>3. ASSUME NEW i \in DOMAIN r PROVE r[i].lo = IF i = 1 THEN 0 ELSE r[i - 1].hi
  <2>1. CASE i = L + 1
    <3>1. CASE L = 0
      <4>1. t = <<>>
        BY <3>1
      <4> QED BY <1>1, <2>1, <3>1, <4>1 DEF EndOf
    <3>2. CASE L # 0
      <4>1. L \in 1 .. L /\ i # 1 /\ i - 1 = L /\ t # <<>>
        BY <1>1, <2>1, <3>2
      <4> QED BY <1>1, <2>1, <4>1 DEF EndOf
    <3> QED BY <3>1, <3>2
  <2>2. CASE i # L + 1
    <3>1. i \in 1 .. L /\ (i = 1 \/ i - 1 \in 1 .. L)
      BY <1>1, <2>2
    <3>2. t[i].lo = IF i = 1 THEN 0 ELSE t[i - 1].hi
      BY <1>1, <3>1 DEF Tiled
    <3> QED BY <1>1, <3>1, <3>2
  <2> QED BY <2>1, <2>2
<1>4. Tiled(r)
  BY <1>3 DEF Tiled
<1>5. Range(r) = Range(t) \cup {x}
  <2>1. 1 .. L + 1 = (1 .. L) \cup {L + 1}
    BY <1>1
  <2> QED BY <1>1, <2>1 DEF Range
<1>6. MasksIn(r) = MasksIn(t) \cup (IF x.mask = "raw" THEN {} ELSE {x})
  BY <1>5 DEF MasksIn
<1> QED BY <1>1, <1>2, <1>4, <1>6 DEF r

\* The raw range between two places, if there is any.
Gap(lo, hi) == IF lo < hi THEN <<Raw(lo, hi)>> ELSE <<>>

\* A text is filled up to a place further on.
LEMMA GapAt ==
    ASSUME NEW t \in Seq(Parts), Tiled(t), NEW lo \in Nat, NEW hi \in Nat, lo = EndOf(t), lo <= hi
    PROVE  /\ t \o Gap(lo, hi) \in Seq(Parts) /\ Tiled(t \o Gap(lo, hi)) /\ EndOf(t \o Gap(lo, hi)) = hi
           /\ MasksIn(t \o Gap(lo, hi)) = MasksIn(t)
           /\ Gap(lo, hi) \in Seq(Parts)
<1>1. CASE lo < hi
  <2> DEFINE x == Raw(lo, hi)
  <2>1. x \in Parts /\ x.lo = EndOf(t) /\ x.hi = hi /\ x.mask = "raw"
    BY <1>1 DEF Parts, Raw
  <2> HIDE DEF x
  <2>2. t \o <<x>> = Append(t, x) /\ <<x>> \in Seq(Parts)
    BY <2>1, AppendIsConcat
  <2>3. Gap(lo, hi) = <<x>>
    BY <1>1 DEF Gap, x
  <2>4. /\ Append(t, x) \in Seq(Parts) /\ Tiled(Append(t, x)) /\ EndOf(Append(t, x)) = x.hi
        /\ MasksIn(Append(t, x)) = MasksIn(t) \cup (IF x.mask = "raw" THEN {} ELSE {x})
    BY <2>1, AppendPart
  <2>5. t \o Gap(lo, hi) = Append(t, x) /\ Gap(lo, hi) \in Seq(Parts)
    BY <2>2, <2>3
  <2> QED BY <2>1, <2>4, <2>5
<1>2. CASE ~(lo < hi)
  <2>1. Gap(lo, hi) = <<>> /\ lo = hi
    BY <1>2 DEF Gap
  <2>2. t \o <<>> = t /\ <<>> \in Seq(Parts)
    BY ConcatEmptySeq, EmptySeq
  <2> QED BY <2>1, <2>2
<1> QED BY <1>1, <1>2

\* A redaction, with a mask of the table.
IsRedaction(s) == IsSpan(s) /\ s.mask \in DOMAIN MaskLen \ {"raw"}

\* A mask in its place, after the raw range before it.
Piece(lo, s) == Gap(lo, s.lo) \o <<Mask(s.mask, s.lo, s.hi)>>

\* A text is spliced one span further.
LEMMA MaskAt ==
    ASSUME NEW t \in Seq(Parts), Tiled(t), NEW lo \in Nat, lo = EndOf(t), NEW s, IsRedaction(s), lo <= s.lo
    PROVE  /\ t \o Piece(lo, s) \in Seq(Parts) /\ Tiled(t \o Piece(lo, s)) /\ EndOf(t \o Piece(lo, s)) = s.hi
           /\ MasksIn(t \o Piece(lo, s)) = MasksIn(t) \cup {Mask(s.mask, s.lo, s.hi)}
<1> DEFINE x == Mask(s.mask, s.lo, s.hi)
           g == Gap(lo, s.lo)
<1>1. s.lo \in Nat /\ x \in Parts /\ x.lo = s.lo /\ x.hi = s.hi /\ x.mask # "raw"
  BY DEF IsRedaction, IsSpan, Parts, Mask
<1>2. t \o g \in Seq(Parts) /\ Tiled(t \o g) /\ EndOf(t \o g) = s.lo /\ MasksIn(t \o g) = MasksIn(t) /\ g \in Seq(Parts)
  BY <1>1, GapAt
<1> HIDE DEF x, g
<1>3. <<x>> \in Seq(Parts)
  BY <1>1
<1>4. t \o (g \o <<x>>) = (t \o g) \o <<x>>
  BY <1>2, <1>3, ConcatAssociative
<1>5. (t \o g) \o <<x>> = Append(t \o g, x)
  BY <1>1, <1>2, AppendIsConcat
<1> DEFINE u == t \o g
<1>7. u \in Seq(Parts) /\ Tiled(u) /\ x.lo = EndOf(u) /\ MasksIn(u) = MasksIn(t)
  BY <1>1, <1>2
<1> HIDE DEF u
<1>8. /\ Append(u, x) \in Seq(Parts) /\ Tiled(Append(u, x)) /\ EndOf(Append(u, x)) = x.hi
      /\ MasksIn(Append(u, x)) = MasksIn(u) \cup {x}
  BY <1>1, <1>7, AppendPart
<1>9. Piece(lo, s) = g \o <<x>>
  BY DEF x, g, Piece
<1>10. t \o Piece(lo, s) = Append(u, x)
  BY <1>4, <1>5, <1>9 DEF u
<1> QED BY <1>1, <1>7, <1>8, <1>10 DEF x

\* The masks of spans.
SpanMasks(spans) == {Mask(spans[i].mask, spans[i].lo, spans[i].hi) : i \in DOMAIN spans}

\* The parts of a text with the spans masked.
Woven(parts, len, spans) ==
    parts \in Seq(Parts) /\ Tiled(parts) /\ EndOf(parts) = len /\ MasksIn(parts) = SpanMasks(spans)

\* Splice covers the text from its start to its end, in order, with the masks of
\* the spans in the places of the spans.
LEMMA SpliceIs ==
    ASSUME NEW text, text.len \in Nat, NEW N \in Nat, NEW spans, DOMAIN spans = 1 .. N, Len(spans) = N,
           \A i \in 1 .. N : IsRedaction(spans[i]) /\ spans[i].hi <= text.len, Ordered(spans)
    PROVE  Woven(Splice(text, spans), text.len, spans)
<1> DEFINE Cursor(i) == IF i = 1 THEN 0 ELSE spans[i - 1].hi
           M(i) == Mask(spans[i].mask, spans[i].lo, spans[i].hi)
           ss == [i \in 1 .. N |-> Gap(Cursor(i), spans[i].lo) \o <<M(i)>>]
           rest == Gap(Cursor(N + 1), text.len)
<1>1. Splice(text, spans) = FlattenSeq(ss) \o rest
  BY DEF Splice, Gap
<1>2. ASSUME NEW i \in 1 .. N
      PROVE  /\ spans[i].lo \in Nat /\ spans[i].hi \in Nat /\ spans[i].lo <= spans[i].hi /\ spans[i].hi <= text.len
             /\ Cursor(i) \in Nat /\ Cursor(i) <= spans[i].lo
  <2>1. \A j \in 1 .. N : spans[j].lo \in Nat /\ spans[j].hi \in Nat /\ spans[j].lo <= spans[j].hi /\ spans[j].hi <= text.len
    BY DEF IsRedaction, IsSpan
  <2>2. CASE i = 1
    BY <2>1, <2>2
  <2>3. CASE i # 1
    <3>1. i - 1 \in 1 .. N /\ i \in 2 .. Len(spans)
      BY <2>3
    <3> QED BY <2>1, <2>3, <3>1 DEF Ordered
  <2> QED BY <2>2, <2>3
<1>3. \A i \in 1 .. N : Cursor(i + 1) = spans[i].hi
  OBVIOUS
<1>4. Cursor(1) = 0
  OBVIOUS
<1>5. \A i \in 1 .. N : ss[i] = Gap(Cursor(i), spans[i].lo) \o <<M(i)>>
  OBVIOUS
<1> HIDE DEF Cursor
<1>6. ss \in [1 .. N -> Seq(Parts)]
  <2>1. ASSUME NEW i \in 1 .. N PROVE ss[i] \in Seq(Parts)
    <3>1. <<>> \in Seq(Parts) /\ Tiled(<<>>) /\ MasksIn(<<>>) = {} /\ EndOf(<<>>) = 0
      BY DEF Tiled, MasksIn, EndOf, Range
    <3>2. Gap(Cursor(i), spans[i].lo) \in Seq(Parts) /\ <<M(i)>> \in Seq(Parts)
      <4>1. CASE Cursor(i) < spans[i].lo
        BY <1>2, <4>1 DEF Gap, Parts, Raw, IsRedaction, IsSpan, Mask
      <4>2. CASE ~(Cursor(i) < spans[i].lo)
        BY <1>2, <4>2 DEF Gap, Parts, Raw, IsRedaction, IsSpan, Mask
      <4> QED BY <4>1, <4>2
    <3> HIDE DEF M
    <3> QED BY <1>5, <3>2, ConcatProperties
  <2> HIDE DEF M
  <2> QED BY <2>1
<1> HIDE DEF ss
<1>7. PICK f : Flattens(f, ss, N, Parts) /\ FlattenSeq(ss) = f[N]
  BY <1>6, FlattenIs
<1>8. f \in [0 .. N -> Seq(Parts)] /\ f[0] = <<>> /\ \A i \in 1 .. N : f[i] = f[i - 1] \o ss[i]
  BY <1>7 DEF Flattens
<1> DEFINE P(n) == /\ Tiled(f[n]) /\ EndOf(f[n]) = Cursor(n + 1)
                   /\ MasksIn(f[n]) = {M(i) : i \in 1 .. n}
           S == {n \in Nat : n <= N => P(n)}
<1>9. 0 \in S
  <2>1. Tiled(<<>>) /\ MasksIn(<<>>) = {} /\ EndOf(<<>>) = 0
    BY DEF Tiled, MasksIn, EndOf, Range
  <2>2. {M(i) : i \in 1 .. 0} = {} /\ Cursor(0 + 1) = 0
    BY <1>4
  <2> HIDE DEF M
  <2> QED BY <1>8, <2>1, <2>2
<1>10. ASSUME NEW n \in S PROVE n + 1 \in S
  <2> SUFFICES ASSUME n + 1 <= N PROVE P(n + 1)
    OBVIOUS
  <2>1. P(n) /\ n \in 0 .. N /\ n + 1 \in 1 .. N /\ (n + 1) - 1 = n
    OBVIOUS
  <2>2. f[n] \in Seq(Parts) /\ f[n + 1] = f[n] \o ss[n + 1]
    BY <1>8, <2>1
  <2>3. PICK t \in Seq(Parts), lo \in Nat, s \in {spans[n + 1]} :
             /\ t = f[n] /\ lo = Cursor(n + 1) /\ s = spans[n + 1]
             /\ Tiled(t) /\ EndOf(t) = lo /\ IsRedaction(s) /\ lo <= s.lo
             /\ ss[n + 1] = Piece(lo, s)
    BY <1>2, <1>5, <2>1, <2>2 DEF Piece
  <2> DEFINE r == t \o Piece(lo, s)
  <2>4. Tiled(r) /\ EndOf(r) = s.hi /\ MasksIn(r) = MasksIn(t) \cup {Mask(s.mask, s.lo, s.hi)}
    BY <2>3, MaskAt
  <2>5. f[n + 1] = r
    BY <2>2, <2>3
  <2> HIDE DEF r
  <2>6. {M(i) : i \in 1 .. n + 1} = {M(i) : i \in 1 .. n} \cup {M(n + 1)}
    <3>1. 1 .. n + 1 = (1 .. n) \cup {n + 1}
      BY <2>1
    <3> HIDE DEF M
    <3> QED BY <3>1
  <2>7. M(n + 1) = Mask(s.mask, s.lo, s.hi)
    BY <2>3
  <2>8. Cursor((n + 1) + 1) = s.hi
    BY <1>3, <2>1, <2>3
  <2> HIDE DEF M
  <2> QED BY <2>1, <2>3, <2>4, <2>5, <2>6, <2>7, <2>8
<1>11. S = Nat
  <2> HIDE DEF S
  <2>1. S \in SUBSET Nat
    BY DEF S
  <2> QED BY <1>9, <1>10, <2>1, NatInd
<1>12. N \in S
  BY <1>11
<1>13. f[N] \in Seq(Parts) /\ P(N)
  <2>1. f[N] \in Seq(Parts)
    BY <1>8
  <2>2. P(N)
    <3> HIDE DEF P
    <3> QED BY <1>12
  <2> QED BY <2>1, <2>2
<1>14. Cursor(N + 1) \in Nat /\ Cursor(N + 1) <= text.len
  <2>1. CASE N = 0
    BY <1>4, <2>1
  <2>2. CASE N # 0
    <3>1. N \in 1 .. N
      BY <2>2
    <3> QED BY <1>2, <1>3, <3>1
  <2> QED BY <2>1, <2>2
<1> DEFINE t == f[N]
           lo == Cursor(N + 1)
           hi == text.len
<1>15. t \in Seq(Parts) /\ Tiled(t) /\ lo \in Nat /\ hi \in Nat /\ lo = EndOf(t) /\ lo <= hi
  BY <1>13, <1>14
<1> HIDE DEF t, lo, hi
<1>16. t \o Gap(lo, hi) \in Seq(Parts) /\ Tiled(t \o Gap(lo, hi)) /\ EndOf(t \o Gap(lo, hi)) = hi
       /\ MasksIn(t \o Gap(lo, hi)) = MasksIn(t)
  BY <1>15, GapAt
<1>17. Splice(text, spans) = t \o Gap(lo, hi)
  BY <1>1, <1>7 DEF t, lo, hi
<1> HIDE DEF M
<1>18. MasksIn(t) = {M(i) : i \in 1 .. N}
  BY <1>13 DEF t
<1>19. SpanMasks(spans) = {M(i) : i \in 1 .. N}
  BY DEF SpanMasks, M
<1> QED BY <1>16, <1>17, <1>18, <1>19 DEF Woven, hi

-----------------------------------------------------------------------------
(* Sequences of any elements, joined and placed *)

\* A sequence, whatever its elements.
IsSeq(s) == s \in Seq(Range(s))

\* A function on the first naturals is one.
LEMMA SeqIs ==
    ASSUME NEW N \in Nat, NEW s, DOMAIN s = 1 .. N, s = [i \in 1 .. N |-> s[i]]
    PROVE  IsSeq(s) /\ Len(s) = N
<1>1. s \in [1 .. N -> Range(s)]
  BY DEF Range
<1>2. s \in Seq(Range(s))
  BY <1>1
<1> QED BY <1>2 DEF IsSeq

\* What a sequence of any elements is.
LEMMA SeqFields ==
    ASSUME NEW s, IsSeq(s)
    PROVE  Len(s) \in Nat /\ DOMAIN s = 1 .. Len(s) /\ s = [i \in 1 .. Len(s) |-> s[i]]
BY DEF IsSeq

\* f is the sequences of ss one after the other.
Joined(f, ss, N) ==
    /\ IsSeq(f) /\ Lens(ss) \in [1 .. N -> Nat] /\ Len(f) = SumOf(Lens(ss))
    /\ \A i \in 1 .. N : \A j \in 1 .. Len(ss[i]) :
          Upto(Lens(ss), i - 1) + j \in 1 .. Len(f) /\ f[Upto(Lens(ss), i - 1) + j] = ss[i][j]
    /\ \A m \in 1 .. Len(f) : \E i \in 1 .. N : \E j \in 1 .. Len(ss[i]) : m = Upto(Lens(ss), i - 1) + j

\* FlattenSeq joins sequences of any elements.
LEMMA FlattenJoins ==
    ASSUME NEW N \in Nat, NEW ss, DOMAIN ss = 1 .. N, ss = [i \in 1 .. N |-> ss[i]], \A i \in 1 .. N : IsSeq(ss[i])
    PROVE  Joined(FlattenSeq(ss), ss, N)
<1> DEFINE A == UNION {Range(ss[i]) : i \in 1 .. N}
           f == FlattenSeq(ss)
<1>1. ss \in [1 .. N -> Seq(A)]
  <2>1. ASSUME NEW i \in 1 .. N PROVE ss[i] \in Seq(A)
    <3>1. Range(ss[i]) \subseteq A /\ ss[i] \in Seq(Range(ss[i]))
      BY DEF IsSeq
    <3> HIDE DEF A
    <3> QED BY <3>1, SeqMonotonic
  <2> HIDE DEF A
  <2> QED BY <2>1
<1> HIDE DEF A
<1>2. Flattened(f, ss, N, A)
  BY <1>1, FlattenAt
<1> HIDE DEF f
<1>3. f \in Seq(A)
  BY <1>2 DEF Flattened
<1>4. IsSeq(f)
  <2>1. Len(f) \in Nat /\ DOMAIN f = 1 .. Len(f) /\ f = [i \in 1 .. Len(f) |-> f[i]]
    BY <1>3
  <2> QED BY <2>1, SeqIs
<1> QED BY <1>2, <1>4 DEF Flattened, Joined, f

\* The elements of a part stand in the whole from a place on.
Placed(whole, first, part) ==
    \A j \in 1 .. Len(part) : (first + j) - 1 \in 1 .. Len(whole) /\ whole[(first + j) - 1] = part[j]

\* So do those of the parts of the part, each after the ones before it.
LEMMA PlacedPart ==
    ASSUME NEW whole, NEW first \in Nat, NEW f, NEW ss, NEW N \in Nat, Joined(f, ss, N), Placed(whole, first, f),
           NEW i \in 1 .. N
    PROVE  RecIdx(first, Lens(ss), i) \in Nat /\ Placed(whole, RecIdx(first, Lens(ss), i), ss[i])
<1> DEFINE c == Lens(ss)
           u == Upto(c, i - 1)
<1>1. c \in [1 .. N -> Nat] /\ i - 1 \in 0 .. N
  BY DEF Joined
<1> HIDE DEF c
<1>2. u \in Nat
  BY <1>1, SumPrefix
<1>3. RecIdx(first, c, i) = first + u
  BY DEF RecIdx, Upto
<1> HIDE DEF u
<1>4. ASSUME NEW j \in 1 .. Len(ss[i])
      PROVE  ((first + u) + j) - 1 \in 1 .. Len(whole) /\ whole[((first + u) + j) - 1] = ss[i][j]
  <2>1. u + j \in 1 .. Len(f) /\ f[u + j] = ss[i][j]
    BY DEF Joined, c, u
  <2>2. (first + (u + j)) - 1 \in 1 .. Len(whole) /\ whole[(first + (u + j)) - 1] = f[u + j]
    BY <2>1 DEF Placed
  <2>3. (first + (u + j)) - 1 = ((first + u) + j) - 1
    BY <1>2
  <2> QED BY <2>1, <2>2, <2>3
<1> QED BY <1>2, <1>3, <1>4 DEF Placed, c

\* A sum with one term more.
LEMMA SumAppend ==
    ASSUME NEW s \in Seq(Nat), NEW x \in Nat
    PROVE  SumOf(s) \in Nat /\ SumOf(Append(s, x)) = SumOf(s) + x
<1> DEFINE N == Len(s)
           r == Append(s, x)
<1>1. N \in Nat /\ s \in [1 .. N -> Nat] /\ r \in Seq(Nat) /\ Len(r) = N + 1 /\ r[N + 1] = x
  BY LenProperties, AppendProperties
<1>2. r \in [1 .. N + 1 -> Nat] /\ N + 1 \in Nat
  <2> HIDE DEF N, r
  <2>1. r \in [1 .. Len(r) -> Nat]
    BY <1>1, LenProperties
  <2> QED BY <1>1, <2>1
<1>3. SubSeq(r, 1, N) = s
  <2>1. SubSeq(r, 1, N) = [i \in 1 .. N |-> r[i]]
    BY <1>1
  <2>2. \A i \in 1 .. N : r[i] = s[i]
    BY AppendProperties
  <2>3. s = [i \in 1 .. N |-> s[i]]
    BY <1>1
  <2> HIDE DEF r
  <2> QED BY <2>1, <2>2, <2>3
<1> HIDE DEF N, r
<1>4. Upto(s, N) \in Nat /\ Upto(s, N) = SumOf(s)
  BY <1>1, SumPrefix
<1>5. Upto(r, N + 1) = SumOf(r) /\ Upto(r, N + 1) = Upto(r, (N + 1) - 1) + r[N + 1]
  BY <1>1, <1>2, SumPrefix
<1>6. (N + 1) - 1 = N
  BY <1>1
<1>7. Upto(r, N) = SumOf(s)
  BY <1>3 DEF Upto
<1> QED BY <1>1, <1>4, <1>5, <1>6, <1>7 DEF r

-----------------------------------------------------------------------------
(* Rebuilt messages. *)

\* What a field has become.
After(f, c) == IF c.kind = "unchanged" THEN f ELSE c

\* A field that stays, or the one in its place.
Kept(c) == c = Unchanged \/ c.kind \in {"str", "msg"}

\* Where nothing is dropped, each field has one after it, in its place.
LEMMA EmitKept ==
    ASSUME NEW N \in Nat, NEW fields, DOMAIN fields = 1 .. N, NEW child, \A i \in 1 .. N : Kept(child[i])
    PROVE  Emit(fields, child) = [i \in 1 .. N |-> After(fields[i], child[i])]
<1> DEFINE x == [i \in 1 .. N |-> After(fields[i], child[i])]
           A == {x[i] : i \in 1 .. N}
           One(i) == CASE child[i].kind = "unchanged" -> <<fields[i]>>
                       [] child[i].kind = "dropped"   -> <<>>
                       [] OTHER                       -> <<child[i]>>
           ss == [i \in 1 .. N |-> One(i)]
<1>1. x \in [1 .. N -> A]
  OBVIOUS
<1>2. ASSUME NEW i \in 1 .. N PROVE One(i) = <<x[i]>>
  <2>1. child[i].kind = "unchanged" \/ child[i].kind \in {"str", "msg"}
    BY DEF Kept, Unchanged
  <2> QED BY <2>1 DEF After
<1>3. ss = [i \in 1 .. N |-> <<x[i]>>]
  BY <1>2
<1>4. Emit(fields, child) = FlattenSeq(ss)
  BY DEF Emit
<1> HIDE DEF x, A, ss
<1>5. FlattenSeq(ss) = x
  BY <1>1, <1>3, FlattenOnes
<1> QED BY <1>4, <1>5 DEF x

\* A rebuilt message, or the message that stays, holds what is emitted.
LEMMA RebuiltIs ==
    ASSUME NEW f, f = Msg(f.no, f.fields), NEW N \in Nat, f.fields = [i \in 1 .. N |-> f.fields[i]],
           NEW child, DOMAIN child = 1 .. N
    PROVE  Kept(Rebuilt(f, child)) /\ After(f, Rebuilt(f, child)) = Msg(f.no, Emit(f.fields, child))
<1>1. CASE \A i \in 1 .. N : child[i] = Unchanged
  <2>1. Rebuilt(f, child) = Unchanged
    BY <1>1 DEF Rebuilt
  <2>2. DOMAIN f.fields = 1 .. N
    OBVIOUS
  <2>3. Emit(f.fields, child) = [i \in 1 .. N |-> After(f.fields[i], child[i])]
    BY <1>1, <2>2, EmitKept DEF Kept
  <2>4. \A i \in 1 .. N : After(f.fields[i], child[i]) = f.fields[i]
    BY <1>1 DEF After, Unchanged
  <2>5. Emit(f.fields, child) = f.fields
    BY <2>3, <2>4
  <2> QED BY <2>1, <2>5 DEF Kept, After, Unchanged
<1>2. CASE ~ \A i \in 1 .. N : child[i] = Unchanged
  <2> DEFINE e == Emit(f.fields, child)
  <2>1. Rebuilt(f, child) = [f EXCEPT !.fields = e, !.size = EncodedLens(e)]
    BY <1>2 DEF Rebuilt
  <2> HIDE DEF e
  <2>2. f = [kind |-> "msg", no |-> f.no, size |-> EncodedLens(f.fields), fields |-> f.fields]
    BY DEF Msg
  <2>3. Rebuilt(f, child) = Msg(f.no, e)
    <3> DEFINE no == f.no
               s  == EncodedLens(f.fields)
               fs == f.fields
               n  == EncodedLens(e)
    <3>1. f = [kind |-> "msg", no |-> no, size |-> s, fields |-> fs]
      BY <2>2
    <3>2. Rebuilt(f, child) = [f EXCEPT !.fields = e, !.size = n]
      BY <2>1
    <3>3. Msg(f.no, e) = [kind |-> "msg", no |-> no, size |-> n, fields |-> e]
      BY DEF Msg
    <3> HIDE DEF no, s, fs, n
    <3> QED BY <3>1, <3>2, <3>3
  <2>4. Msg(f.no, e).kind = "msg"
    BY DEF Msg
  <2> QED BY <2>3, <2>4 DEF Kept, After, e
<1> QED BY <1>1, <1>2

\* Splice weaves spans that lie in the text and do not overlap.
LEMMA SpliceWoven ==
    ASSUME NEW text, text.len \in Nat, NEW A, \A s \in A : IsRedaction(s) /\ s.hi <= text.len,
           NEW spans \in Seq(A), Ordered(spans)
    PROVE  Woven(Splice(text, spans), text.len, spans)
<1> DEFINE N == Len(spans)
<1>1. N \in Nat /\ DOMAIN spans = 1 .. N /\ \A i \in 1 .. N : spans[i] \in A
  OBVIOUS
<1>2. \A i \in 1 .. N : IsRedaction(spans[i]) /\ spans[i].hi <= text.len
  BY <1>1
<1>3. Len(spans) = N
  OBVIOUS
<1> HIDE DEF N
<1> QED BY <1>1, <1>2, <1>3, SpliceIs

\* A path with one more step.
LEMMA PathAppend ==
    ASSUME NEW S, NEW p \in Seq(S), NEW x \in S, NEW q \in Seq(S), Len(q) = Len(p) + 1, q[Len(p) + 1] = x,
           \A n \in 1 .. Len(p) : q[n] = p[n]
    PROVE  Append(p, x) = q
<1> DEFINE a == Append(p, x)
<1>1. /\ a \in Seq(S) /\ Len(a) = Len(p) + 1 /\ a[Len(p) + 1] = x
      /\ \A n \in 1 .. Len(p) : a[n] = p[n]
  BY AppendProperties
<1> HIDE DEF a
<1>2. \A n \in 1 .. Len(q) : a[n] = q[n]
  BY <1>1
<1>3. a = q
  BY <1>1, <1>2
<1> QED BY <1>3 DEF a

\* Paths of two steps.
LEMMA ShortPath ==
    ASSUME NEW i, NEW j
    PROVE  Append(<<i>>, j) = <<i, j>> /\ Len(<<i, j>>) = 2 /\ <<i, j>>[1] = i /\ <<i, j>>[2] = j
<1> DEFINE S == {i, j}
           p == <<i>>
           q == <<i, j>>
<1>1. p \in Seq(S) /\ q \in Seq(S) /\ j \in S
  OBVIOUS
<1>2. Len(p) = 1 /\ p[1] = i /\ Len(q) = 2 /\ q[1] = i /\ q[2] = j
  OBVIOUS
<1> HIDE DEF S, p, q
<1>3. Len(q) = Len(p) + 1 /\ q[Len(p) + 1] = j /\ \A n \in 1 .. Len(p) : q[n] = p[n]
  BY <1>2
<1>4. Append(p, j) = q
  BY <1>1, <1>2, <1>3, PathAppend
<1> QED BY <1>2, <1>4 DEF p, q

\* Three steps.
LEMMA LongerPath ==
    ASSUME NEW i, NEW j, NEW k
    PROVE  /\ Append(<<i, j>>, k) = <<i, j, k>>
           /\ Len(<<i, j, k>>) = 3 /\ <<i, j, k>>[1] = i /\ <<i, j, k>>[2] = j /\ <<i, j, k>>[3] = k
<1> DEFINE S == {i, j, k}
           p == <<i, j>>
           q == <<i, j, k>>
<1>1. p \in Seq(S) /\ q \in Seq(S) /\ k \in S
  OBVIOUS
<1>2. Len(p) = 2 /\ p[1] = i /\ p[2] = j /\ Len(q) = 3 /\ q[1] = i /\ q[2] = j /\ q[3] = k
  OBVIOUS
<1> HIDE DEF S, p, q
<1>3. Len(q) = Len(p) + 1 /\ q[Len(p) + 1] = k /\ \A n \in 1 .. Len(p) : q[n] = p[n]
  BY <1>2
<1>4. Append(p, k) = q
  BY <1>1, <1>2, <1>3, PathAppend
<1> QED BY <1>2, <1>4 DEF p, q

\* A set of places in a sequence that is not empty has a largest one.
LEMMA Largest ==
    ASSUME NEW N \in Nat, NEW S \in SUBSET (1 .. N), S # {}
    PROVE  Max(S) \in S
<1> DEFINE T == {(N + 1) - x : x \in S}
<1>1. T \in SUBSET Nat /\ T # {}
  <2>1. ASSUME NEW x \in S PROVE (N + 1) - x \in Nat
    <3>1. x \in 1 .. N
      OBVIOUS
    <3> QED BY <3>1
  <2> QED BY <2>1
<1>2. Min(T) \in T /\ \A y \in T : Min(T) <= y
  BY <1>1, Smallest
<1>3. PICK m \in S : Min(T) = (N + 1) - m
  BY <1>2
<1>4. \A x \in S : m >= x
  <2>1. ASSUME NEW x \in S PROVE m >= x
    <3>1. (N + 1) - x \in T
      OBVIOUS
    <3>2. Min(T) <= (N + 1) - x
      BY <1>2, <3>1
    <3> QED BY <1>3, <3>2
  <2> QED BY <2>1
<1>5. \E y \in S : \A x \in S : y >= x
  BY <1>4
<1> QED BY <1>5 DEF Max

\* A path that goes on.
LEMMA PathConcat == ASSUME NEW i, NEW j, NEW k PROVE <<i>> \o <<j, k>> = <<i, j, k>>
<1> DEFINE S == {i, j, k}
           p == <<i>>
           q == <<j, k>>
           r == <<i, j, k>>
           c == p \o q
<1>1. p \in Seq(S) /\ q \in Seq(S) /\ r \in Seq(S)
  OBVIOUS
<1>2. Len(p) = 1 /\ p[1] = i /\ Len(q) = 2 /\ q[1] = j /\ q[2] = k /\ Len(r) = 3 /\ r[1] = i /\ r[2] = j /\ r[3] = k
  OBVIOUS
<1> HIDE DEF S, p, q, r
<1>3. /\ c \in Seq(S) /\ Len(c) = Len(p) + Len(q)
      /\ \A n \in 1 .. Len(p) : c[n] = p[n] /\ \A m \in 1 .. Len(q) : c[Len(p) + m] = q[m]
  BY <1>1, ConcatAt
<1> HIDE DEF c
<1>4. Len(c) = 3 /\ c[1] = i /\ c[2] = j /\ c[3] = k
  <2>1. c[1] = p[1]
    BY <1>2, <1>3
  <2>2. c[1 + 1] = q[1] /\ c[1 + 2] = q[2]
    BY <1>2, <1>3
  <2> QED BY <1>2, <1>3, <2>1, <2>2
<1>5. \A n \in 1 .. Len(r) : c[n] = r[n]
  BY <1>2, <1>4
<1>6. c = r
  BY <1>1, <1>2, <1>3, <1>4, <1>5
<1> QED BY <1>6 DEF c, p, q, r

\* The elements of joined sequences are theirs.
LEMMA JoinedRange ==
    ASSUME NEW N \in Nat, NEW ss, NEW f, Joined(f, ss, N), \A i \in 1 .. N : IsSeq(ss[i])
    PROVE  /\ \A x \in Range(f) : \E i \in 1 .. N : x \in Range(ss[i])
           /\ \A i \in 1 .. N : Range(ss[i]) \subseteq Range(f)
<1>1. DOMAIN f = 1 .. Len(f)
  BY SeqFields DEF Joined
<1>2. \A i \in 1 .. N : DOMAIN ss[i] = 1 .. Len(ss[i])
  BY SeqFields
<1>3. ASSUME NEW x \in Range(f) PROVE \E i \in 1 .. N : x \in Range(ss[i])
  <2>1. PICK m \in 1 .. Len(f) : x = f[m]
    BY <1>1 DEF Range
  <2>2. PICK i \in 1 .. N : \E j \in 1 .. Len(ss[i]) : m = Upto(Lens(ss), i - 1) + j
    BY DEF Joined
  <2>3. PICK j \in 1 .. Len(ss[i]) : m = Upto(Lens(ss), i - 1) + j
    BY <2>2
  <2>4. f[m] = ss[i][j]
    BY <2>3 DEF Joined
  <2> QED BY <1>2, <2>1, <2>4 DEF Range
<1>4. ASSUME NEW i \in 1 .. N, NEW x \in Range(ss[i]) PROVE x \in Range(f)
  <2>1. PICK j \in 1 .. Len(ss[i]) : x = ss[i][j]
    BY <1>2 DEF Range
  <2> DEFINE m == Upto(Lens(ss), i - 1) + j
  <2>2. m \in 1 .. Len(f) /\ f[m] = ss[i][j]
    BY DEF Joined
  <2> HIDE DEF m
  <2> QED BY <1>1, <2>1, <2>2 DEF Range
<1> QED BY <1>3, <1>4

\* Those of two sequences, one after the other, are theirs.
LEMMA ConcatRange ==
    ASSUME NEW s, NEW t, IsSeq(s), IsSeq(t)
    PROVE  IsSeq(s \o t) /\ Range(s \o t) = Range(s) \cup Range(t)
<1> DEFINE A == Range(s) \cup Range(t)
           c == s \o t
<1>1. s \in Seq(A) /\ t \in Seq(A)
  <2>1. s \in Seq(Range(s)) /\ t \in Seq(Range(t))
    BY DEF IsSeq
  <2> QED BY <2>1, SeqMonotonic
<1> HIDE DEF A
<1>2. /\ c \in Seq(A) /\ Len(s) \in Nat /\ Len(t) \in Nat /\ Len(c) = Len(s) + Len(t)
      /\ \A k \in 1 .. Len(s) : c[k] = s[k]
      /\ \A k \in 1 .. Len(t) : c[Len(s) + k] = t[k]
  BY <1>1, ConcatAt
<1>3. DOMAIN s = 1 .. Len(s) /\ DOMAIN t = 1 .. Len(t)
  BY <1>1
<1> HIDE DEF c
<1>4. DOMAIN c = 1 .. Len(c) /\ c = [i \in 1 .. Len(c) |-> c[i]] /\ Len(c) \in Nat
  BY <1>2
<1>5. IsSeq(c)
  BY <1>4, SeqIs
<1>6. ASSUME NEW x \in Range(c) PROVE x \in Range(s) \cup Range(t)
  <2>1. PICK m \in 1 .. Len(c) : x = c[m]
    BY <1>4 DEF Range
  <2>2. CASE m \in 1 .. Len(s)
    BY <1>2, <1>3, <2>1, <2>2 DEF Range
  <2>3. CASE m \notin 1 .. Len(s)
    <3>1. m - Len(s) \in 1 .. Len(t) /\ Len(s) + (m - Len(s)) = m
      BY <1>2, <2>3
    <3>2. c[m] = t[m - Len(s)]
      BY <1>2, <3>1
    <3> QED BY <1>3, <2>1, <3>1, <3>2 DEF Range
  <2> QED BY <2>2, <2>3
<1>7. ASSUME NEW x \in Range(s) PROVE x \in Range(c)
  <2>1. PICK k \in 1 .. Len(s) : x = s[k]
    BY <1>3 DEF Range
  <2>2. k \in 1 .. Len(c) /\ c[k] = x
    BY <1>2, <2>1
  <2> QED BY <1>4, <2>2 DEF Range
<1>8. ASSUME NEW x \in Range(t) PROVE x \in Range(c)
  <2>1. PICK k \in 1 .. Len(t) : x = t[k]
    BY <1>3 DEF Range
  <2>2. Len(s) + k \in 1 .. Len(c) /\ c[Len(s) + k] = x
    BY <1>2, <2>1
  <2> QED BY <1>4, <2>2 DEF Range
<1> QED BY <1>5, <1>6, <1>7, <1>8 DEF c

=============================================================================
