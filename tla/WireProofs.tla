----------------------------- MODULE WireProofs -----------------------------
(***************************************************************************)
(* Theorems about Wire, for any set of requests, of any length, and any    *)
(* depth of nesting.                                                       *)
(***************************************************************************)
EXTENDS Wire, SequenceTheorems, WellFoundedInduction, TLAPS

-----------------------------------------------------------------------------
(* Naturals *)

\* A set of naturals that is not empty has a smallest element: the first check
\* that fails, the first byte that ends a varint.
LEMMA Smallest ==
    ASSUME NEW S \in SUBSET Nat, S # {}
    PROVE  Min(S) \in S /\ \A y \in S : Min(S) <= y
<1> DEFINE R == {p \in Nat \X Nat : p[1] < p[2]}
<1>1. IsWellFoundedOn(R, Nat)
  BY NatLessThanWellFounded DEF OpToRel
<1>2. PICK x \in S : \A y \in S : <<y, x>> \notin R
  <2> HIDE DEF R
  <2> QED BY <1>1, WFMin
<1>3. ASSUME NEW y \in S PROVE x <= y
  <2>1. y \in Nat /\ x \in Nat
    OBVIOUS
  <2>2. ~(y < x)
    BY <1>2, <2>1
  <2> QED BY <2>1, <2>2
<1> QED BY <1>3 DEF Min

\* A set of naturals with zero and the successor of each of its elements has
\* every natural.
LEMMA NatInd ==
    ASSUME NEW S \in SUBSET Nat, 0 \in S, \A n \in S : n + 1 \in S
    PROVE  S = Nat
<1> SUFFICES ASSUME Nat \ S # {} PROVE FALSE
  OBVIOUS
<1>1. Min(Nat \ S) \in Nat \ S /\ \A y \in Nat \ S : Min(Nat \ S) <= y
  BY Smallest
<1>2. Min(Nat \ S) - 1 \in S
  BY <1>1
<1> QED BY <1>1, <1>2

-----------------------------------------------------------------------------
(* The cursor and the wire format *)

\* What a byte gives a digit of base 128.
LEMMA Digits ==
    ASSUME NEW x \in Nat
    PROVE  /\ x % 128 \in Nat /\ x % 128 < 128 /\ x % 2 \in Nat /\ x % 2 < 128
           /\ (x % 128) % 128 = x % 128 /\ (x % 128) % 2 = x % 2 /\ (x % 128) % 8 = x % 8
  OBVIOUS

\* A varint ends at one byte.
LEMMA VarintUnique ==
    ASSUME NEW b \in Seq(Nat), NEW lo \in Nat, NEW h \in Nat, NEW i \in Nat,
           VarintAt(b, lo, h), VarintAt(b, lo, i)
    PROVE  h = i
<1>1. b[h] \in Nat /\ b[i] \in Nat
  BY DEF VarintAt
<1> QED BY <1>1 DEF VarintAt

\* Ten digits to the base 128.
IsU64(v) == v \in [1 .. 10 -> Nat] /\ \A k \in 1 .. 10 : v[k] < 128

\* What a cursor at p, whose window ends at e, should make of a varint: it is
\* read exactly where there is one of at most ten bytes, digit by digit, and
\* the cursor ends behind it.
VarintRead(b, p, e, r) ==
    /\ r.err \in {"none", "Truncated", "VarintOverflow"}
    /\ r.err = "none" =>
          /\ r.pos \in p + 1 .. p + 10 /\ r.pos <= e
          /\ VarintAt(b, p, r.pos)
          /\ IsU64(r.v)
          /\ \A k \in Digits10 : r.v[k] = DigitAt(b, p, r.pos, k)
    /\ r.err # "none" =>
          /\ r.pos = p
          /\ \A h \in p + 1 .. p + 10 : h <= e => ~VarintAt(b, p, h)

\* WireCursor::varint reads the varint that begins at the cursor, and fails when none does.
LEMMA VarintReads ==
    ASSUME NEW b \in Seq(Nat), NEW p \in Nat, NEW e \in Nat, p <= e, e <= Len(b),
           NEW c, c.pos = p, c.end = e
    PROVE  VarintRead(b, p, e, varint(b, c))
<1> DEFINE stops == {n \in 1 .. e - p : b[p + n] < 128}
<1> DEFINE first == IF stops = {} THEN e - p + 1 ELSE Min(stops)
<1> DEFINE V(n) == [k \in Digits10 |-> IF k > n THEN 0 ELSE (b[p + k] % 128) % (IF k = 10 THEN 2 ELSE 128)]
<1>0. p \in Nat /\ e \in Nat /\ p <= e /\ e <= Len(b) /\ Len(b) \in Nat
  OBVIOUS
<1>1. \A i \in 1 .. Len(b) : b[i] \in Nat
  OBVIOUS
<1>2. PICK n \in Nat :
         /\ n = first
         /\ stops # {} => /\ n \in 1 .. e - p /\ b[p + n] < 128
                          /\ \A m \in 1 .. e - p : b[p + m] < 128 => n <= m
  <2>1. stops \in SUBSET Nat
    BY <1>0
  <2> HIDE DEF stops
  <2>2. stops = {} => first \in Nat
    BY <1>0
  <2>3. stops # {} => first \in stops /\ \A y \in stops : first <= y
    BY <2>1, Smallest
  <2>4. first \in Nat
    BY <2>1, <2>2, <2>3
  <2> HIDE DEF first
  <2> QED BY <2>3, <2>4 DEF stops
<1>3. stops = {} => \A m \in 1 .. e - p : ~(b[p + m] < 128)
  OBVIOUS
<1>4. varint(b, c) = IF n > 10 /\ e - p > 10 THEN Read("VarintOverflow", p, U64(0))
                     ELSE IF stops = {} THEN Read("Truncated", p, U64(0))
                     ELSE Read("none", p + n, V(n))
  BY <1>2 DEF varint
<1> DEFINE v == V(n)
<1> HIDE DEF stops, first, V
<1>5. ASSUME NEW h \in p + 1 .. e, b[h] < 128
      PROVE  stops # {} /\ n <= h - p
  <2>1. PICK m \in 1 .. e - p : h = p + m
    <3>1. h - p \in 1 .. e - p /\ h = p + (h - p)
      BY <1>0
    <3> QED BY <3>1
  <2>2. b[p + m] < 128
    BY <1>5, <2>1
  <2>3. stops # {}
    BY <1>3, <2>2
  <2>4. n <= m
    BY <1>2, <2>2, <2>3
  <2> QED BY <2>1, <2>3, <2>4, <1>0
<1>6. CASE n > 10 /\ e - p > 10
  <2>1. varint(b, c).err = "VarintOverflow" /\ varint(b, c).pos = p
    BY <1>4, <1>6 DEF Read
  <2>2. ASSUME NEW h \in p + 1 .. p + 10, h <= e, VarintAt(b, p, h)
        PROVE  FALSE
    <3>1. h \in p + 1 .. e /\ b[h] < 128
      BY <2>2, <1>0 DEF VarintAt
    <3>2. n <= h - p
      BY <3>1, <1>5
    <3> QED BY <3>2, <1>6, <1>0
  <2> QED BY <2>1, <2>2 DEF VarintRead
<1>7. CASE ~(n > 10 /\ e - p > 10) /\ stops = {}
  <2>1. varint(b, c).err = "Truncated" /\ varint(b, c).pos = p
    BY <1>4, <1>7 DEF Read
  <2>2. ASSUME NEW h \in p + 1 .. p + 10, h <= e, VarintAt(b, p, h)
        PROVE  FALSE
    <3>1. h \in p + 1 .. e /\ b[h] < 128
      BY <2>2, <1>0 DEF VarintAt
    <3> QED BY <3>1, <1>5, <1>7
  <2> QED BY <2>1, <2>2 DEF VarintRead
<1>8. CASE ~(n > 10 /\ e - p > 10) /\ stops # {}
  <2>1. varint(b, c).err = "none" /\ varint(b, c).pos = p + n /\ varint(b, c).v = v
    BY <1>4, <1>8 DEF Read
  <2>2. n \in 1 .. 10 /\ p + n <= e /\ p + n \in p + 1 .. p + 10
    BY <1>8, <1>0, <1>2
  <2>3. VarintAt(b, p, p + n)
    <3>1. ASSUME NEW j \in p + 1 .. p + n - 1
          PROVE  b[j] >= 128
      <4>1. j \in p + 1 .. e /\ ~(n <= j - p)
        BY <1>0, <2>2
      <4>2. b[j] \in Nat
        BY <1>0, <1>1, <2>2
      <4>3. ~(b[j] < 128)
        BY <4>1, <1>5
      <4> QED BY <4>2, <4>3
    <3> QED BY <3>1, <2>2, <1>2, <1>8, <1>0 DEF VarintAt
  <2>4. ASSUME NEW k \in Digits10
        PROVE  v[k] = DigitAt(b, p, p + n, k) /\ v[k] \in Nat /\ v[k] < 128
    <3>1. k \in 1 .. 10
      BY DEF Digits10
    <3>2. CASE k > n
      BY <3>1, <3>2, <2>2, <1>0 DEF DigitAt, V
    <3>3. CASE ~(k > n)
      <4>1. b[p + k] \in Nat
        BY <3>1, <3>3, <2>2, <1>0, <1>1
      <4>2. DigitAt(b, p, p + n, k) = b[p + k] % (IF k = 10 THEN 2 ELSE 128)
        BY <3>1, <3>3, <2>2, <1>0 DEF DigitAt
      <4>3. v[k] = (b[p + k] % 128) % (IF k = 10 THEN 2 ELSE 128)
        BY <3>3 DEF V
      <4> DEFINE x == b[p + k]
      <4>4. /\ x % 128 \in Nat /\ x % 128 < 128 /\ x % 2 \in Nat /\ x % 2 < 128
            /\ (x % 128) % 128 = x % 128 /\ (x % 128) % 2 = x % 2
        <5>1. x \in Nat
          BY <4>1
        <5> HIDE DEF x
        <5> QED BY ONLY <5>1, Digits
      <4> HIDE DEF v
      <4>5. CASE k = 10
        BY ONLY <4>2, <4>3, <4>4, <4>5
      <4>6. CASE k # 10
        BY ONLY <4>2, <4>3, <4>4, <4>6
      <4> QED BY <4>5, <4>6
    <3> QED BY <3>2, <3>3
  <2> HIDE DEF v
  <2>5. IsU64(v)
    BY <2>4 DEF v, V, IsU64, Digits10
  <2> QED BY <2>1, <2>2, <2>3, <2>4, <2>5 DEF VarintRead
<1> QED BY <1>6, <1>7, <1>8

\* ... of a length: it is read exactly where there is one that fits, and the
\* range is the one it stands for,
LenRead(b, p, e, r) ==
    /\ r.err \in {"none", "Truncated", "VarintOverflow", "LengthOverrun"}
    /\ r.err = "none" =>
          /\ r.start \in p + 1 .. p + 10 /\ r.pos \in r.start .. e
          /\ VarintAt(b, p, r.start) /\ ValueAt(b, p, r.start, r.pos - r.start)
    /\ \A h \in p .. e, len \in p + 1 .. p + 10 :
          len <= h /\ VarintAt(b, p, len) /\ ValueAt(b, p, len, h - len) => r.err = "none" /\ h = r.pos

\* WireCursor::len_range reads a length and the range it stands for.
LEMMA LenReads ==
    ASSUME NEW b \in Seq(Nat), NEW p \in Nat, NEW e \in Nat, p <= e, e <= Len(b),
           NEW c, c.pos = p, c.end = e
    PROVE  LenRead(b, p, e, len_range(b, c))
<1> DEFINE r == varint(b, c)
<1>1. VarintRead(b, p, e, r)
  BY VarintReads
<1> HIDE DEF r
<1>2. CASE r.err # "none"
  <2>1. len_range(b, c).err = r.err
    BY <1>2 DEF len_range, r
  <2>2. ASSUME NEW h \in p .. e, NEW len \in p + 1 .. p + 10, len <= h, VarintAt(b, p, len)
        PROVE  FALSE
    <3>1. len <= e
      BY <2>2
    <3> QED BY <3>1, <2>2, <1>1, <1>2 DEF VarintRead
  <2> QED BY <2>1, <2>2, <1>1, <1>2 DEF VarintRead, LenRead
<1>3. CASE r.err = "none"
  <2>1. PICK q \in Nat : q = r.pos /\ q \in p + 1 .. p + 10 /\ q <= e /\ VarintAt(b, p, q)
    BY <1>1, <1>3 DEF VarintRead
  <2>2. PICK v \in [1 .. 10 -> Nat] : v = r.v /\ \A k \in Digits10 : v[k] = DigitAt(b, p, q, k)
    BY <1>1, <1>3, <2>1 DEF VarintRead, IsU64
  <2>3. \A n \in Int : ValueAt(b, p, q, n) <=> IsSmall(v) /\ n = Small(v)
    <3>1. \A k \in 1 .. 10 : v[k] = DigitAt(b, p, q, k)
      BY <2>2 DEF Digits10
    <3>2. /\ DigitAt(b, p, q, 1) = v[1] /\ DigitAt(b, p, q, 2) = v[2]
          /\ DigitAt(b, p, q, 3) = v[3] /\ DigitAt(b, p, q, 4) = v[4]
      BY <3>1
    <3>3. (\A k \in 5 .. 10 : DigitAt(b, p, q, k) = 0) <=> \A k \in 5 .. 10 : v[k] = 0
      BY <3>1
    <3>4. ASSUME NEW n \in Int
          PROVE  n = v[1] + 128 * v[2] + 128 * 128 * v[3] + 128 * 128 * 128 * v[4] <=> n = Small(v)
      BY ONLY DEF Small
    <3>5. ASSUME NEW n \in Int PROVE ValueAt(b, p, q, n) <=> IsSmall(v) /\ n = Small(v)
      <4>1. ValueAt(b, p, q, n) <=> /\ n = v[1] + 128 * v[2] + 128 * 128 * v[3] + 128 * 128 * 128 * v[4]
                                    /\ \A k \in 5 .. 10 : DigitAt(b, p, q, k) = 0
        BY ONLY <3>2 DEF ValueAt
      <4> QED BY ONLY <3>3, <3>4, <4>1 DEF IsSmall
    <3> QED BY ONLY <3>5
  <2>4. Small(v) \in Nat
    <3>1. v[1] \in Nat /\ v[2] \in Nat /\ v[3] \in Nat /\ v[4] \in Nat
      OBVIOUS
    <3>2. PICK i \in Nat, j \in Nat, k \in Nat, l \in Nat : i = v[1] /\ j = v[2] /\ k = v[3] /\ l = v[4]
      BY <3>1
    <3>3. Small(v) = i + 128 * j + 128 * 128 * k + 128 * 128 * 128 * l
      BY <3>2 DEF Small
    <3>4. i + 128 * j + 128 * 128 * k + 128 * 128 * 128 * l \in Nat
      BY ONLY i \in Nat, j \in Nat, k \in Nat, l \in Nat
    <3> QED BY <3>3, <3>4
  <2>5. len_range(b, c).err = IF IsSmall(v) /\ q + Small(v) <= e THEN "none" ELSE "LengthOverrun"
    BY <1>3, <2>1, <2>2 DEF len_range, Fits, r
  <2>6. len_range(b, c).err = "none" => len_range(b, c).pos = q + Small(v) /\ len_range(b, c).start = q
    BY <1>3, <2>1, <2>2 DEF len_range, Fits, r
  <2> HIDE DEF r
  <2>7. PICK n \in Nat : n = Small(v)
    BY <2>4
  <2>8. ASSUME len_range(b, c).err = "none"
        PROVE  LET s == len_range(b, c)
               IN  /\ s.start \in p + 1 .. p + 10 /\ s.pos \in s.start .. e
                   /\ VarintAt(b, p, s.start) /\ ValueAt(b, p, s.start, s.pos - s.start)
    <3>1. IsSmall(v) /\ q + n <= e
      BY <2>5, <2>7, <2>8
    <3>2. ValueAt(b, p, q, n)
      BY <2>3, <2>7, <3>1
    <3>3. (q + n <= e => q + n \in q .. e) /\ (q + n) - q = n
      BY ONLY q \in Nat, n \in Nat, e \in Nat
    <3> QED BY <3>1, <3>2, <3>3, <2>1, <2>6, <2>7, <2>8
  <2>9. ASSUME NEW h \in p .. e, NEW len \in p + 1 .. p + 10, len <= h,
               VarintAt(b, p, len), ValueAt(b, p, len, h - len)
        PROVE  len_range(b, c).err = "none" /\ h = len_range(b, c).pos
    <3>0. len \in Nat
      OBVIOUS
    <3>1. len = q
      BY ONLY <3>0, b \in Seq(Nat), p \in Nat, q \in Nat, <2>1, <2>9, VarintUnique
    <3>2. IsSmall(v) /\ h - q = n
      BY <2>3, <2>7, <2>9, <3>1
    <3>3. q + n = h /\ q + n <= e
      BY ONLY <3>2, q \in Nat, n \in Nat, h \in p .. e, p \in Nat, e \in Nat
    <3> QED BY <3>2, <3>3, <2>5, <2>6, <2>7
  <2> QED BY <2>5, <2>8, <2>9 DEF LenRead
<1> QED BY <1>1, <1>2, <1>3 DEF VarintRead

\* ... and of what follows a tag.
SkipRead(b, wire, p, e, r) ==
    /\ r.err \in {"none", "Truncated", "VarintOverflow", "LengthOverrun", "UnsupportedWire"}
    /\ r.err = "none" => r.pos \in p .. e /\ PayloadAt(b, wire, p, r.pos)
    /\ \A h \in p .. e : PayloadAt(b, wire, p, h) => r.err = "none" /\ h = r.pos

\* WireCursor::skip passes exactly over what the tag's wire type says, or fails.
LEMMA SkipReads ==
    ASSUME NEW b \in Seq(Nat), NEW p \in Nat, NEW e \in Nat, p <= e, e <= Len(b),
           NEW c, c.pos = p, c.end = e, NEW wire \in Nat
    PROVE  SkipRead(b, wire, p, e, skip(b, c, wire))
<1>1. CASE wire = 0
  <2>1. skip(b, c, wire) = varint(b, c)
    BY <1>1 DEF skip
  <2>2. \A h \in Int : PayloadAt(b, wire, p, h) <=> (h - p <= 10 /\ VarintAt(b, p, h))
    BY <1>1 DEF PayloadAt
  <2>3. ASSUME NEW h \in p .. e, PayloadAt(b, wire, p, h)
        PROVE  varint(b, c).err = "none" /\ h = varint(b, c).pos
    <3>1. VarintAt(b, p, h) /\ h \in p + 1 .. p + 10
      BY <2>2, <2>3 DEF VarintAt
    <3>2. varint(b, c).err = "none"
      BY <3>1, VarintReads DEF VarintRead
    <3>3. VarintAt(b, p, varint(b, c).pos) /\ varint(b, c).pos \in Nat
      BY <3>2, VarintReads DEF VarintRead
    <3> QED BY <3>1, <3>2, <3>3, VarintUnique
  <2>4. ASSUME varint(b, c).err = "none"
        PROVE  varint(b, c).pos \in p .. e /\ PayloadAt(b, wire, p, varint(b, c).pos)
    <3>1. PICK q \in Nat : q = varint(b, c).pos /\ q \in p + 1 .. p + 10 /\ q <= e /\ VarintAt(b, p, q)
      BY <2>4, VarintReads DEF VarintRead
    <3> QED BY <3>1, <2>2
  <2> QED BY <2>1, <2>3, <2>4, VarintReads DEF VarintRead, SkipRead
<1>2. CASE wire = 1
  <2>1. skip(b, c, wire) = IF p + 8 <= e THEN Read("none", p + 8, U64(0)) ELSE Read("Truncated", p, U64(0))
    BY <1>2 DEF skip, advance
  <2>2. \A h \in Int : PayloadAt(b, wire, p, h) <=> h - p = 8
    BY <1>2 DEF PayloadAt
  <2> QED BY <2>1, <2>2 DEF Read, SkipRead
<1>3. CASE wire = 2
  <2>1. skip(b, c, wire) = len_range(b, c)
    BY <1>3 DEF skip
  <2>2. \A h \in Int : PayloadAt(b, wire, p, h) <=>
            \E len \in p + 1 .. p + 10 : len <= h /\ VarintAt(b, p, len) /\ ValueAt(b, p, len, h - len)
    BY <1>3 DEF PayloadAt
  <2>3. ASSUME len_range(b, c).err = "none"
        PROVE  len_range(b, c).pos \in p .. e /\ PayloadAt(b, wire, p, len_range(b, c).pos)
    <3>1. LenRead(b, p, e, len_range(b, c))
      BY LenReads
    <3>2. PICK q \in p + 1 .. p + 10 :
            /\ q = len_range(b, c).start /\ len_range(b, c).pos \in q .. e
            /\ VarintAt(b, p, q) /\ ValueAt(b, p, q, len_range(b, c).pos - q)
      BY <2>3, <3>1 DEF LenRead
    <3>3. PICK h \in q .. e : h = len_range(b, c).pos
      BY <3>2
    <3>4. h \in p .. e /\ h \in Int /\ q <= h
      BY ONLY h \in q .. e, q \in p + 1 .. p + 10, p \in Nat, e \in Nat
    <3>5. PayloadAt(b, wire, p, h)
      BY <2>2, <3>2, <3>3, <3>4
    <3> QED BY <3>3, <3>4, <3>5
  <2>4. \A h \in p .. e : PayloadAt(b, wire, p, h) => len_range(b, c).err = "none" /\ h = len_range(b, c).pos
    BY <2>2, LenReads DEF LenRead
  <2> QED BY <2>1, <2>3, <2>4, LenReads DEF LenRead, SkipRead
<1>4. CASE wire = 5
  <2>1. skip(b, c, wire) = IF p + 4 <= e THEN Read("none", p + 4, U64(0)) ELSE Read("Truncated", p, U64(0))
    BY <1>4 DEF skip, advance
  <2>2. \A h \in Int : PayloadAt(b, wire, p, h) <=> h - p = 4
    BY <1>4 DEF PayloadAt
  <2> QED BY <2>1, <2>2 DEF Read, SkipRead
<1>5. CASE wire \notin {0, 1, 2, 5}
  BY <1>5 DEF skip, PayloadAt, Read, SkipRead
<1> QED BY <1>1, <1>2, <1>3, <1>4, <1>5

\* A field is walked exactly where the wire format has one, and to its end: t is
\* what is read of its tag, r what is read of the rest.
LEMMA FieldWalked ==
    ASSUME NEW b \in Seq(Nat), NEW p \in Nat, NEW e \in Nat, p < e, e <= Len(b),
           NEW c, c.pos = p, c.end = e, NEW t, t = varint(b, c),
           NEW d, d.pos = t.pos, d.end = e, NEW r, r = skip(b, d, WireType(t.v))
    PROVE  /\ t.err = "none" /\ r.err = "none" => r.pos \in p + 1 .. e /\ FieldAt(b, p, r.pos)
           /\ \A h \in p + 1 .. e : FieldAt(b, p, h) => t.err = "none" /\ r.err = "none" /\ h = r.pos
           /\ t.err = "none" => t.pos \in p + 1 .. e /\ IsU64(t.v)
           /\ t.err \in {"none", "Truncated", "VarintOverflow"}
           /\ t.err = "none" => r.err \in {"none", "Truncated", "VarintOverflow", "LengthOverrun", "UnsupportedWire"}
<1>1. VarintRead(b, p, e, t)
  BY VarintReads
<1>2. CASE t.err # "none"
  <2>1. ASSUME NEW h \in p + 1 .. e, FieldAt(b, p, h)
        PROVE  FALSE
    <3>1. PICK q \in p + 1 .. p + 10 : VarintAt(b, p, q) /\ PayloadAt(b, b[p + 1] % 8, q, h)
      BY <2>1 DEF FieldAt
    <3>2. ~(q <= e)
      BY <3>1, <1>1, <1>2 DEF VarintRead
    <3>3. q <= h
      <4>1. q \in Nat /\ h \in Nat
        OBVIOUS
      <4> QED BY <3>1, <4>1 DEF PayloadAt, VarintAt
    <3>4. q \in Nat /\ h \in Nat /\ h <= e
      OBVIOUS
    <3> QED BY ONLY <3>2, <3>3, <3>4, e \in Nat
  <2> QED BY <2>1, <1>1, <1>2 DEF VarintRead
<1>3. CASE t.err = "none"
  <2>1. PICK q \in Nat : q = t.pos /\ q \in p + 1 .. p + 10 /\ q <= e /\ VarintAt(b, p, q) /\ p < q
    BY <1>1, <1>3 DEF VarintRead
  <2>2. WireType(t.v) = b[p + 1] % 8
    <3>1. PICK x \in Nat : x = b[p + 1]
      BY <2>1
    <3>2. t.v[1] = DigitAt(b, p, q, 1)
      BY <1>1, <1>3, <2>1 DEF VarintRead, Digits10
    <3>3. DigitAt(b, p, q, 1) = x % 128
      BY <2>1, <3>1 DEF DigitAt
    <3>4. t.v[1] % 8 = x % 8
      BY ONLY <3>2, <3>3, x \in Nat, Digits
    <3> QED BY <3>1, <3>4 DEF WireType
  <2>3. PICK wire \in Nat : wire = b[p + 1] % 8
    <3>1. b[p + 1] \in Nat
      BY <2>1
    <3> QED BY <3>1
  <2>4. SkipRead(b, wire, q, e, r)
    BY <2>1, <2>2, <2>3, SkipReads
  <2>5. ASSUME r.err = "none"
        PROVE  r.pos \in p + 1 .. e /\ FieldAt(b, p, r.pos)
    <3>1. PICK h \in q .. e : h = r.pos /\ PayloadAt(b, wire, q, h)
      BY <2>4, <2>5 DEF SkipRead
    <3>2. h \in p + 1 .. e
      BY <2>1
    <3> QED BY <3>1, <3>2, <2>1, <2>3 DEF FieldAt
  <2>6. ASSUME NEW h \in p + 1 .. e, FieldAt(b, p, h)
        PROVE  r.err = "none" /\ h = r.pos
    <3>1. PICK g \in p + 1 .. p + 10 : VarintAt(b, p, g) /\ PayloadAt(b, wire, g, h)
      BY <2>3, <2>6 DEF FieldAt
    <3>2. g \in Nat
      OBVIOUS
    <3>3. g = q
      BY ONLY <3>1, <3>2, <2>1, b \in Seq(Nat), p \in Nat, q \in Nat, VarintUnique
    <3>4. q <= h
      <4>1. q \in Nat /\ h \in Nat
        OBVIOUS
      <4> QED BY <3>1, <3>3, <4>1 DEF PayloadAt, VarintAt
    <3>5. h \in q .. e
      BY <3>4
    <3> QED BY <3>1, <3>3, <3>5, <2>4 DEF SkipRead
  <2>7. t.pos \in p + 1 .. e /\ IsU64(t.v)
    BY <2>1, <1>1, <1>3 DEF VarintRead
  <2>8. r.err \in {"none", "Truncated", "VarintOverflow", "LengthOverrun", "UnsupportedWire"}
    BY <2>4 DEF SkipRead
  <2> QED BY <1>3, <2>5, <2>6, <2>7, <2>8
<1> QED BY <1>2, <1>3

-----------------------------------------------------------------------------
(* Runs of fields *)

\* The equation that defines WellFormed.
IsWalk(b, lo, hi, W) ==
    W = [i \in lo .. hi |-> i = hi \/ \E j \in i + 1 .. hi : FieldAt(b, i, j) /\ W[j]]

\* The table that WellFormed is read from exists for every stretch of bytes,
LEMMA WalkExists ==
    ASSUME NEW b, NEW hi \in Nat, NEW lo \in 0 .. hi
    PROVE  \E W : IsWalk(b, lo, hi, W)
<1> DEFINE S == {k \in Nat : k <= hi => \E W : IsWalk(b, hi - k, hi, W)}
<1>1. 0 \in S
  <2> DEFINE W == [i \in hi .. hi |-> TRUE]
  <2>1. W = [i \in hi .. hi |-> W[i]] /\ \A i \in hi .. hi : W[i] = TRUE
    OBVIOUS
  <2>2. hi - 0 = hi /\ \A i \in hi .. hi : i = hi
    OBVIOUS
  <2> HIDE DEF W
  <2>3. IsWalk(b, hi, hi, W)
    BY <2>1, <2>2 DEF IsWalk
  <2> QED BY <2>2, <2>3
<1>2. ASSUME NEW k \in S
      PROVE  k + 1 \in S
  <2> SUFFICES ASSUME k + 1 <= hi
               PROVE  \E W : IsWalk(b, hi - (k + 1), hi, W)
    OBVIOUS
  <2>1. PICK V : IsWalk(b, hi - k, hi, V)
    OBVIOUS
  <2>2. PICK m \in Nat : m = hi - (k + 1) /\ m + 1 = hi - k /\ m < hi
    OBVIOUS
  <2> DEFINE W == [i \in m .. hi |-> IF i = m THEN \E j \in m + 1 .. hi : FieldAt(b, m, j) /\ V[j] ELSE V[i]]
  <2>3. ASSUME NEW j \in m + 1 .. hi PROVE W[j] = V[j]
    <3>1. j \in m .. hi /\ j # m
      BY <2>2
    <3> QED BY <3>1
  <2>4. ASSUME NEW i \in m .. hi
        PROVE  W[i] = (i = hi \/ \E j \in i + 1 .. hi : FieldAt(b, i, j) /\ W[j])
    <3>1. CASE i = m
      <4>1. m \in m .. hi /\ m # hi
        BY <2>2
      <4>2. W[m] = \E j \in m + 1 .. hi : FieldAt(b, m, j) /\ V[j]
        BY <4>1
      <4> HIDE DEF W
      <4> QED BY <3>1, <4>1, <4>2, <2>3
    <3>2. CASE i # m
      <4>1. i \in m + 1 .. hi
        BY <3>2, <2>2
      <4>2. W[i] = (i = hi \/ \E j \in i + 1 .. hi : FieldAt(b, i, j) /\ V[j])
        BY <4>1, <2>1, <2>2, <2>3 DEF IsWalk
      <4> HIDE DEF W
      <4>3. ASSUME NEW j \in i + 1 .. hi PROVE W[j] = V[j]
        <5>1. j \in m + 1 .. hi
          BY <2>2
        <5> QED BY <2>3, <5>1
      <4> QED BY <4>2, <4>3
    <3> QED BY <3>1, <3>2
  <2>5. W = [i \in m .. hi |-> W[i]]
    OBVIOUS
  <2> HIDE DEF W
  <2>6. IsWalk(b, m, hi, W)
    BY <2>4, <2>5 DEF IsWalk
  <2> QED BY <2>2, <2>6
<1>3. S = Nat
  <2> HIDE DEF S
  <2>1. S \in SUBSET Nat
    BY DEF S
  <2> QED BY <1>1, <1>2, <2>1, NatInd
<1>4. hi - lo \in Nat /\ hi - lo <= hi /\ hi - (hi - lo) = lo
  OBVIOUS
<1> QED BY <1>3, <1>4

\* ... and two tables agree wherever both have an entry.
LEMMA WalkUnique ==
    ASSUME NEW b, NEW hi \in Nat, NEW lo \in 0 .. hi, NEW m \in lo .. hi,
           NEW V, NEW W, IsWalk(b, lo, hi, V), IsWalk(b, m, hi, W)
    PROVE  V[m] = W[m]
<1> DEFINE S == {k \in Nat : k <= hi - m /\ V[hi - k] # W[hi - k]}
<1>1. SUFFICES S = {}
  <2>1. hi - m \in Nat /\ hi - (hi - m) = m
    OBVIOUS
  <2>2. V[m] # W[m] => hi - m \in S
    BY ONLY <2>1
  <2> HIDE DEF S
  <2> QED BY <2>2
<1>2. SUFFICES ASSUME S # {} PROVE FALSE
  OBVIOUS
<1>3. PICK k \in S : \A y \in S : k <= y
  <2>1. S \in SUBSET Nat
    OBVIOUS
  <2> HIDE DEF S
  <2> QED BY <1>2, <2>1, Smallest
<1>4. PICK i \in m .. hi : i = hi - k
  OBVIOUS
<1>5. \A j \in i + 1 .. hi : V[j] = W[j]
  <2> SUFFICES ASSUME NEW j \in i + 1 .. hi, V[j] # W[j] PROVE FALSE
    OBVIOUS
  <2>1. hi - j \in Nat /\ hi - j <= hi - m /\ hi - (hi - j) = j /\ hi - j < k
    BY <1>4
  <2>2. hi - j \in S
    BY <2>1
  <2> QED BY <1>3, <2>1, <2>2
<1>6. V[i] = (i = hi \/ \E j \in i + 1 .. hi : FieldAt(b, i, j) /\ V[j])
  <2>1. i \in lo .. hi
    OBVIOUS
  <2> QED BY <2>1 DEF IsWalk
<1>7. W[i] = (i = hi \/ \E j \in i + 1 .. hi : FieldAt(b, i, j) /\ W[j])
  BY DEF IsWalk
<1>8. V[i] = W[i]
  BY <1>5, <1>6, <1>7
<1> QED BY <1>4, <1>8

\* So bytes are a run of fields exactly when there are none or some field at
\* their head has a run of fields behind it.
LEMMA WellFormedUnfold ==
    ASSUME NEW b, NEW hi \in Nat, NEW lo \in 0 .. hi
    PROVE  /\ WellFormed(b, lo, hi) \in BOOLEAN
           /\ WellFormed(b, lo, hi) <=> (lo = hi \/ \E j \in lo + 1 .. hi : FieldAt(b, lo, j) /\ WellFormed(b, j, hi))
<1> DEFINE C(m) == CHOOSE W : IsWalk(b, m, hi, W)
<1>1. \A m \in 0 .. hi : WellFormed(b, m, hi) = C(m)[m]
  BY DEF WellFormed, IsWalk
<1>2. \A m \in 0 .. hi : IsWalk(b, m, hi, C(m))
  BY WalkExists
<1> HIDE DEF C
<1>3. C(lo)[lo] = (lo = hi \/ \E j \in lo + 1 .. hi : FieldAt(b, lo, j) /\ C(lo)[j])
  BY <1>2 DEF IsWalk
<1>4. \A j \in lo + 1 .. hi : C(lo)[j] = C(j)[j]
  <2> TAKE j \in lo + 1 .. hi
  <2>1. j \in lo .. hi /\ j \in 0 .. hi
    OBVIOUS
  <2> QED BY <1>2, <2>1, WalkUnique
<1>5. \A j \in lo + 1 .. hi : C(lo)[j] = WellFormed(b, j, hi)
  BY <1>1, <1>4
<1> QED BY <1>1, <1>3, <1>5

\* Past one field the question is the same for the rest of the window; where
\* there is none, the window is not a run of fields.
LEMMA WellFormedStep ==
    ASSUME NEW b \in Seq(Nat), NEW p \in Nat, NEW e \in Nat, p < e, e <= Len(b),
           NEW c, c.pos = p, c.end = e, NEW t, t = varint(b, c),
           NEW d, d.pos = t.pos, d.end = e, NEW r, r = skip(b, d, WireType(t.v))
    PROVE  /\ t.err = "none" /\ r.err = "none" => (WellFormed(b, p, e) <=> WellFormed(b, r.pos, e))
           /\ t.err # "none" \/ r.err # "none" => ~WellFormed(b, p, e)
<1>0. p \in 0 .. e /\ p # e
  OBVIOUS
<1>1. WellFormed(b, p, e) <=> \E j \in p + 1 .. e : FieldAt(b, p, j) /\ WellFormed(b, j, e)
  BY <1>0, WellFormedUnfold
<1>2. /\ t.err = "none" /\ r.err = "none" => r.pos \in p + 1 .. e /\ FieldAt(b, p, r.pos)
      /\ \A h \in p + 1 .. e : FieldAt(b, p, h) => t.err = "none" /\ r.err = "none" /\ h = r.pos
  BY FieldWalked
<1> QED BY ONLY <1>1, <1>2

-----------------------------------------------------------------------------
(* Headers *)

\* A non-empty set of numbers up to n has a largest member.
LEMMA Largest ==
    ASSUME NEW n \in Nat, NEW S \in SUBSET (0 .. n), S # {}
    PROVE  Max(S) \in S /\ \A y \in S : y <= Max(S)
<1> DEFINE T == {k \in Nat : n - k \in S}
<1>1. T # {}
  <2>1. PICK x \in S : TRUE
    OBVIOUS
  <2>2. x \in 0 .. n
    BY <2>1
  <2>3. n - x \in Nat /\ n - (n - x) = x
    BY <2>2
  <2>4. n - x \in T
    BY <2>1, <2>3
  <2> QED BY <2>4
<1>2. PICK k \in T : \A y \in T : k <= y
  <2>1. T \in SUBSET Nat
    OBVIOUS
  <2> HIDE DEF T
  <2> QED BY <1>1, <2>1, Smallest
<1>3. ASSUME NEW y \in S PROVE y <= n - k
  <2>1. y \in 0 .. n
    OBVIOUS
  <2>2. n - y \in Nat /\ n - (n - y) = y
    BY <2>1
  <2>3. n - y \in T
    BY <2>2
  <2>4. k <= n - y /\ k \in Nat
    BY <1>2, <2>3
  <2> QED BY ONLY <2>1, <2>4, n \in Nat
<1> QED BY <1>2, <1>3 DEF Max

\* The number of bytes that a value needs.
LEMMA HighestIs ==
    ASSUME NEW v
    PROVE  /\ Highest(v) \in 1 .. 10
           /\ Highest(v) # 1 => v[Highest(v)] # 0
           /\ \A k \in 1 .. 10 : v[k] # 0 => k <= Highest(v)
<1> DEFINE S == {1} \cup {k \in 1 .. 10 : v[k] # 0}
<1>1. S \in SUBSET (0 .. 10) /\ S # {}
  OBVIOUS
<1>2. Highest(v) = Max(S)
  BY DEF Highest, Digits10
<1>3. Max(S) \in S /\ \A y \in S : y <= Max(S)
  <2> HIDE DEF S
  <2> QED BY <1>1, Largest
<1> QED BY <1>2, <1>3

\* A digit of base 128 has one to seven significant bits, unless it is zero.
LEMMA BitsOfIs ==
    ASSUME NEW d \in Nat, d # 0, d < 128
    PROVE  BitsOf(d) \in 1 .. 7
<1> DEFINE S == {n \in 0 .. 7 : d < Powers[n + 1]}
<1>0. Powers[1] = 1 /\ Powers[8] = 128
  BY DEF Powers
<1>1. 7 \in S /\ 0 \notin S
  BY <1>0
<1>2. S \in SUBSET Nat /\ S # {} /\ \A n \in S : n \in 0 .. 7
  BY <1>1
<1> HIDE DEF S
<1>3. Min(S) \in S
  BY <1>2, Smallest
<1>4. Min(S) \in 0 .. 7 /\ Min(S) # 0
  BY <1>1, <1>2, <1>3
<1> QED BY <1>4 DEF BitsOf, S

\* varint_len says how many bytes put_varint writes, zero included.
LEMMA VarintLenIs ==
    ASSUME NEW v, IsU64(v)
    PROVE  varint_len(v) = Highest(v)
<1> DEFINE u == Or1(v)
<1>1. PICK x \in Nat : x = v[1] /\ x < 128
  BY DEF IsU64
<1>2. IsU64(u) /\ u[1] # 0 /\ \A k \in 2 .. 10 : u[k] = v[k]
  <2>1. PICK y \in Nat : y = (IF x % 2 = 0 THEN x + 1 ELSE x) /\ y # 0 /\ y < 128
    <3>1. CASE x % 2 = 0
      BY <1>1, <3>1
    <3>2. CASE x % 2 # 0
      BY <1>1, <3>2
    <3> QED BY <3>1, <3>2
  <2>2. u = [v EXCEPT ![1] = y]
    BY <1>1, <2>1 DEF Or1
  <2> QED BY <2>1, <2>2 DEF IsU64
<1> HIDE DEF u
<1>3. PICK h \in 1 .. 10 : h = Highest(u) /\ u[h] # 0
  BY <1>2, HighestIs
<1>4. Highest(v) = h
  <2>1. PICK g \in 1 .. 10 : g = Highest(v) /\ (g # 1 => v[g] # 0) /\ \A k \in 1 .. 10 : v[k] # 0 => k <= g
    BY HighestIs
  <2>2. g # 1 => g \in 2 .. 10 /\ u[g] # 0
    BY <2>1, <1>2
  <2>3. g # 1 => g <= h
    BY <2>2, <1>3, HighestIs
  <2>4. h # 1 => h \in 2 .. 10 /\ v[h] # 0
    BY <1>2, <1>3
  <2>5. h # 1 => h <= g
    BY <2>1, <2>4
  <2> QED BY <2>1, <2>3, <2>5
<1>5. PICK n \in 1 .. 7 : n = BitsOf(u[h])
  BY <1>2, <1>3, BitsOfIs DEF IsU64
<1>6. Bits(u) = 7 * (h - 1) + n
  BY <1>3, <1>5 DEF Bits
<1>7. (7 * (h - 1) + n + 6) \div 7 = h
  BY ONLY h \in 1 .. 10, n \in 1 .. 7
<1> QED BY <1>4, <1>6, <1>7 DEF varint_len, u

\* put_varint writes a varint, its digits the value's.
LEMMA PutVarintIs ==
    ASSUME NEW v, IsU64(v), v[10] = 0
    PROVE  LET b == put_varint(v)  h == Highest(v)
           IN  /\ b \in Seq(Nat) /\ Len(b) = h
               /\ \A k \in 1 .. h : b[k] = IF k < h THEN v[k] + 128 ELSE v[k]
               /\ VarintAt(b, 0, h)
               /\ \A k \in 1 .. 10 : DigitAt(b, 0, h, k) = v[k]
<1> DEFINE b == put_varint(v)
<1>1. PICK h \in 1 .. 10 : h = Highest(v) /\ (h # 1 => v[h] # 0) /\ \A k \in 1 .. 10 : v[k] # 0 => k <= h
  BY HighestIs
<1>2. h \in Nat /\ h # 10 /\ v[10] = 0
  BY <1>1
<1>3. \A k \in 1 .. h : v[k] \in Nat /\ v[k] < 128
  BY DEF IsU64
<1>4. b = [k \in 1 .. h |-> IF k < h THEN v[k] + 128 ELSE v[k]]
  BY <1>1 DEF put_varint
<1>5. \A k \in 1 .. h : b[k] = IF k < h THEN v[k] + 128 ELSE v[k]
  BY <1>4
<1>6. b \in [1 .. h -> Nat]
  <2>1. \A k \in 1 .. h : (IF k < h THEN v[k] + 128 ELSE v[k]) \in Nat
    BY <1>3
  <2> QED BY <1>4, <2>1
<1> HIDE DEF b
<1>7. b \in Seq(Nat) /\ Len(b) = h
  BY <1>2, <1>6
<1>8. VarintAt(b, 0, h)
  <2>1. \A k \in 1 .. h : k < h => b[k] >= 128
    BY <1>3, <1>5
  <2>2. b[h] < 128
    BY <1>3, <1>5
  <2> QED BY <2>1, <2>2, <1>7 DEF VarintAt
<1>9. ASSUME NEW k \in 1 .. 10
      PROVE  DigitAt(b, 0, h, k) = v[k]
  <2>1. CASE k > h
    BY <2>1, <1>1, <1>2 DEF DigitAt
  <2>2. CASE k <= h
    <3>1. k # 10 /\ k \in 1 .. h
      BY <2>2, <1>2
    <3>2. DigitAt(b, 0, h, k) = b[k] % 128
      BY <3>1, <2>2 DEF DigitAt
    <3>3. PICK x \in Nat : x = v[k] /\ x < 128
      BY <3>1, <1>3
    <3>4. x % 128 = x /\ (x + 128) % 128 = x
      <4>1. x < 128
        BY <3>3
      <4> QED BY ONLY x \in Nat, <4>1
    <3>5. b[k] = x \/ b[k] = x + 128
      BY <3>1, <3>3, <1>5
    <3> QED BY ONLY <3>2, <3>3, <3>4, <3>5
  <2> QED BY <2>1, <2>2
<1> QED BY <1>1, <1>5, <1>7, <1>8, <1>9 DEF b

\* A size below 128^4 as its digits: a u64 of four digits at most.
LEMMA U64Is ==
    ASSUME NEW n \in Nat
    PROVE  /\ IsU64(U64(n)) /\ U64(n)[10] = 0
           /\ n < 128 * 128 * 128 * 128 =>
                 /\ n = Small(U64(n)) /\ IsSmall(U64(n))
                 /\ n < 128 => Highest(U64(n)) = 1
                 /\ n < 128 * 128 => Highest(U64(n)) <= 2
                 /\ n < 128 * 128 * 128 => Highest(U64(n)) <= 3
                 /\ Highest(U64(n)) <= 4
<1> DEFINE u == U64(n)
<1>1. Weights[1] = 1 /\ Weights[2] = 128 /\ Weights[3] = 128 * 128 /\ Weights[4] = 128 * 128 * 128
  BY DEF Weights
<1>2. /\ u[1] = (n \div 1) % 128 /\ u[2] = (n \div 128) % 128
      /\ u[3] = (n \div (128 * 128)) % 128 /\ u[4] = (n \div (128 * 128 * 128)) % 128
  BY <1>1 DEF U64, Digits10
<1>3. \A k \in 5 .. 10 : u[k] = 0
  BY DEF U64, Digits10
<1>4. DOMAIN u = 1 .. 10 /\ u = [k \in 1 .. 10 |-> u[k]]
  BY DEF U64, Digits10
<1> HIDE DEF u
<1>5. PICK w \in Nat, x \in Nat, y \in Nat, z \in Nat :
         /\ w = (n \div 1) % 128 /\ x = (n \div 128) % 128
         /\ y = (n \div (128 * 128)) % 128 /\ z = (n \div (128 * 128 * 128)) % 128
         /\ w < 128 /\ x < 128 /\ y < 128 /\ z < 128
  BY n \in Nat
<1>6. u[1] = w /\ u[2] = x /\ u[3] = y /\ u[4] = z
  BY <1>2, <1>5
<1>7. ASSUME NEW k \in 1 .. 10 PROVE u[k] \in Nat /\ u[k] < 128
  <2>1. k \in 5 .. 10 \/ k = 1 \/ k = 2 \/ k = 3 \/ k = 4
    OBVIOUS
  <2> QED BY ONLY <2>1, <1>3, <1>5, <1>6, w \in Nat, x \in Nat, y \in Nat, z \in Nat
<1>8. IsU64(u) /\ u[10] = 0
  BY <1>3, <1>4, <1>7 DEF IsU64
<1>9. ASSUME n < 128 * 128 * 128 * 128
      PROVE  n = Small(u) /\ IsSmall(u)
  <2>1. n = w + 128 * x + 128 * 128 * y + 128 * 128 * 128 * z
    BY ONLY <1>5, <1>9, n \in Nat
  <2> QED BY <2>1, <1>3, <1>6 DEF Small, IsSmall
<1>10. PICK h \in 1 .. 10 : h = Highest(u) /\ (h # 1 => u[h] # 0)
  BY HighestIs
<1>11. h <= 4
  BY <1>3, <1>10
<1>12. /\ n < 128 => x = 0 /\ y = 0 /\ z = 0
       /\ n < 128 * 128 => y = 0 /\ z = 0
       /\ n < 128 * 128 * 128 => z = 0
  BY ONLY <1>5, n \in Nat
<1>13. h = 1 \/ (h = 2 /\ x # 0) \/ (h = 3 /\ y # 0) \/ (h = 4 /\ z # 0)
  BY <1>6, <1>10, <1>11
<1> QED BY <1>8, <1>9, <1>10, <1>11, <1>12, <1>13 DEF u

\* The digits of a tag's field number, and the tag with wire type 2.
IsField(f) == f \in [1 .. 5 -> Nat] /\ f[1] < 16 /\ \A k \in 2 .. 5 : f[k] < 128

\* The field number of a tag is 29 bits,
LEMMA FieldIs ==
    ASSUME NEW v, IsU64(v), WireType(v) = 2
    PROVE  /\ IsField(Field(v))
           /\ \A k \in 1 .. 5 : LenTag(Field(v))[k] = v[k]
<1>1. PICK x \in Nat : x = v[1] /\ x < 128 /\ x % 8 = 2
  BY DEF IsU64, WireType
<1>2. x \div 8 \in Nat /\ x \div 8 < 16 /\ (x \div 8) * 8 + 2 = x
  <2>1. x < 128 /\ x % 8 = 2
    BY <1>1
  <2> QED BY ONLY <2>1, x \in Nat
<1>3. \A k \in 1 .. 5 : Field(v)[k] = IF k = 1 THEN x \div 8 ELSE v[k]
  BY <1>1 DEF Field
<1>4. Field(v) \in [1 .. 5 -> Nat]
  <2>1. \A k \in 1 .. 5 : (IF k = 1 THEN x \div 8 ELSE v[k]) \in Nat
    BY <1>2 DEF IsU64
  <2> QED BY <1>1, <2>1 DEF Field
<1>5. IsField(Field(v))
  BY <1>2, <1>3, <1>4 DEF IsField, IsU64
<1>6. ASSUME NEW k \in 1 .. 5 PROVE LenTag(Field(v))[k] = v[k]
  <2>1. LenTag(Field(v))[k] = IF k = 1 THEN Field(v)[1] * 8 + 2 ELSE Field(v)[k]
    BY DEF LenTag, Digits10
  <2> QED BY <2>1, <1>1, <1>2, <1>3
<1> QED BY <1>5, <1>6

\* ... and a tag is made of it again.
LEMMA LenTagIs ==
    ASSUME NEW f, IsField(f)
    PROVE  LET t == LenTag(f)
           IN  IsU64(t) /\ WireType(t) = 2 /\ (\A k \in 6 .. 10 : t[k] = 0) /\ Highest(t) <= 5
<1> DEFINE t == LenTag(f)
<1>1. PICK x \in Nat : x = f[1] /\ x < 16
  BY DEF IsField
<1>2. x * 8 + 2 \in Nat /\ x * 8 + 2 < 128 /\ (x * 8 + 2) % 8 = 2
  <2>1. x < 16
    BY <1>1
  <2> QED BY ONLY <2>1, x \in Nat
<1>3. t = [k \in 1 .. 10 |-> IF k > 5 THEN 0 ELSE IF k = 1 THEN x * 8 + 2 ELSE f[k]]
  BY <1>1 DEF LenTag, Digits10
<1>4. ASSUME NEW k \in 1 .. 10 PROVE t[k] \in Nat /\ t[k] < 128
  BY <1>2, <1>3 DEF IsField
<1>5. (\A k \in 6 .. 10 : t[k] = 0) /\ t[1] = x * 8 + 2 /\ t = [k \in 1 .. 10 |-> t[k]]
  BY <1>3
<1> HIDE DEF t
<1>6. IsU64(t)
  BY <1>4, <1>5 DEF IsU64
<1>7. WireType(t) = 2
  BY <1>2, <1>5 DEF WireType
<1>8. Highest(t) <= 5
  BY <1>5, HighestIs
<1> QED BY <1>5, <1>6, <1>7, <1>8 DEF t

\* The size that is announced for a header is the number of its bytes.
LEMMA HeaderIs ==
    ASSUME NEW f, IsField(f), NEW n \in Nat
    PROVE  /\ header(f, n) \in Seq(Nat)
           /\ header_len(f, n) = Len(header(f, n)) /\ header_len(f, n) \in Nat
           /\ header_len(f, n) = Highest(LenTag(f)) + Highest(U64(n))
<1>1. IsU64(LenTag(f)) /\ LenTag(f)[10] = 0
  BY LenTagIs
<1>2. IsU64(U64(n)) /\ U64(n)[10] = 0
  BY U64Is
<1>3. put_varint(LenTag(f)) \in Seq(Nat) /\ Len(put_varint(LenTag(f))) = Highest(LenTag(f))
  BY <1>1, PutVarintIs
<1>4. put_varint(U64(n)) \in Seq(Nat) /\ Len(put_varint(U64(n))) = Highest(U64(n))
  BY <1>2, PutVarintIs
<1>5. header(f, n) \in Seq(Nat) /\ Len(header(f, n)) = Highest(LenTag(f)) + Highest(U64(n))
  BY <1>3, <1>4, ConcatProperties DEF header
<1>6. header_len(f, n) = Highest(LenTag(f)) + Highest(U64(n))
  BY <1>1, <1>2, VarintLenIs DEF header_len
<1>7. Highest(LenTag(f)) \in Nat /\ Highest(U64(n)) \in Nat
  BY HighestIs
<1> QED BY <1>5, <1>6, <1>7

-----------------------------------------------------------------------------
(* The stack of windows *)

Windows == [lo : Nat, pos : Nat, end : Nat, run : Nat, out : Seq(Nat), size : Nat, field : [1 .. 5 -> Nat], tag_start : Nat]

\* Cursors in their windows, windows in each other, the outermost the message.
Nested(s, m) ==
    /\ s \in Seq(Windows)
    /\ \A i \in 1 .. Len(s) :
          /\ s[i].lo <= s[i].run /\ s[i].run <= s[i].pos /\ s[i].pos <= s[i].end /\ s[i].end <= Len(m)
          /\ IsField(s[i].field)
          /\ i > 1 => s[i].end = s[i - 1].pos /\ s[i - 1].run <= s[i].tag_start /\ s[i].tag_start < s[i].lo
          /\ i = 1 => s[i].lo = 0 /\ s[i].end = Len(m)

\* What has been walked of a window is a run of fields: the window is one
\* exactly when the rest of it is.
Walked(s, m) ==
    \A i \in 1 .. Len(s) : WellFormed(m, s[i].lo, s[i].end) <=> WellFormed(m, s[i].pos, s[i].end)

Moved(s, x) == [s EXCEPT ![Len(s)].pos = x]

\* The cursor of the innermost window passes a field.
LEMMA MovedNested ==
    ASSUME NEW m \in Seq(Nat), NEW s, Nested(s, m), s # <<>>,
           NEW x \in Nat, s[Len(s)].pos <= x, x <= s[Len(s)].end
    PROVE  /\ Nested(Moved(s, x), m) /\ Len(Moved(s, x)) = Len(s)
           /\ \A i \in 1 .. Len(s) - 1 : Moved(s, x)[i] = s[i]
           /\ Moved(s, x)[Len(s)] = [s[Len(s)] EXCEPT !.pos = x]
<1> DEFINE n == Len(s)
<1> DEFINE z == Moved(s, x)
<1>1. s \in Seq(Windows) /\ n \in Nat /\ n > 0 /\ n \in 1 .. n
  BY DEF Nested
<1>2. PICK w \in Windows : w = s[n]
  BY <1>1, ElementOfSeq
<1>3. PICK u \in Windows : u = [w EXCEPT !.pos = x] /\ u.pos = x /\ u.lo = w.lo /\ u.run = w.run
                           /\ u.end = w.end /\ u.tag_start = w.tag_start /\ u.field = w.field
  <2>1. [w EXCEPT !.pos = x] \in Windows
    BY DEF Windows
  <2> QED BY <2>1 DEF Windows
<1>4. z = [s EXCEPT ![n] = u]
  BY <1>2, <1>3 DEF Moved
<1>5. z \in Seq(Windows) /\ Len(z) = n /\ \A j \in 1 .. n : z[j] = IF j = n THEN u ELSE s[j]
  BY <1>1, <1>4, ExceptSeq
<1>6. z[n] = u /\ \A j \in 1 .. n - 1 : z[j] = s[j]
  BY <1>1, <1>5
<1> HIDE DEF z
<1>7. ASSUME NEW i \in 1 .. Len(z)
      PROVE  /\ z[i].lo <= z[i].run /\ z[i].run <= z[i].pos /\ z[i].pos <= z[i].end /\ z[i].end <= Len(m)
             /\ IsField(z[i].field)
             /\ i > 1 => z[i].end = z[i - 1].pos /\ z[i - 1].run <= z[i].tag_start /\ z[i].tag_start < z[i].lo
             /\ i = 1 => z[i].lo = 0 /\ z[i].end = Len(m)
  <2>0. i \in 1 .. n /\ (i > 1 => i - 1 \in 1 .. n - 1) /\ (i # n => i \in 1 .. n - 1)
    BY <1>5, <1>1
  <2>1. CASE i = n
    <3>1. /\ w.lo <= w.run /\ w.run <= w.pos /\ w.pos <= w.end /\ w.end <= Len(m)
          /\ IsField(w.field)
          /\ n > 1 => w.end = s[n - 1].pos /\ s[n - 1].run <= w.tag_start /\ w.tag_start < w.lo
          /\ n = 1 => w.lo = 0 /\ w.end = Len(m)
      BY <1>1, <1>2 DEF Nested
    <3>2. w.run \in Nat /\ w.pos \in Nat /\ w.pos <= x /\ x <= w.end
      BY <1>2 DEF Windows
    <3>3. w.run <= x
      BY ONLY <3>1, <3>2, x \in Nat
    <3> QED BY <3>1, <3>2, <3>3, <2>0, <2>1, <1>3, <1>6
  <2>2. CASE i # n
    BY <2>0, <2>2, <1>6 DEF Nested
  <2> QED BY <2>1, <2>2
<1> QED BY <1>2, <1>3, <1>5, <1>6, <1>7 DEF Nested, z

\* What the cursor passes over was walked.
LEMMA MovedWalked ==
    ASSUME NEW m \in Seq(Nat), NEW s, Nested(s, m), s # <<>>, Walked(s, m),
           NEW x \in Nat, s[Len(s)].pos <= x, x <= s[Len(s)].end,
           WellFormed(m, s[Len(s)].pos, s[Len(s)].end) <=> WellFormed(m, x, s[Len(s)].end)
    PROVE  Walked(Moved(s, x), m)
<1> DEFINE z == Moved(s, x)
<1>1. /\ Len(z) = Len(s) /\ \A i \in 1 .. Len(s) - 1 : z[i] = s[i]
      /\ z[Len(s)] = [s[Len(s)] EXCEPT !.pos = x]
  BY MovedNested
<1>2. Len(s) \in Nat /\ Len(s) > 0 /\ s[Len(s)] \in Windows
  BY ElementOfSeq DEF Nested
<1> HIDE DEF z
<1>3. z[Len(s)].pos = x /\ z[Len(s)].lo = s[Len(s)].lo /\ z[Len(s)].end = s[Len(s)].end
  BY <1>1, <1>2 DEF Windows
<1>4. ASSUME NEW i \in 1 .. Len(s)
      PROVE  WellFormed(m, z[i].lo, z[i].end) <=> WellFormed(m, z[i].pos, z[i].end)
  <2>1. CASE i = Len(s)
    BY <2>1, <1>3 DEF Walked
  <2>2. CASE i # Len(s)
    <3>1. i \in 1 .. Len(s) - 1
      BY <2>2, <1>2
    <3> QED BY <3>1, <1>1 DEF Walked
  <2> QED BY <2>1, <2>2
<1> QED BY <1>1, <1>4 DEF Walked, z

\* A window is opened on the field that the cursor has just passed.
Pushed(s, m, w) ==
    /\ m \in Seq(Nat) /\ Nested(s, m) /\ Walked(s, m) /\ s # <<>>
    /\ w \in Windows /\ IsField(w.field)
    /\ w.lo = w.run /\ w.run = w.pos /\ w.pos <= w.end /\ w.end = s[Len(s)].pos
    /\ s[Len(s)].run <= w.tag_start /\ w.tag_start < w.lo

\* The windows stay nested, and what has been walked of them stays so.
LEMMA PushNested ==
    ASSUME NEW m, NEW s, NEW w, Pushed(s, m, w)
    PROVE  Nested(Append(s, w), m) /\ Walked(Append(s, w), m)
<1> USE DEF Pushed
<1> DEFINE n == Len(s)
<1> DEFINE z == Append(s, w)
<1>1. s \in Seq(Windows) /\ n \in Nat /\ n > 0 /\ n \in 1 .. n
  BY DEF Nested
<1>2. z \in Seq(Windows) /\ Len(z) = n + 1 /\ (\A i \in 1 .. n : z[i] = s[i]) /\ z[n + 1] = w
  BY <1>1, AppendProperties
<1>3. s[n].pos \in Nat /\ s[n].end \in Nat /\ s[n].pos <= s[n].end /\ s[n].end <= Len(m)
  <2>1. s[n] \in Windows
    BY <1>1, ElementOfSeq
  <2> QED BY <2>1, <1>1 DEF Nested, Windows
<1>4. w.lo \in Nat /\ w.run \in Nat /\ w.pos \in Nat /\ w.end \in Nat
  BY DEF Windows
<1>5. w.end <= Len(m)
  BY <1>3, <1>4
<1> HIDE DEF z
<1>6. ASSUME NEW i \in 1 .. Len(z)
      PROVE  /\ z[i].lo <= z[i].run /\ z[i].run <= z[i].pos /\ z[i].pos <= z[i].end /\ z[i].end <= Len(m)
             /\ IsField(z[i].field)
             /\ i > 1 => z[i].end = z[i - 1].pos /\ z[i - 1].run <= z[i].tag_start /\ z[i].tag_start < z[i].lo
             /\ i = 1 => z[i].lo = 0 /\ z[i].end = Len(m)
  <2>1. CASE i = n + 1
    <3>1. z[i] = w /\ z[i - 1] = s[n] /\ i # 1
      BY <2>1, <1>1, <1>2
    <3>2. w.lo <= w.run /\ w.run <= w.pos
      BY <1>4
    <3> QED BY <3>1, <3>2, <1>5
  <2>2. CASE i # n + 1
    <3>1. i \in 1 .. n /\ (i > 1 => i - 1 \in 1 .. n)
      BY <2>2, <1>1, <1>2
    <3> QED BY <3>1, <1>2 DEF Nested
  <2> QED BY <2>1, <2>2
<1>7. ASSUME NEW i \in 1 .. Len(z)
      PROVE  WellFormed(m, z[i].lo, z[i].end) <=> WellFormed(m, z[i].pos, z[i].end)
  <2>1. CASE i = n + 1
    BY <2>1, <1>2
  <2>2. CASE i # n + 1
    <3>1. i \in 1 .. n
      BY <2>2, <1>1, <1>2
    <3> QED BY <3>1, <1>2 DEF Walked
  <2> QED BY <2>1, <2>2
<1> QED BY <1>2, <1>6, <1>7 DEF Nested, Walked, z

\* The innermost window is closed, and the one around it goes on behind it.
SameWindow(u, w) ==
    u.lo = w.lo /\ u.end = w.end /\ u.pos = w.pos /\ u.field = w.field /\ u.tag_start = w.tag_start

\* The innermost window is left, and the one around it is copied up to its cursor.
Popped(s, m, n, u, z) ==
    /\ m \in Seq(Nat) /\ Nested(s, m) /\ Walked(s, m) /\ n \in Nat /\ n = Len(s) /\ n > 1
    /\ u \in Windows /\ SameWindow(u, s[n - 1]) /\ u.run = u.pos
    /\ z = Append(SubSeq(s, 1, n - 2), u)

\* The windows that are left are nested, and what has been walked of them stays so.
LEMMA PopNested ==
    ASSUME NEW m, NEW s, NEW n, NEW u, NEW z, Popped(s, m, n, u, z)
    PROVE  /\ Nested(z, m) /\ Walked(z, m)
           /\ Len(z) = n - 1 /\ z[n - 1] = u /\ \A i \in 1 .. n - 2 : z[i] = s[i]
<1> DEFINE y == SubSeq(s, 1, n - 2)
<1>0. /\ m \in Seq(Nat) /\ Nested(s, m) /\ Walked(s, m) /\ n \in Nat /\ n = Len(s) /\ n > 1
      /\ u \in Windows /\ u.run = u.pos /\ z = Append(SubSeq(s, 1, n - 2), u)
  BY DEF Popped
<1>00. /\ u.lo = s[n - 1].lo /\ u.end = s[n - 1].end /\ u.pos = s[n - 1].pos
       /\ u.field = s[n - 1].field /\ u.tag_start = s[n - 1].tag_start
  BY DEF Popped, SameWindow
<1> USE <1>0, <1>00
<1>1. s \in Seq(Windows) /\ n \in Nat /\ n > 1 /\ n - 1 \in 1 .. n /\ n - 2 \in Nat
  BY DEF Nested
<1>2. y \in Seq(Windows) /\ Len(y) = n - 2 /\ \A i \in 1 .. n - 2 : y[i] = s[i]
  <2>1. \A i \in 1 .. n - 2 : s[i] \in Windows
    BY <1>1, ElementOfSeq
  <2> QED BY <1>1, <2>1, SubSeqProperties
<1> HIDE DEF y
<1>3. z \in Seq(Windows) /\ Len(z) = n - 1 /\ (\A i \in 1 .. n - 2 : z[i] = s[i]) /\ z[n - 1] = u
  <2>1. Len(y) + 1 = n - 1
    BY <1>1, <1>2
  <2> QED BY <1>2, <2>1, AppendProperties DEF y
<1>4. s[n - 1] \in Windows
  BY <1>1, ElementOfSeq
<1>5. /\ u.lo <= u.run /\ u.run <= u.pos /\ u.pos <= u.end /\ u.end <= Len(m) /\ IsField(u.field)
      /\ n - 1 > 1 => /\ u.end = s[n - 2].pos /\ s[n - 2].run <= u.tag_start /\ u.tag_start < u.lo
      /\ n - 1 = 1 => u.lo = 0 /\ u.end = Len(m)
  <2>1. /\ s[n - 1].lo <= s[n - 1].run /\ s[n - 1].run <= s[n - 1].pos
        /\ s[n - 1].pos <= s[n - 1].end /\ s[n - 1].end <= Len(m)
        /\ IsField(s[n - 1].field)
        /\ n - 1 > 1 => /\ s[n - 1].end = s[n - 1 - 1].pos /\ s[n - 1 - 1].run <= s[n - 1].tag_start
                        /\ s[n - 1].tag_start < s[n - 1].lo
        /\ n - 1 = 1 => s[n - 1].lo = 0 /\ s[n - 1].end = Len(m)
    BY <1>1 DEF Nested
  <2>2. s[n - 1].lo \in Nat /\ s[n - 1].run \in Nat /\ s[n - 1].pos \in Nat
    BY <1>4 DEF Windows
  <2>3. s[n - 1].lo <= s[n - 1].pos
    BY <2>1, <2>2
  <2>4. n - 1 - 1 = n - 2
    BY <1>1
  <2> QED BY <2>1, <2>2, <2>3, <2>4
<1>6. ASSUME NEW i \in 1 .. Len(z)
      PROVE  /\ z[i].lo <= z[i].run /\ z[i].run <= z[i].pos /\ z[i].pos <= z[i].end /\ z[i].end <= Len(m)
             /\ IsField(z[i].field)
             /\ i > 1 => z[i].end = z[i - 1].pos /\ z[i - 1].run <= z[i].tag_start /\ z[i].tag_start < z[i].lo
             /\ i = 1 => z[i].lo = 0 /\ z[i].end = Len(m)
  <2>1. CASE i = n - 1
    <3>1. z[i] = u /\ (i > 1 => i - 1 = n - 2 /\ z[n - 2] = s[n - 2])
      BY <2>1, <1>1, <1>3
    <3> QED BY ONLY <2>1, <3>1, <1>5
  <2>2. CASE i # n - 1
    <3>1. i \in 1 .. n - 2 /\ i \in 1 .. n /\ (i > 1 => i - 1 \in 1 .. n - 2)
      BY <2>2, <1>1, <1>3
    <3>2. z[i] = s[i] /\ (i > 1 => z[i - 1] = s[i - 1])
      BY ONLY <3>1, <1>3
    <3>3. /\ s[i].lo <= s[i].run /\ s[i].run <= s[i].pos /\ s[i].pos <= s[i].end /\ s[i].end <= Len(m)
          /\ IsField(s[i].field)
          /\ i > 1 => s[i].end = s[i - 1].pos /\ s[i - 1].run <= s[i].tag_start /\ s[i].tag_start < s[i].lo
          /\ i = 1 => s[i].lo = 0 /\ s[i].end = Len(m)
      BY <3>1 DEF Nested
    <3> QED BY ONLY <3>2, <3>3
  <2> QED BY <2>1, <2>2
<1>7. ASSUME NEW i \in 1 .. Len(z)
      PROVE  WellFormed(m, z[i].lo, z[i].end) <=> WellFormed(m, z[i].pos, z[i].end)
  <2>1. CASE i = n - 1
    <3>1. z[i] = u /\ u.lo = s[n - 1].lo /\ u.end = s[n - 1].end /\ u.pos = s[n - 1].pos
      BY ONLY <2>1, <1>3, SameWindow(u, s[n - 1]) DEF SameWindow
    <3>2. WellFormed(m, s[n - 1].lo, s[n - 1].end) <=> WellFormed(m, s[n - 1].pos, s[n - 1].end)
      BY <1>1 DEF Walked
    <3> QED BY ONLY <3>1, <3>2
  <2>2. CASE i # n - 1
    <3>1. Len(z) = n - 1 /\ i \in 1 .. Len(z)
      BY <1>3, <1>7
    <3>2. i \in 1 .. n - 2 /\ i \in 1 .. n
      BY ONLY <2>2, <3>1, n \in Nat
    <3> QED BY <3>2, <1>3 DEF Walked
  <2> QED BY <2>1, <2>2
<1> QED BY <1>3, <1>6, <1>7 DEF Nested, Walked, y

-----------------------------------------------------------------------------
(* The receivers *)

\* FirstStatus is the status of the first of its checks that refuses.
LEMMA FirstStatusIs ==
    ASSUME NEW checks, NEW n \in Nat, DOMAIN checks = 1 .. n
    PROVE  \/ FirstStatus(checks) = "none" /\ \A i \in 1 .. n : ~checks[i][1]
           \/ \E i \in 1 .. n : /\ checks[i][1] /\ FirstStatus(checks) = checks[i][2]
                               /\ \A j \in 1 .. i - 1 : ~checks[j][1]
<1> DEFINE failed == {i \in 1 .. n : checks[i][1]}
<1>1. FirstStatus(checks) = IF failed = {} THEN "none" ELSE checks[Min(failed)][2]
  BY DEF FirstStatus
<1>2. CASE failed = {}
  BY <1>1, <1>2
<1>3. CASE failed # {}
  <2>1. failed \in SUBSET Nat
    OBVIOUS
  <2>2. PICK i \in failed : i = Min(failed) /\ \A y \in failed : i <= y
    <3> HIDE DEF failed
    <3> QED BY <1>3, <2>1, Smallest
  <2>3. \A j \in 1 .. i - 1 : ~checks[j][1]
    <3> SUFFICES ASSUME NEW j \in 1 .. i - 1, checks[j][1] PROVE FALSE
      OBVIOUS
    <3>1. i \in 1 .. n
      OBVIOUS
    <3>2. j \in 1 .. n /\ ~(i <= j)
      BY <3>1
    <3>3. j \in failed
      BY <3>2
    <3> QED BY <2>2, <3>2, <3>3
  <2>4. i \in 1 .. n /\ checks[i][1] /\ FirstStatus(checks) = checks[i][2]
    BY <1>1, <1>3, <2>2
  <2> QED BY <2>3, <2>4
<1> QED BY <1>2, <1>3

\* The status of the first check that fails, check by check.
LEMMA HandleIs ==
    ASSUME NEW r, r.route \in BOOLEAN
    PROVE  handle(r) = IF ~r.route THEN "404" ELSE IF Len(r.body) > max_body_bytes THEN "413" ELSE "none"
<1> DEFINE P == Len(r.body) > max_body_bytes
<1> DEFINE c == <<<<~r.route, "404">>, <<P, "413">>>>
<1>1. DOMAIN c = 1 .. 2 /\ c[1][1] = ~r.route /\ c[1][2] = "404" /\ c[2][1] = P /\ c[2][2] = "413"
  OBVIOUS
<1>2. handle(r) = FirstStatus(c)
  BY DEF handle
<1> HIDE DEF c, P
<1>3. \/ FirstStatus(c) = "none" /\ \A i \in 1 .. 2 : ~c[i][1]
      \/ \E i \in 1 .. 2 : /\ c[i][1] /\ FirstStatus(c) = c[i][2]
                          /\ \A j \in 1 .. i - 1 : ~c[j][1]
  BY <1>1, FirstStatusIs
<1>4. \/ FirstStatus(c) = "none" /\ ~c[1][1] /\ ~c[2][1]
      \/ FirstStatus(c) = c[1][2] /\ c[1][1]
      \/ FirstStatus(c) = c[2][2] /\ c[2][1] /\ ~c[1][1]
  BY <1>3
<1> QED BY <1>1, <1>2, <1>4 DEF P

\* A framed request is refused by the first of the frame's checks that it fails.
LEMMA HandleGrpcIs ==
    ASSUME NEW r, r.route \in BOOLEAN, r.typed \in BOOLEAN
    PROVE  handle_grpc(r) =
              IF ~r.route THEN "12" ELSE IF ~r.typed THEN "3"
              ELSE IF Len(r.body) > GrpcLimit THEN "8" ELSE IF Len(r.body) < 5 THEN "3"
              ELSE IF r.body[1] # 0 THEN "12" ELSE IF Len(r.body) < 5 + FrameLen(r.body) THEN "3" ELSE "none"
<1> DEFINE P == Len(r.body) > GrpcLimit
<1> DEFINE Q == Len(r.body) < 5
<1> DEFINE A == r.body[1] # 0
<1> DEFINE B == Len(r.body) < 5 + FrameLen(r.body)
<1> DEFINE c == <<<<~r.route, "12">>, <<~r.typed, "3">>, <<P, "8">>, <<Q, "3">>>>
<1> DEFINE d == <<<<A, "12">>, <<B, "3">>>>
<1>1. /\ DOMAIN c = 1 .. 4 /\ c[1][1] = ~r.route /\ c[1][2] = "12" /\ c[2][1] = ~r.typed /\ c[2][2] = "3"
      /\ c[3][1] = P /\ c[3][2] = "8" /\ c[4][1] = Q /\ c[4][2] = "3"
  OBVIOUS
<1>2. DOMAIN d = 1 .. 2 /\ d[1][1] = A /\ d[1][2] = "12" /\ d[2][1] = B /\ d[2][2] = "3"
  OBVIOUS
<1>3. handle_grpc(r) = IF FirstStatus(c) # "none" THEN FirstStatus(c) ELSE FirstStatus(d)
  BY DEF handle_grpc
<1> HIDE DEF c, d, P, Q, A, B
<1>4. \/ FirstStatus(c) = "none" /\ \A i \in 1 .. 4 : ~c[i][1]
      \/ \E i \in 1 .. 4 : /\ c[i][1] /\ FirstStatus(c) = c[i][2]
                          /\ \A j \in 1 .. i - 1 : ~c[j][1]
  BY <1>1, FirstStatusIs
<1>5. \/ FirstStatus(d) = "none" /\ \A i \in 1 .. 2 : ~d[i][1]
      \/ \E i \in 1 .. 2 : /\ d[i][1] /\ FirstStatus(d) = d[i][2]
                          /\ \A j \in 1 .. i - 1 : ~d[j][1]
  BY <1>2, FirstStatusIs
<1>6. \/ FirstStatus(c) = "none" /\ ~c[1][1] /\ ~c[2][1] /\ ~c[3][1] /\ ~c[4][1]
      \/ FirstStatus(c) = c[1][2] /\ c[1][1]
      \/ FirstStatus(c) = c[2][2] /\ c[2][1] /\ ~c[1][1]
      \/ FirstStatus(c) = c[3][2] /\ c[3][1] /\ ~c[1][1] /\ ~c[2][1]
      \/ FirstStatus(c) = c[4][2] /\ c[4][1] /\ ~c[1][1] /\ ~c[2][1] /\ ~c[3][1]
  BY <1>4
<1>7. \/ FirstStatus(d) = "none" /\ ~d[1][1] /\ ~d[2][1]
      \/ FirstStatus(d) = d[1][2] /\ d[1][1]
      \/ FirstStatus(d) = d[2][2] /\ d[2][1] /\ ~d[1][1]
  BY <1>5
<1> QED BY <1>1, <1>2, <1>3, <1>6, <1>7 DEF P, Q, A, B

\* The receivers' limit is a number of four digits of base 128.
LEMMA LimitTyped == max_body_bytes \in Nat /\ max_body_bytes < 128 * 128 * 128 * 128
  BY Zenon, WireAssumption

\* A request's body is bytes.
LEMMA RequestTyped ==
    ASSUME NEW r \in Requests
    PROVE  /\ r.transport \in {"http", "grpc"} /\ r.route \in BOOLEAN /\ r.typed \in BOOLEAN
           /\ r.body \in Seq(Nat) /\ \A i \in 1 .. Len(r.body) : r.body[i] < 256
<1>1. r.transport \in {"http", "grpc"} /\ r.route \in BOOLEAN /\ r.typed \in BOOLEAN /\ r.body \in Seq(Byte)
  BY WireAssumption
<1>2. \A x \in Byte : x \in Nat /\ x < 256
  BY DEF Byte
<1>3. r.body \in Seq(Nat)
  BY <1>1, <1>2, SeqMonotonic
<1>4. \A i \in 1 .. Len(r.body) : r.body[i] \in Byte
  BY <1>1, ElementOfSeq
<1> QED BY <1>1, <1>2, <1>3, <1>4

\* What a worker gets is a sequence of bytes within the limit.
LEMMA MessageTyped ==
    ASSUME NEW r \in Requests, Refusal(r) = "none"
    PROVE  /\ Message(r) \in Seq(Nat) /\ \A i \in 1 .. Len(Message(r)) : Message(r)[i] < 256
           /\ Len(Message(r)) <= max_body_bytes
<1>1. /\ r.transport \in {"http", "grpc"} /\ r.route \in BOOLEAN /\ r.typed \in BOOLEAN
      /\ r.body \in Seq(Nat) /\ \A i \in 1 .. Len(r.body) : r.body[i] < 256
  BY RequestTyped
<1>2. max_body_bytes \in Nat
  BY LimitTyped
<1>3. CASE r.transport = "http"
  <2>1. ~(Len(r.body) > max_body_bytes)
    BY <1>1, <1>3, HandleIs DEF Refusal
  <2> QED BY <1>1, <1>2, <1>3, <2>1 DEF Message
<1>4. CASE r.transport = "grpc"
  <2> DEFINE b == r.body
  <2>1. ~(Len(b) > GrpcLimit) /\ ~(Len(b) < 5) /\ ~(Len(b) < 5 + FrameLen(b))
    BY <1>1, <1>4, HandleGrpcIs DEF Refusal
  <2>2. b \in Seq(Nat) /\ Len(b) \in Nat /\ Len(b) >= 5 /\ \A i \in 1 .. Len(b) : b[i] \in Nat /\ b[i] < 256
    BY <1>1, <2>1
  <2> HIDE DEF b
  <2>3. PICK n \in Nat : n = FrameLen(b)
    <3>1. \A i \in 2 .. 5 : b[i] \in Nat
      BY <2>2
    <3>2. SubSeq(b, 2, 5)[1] = b[2] /\ SubSeq(b, 2, 5)[2] = b[3] /\ SubSeq(b, 2, 5)[3] = b[4] /\ SubSeq(b, 2, 5)[4] = b[5]
      BY <3>1, SubSeqProperties
    <3>3. FrameLen(b) = ((b[2] * 256 + b[3]) * 256 + b[4]) * 256 + b[5]
      BY <3>2 DEF FrameLen, BigEndian
    <3>4. PICK w \in Nat, x \in Nat, y \in Nat, z \in Nat : w = b[2] /\ x = b[3] /\ y = b[4] /\ z = b[5]
      BY <3>1
    <3>5. ((w * 256 + x) * 256 + y) * 256 + z \in Nat
      BY ONLY w \in Nat, x \in Nat, y \in Nat, z \in Nat
    <3> QED BY <3>3, <3>4, <3>5
  <2>4. 5 + n <= Len(b) /\ n <= max_body_bytes
    BY <2>1, <2>2, <2>3, <1>2 DEF GrpcLimit
  <2>5. \A i \in 6 .. 5 + n : b[i] \in Nat
    BY <2>2, <2>4
  <2>6. /\ SubSeq(b, 6, 5 + n) \in Seq(Nat) /\ Len(SubSeq(b, 6, 5 + n)) = n
        /\ \A i \in 1 .. n : SubSeq(b, 6, 5 + n)[i] = b[6 + i - 1]
    <3>1. /\ SubSeq(b, 6, 5 + n) \in Seq(Nat)
          /\ Len(SubSeq(b, 6, 5 + n)) = IF 6 <= 5 + n THEN (5 + n) - 6 + 1 ELSE 0
          /\ \A i \in 1 .. (5 + n) - 6 + 1 : SubSeq(b, 6, 5 + n)[i] = b[6 + i - 1]
      BY <2>5, SubSeqProperties
    <3>2. (5 + n) - 6 + 1 = n /\ (~(6 <= 5 + n) => n = 0)
      OBVIOUS
    <3> QED BY <3>1, <3>2
  <2>7. \A i \in 1 .. n : SubSeq(b, 6, 5 + n)[i] < 256
    <3> TAKE i \in 1 .. n
    <3>1. 6 + i - 1 \in 1 .. Len(b)
      BY <2>2, <2>4
    <3> QED BY <3>1, <2>2, <2>6
  <2>8. Message(r) = SubSeq(b, 6, 5 + n)
    BY <1>4, <2>3 DEF Message, b
  <2> QED BY <2>4, <2>6, <2>7, <2>8
<1> QED BY <1>1, <1>3, <1>4

-----------------------------------------------------------------------------
(* The walk *)

Verdicts == {"Accepted", "Malformed", "ForwardFailed"}
ParseErrors == {"Truncated", "VarintOverflow", "LengthOverrun", "UnsupportedWire"}

MessageInv ==
    /\ message \in Seq(Nat) /\ \A i \in 1 .. Len(message) : message[i] < 256
    /\ Len(message) <= max_body_bytes

StackInv == Nested(stack, message) /\ Walked(stack, message)

\* Where a request is, and what is known of it there.
PhaseInv ==
    /\ pc \in {"idle", "walk", "walked", "answered"} /\ err \in {"none"} \cup ParseErrors
    /\ pc = "idle" => stack = <<>> /\ verdict = "none" /\ status = "none" /\ err = "none"
    /\ pc = "walk" => stack # <<>> /\ verdict = "none" /\ status = "none" /\ err = "none"
    /\ pc = "walked" => stack # <<>> /\ verdict \in Verdicts /\ status = "none"
    /\ pc \in {"walk", "walked"} => req \in Requests /\ Refusal(req) = "none" /\ message = Message(req)
    /\ pc = "answered" =>
          /\ req \in Requests
          /\ \/ Refusal(req) # "none" /\ status = Refusal(req) /\ verdict = "none" /\ stack = <<>>
             \/ /\ Refusal(req) = "none" /\ message = Message(req) /\ stack # <<>>
                /\ verdict \in Verdicts /\ status = Answer(req.transport, verdict)

VerdictInv ==
    /\ verdict = "Malformed" => ~WellFormed(message, Top.lo, Top.end)
    /\ verdict \in {"Accepted", "ForwardFailed"} => WellFormed(message, 0, Len(message))

WInv == MessageInv /\ StackInv /\ PhaseInv /\ VerdictInv

\* The innermost window, and the field at its cursor.
LEMMA TopIs ==
    ASSUME WInv, stack # <<>>
    PROVE  /\ Top = stack[Len(stack)] /\ Len(stack) \in Nat \ {0} /\ Top \in Windows
           /\ Top.lo \in Nat /\ Top.run \in Nat /\ Top.pos \in Nat /\ Top.end \in Nat
           /\ Top.lo <= Top.run /\ Top.run <= Top.pos /\ Top.pos <= Top.end /\ Top.end <= Len(message)
           /\ WellFormed(message, Top.lo, Top.end) <=> WellFormed(message, Top.pos, Top.end)
<1>1. stack \in Seq(Windows)
  BY DEF WInv, StackInv, Nested
<1>2. Len(stack) \in Nat \ {0} /\ Len(stack) \in 1 .. Len(stack) /\ Top = stack[Len(stack)]
  BY <1>1 DEF Top, Last
<1>3. Top \in Windows
  BY <1>1, <1>2, ElementOfSeq
<1>4. Top.lo \in Nat /\ Top.run \in Nat /\ Top.pos \in Nat /\ Top.end \in Nat
  BY <1>3 DEF Windows
<1> QED BY <1>2, <1>3, <1>4 DEF WInv, StackInv, Nested, Walked

\* What the walk reads at the cursor tells whether the rest of the window is well formed.
LEMMA TopField1 ==
    ASSUME WInv, pc = "walk", Top.pos < Top.end
    PROVE  LET t == Tag(Top)
               r == skip(message, AfterTag(Top), WireType(t.v))
           IN  /\ t.err \in {"none"} \cup ParseErrors
               /\ t.err = "none" => /\ AfterTag(Top).pos = t.pos /\ AfterTag(Top).end = Top.end
                                    /\ t.pos \in Top.pos + 1 .. Top.end /\ IsU64(t.v)
                                    /\ r.err \in {"none"} \cup ParseErrors
               /\ t.err = "none" /\ r.err = "none" =>
                     /\ r.pos \in Top.pos + 1 .. Top.end /\ FieldAt(message, Top.pos, r.pos)
                     /\ WellFormed(message, Top.pos, Top.end) <=> WellFormed(message, r.pos, Top.end)
               /\ t.err # "none" \/ r.err # "none" => ~WellFormed(message, Top.pos, Top.end)
<1>0. stack # <<>>
  BY DEF WInv, PhaseInv
<1>1. Top \in Windows /\ Top.pos \in Nat /\ Top.end \in Nat /\ Top.end <= Len(message)
  BY <1>0, TopIs
<1>2. message \in Seq(Nat)
  BY DEF WInv, MessageInv
<1>3. Tag(Top) = varint(message, Top)
  BY DEF Tag
<1>4. AfterTag(Top).pos = Tag(Top).pos /\ AfterTag(Top).end = Top.end
  BY <1>1 DEF AfterTag, Windows
<1>5a. PICK p \in Nat, e \in Nat : p = Top.pos /\ e = Top.end
  BY <1>1
<1>5b. PICK w, t, d, r : /\ w = Top /\ t = Tag(Top) /\ d = AfterTag(Top)
                        /\ r = skip(message, AfterTag(Top), WireType(Tag(Top).v))
  OBVIOUS
<1>6. /\ w.pos = p /\ w.end = e /\ t = varint(message, w) /\ d.pos = t.pos /\ d.end = e
      /\ r = skip(message, d, WireType(t.v)) /\ p < e /\ e <= Len(message)
  BY <1>1, <1>3, <1>4, <1>5a, <1>5b
<1>7. /\ t.err = "none" /\ r.err = "none" => r.pos \in p + 1 .. e /\ FieldAt(message, p, r.pos)
      /\ t.err = "none" => t.pos \in p + 1 .. e /\ IsU64(t.v)
      /\ t.err \in {"none", "Truncated", "VarintOverflow"}
      /\ t.err = "none" => r.err \in {"none", "Truncated", "VarintOverflow", "LengthOverrun", "UnsupportedWire"}
  BY <1>2, <1>6, FieldWalked
<1>8. /\ t.err = "none" /\ r.err = "none" => (WellFormed(message, p, e) <=> WellFormed(message, r.pos, e))
      /\ t.err # "none" \/ r.err # "none" => ~WellFormed(message, p, e)
  BY <1>2, <1>6, WellFormedStep
<1> QED BY <1>4, <1>5a, <1>5b, <1>7, <1>8 DEF ParseErrors

\* The invariant holds of the first state: no message, no window.
LEMMA WInvInit == Init => WInv
<1> SUFFICES ASSUME Init PROVE WInv
  OBVIOUS
<1>1. message = <<>> /\ stack = <<>>
  BY DEF Init
<1>2. MessageInv
  BY <1>1, LimitTyped DEF MessageInv
<1>3. StackInv
  BY <1>1 DEF StackInv, Nested, Walked
<1>4. PhaseInv /\ VerdictInv
  BY DEF Init, PhaseInv, VerdictInv
<1> QED BY <1>2, <1>3, <1>4 DEF WInv

\* A request that is taken opens one window on its whole message.
LEMMA WInvSubmit ==
    ASSUME WInv, pc = "idle", NEW r \in Requests, Refuse(r) \/ Submit(r)
    PROVE  WInv'
<1>1. CASE Refuse(r)
  <2>1. MessageInv' /\ StackInv'
    BY <1>1 DEF Refuse, WInv, MessageInv, StackInv
  <2>2. PhaseInv' /\ VerdictInv'
    BY <1>1 DEF Refuse, WInv, PhaseInv, VerdictInv
  <2> QED BY <2>1, <2>2 DEF WInv
<1>2. CASE Submit(r)
  <2>1. /\ Message(r) \in Seq(Nat) /\ \A i \in 1 .. Len(Message(r)) : Message(r)[i] < 256
        /\ Len(Message(r)) <= max_body_bytes /\ Refusal(r) = "none"
    BY <1>2, MessageTyped DEF Submit
  <2>2. MessageInv'
    BY <1>2, <2>1 DEF Submit, MessageInv
  <2>3. PICK n \in Nat : n = Len(Message(r))
    BY <2>1
  <2>4. PICK w : w = Window(0, n, TopField, 0)
    OBVIOUS
  <2>5. /\ w \in Windows /\ IsField(w.field)
        /\ w.lo = 0 /\ w.run = 0 /\ w.pos = 0 /\ w.end = n
    <3>1. TopField \in [1 .. 5 -> Nat] /\ \A k \in 1 .. 5 : TopField[k] = 0
      BY DEF TopField
    <3>2. IsField(TopField)
      BY <3>1 DEF IsField
    <3> QED BY <2>4, <3>1, <3>2 DEF Window, Windows
  <2>6. stack' = <<w>> /\ message' = Message(r)
    BY <1>2, <2>3, <2>4 DEF Submit
  <2>7. Nested(<<w>>, Message(r)) /\ Walked(<<w>>, Message(r))
    <3>1. <<w>> \in Seq(Windows) /\ Len(<<w>>) = 1 /\ <<w>>[1] = w
      BY <2>5
    <3>2. \A i \in 1 .. 1 : i = 1
      OBVIOUS
    <3> QED BY <2>3, <2>5, <3>1, <3>2 DEF Nested, Walked
  <2>8. StackInv'
    BY <2>6, <2>7 DEF StackInv
  <2>9. PhaseInv'
    BY <1>2, <2>1, <2>6 DEF Submit, WInv, PhaseInv
  <2>10. VerdictInv'
    BY <1>2 DEF Submit, WInv, PhaseInv, VerdictInv
  <2> QED BY <2>2, <2>8, <2>9, <2>10 DEF WInv
<1> QED BY <1>1, <1>2

\* A field is passed over: the rest is well formed exactly when it was.
LEMMA WInvSkip ==
    ASSUME WInv, SkipField
    PROVE  WInv'
<1>0. pc = "walk" /\ Top.pos < Top.end /\ stack # <<>> /\ verdict = "none"
  BY DEF SkipField, WInv, PhaseInv
<1>1. PICK r : r = skip(message, AfterTag(Top), WireType(Tag(Top).v))
  OBVIOUS
<1>2. r.err = "none" /\ Tag(Top).err = "none" /\ stack' = Moved(stack, r.pos)
  BY <1>1 DEF SkipField, Moved
<1>3. /\ r.pos \in Top.pos + 1 .. Top.end
      /\ WellFormed(message, Top.pos, Top.end) <=> WellFormed(message, r.pos, Top.end)
  BY <1>0, <1>1, <1>2, TopField1
<1>4. Top = stack[Len(stack)] /\ Top.pos \in Nat /\ Top.end \in Nat
  BY <1>0, TopIs
<1>5. r.pos \in Nat /\ Top.pos <= r.pos /\ r.pos <= Top.end
  BY <1>3, <1>4
<1>6. message \in Seq(Nat) /\ Nested(stack, message) /\ Walked(stack, message)
  BY DEF WInv, MessageInv, StackInv
<1>7. Nested(Moved(stack, r.pos), message) /\ Len(Moved(stack, r.pos)) = Len(stack)
  BY <1>0, <1>4, <1>5, <1>6, MovedNested
<1>8. Walked(Moved(stack, r.pos), message)
  BY <1>0, <1>3, <1>4, <1>5, <1>6, MovedWalked
<1>9. StackInv' /\ MessageInv'
  BY <1>2, <1>7, <1>8 DEF SkipField, WInv, StackInv, MessageInv
<1>10. stack' # <<>>
  BY <1>2, <1>4, <1>7, <1>0, TopIs
<1>11. PhaseInv' /\ VerdictInv'
  BY <1>0, <1>10 DEF SkipField, WInv, PhaseInv, VerdictInv, Verdicts
<1> QED BY <1>9, <1>11 DEF WInv

\* A length-delimited field that is looked into.
LEMMA Entered ==
    ASSUME WInv, EnterField
    PROVE  LET t == Tag(Top)
               r == len_range(message, AfterTag(Top))
           IN  /\ pc = "walk" /\ stack # <<>> /\ t.err = "none" /\ r.err = "none" /\ WireType(t.v) = 2
               /\ stack' = Append(Moved(stack, r.pos), Window(r.start, r.pos, Field(t.v), Top.pos))
               /\ r.pos \in Nat /\ r.start \in Nat /\ r.start <= r.pos /\ r.pos <= Top.end
               /\ Top.pos < t.pos /\ t.pos < r.start /\ t.pos \in Nat
               /\ VarintRead(message, Top.pos, Top.end, t) /\ LenRead(message, t.pos, Top.end, r)
               /\ FieldAt(message, Top.pos, r.pos)
               /\ WellFormed(message, Top.pos, Top.end) <=> WellFormed(message, r.pos, Top.end)
<1>0. pc = "walk" /\ Top.pos < Top.end /\ stack # <<>> /\ Tag(Top).err = "none" /\ WireType(Tag(Top).v) = 2
  BY DEF EnterField, WInv, PhaseInv
<1>1. PICK t : t = Tag(Top)
  OBVIOUS
<1>2. PICK r : r = len_range(message, AfterTag(Top))
  OBVIOUS
<1>3. r = skip(message, AfterTag(Top), WireType(Tag(Top).v))
  BY <1>0, <1>2 DEF skip
<1>4. r.err = "none" /\ stack' = Append(Moved(stack, r.pos), Window(r.start, r.pos, Field(t.v), Top.pos))
  BY <1>1, <1>2 DEF EnterField, Moved
<1>5. /\ AfterTag(Top).pos = t.pos /\ AfterTag(Top).end = Top.end
      /\ t.pos \in Top.pos + 1 .. Top.end
      /\ r.pos \in Top.pos + 1 .. Top.end /\ FieldAt(message, Top.pos, r.pos)
      /\ WellFormed(message, Top.pos, Top.end) <=> WellFormed(message, r.pos, Top.end)
  BY <1>0, <1>1, <1>3, <1>4, TopField1
<1>6. /\ Top.pos \in Nat /\ Top.end \in Nat /\ Top.pos <= Top.end /\ Top.end <= Len(message)
      /\ message \in Seq(Nat)
  BY <1>0, TopIs DEF WInv, MessageInv
<1>7. t.pos \in Nat /\ t.pos <= Top.end /\ Top.pos < t.pos /\ r.pos \in Nat /\ r.pos <= Top.end
  BY <1>5, <1>6
<1>8. VarintRead(message, Top.pos, Top.end, t)
  BY <1>1, <1>6, VarintReads DEF Tag
<1>9. LenRead(message, t.pos, Top.end, r)
  BY <1>2, <1>5, <1>6, <1>7, LenReads
<1>10. r.start \in t.pos + 1 .. t.pos + 10 /\ r.pos \in r.start .. Top.end
  BY <1>4, <1>9 DEF LenRead
<1>11. r.start \in Nat /\ t.pos < r.start /\ r.start <= r.pos
  BY <1>7, <1>10
<1> QED BY <1>0, <1>1, <1>2, <1>4, <1>5, <1>7, <1>8, <1>9, <1>11

\* A field is opened: a window of its own in the one around it.
LEMMA WInvEnter ==
    ASSUME WInv, EnterField
    PROVE  WInv'
<1>1. PICK t : t = Tag(Top)
  OBVIOUS
<1>2. PICK r : r = len_range(message, AfterTag(Top))
  OBVIOUS
<1>3. /\ pc = "walk" /\ stack # <<>> /\ WireType(t.v) = 2
      /\ stack' = Append(Moved(stack, r.pos), Window(r.start, r.pos, Field(t.v), Top.pos))
      /\ r.pos \in Nat /\ r.start \in Nat /\ r.start <= r.pos /\ r.pos <= Top.end
      /\ Top.pos < t.pos /\ t.pos < r.start /\ t.pos \in Nat
      /\ VarintRead(message, Top.pos, Top.end, t) /\ t.err = "none"
      /\ WellFormed(message, Top.pos, Top.end) <=> WellFormed(message, r.pos, Top.end)
  BY <1>1, <1>2, Entered
<1>4. /\ Top = stack[Len(stack)] /\ Len(stack) \in Nat \ {0} /\ Top \in Windows
      /\ Top.pos \in Nat /\ Top.end \in Nat /\ Top.run \in Nat /\ Top.run <= Top.pos
  BY <1>3, TopIs
<1>5. message \in Seq(Nat) /\ Nested(stack, message) /\ Walked(stack, message)
  BY DEF WInv, MessageInv, StackInv
<1>6. Top.pos <= r.pos
  BY <1>3, <1>4
<1>7. PICK z : z = Moved(stack, r.pos)
  OBVIOUS
<1>8. Nested(z, message) /\ Len(z) = Len(stack) /\ z[Len(stack)] = [Top EXCEPT !.pos = r.pos]
  BY <1>3, <1>4, <1>5, <1>6, <1>7, MovedNested
<1>9. Walked(z, message)
  BY <1>3, <1>4, <1>5, <1>6, <1>7, MovedWalked
<1>10. z[Len(z)].pos = r.pos /\ z[Len(z)].run = Top.run /\ z # <<>>
  BY <1>4, <1>8 DEF Windows
<1>11. IsField(Field(t.v)) /\ Field(t.v) \in [1 .. 5 -> Nat]
  <2>1. IsU64(t.v)
    BY <1>3 DEF VarintRead
  <2>2. IsField(Field(t.v))
    BY <1>3, <2>1, FieldIs
  <2> QED BY <2>2 DEF IsField
<1>12. PICK w : w = Window(r.start, r.pos, Field(t.v), Top.pos)
  OBVIOUS
<1>12a. /\ w \in Windows /\ IsField(w.field)
        /\ w.lo = r.start /\ w.run = r.start /\ w.pos = r.start /\ w.end = r.pos /\ w.tag_start = Top.pos
  <2>1. PICK f : f = Field(t.v) /\ IsField(f) /\ f \in [1 .. 5 -> Nat]
    BY ONLY <1>11
  <2>2. w = Window(r.start, r.pos, f, Top.pos)
    BY ONLY <1>12, <2>1
  <2>3. w \in Windows
    BY ONLY <1>3, <1>4, <2>1, <2>2 DEF Window, Windows
  <2>4. /\ w.field = f /\ w.lo = r.start /\ w.run = r.start /\ w.pos = r.start /\ w.end = r.pos
        /\ w.tag_start = Top.pos
    BY ONLY <2>2 DEF Window
  <2>5. IsField(w.field)
    BY ONLY <2>1, <2>4
  <2> QED BY ONLY <2>3, <2>4, <2>5
<1>13. Top.pos < r.start
  BY <1>3, <1>4
<1>14. Nested(Append(z, w), message) /\ Walked(Append(z, w), message)
  <2>1. w.pos <= w.end /\ w.end = z[Len(z)].pos /\ z[Len(z)].run <= w.tag_start /\ w.tag_start < w.lo
    BY ONLY <1>3, <1>4, <1>10, <1>12a, <1>13
  <2>2. message \in Seq(Nat) /\ Nested(z, message) /\ Walked(z, message) /\ z # <<>>
    BY ONLY <1>5, <1>8, <1>9, <1>10
  <2>3. Pushed(z, message, w)
    BY ONLY <1>12a, <2>1, <2>2 DEF Pushed
  <2> QED BY ONLY <2>3, PushNested
<1>15. stack' = Append(z, w) /\ stack' # <<>>
  <2>1. z \in Seq(Windows)
    BY <1>8 DEF Nested
  <2> QED BY <1>3, <1>7, <1>12, <1>12a, <2>1, AppendProperties
<1>16. StackInv' /\ MessageInv'
  BY <1>14, <1>15 DEF EnterField, WInv, StackInv, MessageInv
<1>17. PhaseInv' /\ VerdictInv'
  BY <1>3, <1>15 DEF EnterField, WInv, PhaseInv, VerdictInv, Verdicts
<1> QED BY <1>16, <1>17 DEF WInv

\* A field that cannot be read fails the walk of a message that is not well formed.
LEMMA WInvFails ==
    ASSUME WInv, WalkFails
    PROVE  WInv'
<1>0. pc = "walk" /\ Top.pos < Top.end /\ stack # <<>>
  BY DEF WalkFails, WInv, PhaseInv
<1>1. PICK e \in ParseErrors : Fail(e) /\ ~WellFormed(message, Top.pos, Top.end)
  <2>1. CASE Tag(Top).err # "none" /\ Fail(Tag(Top).err)
    BY <1>0, <2>1, TopField1
  <2>2. CASE /\ Tag(Top).err = "none"
             /\ LET r == skip(message, AfterTag(Top), WireType(Tag(Top).v))
                IN  r.err # "none" /\ Fail(r.err)
    BY <1>0, <2>2, TopField1
  <2> QED BY <2>1, <2>2 DEF WalkFails
<1>2. ~WellFormed(message, Top.lo, Top.end)
  BY <1>0, <1>1, TopIs
<1>3. StackInv' /\ MessageInv'
  BY <1>1 DEF Fail, WInv, StackInv, MessageInv
<1>4. VerdictInv'
  BY <1>1, <1>2 DEF Fail, VerdictInv, Top, Last
<1>5. PhaseInv'
  BY <1>0, <1>1 DEF Fail, WInv, PhaseInv, Verdicts
<1> QED BY <1>3, <1>4, <1>5 DEF WInv

\* What a closed window leaves behind it: the announced size of the part before
\* its tag, its new header and itself.
LEMMA Left ==
    ASSUME WInv, LeaveField
    PROVE  LET n  == Len(stack)
               up == stack[n - 1]
               u  == [up EXCEPT !.out  = up.out \o Bytes(up.run, Top.tag_start)
                                           \o header(Top.field, RestSize(Top)) \o Rest(Top),
                                !.size = up.size + (Top.tag_start - up.run)
                                           + header_len(Top.field, RestSize(Top)) + RestSize(Top),
                                !.run  = up.pos]
           IN  /\ pc = "walk" /\ n \in Nat /\ n > 1 /\ Top = stack[n] /\ up \in Windows /\ u \in Windows
               /\ stack' = Append(SubSeq(stack, 1, n - 2), u)
               /\ u.lo = up.lo /\ u.end = up.end /\ u.pos = up.pos /\ u.run = up.pos
               /\ u.field = up.field /\ u.tag_start = up.tag_start
               /\ u.out = up.out \o Bytes(up.run, Top.tag_start) \o header(Top.field, RestSize(Top)) \o Rest(Top)
               /\ u.size = up.size + (Top.tag_start - up.run) + header_len(Top.field, RestSize(Top)) + RestSize(Top)
               /\ Top.pos = Top.end /\ Top.end = up.pos /\ up.run <= Top.tag_start /\ Top.tag_start < Top.lo
               /\ RestSize(Top) \in Nat /\ header(Top.field, RestSize(Top)) \in Seq(Nat)
               /\ Bytes(up.run, Top.tag_start) \in Seq(Nat) /\ Bytes(Top.run, Top.end) \in Seq(Nat)
               /\ IsField(Top.field)
<1> DEFINE n == Len(stack)
<1> DEFINE up == stack[n - 1]
<1>0. pc = "walk" /\ n > 1 /\ Top.pos >= Top.end /\ stack # <<>>
  BY DEF LeaveField, WInv, PhaseInv
<1>1. /\ Top = stack[n] /\ n \in Nat \ {0} /\ Top \in Windows
      /\ Top.lo \in Nat /\ Top.run \in Nat /\ Top.pos \in Nat /\ Top.end \in Nat
      /\ Top.run <= Top.pos /\ Top.pos <= Top.end /\ Top.end <= Len(message)
  BY <1>0, TopIs
<1>2. Nested(stack, message) /\ stack \in Seq(Windows) /\ message \in Seq(Nat)
  BY DEF WInv, MessageInv, StackInv, Nested
<1>3. n \in 1 .. n /\ n - 1 \in 1 .. n /\ up \in Windows
  BY <1>0, <1>1, <1>2, ElementOfSeq
<1>4. /\ Top.end = up.pos /\ up.run <= Top.tag_start /\ Top.tag_start < Top.lo /\ IsField(Top.field)
  BY <1>0, <1>1, <1>2, <1>3 DEF Nested
<1>5. up.run \in Nat /\ up.pos \in Nat /\ Top.tag_start \in Nat /\ Top.size \in Nat /\ up.size \in Nat
      /\ up.out \in Seq(Nat) /\ Top.out \in Seq(Nat)
  BY <1>1, <1>3 DEF Windows
<1>6. Top.pos = Top.end
  BY <1>0, <1>1
<1>7. RestSize(Top) \in Nat
  <2>1. Top.end - Top.run \in Nat
    BY <1>1
  <2> QED BY <2>1, <1>5 DEF RestSize
<1>8. header(Top.field, RestSize(Top)) \in Seq(Nat) /\ header_len(Top.field, RestSize(Top)) \in Nat
  BY <1>4, <1>7, HeaderIs
<1>9. ASSUME NEW a \in Nat, NEW b \in Nat, b <= Len(message) PROVE Bytes(a, b) \in Seq(Nat)
  <2>1. \A i \in a + 1 .. b : message[i] \in Nat
    BY <1>2, <1>9
  <2>1a. a + 1 \in Int /\ b \in Int
    OBVIOUS
  <2>2. SubSeq(message, a + 1, b) \in Seq(Nat)
    BY ONLY <2>1, <2>1a, SubSeqProperties
  <2> QED BY ONLY <2>2 DEF Bytes
<1>10. Top.tag_start <= Len(message)
  <2>1. Top.lo <= Top.run
    BY <1>0, TopIs
  <2>2. Top.lo \in Nat /\ Top.run \in Nat /\ Top.end \in Nat /\ Top.run <= Top.end /\ Top.end <= Len(message)
    BY <1>1, <1>2
  <2>3. Len(message) \in Nat /\ Top.tag_start \in Nat /\ Top.tag_start < Top.lo
    BY <1>2, <1>4, <1>5
  <2> QED BY ONLY <2>1, <2>2, <2>3
<1>11. Bytes(up.run, Top.tag_start) \in Seq(Nat) /\ Bytes(Top.run, Top.end) \in Seq(Nat)
  BY <1>1, <1>5, <1>9, <1>10
<1>12. Rest(Top) \in Seq(Nat)
  BY ONLY <1>5, <1>11, ConcatProperties DEF Rest
<1>13. PICK out \in Seq(Nat) :
          out = up.out \o Bytes(up.run, Top.tag_start) \o header(Top.field, RestSize(Top)) \o Rest(Top)
  <2>1. ASSUME NEW a \in Seq(Nat), NEW b \in Seq(Nat), NEW c \in Seq(Nat), NEW d \in Seq(Nat)
        PROVE  a \o b \o c \o d \in Seq(Nat)
    OBVIOUS
  <2>2. PICK a \in Seq(Nat) : a = up.out
    BY ONLY <1>5
  <2>3. PICK b \in Seq(Nat) : b = Bytes(up.run, Top.tag_start)
    BY ONLY <1>11
  <2>4. PICK c \in Seq(Nat) : c = header(Top.field, RestSize(Top))
    BY ONLY <1>8
  <2>5. PICK d \in Seq(Nat) : d = Rest(Top)
    BY ONLY <1>12
  <2>6. a \o b \o c \o d \in Seq(Nat)
    BY ONLY <2>1, a \in Seq(Nat), b \in Seq(Nat), c \in Seq(Nat), d \in Seq(Nat)
  <2> QED BY ONLY <2>2, <2>3, <2>4, <2>5, <2>6
<1>14. PICK size \in Nat :
          size = up.size + (Top.tag_start - up.run) + header_len(Top.field, RestSize(Top)) + RestSize(Top)
  <2>1. Top.tag_start - up.run \in Nat
    BY ONLY <1>4, <1>5
  <2> QED BY ONLY <2>1, <1>5, <1>7, <1>8
<1>15. PICK u : u = [up EXCEPT !.out = out, !.size = size, !.run = up.pos]
  OBVIOUS
<1>16. /\ u \in Windows /\ u.lo = up.lo /\ u.end = up.end /\ u.pos = up.pos /\ u.run = up.pos
       /\ u.field = up.field /\ u.tag_start = up.tag_start /\ u.out = out /\ u.size = size
  BY <1>3, <1>5, <1>15 DEF Windows
<1>17. stack' = Append(SubSeq(stack, 1, n - 2), u)
  BY <1>13, <1>14, <1>15 DEF LeaveField
<1> QED BY <1>0, <1>1, <1>3, <1>4, <1>6, <1>7, <1>8, <1>11, <1>13, <1>14, <1>15, <1>16, <1>17

\* A window that has been walked to its end is closed.
LEMMA WInvLeave ==
    ASSUME WInv, LeaveField
    PROVE  WInv'
<1>1. PICK n \in Nat : n = Len(stack)
  BY Left
<1>2. PICK u \in Windows :
         /\ pc = "walk" /\ n > 1 /\ stack' = Append(SubSeq(stack, 1, n - 2), u)
         /\ u.lo = stack[n - 1].lo /\ u.end = stack[n - 1].end /\ u.pos = stack[n - 1].pos
         /\ u.field = stack[n - 1].field /\ u.tag_start = stack[n - 1].tag_start /\ u.run = u.pos
  BY <1>1, Left
<1>3. message \in Seq(Nat) /\ Nested(stack, message) /\ Walked(stack, message)
  BY DEF WInv, MessageInv, StackInv
<1>4. /\ Nested(stack', message) /\ Walked(stack', message) /\ Len(stack') = n - 1
  <2>1. PICK z : z = Append(SubSeq(stack, 1, n - 2), u)
    OBVIOUS
  <2>2. PICK s : s = stack
    OBVIOUS
  <2>3. PICK m \in Seq(Nat) : m = message
    BY <1>3
  <2>4. Nested(s, m) /\ Walked(s, m) /\ n = Len(s) /\ n > 1
    BY <1>1, <1>2, <1>3, <2>2, <2>3
  <2>5. SameWindow(u, s[n - 1]) /\ u.run = u.pos
    BY <1>2, <2>2 DEF SameWindow
  <2>6. Nested(z, m) /\ Walked(z, m) /\ Len(z) = n - 1
    <3>1. z = Append(SubSeq(s, 1, n - 2), u)
      BY <2>1, <2>2
    <3>2. Popped(s, m, n, u, z)
      BY <3>1, <2>4, <2>5 DEF Popped
    <3> QED BY ONLY <3>2, PopNested
  <2> QED BY <2>1, <2>3, <2>6, <1>2
<1>5. StackInv' /\ MessageInv'
  BY <1>4 DEF LeaveField, WInv, StackInv, MessageInv
<1>6. stack' # <<>>
  <2>1. Len(stack') # 0
    BY <1>2, <1>4
  <2> QED BY <2>1, EmptySeq
<1>7. PhaseInv' /\ VerdictInv'
  BY <1>2, <1>6 DEF LeaveField, WInv, PhaseInv, VerdictInv, Verdicts
<1> QED BY <1>5, <1>7 DEF WInv

\* A message that has been walked to its end is well formed.
LEMMA WInvFinish ==
    ASSUME WInv, Finish
    PROVE  WInv'
<1>0. pc = "walk" /\ Len(stack) = 1 /\ Top.pos >= Top.end /\ stack # <<>>
  BY DEF Finish, WInv, PhaseInv
<1>1. /\ Top = stack[1] /\ Top.pos \in Nat /\ Top.end \in Nat /\ Top.pos <= Top.end
      /\ WellFormed(message, Top.lo, Top.end) <=> WellFormed(message, Top.pos, Top.end)
  BY <1>0, TopIs
<1>2. Top.lo = 0 /\ Top.end = Len(message)
  BY <1>0, <1>1 DEF WInv, StackInv, Nested
<1>3. Top.pos = Top.end /\ Top.end \in 0 .. Top.end
  BY <1>0, <1>1
<1>4. WellFormed(message, Top.end, Top.end)
  BY <1>1, <1>3, WellFormedUnfold
<1>5. WellFormed(message, 0, Len(message))
  BY <1>1, <1>2, <1>3, <1>4
<1>6. StackInv' /\ MessageInv'
  BY DEF Finish, WInv, StackInv, MessageInv
<1>7. VerdictInv'
  BY <1>5 DEF Finish, VerdictInv
<1>8. PhaseInv'
  BY <1>0 DEF Finish, WInv, PhaseInv, Verdicts
<1> QED BY <1>6, <1>7, <1>8 DEF WInv

\* Every step keeps it.
LEMMA WInvStep == WInv /\ [Next]_vars => WInv'
<1> SUFFICES ASSUME WInv, [Next]_vars PROVE WInv'
  OBVIOUS
<1>1. CASE pc = "idle" /\ \E r \in Requests : Refuse(r) \/ Submit(r)
  BY <1>1, WInvSubmit
<1>2. CASE SkipField
  BY <1>2, WInvSkip
<1>3. CASE EnterField
  BY <1>3, WInvEnter
<1>4. CASE WalkFails
  BY <1>4, WInvFails
<1>5. CASE LeaveField
  BY <1>5, WInvLeave
<1>6. CASE Finish
  BY <1>6, WInvFinish
<1>7. CASE Respond
  <2>1. StackInv' /\ MessageInv' /\ VerdictInv'
    BY <1>7 DEF Respond, WInv, StackInv, MessageInv, VerdictInv, Top
  <2>2. PhaseInv'
    BY <1>7 DEF Respond, WInv, PhaseInv
  <2> QED BY <2>1, <2>2 DEF WInv
<1>8. CASE UNCHANGED vars
  <2>1. StackInv' /\ MessageInv' /\ VerdictInv'
    BY <1>8 DEF vars, WInv, StackInv, MessageInv, VerdictInv, Top
  <2>2. PhaseInv'
    BY <1>8 DEF vars, WInv, PhaseInv
  <2> QED BY <2>1, <2>2 DEF WInv
<1> QED BY <1>1, <1>2, <1>3, <1>4, <1>5, <1>6, <1>7, <1>8 DEF Next

\* Where every cursor is, and what it has made of its window so far.
THEOREM WireInvariant == Spec => []WInv
<1>1. Init => WInv
  BY WInvInit
<1>2. WInv /\ [Next]_vars => WInv'
  BY WInvStep
<1> QED BY <1>1, <1>2, PTL DEF Spec

\* A cursor never leaves its window, nor a window the one around it: no byte
\* that a length or a varint points to is read outside the message (otlp.rs,
\* WireCursor).
THEOREM CursorsInBounds == Spec => []TypeOK
<1>1. WInv => TypeOK
  <2> SUFFICES ASSUME WInv PROVE TypeOK
    OBVIOUS
  <2>1. pc \in {"idle", "walk", "walked", "answered"} /\ err \in {"none"} \cup ParseErrors
    BY DEF WInv, PhaseInv
  <2>2. stack \in Seq(Windows)
    BY DEF WInv, StackInv, Nested
  <2>3. ASSUME NEW i \in DOMAIN stack
        PROVE  /\ 0 <= stack[i].lo /\ stack[i].lo <= stack[i].run /\ stack[i].run <= stack[i].pos
               /\ stack[i].pos <= stack[i].end /\ stack[i].end <= Len(message)
               /\ i > 1 => stack[i].end = stack[i - 1].pos /\ stack[i].tag_start < stack[i].run
    <3>1. i \in 1 .. Len(stack)
      BY <2>2
    <3>2. stack[i] \in Windows
      BY <2>2, <3>1, ElementOfSeq
    <3>3. stack[i].lo \in Nat /\ stack[i].run \in Nat /\ stack[i].tag_start \in Nat
      BY <3>2 DEF Windows
    <3>4. /\ stack[i].lo <= stack[i].run /\ stack[i].run <= stack[i].pos
          /\ stack[i].pos <= stack[i].end /\ stack[i].end <= Len(message)
          /\ i > 1 => stack[i].end = stack[i - 1].pos /\ stack[i].tag_start < stack[i].lo
      BY <3>1 DEF WInv, StackInv, Nested
    <3> QED BY <3>3, <3>4
  <2> QED BY <2>1, <2>3 DEF TypeOK, ParseErrors
<1> QED BY <1>1, WireInvariant, PTL

\* A window is walked to its end exactly when it is a run of fields, whatever
\* its bytes and whichever of its fields are looked into.
THEOREM WalkIsExact == Spec => []WalkExact
<1>1. WInv => WalkExact
  <2> SUFFICES ASSUME WInv PROVE WalkExact
    OBVIOUS
  <2>1. ASSUME stack # <<>>, Top.pos >= Top.end PROVE WellFormed(message, Top.lo, Top.end)
    <3>1. /\ Top.pos \in Nat /\ Top.end \in Nat /\ Top.pos <= Top.end
          /\ WellFormed(message, Top.lo, Top.end) <=> WellFormed(message, Top.pos, Top.end)
      BY <2>1, TopIs
    <3>2. Top.pos = Top.end /\ Top.end \in 0 .. Top.end
      BY <2>1, <3>1
    <3>3. WellFormed(message, Top.end, Top.end)
      BY <3>1, <3>2, WellFormedUnfold
    <3> QED BY <3>1, <3>2, <3>3
  <2> QED BY <2>1 DEF WalkExact, WInv, VerdictInv
<1> QED BY <1>1, WireInvariant, PTL

\* The length that a frame announces is that of the message in it.
IsFrame(b, m) == b \in Seq(Nat) /\ m \in Seq(Nat) /\ b = Frame(m) /\ \A i \in 1 .. Len(b) : b[i] < 256

\* It is read back from the frame's five header bytes.
LEMMA FrameRead ==
    ASSUME NEW m, NEW b, IsFrame(b, m)
    PROVE  b[1] = 0 /\ Len(b) = Len(m) + 5 /\ FrameLen(b) = Len(m) /\ SubSeq(b, 6, 5 + Len(m)) = SubSeq(b, 6, Len(b))
<1> USE DEF IsFrame
<1>1. PICK n \in Nat : n = Len(m)
  OBVIOUS
<1>2. PICK x \in Nat, y \in Nat : x = n \div 256 /\ y = n % 256 /\ n = 256 * x + y
  OBVIOUS
<1>3. PICK h : h = <<0, 0, 0, x, y>>
  OBVIOUS
<1>4. h \in Seq(Nat) /\ Len(h) = 5 /\ h[1] = 0 /\ h[2] = 0 /\ h[3] = 0 /\ h[4] = x /\ h[5] = y
  BY <1>3
<1>5. b = h \o m
  BY <1>1, <1>2, <1>3 DEF Frame
<1>6. Len(b) = n + 5 /\ b[1] = 0 /\ b[2] = 0 /\ b[3] = 0 /\ b[4] = x /\ b[5] = y
  <2>1. Len(b) = 5 + n /\ \A i \in 1 .. 5 + n : b[i] = IF i <= 5 THEN h[i] ELSE m[i - 5]
    <3>1. /\ Len(h \o m) = Len(h) + Len(m)
          /\ \A i \in 1 .. Len(h) + Len(m) : (h \o m)[i] = IF i <= Len(h) THEN h[i] ELSE m[i - Len(h)]
      BY <1>4, ConcatProperties
    <3> QED BY <1>1, <1>4, <1>5, <3>1
  <2> QED BY <1>4, <2>1
<1>7. FrameLen(b) = n
  <2>1. \A i \in 2 .. 5 : b[i] \in Nat
    BY <1>6
  <2>2. SubSeq(b, 2, 5)[1] = b[2] /\ SubSeq(b, 2, 5)[2] = b[3] /\ SubSeq(b, 2, 5)[3] = b[4] /\ SubSeq(b, 2, 5)[4] = b[5]
    BY <2>1, SubSeqProperties
  <2>3. FrameLen(b) = ((0 * 256 + 0) * 256 + x) * 256 + y
    BY <2>2, <1>6 DEF FrameLen, BigEndian
  <2> QED BY <1>2, <2>3
<1> QED BY <1>1, <1>6, <1>7

\* A request that carries a message is taken exactly when the message is within
\* the limit, by either transport, and taken whole.
LEMMA CarriedTaken ==
    ASSUME NEW r \in Requests, NEW m \in Seq(Nat), Carried(r, m),
           m = IF r.transport = "http" THEN r.body ELSE SubSeq(r.body, 6, Len(r.body))
    PROVE  IF Len(m) <= max_body_bytes THEN Refusal(r) = "none" /\ Message(r) = m
           ELSE Refusal(r) \in {"413", "8"}
<1>1. /\ r.transport \in {"http", "grpc"} /\ r.route = TRUE /\ r.typed = TRUE
      /\ r.body \in Seq(Nat) /\ \A i \in 1 .. Len(r.body) : r.body[i] < 256
  BY RequestTyped DEF Carried
<1>1b. r.route \in BOOLEAN /\ r.typed \in BOOLEAN
  BY RequestTyped
<1>2. PICK limit \in Nat : limit = max_body_bytes
  BY LimitTyped
<1>3. CASE r.transport = "http"
  <2>1. r.body = m /\ Message(r) = m
    BY <1>3 DEF Message
  <2>2. handle(r) = IF ~r.route THEN "404" ELSE IF Len(r.body) > max_body_bytes THEN "413" ELSE "none"
    BY ONLY <1>1b, HandleIs
  <2>3. Refusal(r) = IF Len(m) > max_body_bytes THEN "413" ELSE "none"
    BY <1>1, <1>3, <2>1, <2>2 DEF Refusal
  <2>4. PICK n \in Nat : n = Len(m)
    OBVIOUS
  <2>5. n <= limit <=> ~(n > limit)
    OBVIOUS
  <2> QED BY <1>2, <2>1, <2>3, <2>4, <2>5
<1>4. CASE r.transport = "grpc"
  <2>1. PICK b \in Seq(Nat) : b = r.body
    BY <1>1
  <2>2. b = Frame(m) /\ (\A i \in 1 .. Len(b) : b[i] < 256) /\ m = SubSeq(b, 6, Len(b))
    BY <1>1, <1>4, <2>1 DEF Carried
  <2>2a. m \in Seq(Nat)
    BY <1>1
  <2>3. b[1] = 0 /\ Len(b) = Len(m) + 5 /\ FrameLen(b) = Len(m) /\ SubSeq(b, 6, 5 + Len(m)) = m
    <3>1. IsFrame(b, m)
      BY ONLY <2>2, <2>2a, b \in Seq(Nat) DEF IsFrame
    <3>2. /\ b[1] = 0 /\ Len(b) = Len(m) + 5 /\ FrameLen(b) = Len(m)
          /\ SubSeq(b, 6, 5 + Len(m)) = SubSeq(b, 6, Len(b))
      BY ONLY <3>1, FrameRead
    <3> QED BY ONLY <2>2, <3>2
  <2>4. PICK n \in Nat : n = Len(m)
    BY ONLY <2>2a
  <2>5. Message(r) = m
    BY <1>4, <2>1, <2>3 DEF Message
  <2>6. Refusal(r) = IF Len(b) > GrpcLimit THEN "8" ELSE IF Len(b) < 5 THEN "3"
                     ELSE IF b[1] # 0 THEN "12" ELSE IF Len(b) < 5 + FrameLen(b) THEN "3" ELSE "none"
    <3>1. handle_grpc(r) =
              IF ~r.route THEN "12" ELSE IF ~r.typed THEN "3"
              ELSE IF Len(r.body) > GrpcLimit THEN "8" ELSE IF Len(r.body) < 5 THEN "3"
              ELSE IF r.body[1] # 0 THEN "12" ELSE IF Len(r.body) < 5 + FrameLen(r.body) THEN "3" ELSE "none"
      BY ONLY <1>1b, HandleGrpcIs
    <3> QED BY <1>1, <1>4, <2>1, <3>1 DEF Refusal
  <2>7. GrpcLimit = limit + 5
    BY <1>2 DEF GrpcLimit
  <2>8. Refusal(r) = IF n + 5 > limit + 5 THEN "8" ELSE "none"
    BY <2>3, <2>4, <2>6, <2>7
  <2> QED BY <1>2, <2>4, <2>5, <2>8
<1> QED BY <1>1, <1>3, <1>4

\* Both transports answer alike, for every limit and every request.
THEOREM TransportsAgree == Spec => []SameAnswer
<1>1. WInv => SameAnswer
  <2> SUFFICES ASSUME WInv, pc = "answered" PROVE SameAnswer
    BY DEF SameAnswer
  <2> DEFINE m == IF req.transport = "http" THEN req.body ELSE SubSeq(req.body, 6, Len(req.body))
  <2>1. /\ req \in Requests
        /\ \/ Refusal(req) # "none" /\ status = Refusal(req) /\ verdict = "none" /\ stack = <<>>
           \/ /\ Refusal(req) = "none" /\ message = Message(req) /\ stack # <<>>
              /\ verdict \in Verdicts /\ status = Answer(req.transport, verdict)
    BY DEF WInv, PhaseInv
  <2>2. /\ req.transport \in {"http", "grpc"} /\ req.route \in BOOLEAN /\ req.typed \in BOOLEAN
        /\ req.body \in Seq(Nat)
    BY <2>1, RequestTyped
  <2>3. m \in Seq(Nat)
    <3>1. \A i \in 6 .. Len(req.body) : req.body[i] \in Nat
      BY <2>2
    <3>2. SubSeq(req.body, 6, Len(req.body)) \in Seq(Nat)
      BY <2>2, <3>1, SubSeqProperties
    <3> QED BY <2>2, <3>2
  <2>4. Refusal(req) \in {"none", "404", "413", "12", "3", "8"}
    BY <2>2, HandleIs, HandleGrpcIs DEF Refusal
  <2>5. verdict \in Verdicts =>
           /\ Answer(req.transport, verdict) \in {"200", "0"} => verdict = "Accepted"
           /\ verdict = "Malformed" => Answer(req.transport, verdict) \in {"400", "3"}
           /\ Answer(req.transport, verdict) \in {"503", "14"} <=> verdict = "ForwardFailed"
    BY <2>2 DEF Answer, Verdicts
  <2>6. Carried(req, m) => IF Len(m) <= max_body_bytes THEN message = m /\ verdict # "none"
                           ELSE verdict = "none" /\ status \in {"413", "8"}
    <3> SUFFICES ASSUME Carried(req, m)
                 PROVE  IF Len(m) <= max_body_bytes THEN message = m /\ verdict # "none"
                        ELSE verdict = "none" /\ status \in {"413", "8"}
      OBVIOUS
    <3>1. IF Len(m) <= max_body_bytes THEN Refusal(req) = "none" /\ Message(req) = m
          ELSE Refusal(req) \in {"413", "8"}
      BY <2>1, <2>3, CarriedTaken
    <3> HIDE DEF m
    <3> QED BY <2>1, <3>1 DEF Verdicts
  <2>7. status \in {"200", "0"} => WellFormed(message, 0, Len(message))
    BY <2>1, <2>4, <2>5 DEF WInv, VerdictInv
  <2>8. verdict = "Malformed" => status \in {"400", "3"}
    BY <2>1, <2>5
  <2>9. status \in {"503", "14"} <=> verdict = "ForwardFailed"
    BY <2>1, <2>4, <2>5
  <2> QED BY <2>6, <2>7, <2>8, <2>9 DEF SameAnswer
<1> QED BY <1>1, WireInvariant, PTL

-----------------------------------------------------------------------------
(* What bytes have become *)

\* out stands for bytes lo+1 to hi of m: a run of fields, no longer than they
\* are, and the same bytes when it is as long.
Faithful(m, lo, hi, out) ==
    /\ out \in Seq(Nat) /\ lo + Len(out) <= hi
    /\ lo + Len(out) = hi => \A i \in 1 .. Len(out) : out[i] = m[lo + i]
    /\ WellFormed(out, 0, Len(out))

\* Bytes lo+1 to hi are the tag of a length-delimited field f and the length n.
DigitsAt(b, lo, hi) == [k \in 1 .. 10 |-> DigitAt(b, lo, hi, k)]
HeaderAt(b, lo, hi, f, n) ==
    \E t \in lo + 1 .. lo + 10 :
        /\ VarintAt(b, lo, t) /\ WireType(DigitsAt(b, lo, t)) = 2 /\ f = Field(DigitsAt(b, lo, t))
        /\ hi \in t + 1 .. t + 10 /\ VarintAt(b, t, hi) /\ ValueAt(b, t, hi, n)

\* Each window: what was put together stands for its bytes up to run, what was
\* walked since is a run of fields, and its header stands before it.
Until(s, i) == IF i = Len(s) THEN s[i].pos ELSE s[i + 1].tag_start
CopiedWindow(m, w, next) ==
    /\ w.size = Len(w.out)
    /\ Faithful(m, w.lo, w.run, w.out)
    /\ WellFormed(m, w.run, next)
HeaderOf(m, w) == HeaderAt(m, w.tag_start, w.lo, w.field, w.end - w.lo)
Copied(s, m) ==
    \A i \in 1 .. Len(s) : CopiedWindow(m, s[i], Until(s, i)) /\ (i > 1 => HeaderOf(m, s[i]))

CopiedInv == Copied(stack, message)
RebuiltInv == verdict \in {"Accepted", "ForwardFailed"} => Faithful(message, 0, Len(message), rebuilt)

-----------------------------------------------------------------------------
(* The wire format does not depend on where bytes are *)

\* n bytes of c from e on are those of b from lo on.
SameBytes(b, lo, c, e, n) ==
    /\ b \in Seq(Nat) /\ c \in Seq(Nat) /\ lo \in Nat /\ e \in Nat /\ n \in Nat
    /\ lo + n <= Len(b) /\ e + n <= Len(c)
    /\ \A k \in 1 .. n : c[e + k] = b[lo + k]

\* A varint stays one where its bytes are copied to.
LEMMA VarintMoved ==
    ASSUME NEW b, NEW lo, NEW c, NEW e, NEW n, SameBytes(b, lo, c, e, n),
           NEW x \in Nat, NEW y \in Nat, y <= n, VarintAt(b, lo + x, lo + y)
    PROVE  VarintAt(c, e + x, e + y)
<1>1. /\ lo \in Nat /\ e \in Nat /\ n \in Nat /\ lo + n <= Len(b) /\ e + n <= Len(c)
      /\ \A k \in 1 .. n : c[e + k] = b[lo + k]
      /\ Len(b) \in Nat /\ Len(c) \in Nat
  BY DEF SameBytes
<1>2. lo + x < lo + y /\ b[lo + y] < 128 /\ \A j \in lo + x + 1 .. lo + y - 1 : b[j] >= 128
  BY <1>1 DEF VarintAt
<1>3. x < y /\ y \in 1 .. n
  BY <1>1, <1>2
<1>4. c[e + y] < 128
  BY <1>1, <1>2, <1>3
<1>5. ASSUME NEW j \in e + x + 1 .. e + y - 1 PROVE c[j] >= 128
  <2>1. PICK k \in 1 .. n : j = e + k /\ lo + k \in lo + x + 1 .. lo + y - 1
    <3>1. j - e \in 1 .. n /\ j = e + (j - e) /\ lo + (j - e) \in lo + x + 1 .. lo + y - 1
      BY <1>1, <1>3
    <3> QED BY <3>1
  <2> QED BY <1>1, <1>2, <2>1
<1>6. e + x < e + y /\ e + y <= Len(c)
  BY <1>1, <1>3
<1>7. e + x \in Nat /\ e + y \in Nat
  BY <1>1
<1> QED BY ONLY <1>4, <1>5, <1>6, <1>7, <1>1 DEF VarintAt

\* ... with the same digits,
LEMMA DigitMoved ==
    ASSUME NEW b, NEW lo, NEW c, NEW e, NEW n, SameBytes(b, lo, c, e, n),
           NEW x \in Nat, NEW y \in Nat, y <= n, NEW k \in 1 .. 10
    PROVE  DigitAt(c, e + x, e + y, k) = DigitAt(b, lo + x, lo + y, k)
<1>1. /\ lo \in Nat /\ e \in Nat /\ n \in Nat /\ \A j \in 1 .. n : c[e + j] = b[lo + j]
  BY DEF SameBytes
<1>2. CASE x + k > y
  <2>1. lo + x + k > lo + y /\ e + x + k > e + y
    BY <1>1, <1>2
  <2> QED BY <2>1 DEF DigitAt
<1>3. CASE x + k <= y
  <2>1. ~(lo + x + k > lo + y) /\ ~(e + x + k > e + y)
    BY <1>1, <1>3
  <2>2. x + k \in 1 .. n /\ e + x + k = e + (x + k) /\ lo + x + k = lo + (x + k)
    BY <1>1, <1>3
  <2>3. c[e + x + k] = b[lo + x + k]
    BY <1>1, <2>2
  <2> QED BY <2>1, <2>3 DEF DigitAt
<1> QED BY <1>1, <1>2, <1>3

\* ... of the same number.
LEMMA ValueMoved ==
    ASSUME NEW b, NEW lo, NEW c, NEW e, NEW n, SameBytes(b, lo, c, e, n),
           NEW x \in Nat, NEW y \in Nat, y <= n, NEW v, ValueAt(b, lo + x, lo + y, v)
    PROVE  ValueAt(c, e + x, e + y, v)
<1>1. \A k \in 1 .. 10 : DigitAt(c, e + x, e + y, k) = DigitAt(b, lo + x, lo + y, k)
  BY DigitMoved
<1>2. \A k \in 5 .. 10 : k \in 1 .. 10
  OBVIOUS
<1> QED BY <1>1, <1>2 DEF ValueAt

\* So does what follows a tag,
LEMMA PayloadMoved ==
    ASSUME NEW b, NEW lo, NEW c, NEW e, NEW n, SameBytes(b, lo, c, e, n),
           NEW x \in Nat, NEW y \in Nat, y <= n, NEW wire, PayloadAt(b, wire, lo + x, lo + y)
    PROVE  PayloadAt(c, wire, e + x, e + y)
<1>1. lo \in Nat /\ e \in Nat
  BY DEF SameBytes
<1>2. (lo + y) - (lo + x) = (e + y) - (e + x)
  BY <1>1
<1>3. CASE wire = 0 /\ (lo + y) - (lo + x) <= 10 /\ VarintAt(b, lo + x, lo + y)
  BY <1>2, <1>3, VarintMoved DEF PayloadAt
<1>4. CASE wire = 1 /\ (lo + y) - (lo + x) = 8
  BY <1>2, <1>4 DEF PayloadAt
<1>5. CASE wire = 5 /\ (lo + y) - (lo + x) = 4
  BY <1>2, <1>5 DEF PayloadAt
<1>6. CASE wire = 2 /\ \E len \in lo + x + 1 .. lo + x + 10 :
                          /\ len <= lo + y /\ VarintAt(b, lo + x, len)
                          /\ ValueAt(b, lo + x, len, (lo + y) - len)
  <2>1. PICK len \in lo + x + 1 .. lo + x + 10 :
                          /\ len <= lo + y /\ VarintAt(b, lo + x, len)
                          /\ ValueAt(b, lo + x, len, (lo + y) - len)
    BY <1>6
  <2>2. PICK z \in Nat : len = lo + z /\ z <= y /\ z \in x + 1 .. x + 10
    <3>1. len - lo \in Nat /\ len = lo + (len - lo) /\ len - lo <= y /\ len - lo \in x + 1 .. x + 10
      BY <1>1, <2>1
    <3> QED BY <3>1
  <2>3. z <= n
    BY <2>2 DEF SameBytes
  <2>4. VarintAt(c, e + x, e + z)
    BY <2>1, <2>2, <2>3, VarintMoved
  <2>5. (lo + y) - len = (e + y) - (e + z)
    BY <1>1, <2>2
  <2>6. ValueAt(c, e + x, e + z, (e + y) - (e + z))
    BY <2>1, <2>2, <2>3, <2>5, ValueMoved
  <2>7. e + z \in e + x + 1 .. e + x + 10 /\ e + z <= e + y
    BY <1>1, <2>2
  <2> QED BY <1>6, <2>4, <2>6, <2>7 DEF PayloadAt
<1> QED BY <1>3, <1>4, <1>5, <1>6 DEF PayloadAt

\* ... a field
LEMMA FieldMoved ==
    ASSUME NEW b, NEW lo, NEW c, NEW e, NEW n, SameBytes(b, lo, c, e, n),
           NEW x \in Nat, NEW y \in Nat, x < y, y <= n, FieldAt(b, lo + x, lo + y)
    PROVE  FieldAt(c, e + x, e + y)
<1>1. lo \in Nat /\ e \in Nat /\ n \in Nat
  BY DEF SameBytes
<1>2. PICK tag \in lo + x + 1 .. lo + x + 10 :
         VarintAt(b, lo + x, tag) /\ PayloadAt(b, b[lo + x + 1] % 8, tag, lo + y)
  BY DEF FieldAt
<1>3. PICK z \in Nat : tag = lo + z /\ z \in x + 1 .. x + 10
  <2>1. tag - lo \in Nat /\ tag = lo + (tag - lo) /\ tag - lo \in x + 1 .. x + 10
    BY <1>1
  <2> QED BY <2>1
<1>4. tag <= lo + y
  <2>1. PICK wire : wire = b[lo + x + 1] % 8
    OBVIOUS
  <2>2. PayloadAt(b, wire, tag, lo + y)
    BY <1>2, <2>1
  <2> QED BY <1>1, <1>3, <2>2 DEF PayloadAt, VarintAt
<1>5. z <= y /\ z <= n
  BY <1>1, <1>3, <1>4
<1>6. c[e + x + 1] = b[lo + x + 1]
  <2>1. x + 1 \in 1 .. n /\ e + x + 1 = e + (x + 1) /\ lo + x + 1 = lo + (x + 1)
    BY <1>1
  <2>2. \A k \in 1 .. n : c[e + k] = b[lo + k]
    BY DEF SameBytes
  <2> QED BY ONLY <2>1, <2>2
<1>7. VarintAt(c, e + x, e + z)
  BY <1>2, <1>3, <1>5, VarintMoved
<1>8. PayloadAt(c, c[e + x + 1] % 8, e + z, e + y)
  BY <1>2, <1>3, <1>6, PayloadMoved
<1>9. e + z \in e + x + 1 .. e + x + 10
  BY <1>1, <1>3
<1> QED BY <1>7, <1>8, <1>9 DEF FieldAt

\* ... and a run of fields.
LEMMA WellFormedMoved ==
    ASSUME NEW b, NEW lo, NEW c, NEW e, NEW n, SameBytes(b, lo, c, e, n), WellFormed(b, lo, lo + n)
    PROVE  WellFormed(c, e, e + n)
<1> DEFINE S == {k \in Nat : \A x \in 0 .. n : n - x <= k /\ WellFormed(b, lo + x, lo + n) => WellFormed(c, e + x, e + n)}
<1>0. lo \in Nat /\ e \in Nat /\ n \in Nat
  BY DEF SameBytes
<1>1. 0 \in S
  <2> SUFFICES ASSUME NEW x \in 0 .. n, n - x <= 0 PROVE WellFormed(c, e + x, e + n)
    OBVIOUS
  <2>1. e + x = e + n /\ e + n \in Nat /\ e + n \in 0 .. e + n
    BY <1>0
  <2>2. WellFormed(c, e + n, e + n)
    BY <2>1, WellFormedUnfold
  <2> QED BY <2>1, <2>2
<1>2. ASSUME NEW k \in S PROVE k + 1 \in S
  <2> SUFFICES ASSUME NEW x \in 0 .. n, n - x <= k + 1, WellFormed(b, lo + x, lo + n)
               PROVE  WellFormed(c, e + x, e + n)
    OBVIOUS
  <2>0. k \in Nat /\ \A z \in 0 .. n : n - z <= k /\ WellFormed(b, lo + z, lo + n) => WellFormed(c, e + z, e + n)
    OBVIOUS
  <2> HIDE DEF S
  <2>1. lo + x \in 0 .. lo + n /\ lo + n \in Nat /\ e + x \in 0 .. e + n /\ e + n \in Nat
    BY <1>0
  <2>2. lo + x = lo + n \/ \E j \in lo + x + 1 .. lo + n : FieldAt(b, lo + x, j) /\ WellFormed(b, j, lo + n)
    BY <2>1, WellFormedUnfold
  <2>3. CASE lo + x = lo + n
    <3>1. e + x = e + n
      BY <1>0, <2>3
    <3> QED BY <2>1, <3>1, WellFormedUnfold
  <2>4. CASE \E j \in lo + x + 1 .. lo + n : FieldAt(b, lo + x, j) /\ WellFormed(b, j, lo + n)
    <3>1. PICK j \in lo + x + 1 .. lo + n : FieldAt(b, lo + x, j) /\ WellFormed(b, j, lo + n)
      BY <2>4
    <3>2. PICK z \in 0 .. n : j = lo + z /\ x < z
      <4>1. j - lo \in 0 .. n /\ j = lo + (j - lo) /\ x < j - lo
        BY <1>0
      <4> QED BY <4>1
    <3>3. n - z <= k /\ z \in Nat /\ x \in Nat /\ z <= n
      BY <1>0, <2>0, <3>2
    <3>4. WellFormed(c, e + z, e + n)
      BY <2>0, <3>1, <3>2, <3>3
    <3>5. FieldAt(c, e + x, e + z)
      BY <3>1, <3>2, <3>3, FieldMoved
    <3>6. e + z \in e + x + 1 .. e + n
      BY <1>0, <3>2, <3>3
    <3> QED BY <2>1, <3>4, <3>5, <3>6, WellFormedUnfold
  <2> QED BY <2>2, <2>3, <2>4
<1>3. S = Nat
  <2> HIDE DEF S
  <2>1. S \in SUBSET Nat
    BY DEF S
  <2> QED BY <1>1, <1>2, <2>1, NatInd
<1>4. n \in S
  <2> HIDE DEF S
  <2> QED BY <1>0, <1>3
<1>5. 0 \in 0 .. n /\ n - 0 <= n /\ lo + 0 = lo /\ e + 0 = e
  BY <1>0
<1> QED BY <1>4, <1>5

\* Two runs of fields, one behind the other, are one.
LEMMA WellFormedJoined ==
    ASSUME NEW b, NEW hi \in Nat, NEW mid \in 0 .. hi, NEW lo \in 0 .. mid,
           WellFormed(b, lo, mid), WellFormed(b, mid, hi)
    PROVE  WellFormed(b, lo, hi)
<1> DEFINE S == {k \in Nat : \A x \in 0 .. mid : mid - x <= k /\ WellFormed(b, x, mid) => WellFormed(b, x, hi)}
<1>0. mid \in Nat /\ mid <= hi
  OBVIOUS
<1>1. 0 \in S
  <2> SUFFICES ASSUME NEW x \in 0 .. mid, mid - x <= 0 PROVE WellFormed(b, x, hi)
    OBVIOUS
  <2>1. x = mid
    OBVIOUS
  <2> QED BY <2>1
<1>2. ASSUME NEW k \in S PROVE k + 1 \in S
  <2> SUFFICES ASSUME NEW x \in 0 .. mid, mid - x <= k + 1, WellFormed(b, x, mid)
               PROVE  WellFormed(b, x, hi)
    OBVIOUS
  <2>0. k \in Nat /\ \A z \in 0 .. mid : mid - z <= k /\ WellFormed(b, z, mid) => WellFormed(b, z, hi)
    OBVIOUS
  <2> HIDE DEF S
  <2>1. x = mid \/ \E j \in x + 1 .. mid : FieldAt(b, x, j) /\ WellFormed(b, j, mid)
    BY <1>0, WellFormedUnfold
  <2>2. CASE x = mid
    BY <2>2
  <2>3. CASE \E j \in x + 1 .. mid : FieldAt(b, x, j) /\ WellFormed(b, j, mid)
    <3>1. PICK j \in x + 1 .. mid : FieldAt(b, x, j) /\ WellFormed(b, j, mid)
      BY <2>3
    <3>2. j \in 0 .. mid /\ mid - j <= k /\ j \in x + 1 .. hi /\ x \in 0 .. hi
      BY <1>0, <2>0
    <3>3. WellFormed(b, j, hi)
      BY <2>0, <3>1, <3>2
    <3> QED BY <3>1, <3>2, <3>3, WellFormedUnfold
  <2> QED BY <2>1, <2>2, <2>3
<1>3. S = Nat
  <2> HIDE DEF S
  <2>1. S \in SUBSET Nat
    BY DEF S
  <2> QED BY <1>1, <1>2, <2>1, NatInd
<1>4. mid \in S /\ mid - lo <= mid
  BY <1>0, <1>3
<1> QED BY <1>4

-----------------------------------------------------------------------------
(* Putting pieces together *)

\* Nothing is rebuilt from nothing.
LEMMA FaithfulEmpty ==
    ASSUME NEW m, NEW lo \in Nat
    PROVE  Faithful(m, lo, lo, <<>>)
<1>1. <<>> \in Seq(Nat) /\ Len(<<>>) = 0
  OBVIOUS
<1>2. WellFormed(<<>>, 0, 0)
  <2>1. 0 \in Nat /\ 0 \in 0 .. 0
    OBVIOUS
  <2> QED BY <2>1, WellFormedUnfold
<1> QED BY <1>1, <1>2 DEF Faithful

\* What is rebuilt from two neighbours is joined into what is rebuilt from both.
LEMMA FaithfulJoined ==
    ASSUME NEW m, NEW a \in Nat, NEW b \in Nat, NEW c \in Nat, NEW x, NEW y,
           Faithful(m, a, b, x), Faithful(m, b, c, y)
    PROVE  Faithful(m, a, c, x \o y)
<1>1. x \in Seq(Nat) /\ y \in Seq(Nat)
  BY DEF Faithful
<1>2. PICK z \in Seq(Nat) : z = x \o y
  BY <1>1, ConcatProperties
<1>3. PICK p \in Nat, q \in Nat : p = Len(x) /\ q = Len(y)
  BY <1>1
<1>4. Len(z) = p + q /\ \A i \in 1 .. p + q : z[i] = IF i <= p THEN x[i] ELSE y[i - p]
  <2>1. /\ Len(x \o y) = Len(x) + Len(y)
        /\ \A i \in 1 .. Len(x) + Len(y) : (x \o y)[i] = IF i <= Len(x) THEN x[i] ELSE y[i - Len(x)]
    BY <1>1, ConcatProperties
  <2> QED BY <1>2, <1>3, <2>1
<1>5. a + p <= b /\ b + q <= c
  BY <1>3 DEF Faithful
<1>6. ASSUME a + (p + q) = c, NEW i \in 1 .. p + q PROVE z[i] = m[a + i]
  <2>1. a + p = b /\ b + q = c
    BY <1>5, <1>6
  <2>2. (\A j \in 1 .. p : x[j] = m[a + j]) /\ \A j \in 1 .. q : y[j] = m[b + j]
    BY <1>3, <2>1 DEF Faithful
  <2>3. CASE i <= p
    <3>1. i \in 1 .. p
      BY <2>3
    <3> QED BY <1>4, <2>2, <2>3, <3>1
  <2>4. CASE i > p
    <3>1. i - p \in 1 .. q /\ ~(i <= p) /\ b + (i - p) = a + i
      BY <2>1, <2>4
    <3> QED BY <1>4, <2>2, <3>1
  <2> QED BY <2>3, <2>4
<1>7. WellFormed(x, 0, p) /\ WellFormed(y, 0, q)
  BY <1>3 DEF Faithful
<1>8. SameBytes(x, 0, z, 0, p) /\ SameBytes(y, 0, z, p, q)
  <2>1. \A k \in 1 .. p : z[0 + k] = x[0 + k]
    <3> TAKE k \in 1 .. p
    <3>1. k \in 1 .. p + q /\ 0 + k = k /\ k <= p
      OBVIOUS
    <3> QED BY <1>4, <3>1
  <2>2. \A k \in 1 .. q : z[p + k] = y[0 + k]
    <3> TAKE k \in 1 .. q
    <3>1. p + k \in 1 .. p + q /\ 0 + k = k /\ ~(p + k <= p) /\ (p + k) - p = k
      OBVIOUS
    <3> QED BY <1>4, <3>1
  <2>3. 0 + p <= Len(x) /\ 0 + p <= Len(z) /\ 0 + q <= Len(y) /\ p + q <= Len(z)
    BY <1>3, <1>4
  <2> QED BY <1>1, <1>2, <2>1, <2>2, <2>3 DEF SameBytes
<1>9. WellFormed(z, 0, p) /\ WellFormed(z, p, p + q)
  <2>1. 0 + p = p /\ 0 + q = q
    OBVIOUS
  <2>2. WellFormed(z, 0, 0 + p)
    BY <1>7, <1>8, <2>1, WellFormedMoved
  <2>3. WellFormed(z, p, p + q)
    BY <1>7, <1>8, <2>1, WellFormedMoved
  <2> QED BY <2>1, <2>2, <2>3
<1>10. WellFormed(z, 0, p + q)
  <2>1. p + q \in Nat /\ p \in 0 .. p + q /\ 0 \in 0 .. p
    OBVIOUS
  <2> QED BY <1>9, <2>1, WellFormedJoined
<1>11. a + (p + q) <= c
  BY <1>5
<1> QED BY <1>2, <1>4, <1>6, <1>10, <1>11 DEF Faithful

\* Bytes that are copied stand for themselves.
LEMMA FaithfulCopy ==
    ASSUME NEW m \in Seq(Nat), NEW a \in Nat, NEW b \in Nat, a <= b, b <= Len(m), WellFormed(m, a, b)
    PROVE  Faithful(m, a, b, SubSeq(m, a + 1, b)) /\ Len(SubSeq(m, a + 1, b)) = b - a
<1>1. PICK n \in Nat : n = b - a /\ b = a + n
  OBVIOUS
<1>2. \A i \in a + 1 .. b : m[i] \in Nat
  OBVIOUS
<1>3. PICK z \in Seq(Nat) : z = SubSeq(m, a + 1, b)
  <2>1. SubSeq(m, a + 1, b) \in Seq(Nat)
    BY <1>2, SubSeqProperties
  <2> QED BY <2>1
<1>4. Len(z) = n /\ \A k \in 1 .. n : z[k] = m[a + k]
  <2>1. /\ Len(SubSeq(m, a + 1, b)) = IF a + 1 <= b THEN b - (a + 1) + 1 ELSE 0
        /\ \A k \in 1 .. b - (a + 1) + 1 : SubSeq(m, a + 1, b)[k] = m[(a + 1) + k - 1]
    BY <1>2, SubSeqProperties
  <2>2. b - (a + 1) + 1 = n /\ (~(a + 1 <= b) => n = 0) /\ \A k \in 1 .. n : (a + 1) + k - 1 = a + k
    BY <1>1
  <2>3. Len(z) = n
    BY <1>3, <2>1, <2>2
  <2> QED BY <1>3, <2>1, <2>2, <2>3
<1>5. SameBytes(m, a, z, 0, n)
  <2>1. \A k \in 1 .. n : z[0 + k] = m[a + k]
    BY <1>4
  <2>2. a + n <= Len(m) /\ 0 + n <= Len(z)
    BY <1>1, <1>4
  <2> QED BY <1>3, <2>1, <2>2 DEF SameBytes
<1>6. WellFormed(z, 0, n)
  <2>1. WellFormed(m, a, a + n) /\ 0 + n = n
    BY <1>1
  <2>2. WellFormed(z, 0, 0 + n)
    BY <1>5, <2>1, WellFormedMoved
  <2> QED BY <2>1, <2>2
<1>7. a + n <= b
  BY <1>1
<1>8. Faithful(m, a, b, z)
  BY <1>4, <1>6, <1>7 DEF Faithful
<1> QED BY <1>1, <1>3, <1>4, <1>8

-----------------------------------------------------------------------------
(* A new header *)

IsBytes(m) == m \in Seq(Nat) /\ \A i \in 1 .. Len(m) : m[i] < 256

\* The h bytes of m from lo on are a varint, and v needs as many for the digits
\* that stand there.
DigitsOf(m, lo, h, v) ==
    /\ IsBytes(m) /\ VarintAt(m, lo, lo + h)
    /\ IsU64(v) /\ v[10] = 0 /\ Highest(v) = h /\ \A k \in 1 .. h : v[k] = DigitAt(m, lo, lo + h, k)

\* A varint whose digits are those of a varint of as many bytes is that varint.
LEMMA SameDigits ==
    ASSUME NEW m, NEW lo \in Nat, NEW h \in 1 .. 9, NEW v, DigitsOf(m, lo, h, v)
    PROVE  \A k \in 1 .. h : put_varint(v)[k] = m[lo + k]
<1>0. /\ m \in Seq(Nat) /\ (\A i \in 1 .. Len(m) : m[i] < 256) /\ VarintAt(m, lo, lo + h)
      /\ IsU64(v) /\ v[10] = 0 /\ Highest(v) = h /\ \A k \in 1 .. h : v[k] = DigitAt(m, lo, lo + h, k)
  BY DEF DigitsOf, IsBytes
<1> USE <1>0
<1> TAKE k \in 1 .. h
<1>1. put_varint(v)[k] = IF k < h THEN v[k] + 128 ELSE v[k]
  BY PutVarintIs
<1>2. lo + k \in 1 .. Len(m) /\ ~(lo + k > lo + h) /\ k # 10
  <2>1. lo + h <= Len(m)
    BY ONLY <1>0 DEF VarintAt
  <2> QED BY ONLY <2>1, m \in Seq(Nat), lo \in Nat, h \in 1 .. 9, k \in 1 .. h
<1>3. PICK x \in Nat : x = m[lo + k] /\ x < 256
  BY <1>2
<1>4. v[k] = x % 128
  BY <1>2, <1>3 DEF DigitAt
<1>5. CASE k < h
  <2>1. lo + k \in lo + 1 .. lo + h - 1
    BY <1>5
  <2>2. x >= 128
    BY <1>3, <2>1 DEF VarintAt
  <2>3. (x % 128) + 128 = x
    <3>1. x < 256
      BY <1>3
    <3> QED BY ONLY <3>1, <2>2, x \in Nat
  <2> QED BY <1>1, <1>3, <1>4, <1>5, <2>3
<1>6. CASE k = h
  <2>1. x < 128
    BY <1>3, <1>6 DEF VarintAt
  <2>2. x % 128 = x
    BY ONLY <2>1, x \in Nat
  <2> QED BY <1>1, <1>3, <1>4, <1>6, <2>2
<1> QED BY <1>5, <1>6

\* The digits that stand in a message.
LEMMA DigitTyped ==
    ASSUME NEW m \in Seq(Nat), NEW lo \in Nat, NEW hi \in Nat, hi <= Len(m), NEW k \in 1 .. 10
    PROVE  DigitAt(m, lo, hi, k) \in Nat /\ DigitAt(m, lo, hi, k) < 128
<1>1. CASE lo + k > hi
  BY <1>1 DEF DigitAt
<1>2. CASE ~(lo + k > hi)
  <2>1. PICK x \in Nat : x = m[lo + k]
    BY <1>2
  <2>2. DigitAt(m, lo, hi, k) = x % (IF k = 10 THEN 2 ELSE 128)
    BY <1>2, <2>1 DEF DigitAt
  <2>3. x % 2 \in Nat /\ x % 2 < 128 /\ x % 128 \in Nat /\ x % 128 < 128
    OBVIOUS
  <2> QED BY <2>2, <2>3
<1> QED BY <1>1, <1>2

\* The digits at any place of a message are those of a u64.
LEMMA DigitsTyped ==
    ASSUME NEW m \in Seq(Nat), NEW lo \in Nat, NEW hi \in Nat, hi <= Len(m)
    PROVE  IsU64(DigitsAt(m, lo, hi)) /\ \A k \in 1 .. 10 : DigitsAt(m, lo, hi)[k] = DigitAt(m, lo, hi, k)
<1>1. \A k \in 1 .. 10 : DigitAt(m, lo, hi, k) \in Nat /\ DigitAt(m, lo, hi, k) < 128
  BY DigitTyped
<1> QED BY <1>1 DEF DigitsAt, IsU64

\* The g bytes of m from lo on are a tag, d its digits, v those of the tag that
\* is written in its place.
TagRead(m, lo, g, d, v) ==
    /\ IsBytes(m) /\ lo \in Nat /\ g \in 1 .. 10 /\ VarintAt(m, lo, lo + g)
    /\ d = DigitsAt(m, lo, lo + g) /\ WireType(d) = 2 /\ v = LenTag(Field(d))

\* The tag that is written is no longer than the one that was read, and the
\* same when it is as long.
LEMMA TagKept ==
    ASSUME NEW m, NEW lo, NEW g, NEW d, NEW v, TagRead(m, lo, g, d, v)
    PROVE  /\ Highest(v) <= g
           /\ Highest(v) = g => \A k \in 1 .. g : put_varint(v)[k] = m[lo + k]
<1>0. /\ IsBytes(m) /\ lo \in Nat /\ g \in 1 .. 10
      /\ VarintAt(m, lo, lo + g) /\ d = DigitsAt(m, lo, lo + g) /\ WireType(d) = 2 /\ v = LenTag(Field(d))
  BY DEF TagRead
<1> USE <1>0
<1>1. lo + g \in Nat /\ lo + g <= Len(m) /\ m \in Seq(Nat)
  BY DEF VarintAt, IsBytes
<1>2. IsU64(d) /\ \A k \in 1 .. 10 : d[k] = DigitAt(m, lo, lo + g, k)
  BY <1>1, DigitsTyped
<1>3. IsField(Field(d)) /\ \A k \in 1 .. 5 : v[k] = d[k]
  BY <1>2, FieldIs
<1>4. IsU64(v) /\ (\A k \in 6 .. 10 : v[k] = 0) /\ Highest(v) <= 5
  BY <1>3, LenTagIs
<1>5. PICK h \in 1 .. 10 : h = Highest(v) /\ (h # 1 => v[h] # 0)
  BY HighestIs
<1>6. h <= g
  <2> SUFFICES ASSUME h > g PROVE FALSE
    OBVIOUS
  <2>1. h # 1 /\ h \in 1 .. 5 /\ lo + h > lo + g
    BY <1>4, <1>5
  <2>2. DigitAt(m, lo, lo + g, h) = 0
    BY <2>1 DEF DigitAt
  <2> QED BY <1>2, <1>3, <1>5, <2>1, <2>2
<1>7. ASSUME h = g PROVE \A k \in 1 .. h : put_varint(v)[k] = m[lo + k]
  <2>1. h \in 1 .. 9 /\ h <= 5 /\ VarintAt(m, lo, lo + h) /\ v[10] = 0
    BY <1>4, <1>5, <1>7
  <2>2. \A k \in 1 .. h : v[k] = DigitAt(m, lo, lo + h, k)
    <3> TAKE k \in 1 .. h
    <3>1. k \in 1 .. 5 /\ k \in 1 .. 10
      BY <2>1
    <3> QED BY <1>2, <1>3, <1>7, <3>1
  <2>3. DigitsOf(m, lo, h, v)
    BY <1>4, <1>5, <2>1, <2>2 DEF DigitsOf
  <2> QED BY <2>1, <2>3, SameDigits
<1> QED BY <1>5, <1>6, <1>7

\* Four digits stand for one number.
LEMMA FourDigits ==
    ASSUME NEW a \in Nat, NEW b \in Nat, NEW c \in Nat, NEW d \in Nat, a < 128, b < 128, c < 128, d < 128,
           NEW w \in Nat, NEW x \in Nat, NEW y \in Nat, NEW z \in Nat, w < 128, x < 128, y < 128, z < 128,
           a + 128 * b + 128 * 128 * c + 128 * 128 * 128 * d = w + 128 * x + 128 * 128 * y + 128 * 128 * 128 * z
    PROVE  a = w /\ b = x /\ c = y /\ d = z
  OBVIOUS

\* The four lowest digits in a message, and the value they give.
LEMMA ValueSum ==
    ASSUME NEW m \in Seq(Nat), NEW lo \in Nat, NEW hi \in Nat, hi <= Len(m),
           NEW n \in Nat, ValueAt(m, lo, hi, n)
    PROVE  LET D(k) == DigitAt(m, lo, hi, k)
           IN  /\ D(1) \in Nat /\ D(2) \in Nat /\ D(3) \in Nat /\ D(4) \in Nat
               /\ D(1) < 128 /\ D(2) < 128 /\ D(3) < 128 /\ D(4) < 128
               /\ n = D(1) + 128 * D(2) + 128 * 128 * D(3) + 128 * 128 * 128 * D(4)
<1>0. 1 \in 1 .. 10 /\ 2 \in 1 .. 10 /\ 3 \in 1 .. 10 /\ 4 \in 1 .. 10
  OBVIOUS
<1>1. DigitAt(m, lo, hi, 1) \in Nat /\ DigitAt(m, lo, hi, 1) < 128
  BY <1>0, DigitTyped
<1>2. DigitAt(m, lo, hi, 2) \in Nat /\ DigitAt(m, lo, hi, 2) < 128
  BY <1>0, DigitTyped
<1>3. DigitAt(m, lo, hi, 3) \in Nat /\ DigitAt(m, lo, hi, 3) < 128
  BY <1>0, DigitTyped
<1>4. DigitAt(m, lo, hi, 4) \in Nat /\ DigitAt(m, lo, hi, 4) < 128
  BY <1>0, DigitTyped
<1>5. n = DigitAt(m, lo, hi, 1) + 128 * DigitAt(m, lo, hi, 2)
            + 128 * 128 * DigitAt(m, lo, hi, 3) + 128 * 128 * 128 * DigitAt(m, lo, hi, 4)
  BY DEF ValueAt
<1> QED BY ONLY <1>1, <1>2, <1>3, <1>4, <1>5

\* What a length of h bytes can say.
LEMMA ValueBounds ==
    ASSUME NEW m \in Seq(Nat), NEW lo \in Nat, NEW h \in 1 .. 10, lo + h <= Len(m),
           NEW n \in Nat, ValueAt(m, lo, lo + h, n)
    PROVE  /\ n < 128 * 128 * 128 * 128
           /\ h = 1 => n < 128
           /\ h = 2 => n < 128 * 128
           /\ h = 3 => n < 128 * 128 * 128
<1>1. PICK hi \in Nat : hi = lo + h
  OBVIOUS
<1>2a. /\ DigitAt(m, lo, hi, 1) \in Nat /\ DigitAt(m, lo, hi, 2) \in Nat
       /\ DigitAt(m, lo, hi, 3) \in Nat /\ DigitAt(m, lo, hi, 4) \in Nat
       /\ DigitAt(m, lo, hi, 1) < 128 /\ DigitAt(m, lo, hi, 2) < 128
       /\ DigitAt(m, lo, hi, 3) < 128 /\ DigitAt(m, lo, hi, 4) < 128
       /\ n = DigitAt(m, lo, hi, 1) + 128 * DigitAt(m, lo, hi, 2)
                + 128 * 128 * DigitAt(m, lo, hi, 3) + 128 * 128 * 128 * DigitAt(m, lo, hi, 4)
  BY <1>1, ValueSum
<1>2b. PICK w \in Nat : w = DigitAt(m, lo, hi, 1)
  BY <1>2a
<1>2c. PICK x \in Nat : x = DigitAt(m, lo, hi, 2)
  BY <1>2a
<1>2d. PICK y \in Nat : y = DigitAt(m, lo, hi, 3)
  BY <1>2a
<1>2e. PICK z \in Nat : z = DigitAt(m, lo, hi, 4)
  BY <1>2a
<1>2. /\ w = DigitAt(m, lo, hi, 1) /\ x = DigitAt(m, lo, hi, 2)
      /\ y = DigitAt(m, lo, hi, 3) /\ z = DigitAt(m, lo, hi, 4)
      /\ w < 128 /\ x < 128 /\ y < 128 /\ z < 128
      /\ n = w + 128 * x + 128 * 128 * y + 128 * 128 * 128 * z
  BY ONLY <1>2a, <1>2b, <1>2c, <1>2d, <1>2e
<1>3. ASSUME NEW k \in 1 .. 10, k > h PROVE DigitAt(m, lo, hi, k) = 0
  <2>1. lo + k > hi
    BY <1>1, <1>3
  <2> QED BY <2>1 DEF DigitAt
<1>4. (h = 1 => x = 0) /\ (h = 1 \/ h = 2 => y = 0) /\ (h = 1 \/ h = 2 \/ h = 3 => z = 0)
  <2>1. h = 1 => DigitAt(m, lo, hi, 2) = 0
    BY <1>3
  <2>2. h = 1 \/ h = 2 => DigitAt(m, lo, hi, 3) = 0
    BY <1>3
  <2>3. h = 1 \/ h = 2 \/ h = 3 => DigitAt(m, lo, hi, 4) = 0
    BY <1>3
  <2> QED BY <1>2, <2>1, <2>2, <2>3
<1>5. w < 128 /\ x < 128 /\ y < 128 /\ z < 128 /\ n = w + 128 * x + 128 * 128 * y + 128 * 128 * 128 * z
  BY <1>2
<1> QED BY ONLY <1>4, <1>5, w \in Nat, x \in Nat, y \in Nat, z \in Nat

\* ... and the digits it says it with.
LEMMA ValueDigits ==
    ASSUME NEW m \in Seq(Nat), NEW lo \in Nat, NEW h \in 1 .. 10, lo + h <= Len(m),
           NEW n \in Nat, ValueAt(m, lo, lo + h, n)
    PROVE  \A k \in 1 .. 4 : U64(n)[k] = DigitAt(m, lo, lo + h, k)
<1>1. PICK hi \in Nat : hi = lo + h
  OBVIOUS
<1>2a. /\ DigitAt(m, lo, hi, 1) \in Nat /\ DigitAt(m, lo, hi, 2) \in Nat
       /\ DigitAt(m, lo, hi, 3) \in Nat /\ DigitAt(m, lo, hi, 4) \in Nat
       /\ DigitAt(m, lo, hi, 1) < 128 /\ DigitAt(m, lo, hi, 2) < 128
       /\ DigitAt(m, lo, hi, 3) < 128 /\ DigitAt(m, lo, hi, 4) < 128
       /\ n = DigitAt(m, lo, hi, 1) + 128 * DigitAt(m, lo, hi, 2)
                + 128 * 128 * DigitAt(m, lo, hi, 3) + 128 * 128 * 128 * DigitAt(m, lo, hi, 4)
  BY <1>1, ValueSum
<1>2b. PICK w \in Nat : w = DigitAt(m, lo, hi, 1)
  BY <1>2a
<1>2c. PICK x \in Nat : x = DigitAt(m, lo, hi, 2)
  BY <1>2a
<1>2d. PICK y \in Nat : y = DigitAt(m, lo, hi, 3)
  BY <1>2a
<1>2e. PICK z \in Nat : z = DigitAt(m, lo, hi, 4)
  BY <1>2a
<1>2. /\ w = DigitAt(m, lo, hi, 1) /\ x = DigitAt(m, lo, hi, 2)
      /\ y = DigitAt(m, lo, hi, 3) /\ z = DigitAt(m, lo, hi, 4)
      /\ w < 128 /\ x < 128 /\ y < 128 /\ z < 128
      /\ n = w + 128 * x + 128 * 128 * y + 128 * 128 * 128 * z
  BY ONLY <1>2a, <1>2b, <1>2c, <1>2d, <1>2e
<1>3. w < 128 /\ x < 128 /\ y < 128 /\ z < 128 /\ n = w + 128 * x + 128 * 128 * y + 128 * 128 * 128 * z
  BY <1>2
<1>5. n < 128 * 128 * 128 * 128
  BY ONLY <1>3, n \in Nat, w \in Nat, x \in Nat, y \in Nat, z \in Nat
<1>6. IsU64(U64(n)) /\ n = Small(U64(n))
  BY <1>5, U64Is
<1>6a. PICK u : u = U64(n)
  OBVIOUS
<1>7. \A k \in 1 .. 10 : u[k] \in Nat /\ u[k] < 128
  BY <1>6, <1>6a DEF IsU64
<1>7a. /\ u[1] \in Nat /\ u[2] \in Nat /\ u[3] \in Nat /\ u[4] \in Nat
       /\ u[1] < 128 /\ u[2] < 128 /\ u[3] < 128 /\ u[4] < 128
  BY ONLY <1>7
<1>8. PICK a \in Nat : a = u[1] /\ a < 128
  BY ONLY <1>7a
<1>9. PICK b \in Nat : b = u[2] /\ b < 128
  BY ONLY <1>7a
<1>10. PICK c \in Nat : c = u[3] /\ c < 128
  BY ONLY <1>7a
<1>11. PICK d \in Nat : d = u[4] /\ d < 128
  BY ONLY <1>7a
<1>12. n = a + 128 * b + 128 * 128 * c + 128 * 128 * 128 * d
  BY <1>6, <1>6a, <1>8, <1>9, <1>10, <1>11 DEF Small
<1>13. a < 128 /\ b < 128 /\ c < 128 /\ d < 128
  BY <1>8, <1>9, <1>10, <1>11
<1>14. a = w /\ b = x /\ c = y /\ d = z
  BY ONLY <1>3, <1>12, <1>13, FourDigits, a \in Nat, b \in Nat, c \in Nat, d \in Nat,
          w \in Nat, x \in Nat, y \in Nat, z \in Nat
<1>15. \A k \in 1 .. 4 : k = 1 \/ k = 2 \/ k = 3 \/ k = 4
  OBVIOUS
<1>16. /\ u[1] = DigitAt(m, lo, hi, 1) /\ u[2] = DigitAt(m, lo, hi, 2)
       /\ u[3] = DigitAt(m, lo, hi, 3) /\ u[4] = DigitAt(m, lo, hi, 4)
  BY ONLY <1>2, <1>8, <1>9, <1>10, <1>11, <1>14
<1> QED BY ONLY <1>1, <1>6a, <1>15, <1>16

\* The h bytes of m from lo on are the length was, of which n are left.
LengthRead(m, lo, h, was, n) ==
    /\ IsBytes(m) /\ lo \in Nat /\ h \in 1 .. 10 /\ was \in Nat /\ n \in Nat
    /\ VarintAt(m, lo, lo + h) /\ ValueAt(m, lo, lo + h, was) /\ n <= was

\* The length that is written is no longer than the one that was read, of a
\* window that has not grown, and the same when it is as long and of as much.
LEMMA LenKept ==
    ASSUME NEW m, NEW lo, NEW h, NEW was, NEW n, LengthRead(m, lo, h, was, n)
    PROVE  /\ n < 128 * 128 * 128 * 128
           /\ Highest(U64(n)) <= h
           /\ Highest(U64(n)) = h /\ n = was => \A k \in 1 .. h : put_varint(U64(n))[k] = m[lo + k]
<1>0. /\ IsBytes(m) /\ lo \in Nat /\ h \in 1 .. 10 /\ was \in Nat /\ n \in Nat
      /\ VarintAt(m, lo, lo + h) /\ ValueAt(m, lo, lo + h, was) /\ n <= was
  BY DEF LengthRead
<1> USE <1>0
<1>1. m \in Seq(Nat) /\ lo + h <= Len(m)
  BY DEF IsBytes, VarintAt
<1>2. /\ was < 128 * 128 * 128 * 128
      /\ h = 1 => was < 128
      /\ h = 2 => was < 128 * 128
      /\ h = 3 => was < 128 * 128 * 128
  BY ONLY <1>0, <1>1, ValueBounds
<1>3. /\ n < 128 * 128 * 128 * 128
      /\ h = 1 => n < 128
      /\ h = 2 => n < 128 * 128
      /\ h = 3 => n < 128 * 128 * 128
  BY <1>2
<1>4. PICK g \in 1 .. 10 : g = Highest(U64(n))
  BY HighestIs
<1>5. /\ IsU64(U64(n)) /\ U64(n)[10] = 0 /\ g <= 4
      /\ n < 128 => g = 1
      /\ n < 128 * 128 => g <= 2
      /\ n < 128 * 128 * 128 => g <= 3
  BY <1>3, <1>4, U64Is
<1>6. g <= h
  <2>1. h = 1 \/ h = 2 \/ h = 3 \/ h >= 4
    OBVIOUS
  <2> QED BY ONLY <1>3, <1>5, <2>1, g \in 1 .. 10, h \in 1 .. 10
<1>7. ASSUME g = h, n = was PROVE \A k \in 1 .. h : put_varint(U64(n))[k] = m[lo + k]
  <2>1. h \in 1 .. 9 /\ h <= 4
    BY <1>5, <1>7
  <2>2. \A k \in 1 .. 4 : U64(n)[k] = DigitAt(m, lo, lo + h, k)
    BY <1>1, <1>7, ValueDigits
  <2>3. \A k \in 1 .. h : U64(n)[k] = DigitAt(m, lo, lo + h, k)
    BY <2>1, <2>2
  <2>4. DigitsOf(m, lo, h, U64(n))
    BY <1>4, <1>5, <1>7, <2>3 DEF DigitsOf
  <2> QED BY <2>1, <2>4, SameDigits
<1> QED BY <1>3, <1>4, <1>6, <1>7

\* A header and as many bytes as it says are a field.
LEMMA HeaderField ==
    ASSUME NEW f, IsField(f), NEW y \in Seq(Nat), NEW n \in Nat, n = Len(y), n < 128 * 128 * 128 * 128
    PROVE  WellFormed(header(f, n) \o y, 0, Len(header(f, n) \o y))
<1>1. IsU64(LenTag(f)) /\ WireType(LenTag(f)) = 2 /\ LenTag(f)[10] = 0
  BY LenTagIs
<1>2. IsU64(U64(n)) /\ U64(n)[10] = 0 /\ n = Small(U64(n)) /\ IsSmall(U64(n))
  BY U64Is
<1>3. PICK g \in 1 .. 10, h \in 1 .. 10 : g = Highest(LenTag(f)) /\ h = Highest(U64(n))
  BY HighestIs
<1>4. PICK A \in Seq(Nat) :
         /\ A = put_varint(LenTag(f)) /\ Len(A) = g /\ VarintAt(A, 0, g)
         /\ A[1] = IF 1 < g THEN LenTag(f)[1] + 128 ELSE LenTag(f)[1]
  <2>1. 1 \in 1 .. g
    OBVIOUS
  <2> QED BY <1>1, <1>3, <2>1, PutVarintIs
<1>5. PICK B \in Seq(Nat) :
         /\ B = put_varint(U64(n)) /\ Len(B) = h /\ VarintAt(B, 0, h)
         /\ \A k \in 1 .. 10 : DigitAt(B, 0, h, k) = U64(n)[k]
  BY <1>2, <1>3, PutVarintIs
<1>6. PICK H \in Seq(Nat) : /\ H = A \o B /\ H = header(f, n) /\ Len(H) = g + h
                            /\ \A i \in 1 .. g + h : H[i] = IF i <= g THEN A[i] ELSE B[i - g]
  <2>1. /\ A \o B \in Seq(Nat) /\ Len(A \o B) = Len(A) + Len(B)
        /\ \A i \in 1 .. Len(A) + Len(B) : (A \o B)[i] = IF i <= Len(A) THEN A[i] ELSE B[i - Len(A)]
    BY ConcatProperties
  <2>2. header(f, n) = A \o B
    BY <1>4, <1>5 DEF header
  <2>3. Len(A \o B) = g + h /\ \A i \in 1 .. g + h : (A \o B)[i] = IF i <= g THEN A[i] ELSE B[i - g]
    BY ONLY <1>4, <1>5, <2>1
  <2> QED BY ONLY <2>1, <2>2, <2>3
<1>7. PICK z \in Seq(Nat) : /\ z = H \o y /\ Len(z) = g + h + n
                            /\ \A i \in 1 .. g + h : z[i] = H[i]
  <2>1. /\ H \o y \in Seq(Nat) /\ Len(H \o y) = Len(H) + Len(y)
        /\ \A i \in 1 .. Len(H) + Len(y) : (H \o y)[i] = IF i <= Len(H) THEN H[i] ELSE y[i - Len(H)]
    BY ConcatProperties
  <2>2. \A i \in 1 .. g + h : i \in 1 .. g + h + n /\ i <= g + h
    OBVIOUS
  <2>3. Len(H \o y) = g + h + n /\ \A i \in 1 .. g + h : (H \o y)[i] = H[i]
    BY <1>6, <2>1, <2>2
  <2> QED BY <2>1, <2>3
<1>8. SameBytes(A, 0, z, 0, g) /\ SameBytes(B, 0, z, g, h)
  <2>1. \A k \in 1 .. g : z[0 + k] = A[0 + k]
    <3> TAKE k \in 1 .. g
    <3>1. k \in 1 .. g + h /\ 0 + k = k /\ k <= g
      OBVIOUS
    <3> QED BY ONLY <1>6, <1>7, <3>1
  <2>2. \A k \in 1 .. h : z[g + k] = B[0 + k]
    <3> TAKE k \in 1 .. h
    <3>1. g + k \in 1 .. g + h /\ 0 + k = k /\ ~(g + k <= g) /\ (g + k) - g = k
      OBVIOUS
    <3> QED BY ONLY <1>6, <1>7, <3>1
  <2>3. /\ 0 + g <= Len(A) /\ 0 + g <= Len(z) /\ 0 + h <= Len(B) /\ g + h <= Len(z)
        /\ g \in Nat /\ h \in Nat
    BY <1>4, <1>5, <1>7
  <2> QED BY ONLY <2>1, <2>2, <2>3, A \in Seq(Nat), B \in Seq(Nat), z \in Seq(Nat), 0 \in Nat DEF SameBytes
<1>9. VarintAt(z, 0, g) /\ VarintAt(z, g, g + h)
  <2>1. 0 + 0 = 0 /\ 0 + g = g /\ 0 + h = h /\ g + 0 = g /\ g \in Nat /\ h \in Nat /\ g <= g /\ h <= h
    OBVIOUS
  <2>2. VarintAt(z, 0 + 0, 0 + g)
    BY <1>4, <1>8, <2>1, VarintMoved
  <2>3. VarintAt(z, g + 0, g + h)
    <3>1. VarintAt(B, 0 + 0, 0 + h) /\ SameBytes(B, 0, z, g, h)
      BY <1>5, <1>8, <2>1
    <3> QED BY ONLY <2>1, <3>1, VarintMoved, 0 \in Nat
  <2> QED BY <2>1, <2>2, <2>3
<1>10. ValueAt(z, g, g + h, n)
  <2>1. 0 + 0 = 0 /\ 0 + h = h /\ g + 0 = g /\ h \in Nat /\ h <= h
    OBVIOUS
  <2>2. ValueAt(B, 0, h, n)
    <3>1. DigitAt(B, 0, h, 1) = U64(n)[1] /\ DigitAt(B, 0, h, 2) = U64(n)[2]
          /\ DigitAt(B, 0, h, 3) = U64(n)[3] /\ DigitAt(B, 0, h, 4) = U64(n)[4]
      BY <1>5
    <3>2. \A k \in 5 .. 10 : DigitAt(B, 0, h, k) = 0
      <4> TAKE k \in 5 .. 10
      <4>1. k \in 1 .. 10
        OBVIOUS
      <4> QED BY <1>2, <1>5, <4>1 DEF IsSmall
    <3> QED BY <1>2, <3>1, <3>2 DEF ValueAt, Small
  <2>3. ValueAt(z, g + 0, g + h, n)
    <3>1. ValueAt(B, 0 + 0, 0 + h, n) /\ SameBytes(B, 0, z, g, h)
      BY <1>8, <2>1, <2>2
    <3> QED BY ONLY <2>1, <3>1, ValueMoved, 0 \in Nat
  <2> QED BY <2>1, <2>3
<1>11. z[0 + 1] % 8 = 2
  <2>1. PICK x \in Nat : x = LenTag(f)[1] /\ x % 8 = 2
    <3>1. LenTag(f)[1] \in Nat
      BY <1>1 DEF IsU64
    <3>2. LenTag(f)[1] % 8 = 2
      BY <1>1 DEF WireType
    <3> QED BY <3>1, <3>2
  <2>2. z[0 + 1] = x \/ z[0 + 1] = x + 128
    <3>1. 1 \in 1 .. g + h /\ 0 + 1 = 1 /\ 1 <= g
      OBVIOUS
    <3>2. z[1] = A[1]
      BY <1>6, <1>7, <3>1
    <3> QED BY <1>4, <2>1, <3>1, <3>2
  <2>3. (x + 128) % 8 = x % 8
    BY ONLY x \in Nat
  <2> QED BY ONLY <2>1, <2>2, <2>3
<1>12. PICK e \in Nat : e = g + h + n /\ e = Len(z)
  BY <1>7
<1>13. PayloadAt(z, 2, g, e)
  <2>1. g + h \in g + 1 .. g + 10 /\ g + h <= e /\ e - (g + h) = n
    BY <1>12
  <2> QED BY <1>9, <1>10, <2>1 DEF PayloadAt
<1>14. FieldAt(z, 0, e)
  <2>1. g \in 0 + 1 .. 0 + 10
    OBVIOUS
  <2> QED BY <1>9, <1>11, <1>13, <2>1 DEF FieldAt
<1>15. WellFormed(z, 0, e)
  <2>1. 0 \in 0 .. e /\ e \in 0 + 1 .. e /\ e \in 0 .. e
    BY <1>12
  <2>2. WellFormed(z, e, e)
    BY <2>1, WellFormedUnfold
  <2> QED BY <1>14, <2>1, <2>2, WellFormedUnfold
<1> QED BY <1>6, <1>7, <1>12, <1>15

\* A new header, and what a window has become, stand for the field.
LEMMA FaithfulHeader ==
    ASSUME NEW m, IsBytes(m), NEW a \in Nat, NEW lo \in Nat, NEW e \in Nat, lo <= e, e <= Len(m),
           NEW f, HeaderAt(m, a, lo, f, e - lo), NEW y, Faithful(m, lo, e, y), NEW n \in Nat, n = Len(y)
    PROVE  Faithful(m, a, e, header(f, n) \o y) /\ IsField(f)
<1>1. m \in Seq(Nat) /\ y \in Seq(Nat) /\ lo + n <= e /\ (lo + n = e => \A i \in 1 .. n : y[i] = m[lo + i])
  BY DEF IsBytes, Faithful
<1>2. PICK t \in a + 1 .. a + 10 :
        /\ VarintAt(m, a, t) /\ WireType(DigitsAt(m, a, t)) = 2 /\ f = Field(DigitsAt(m, a, t))
        /\ lo \in t + 1 .. t + 10 /\ VarintAt(m, t, lo) /\ ValueAt(m, t, lo, e - lo)
  BY DEF HeaderAt
<1>3. PICK g \in 1 .. 10 : t = a + g
  <2>1. t - a \in 1 .. 10 /\ t = a + (t - a)
    OBVIOUS
  <2> QED BY <2>1
<1>4. t \in Nat
  OBVIOUS
<1>5. PICK h \in 1 .. 10 : lo = t + h
  <2>1. lo - t \in 1 .. 10 /\ lo = t + (lo - t)
    BY <1>2, <1>4
  <2> QED BY <2>1
<1>6. PICK was \in Nat : was = e - lo /\ n <= was /\ (n = was => lo + n = e)
  BY <1>1
<1>7. PICK d : d = DigitsAt(m, a, a + g)
  OBVIOUS
<1>8. PICK v : v = LenTag(f) /\ v = LenTag(Field(d))
  BY <1>2, <1>3, <1>7
<1>9. IsField(f) /\ IsU64(v) /\ v[10] = 0
  <2>1. a + g \in Nat /\ a + g <= Len(m)
    BY <1>2, <1>3 DEF VarintAt
  <2>2. IsU64(d)
    BY <1>1, <1>7, <2>1, DigitsTyped
  <2>3. IsField(f)
    BY <1>2, <1>3, <1>7, <2>2, FieldIs
  <2>4. IsU64(LenTag(f)) /\ \A k \in 6 .. 10 : LenTag(f)[k] = 0
    BY <2>3, LenTagIs
  <2>5. 10 \in 6 .. 10
    OBVIOUS
  <2> QED BY <1>8, <2>3, <2>4, <2>5
<1>10. /\ Highest(v) <= g
       /\ Highest(v) = g => \A k \in 1 .. g : put_varint(v)[k] = m[a + k]
  <2>1. VarintAt(m, a, a + g) /\ WireType(d) = 2
    BY <1>2, <1>3, <1>7
  <2>2. IsBytes(m) /\ d = DigitsAt(m, a, a + g) /\ v = LenTag(Field(d))
    BY <1>7, <1>8
  <2>3. TagRead(m, a, g, d, v)
    BY <2>1, <2>2 DEF TagRead
  <2> QED BY ONLY <2>3, TagKept
<1>11. /\ n < 128 * 128 * 128 * 128
       /\ Highest(U64(n)) <= h
       /\ Highest(U64(n)) = h /\ n = was => \A k \in 1 .. h : put_varint(U64(n))[k] = m[t + k]
  <2>1. VarintAt(m, t, t + h) /\ ValueAt(m, t, t + h, was) /\ n <= was
    BY <1>2, <1>5, <1>6
  <2>2. IsBytes(m)
    OBVIOUS
  <2>3. LengthRead(m, t, h, was, n)
    BY <1>4, <2>1, <2>2 DEF LengthRead
  <2> QED BY ONLY <2>3, LenKept
<1>12. PICK p \in 1 .. 10, q \in 1 .. 10 : p = Highest(v) /\ q = Highest(U64(n))
  BY HighestIs
<1>13. PICK A \in Seq(Nat) : A = put_varint(v) /\ Len(A) = p
  BY <1>9, <1>12, PutVarintIs
<1>14. PICK B \in Seq(Nat) : B = put_varint(U64(n)) /\ Len(B) = q
  <2>1. IsU64(U64(n)) /\ U64(n)[10] = 0
    BY U64Is
  <2> QED BY <1>12, <2>1, PutVarintIs
<1>15. PICK H \in Seq(Nat) : /\ H = header(f, n) /\ Len(H) = p + q
                             /\ \A i \in 1 .. p + q : H[i] = IF i <= p THEN A[i] ELSE B[i - p]
  <2>1. /\ A \o B \in Seq(Nat) /\ Len(A \o B) = Len(A) + Len(B)
        /\ \A i \in 1 .. Len(A) + Len(B) : (A \o B)[i] = IF i <= Len(A) THEN A[i] ELSE B[i - Len(A)]
    BY ONLY A \in Seq(Nat), B \in Seq(Nat), ConcatProperties
  <2>2. header(f, n) = A \o B
    BY <1>8, <1>13, <1>14 DEF header
  <2>3. Len(A \o B) = p + q /\ \A i \in 1 .. p + q : (A \o B)[i] = IF i <= p THEN A[i] ELSE B[i - p]
    BY ONLY <1>13, <1>14, <2>1
  <2> QED BY ONLY <2>1, <2>2, <2>3
<1>16. PICK z \in Seq(Nat) : /\ z = header(f, n) \o y /\ Len(z) = p + q + n
                             /\ \A i \in 1 .. p + q + n : z[i] = IF i <= p + q THEN H[i] ELSE y[i - (p + q)]
  <2>1. /\ H \o y \in Seq(Nat) /\ Len(H \o y) = Len(H) + Len(y)
        /\ \A i \in 1 .. Len(H) + Len(y) : (H \o y)[i] = IF i <= Len(H) THEN H[i] ELSE y[i - Len(H)]
    <3>1. y \in Seq(Nat)
      BY <1>1
    <3> QED BY ONLY <3>1, H \in Seq(Nat), ConcatProperties
  <2>2. Len(H) = p + q /\ Len(y) = n
    BY <1>15, <1>1
  <2>3. /\ Len(H \o y) = p + q + n
        /\ \A i \in 1 .. p + q + n : (H \o y)[i] = IF i <= p + q THEN H[i] ELSE y[i - (p + q)]
    BY ONLY <2>1, <2>2
  <2>4. H \o y = header(f, n) \o y
    BY ONLY <1>15
  <2> QED BY ONLY <2>1, <2>3, <2>4
<1>17. p <= g /\ q <= h /\ n <= was /\ e = a + g + h + was
  BY <1>3, <1>5, <1>6, <1>10, <1>11, <1>12
<1>18. Len(z) = p + q + n /\ a + (p + q + n) <= e
  <2>1. a + (p + q + n) <= e
    BY ONLY <1>17, p \in 1 .. 10, q \in 1 .. 10, g \in 1 .. 10, h \in 1 .. 10, a \in Nat, n \in Nat, was \in Nat
  <2> QED BY <1>16, <2>1
<1>19. ASSUME a + Len(z) = e, NEW i \in 1 .. Len(z) PROVE z[i] = m[a + i]
  <2>0. a + (p + q + n) = e
    BY <1>18, <1>19
  <2>1. p = g /\ q = h /\ n = was /\ lo + n = e
    <3>1. p = g /\ q = h /\ n = was
      BY ONLY <1>17, <2>0, p \in 1 .. 10, q \in 1 .. 10, g \in 1 .. 10, h \in 1 .. 10, a \in Nat, n \in Nat, was \in Nat
    <3> QED BY <1>6, <3>1
  <2>2. /\ \A k \in 1 .. p : A[k] = m[a + k]
        /\ \A k \in 1 .. q : B[k] = m[t + k]
        /\ \A k \in 1 .. n : y[k] = m[lo + k]
    BY <1>1, <1>10, <1>11, <1>12, <1>13, <1>14, <2>1
  <2>3. i \in 1 .. p + q + n
    BY <1>16, <1>19
  <2>4. CASE i <= p
    <3>1. i \in 1 .. p /\ i \in 1 .. p + q /\ i <= p + q
      BY <2>3, <2>4
    <3>2. z[i] = A[i]
      BY ONLY <1>15, <1>16, <2>3, <2>4, <3>1
    <3> QED BY ONLY <2>2, <3>1, <3>2
  <2>5. CASE i > p /\ i <= p + q
    <3>1. i - p \in 1 .. q /\ i \in 1 .. p + q /\ ~(i <= p) /\ t + (i - p) = a + i
      BY <1>3, <2>1, <2>3, <2>5
    <3>2. z[i] = B[i - p]
      BY ONLY <1>15, <1>16, <2>3, <2>5, <3>1
    <3> QED BY ONLY <2>2, <3>1, <3>2
  <2>6. CASE i > p + q
    <3>1. i - (p + q) \in 1 .. n /\ ~(i <= p + q) /\ lo + (i - (p + q)) = a + i
      BY <1>3, <1>5, <2>1, <2>3, <2>6
    <3>2. z[i] = y[i - (p + q)]
      BY ONLY <1>16, <2>3, <3>1
    <3> QED BY ONLY <2>2, <3>1, <3>2
  <2>7. i <= p \/ (i > p /\ i <= p + q) \/ i > p + q
    BY ONLY i \in 1 .. Len(z), p \in 1 .. 10, q \in 1 .. 10
  <2> QED BY ONLY <2>4, <2>5, <2>6, <2>7
<1>20. WellFormed(z, 0, Len(z))
  BY <1>1, <1>9, <1>11, <1>16, HeaderField
<1>21. Faithful(m, a, e, z)
  BY <1>18, <1>19, <1>20 DEF Faithful
<1> QED BY <1>9, <1>16, <1>21

-----------------------------------------------------------------------------
(* The steps *)

\* The k outermost windows are left as they are, and hold in them what they held.
Outer(s, y, k) ==
    /\ k \in Nat /\ Len(s) \in Nat /\ Len(y) \in Nat /\ k < Len(s) /\ k < Len(y)
    /\ \A i \in 1 .. k : y[i] = s[i]
    /\ y[k + 1].tag_start = s[k + 1].tag_start

\* Windows that differ from the old ones from the k-th on are copied when those are.
LEMMA CopiedChanged ==
    ASSUME NEW s, NEW m, NEW y, NEW k, Outer(s, y, k), Copied(s, m),
           \A i \in k + 1 .. Len(y) : CopiedWindow(m, y[i], Until(y, i)) /\ (i > 1 => HeaderOf(m, y[i]))
    PROVE  Copied(y, m)
<1>0. /\ k \in Nat /\ Len(s) \in Nat /\ Len(y) \in Nat /\ k < Len(s) /\ k < Len(y)
      /\ \A i \in 1 .. k : y[i] = s[i]
      /\ y[k + 1].tag_start = s[k + 1].tag_start
  BY DEF Outer
<1>1. ASSUME NEW i \in 1 .. Len(y)
      PROVE  CopiedWindow(m, y[i], Until(y, i)) /\ (i > 1 => HeaderOf(m, y[i]))
  <2>1. CASE i \in k + 1 .. Len(y)
    BY <2>1
  <2>2. CASE i \notin k + 1 .. Len(y)
    <3>1. i \in 1 .. k /\ i \in 1 .. Len(s) /\ i # Len(s) /\ i # Len(y)
      BY <1>0, <2>2
    <3>2. y[i + 1].tag_start = s[i + 1].tag_start
      <4>1. i + 1 \in 1 .. k \/ i = k
        BY <1>0, <3>1
      <4> QED BY <1>0, <4>1
    <3>3. Until(y, i) = Until(s, i) /\ y[i] = s[i]
      BY <1>0, <3>1, <3>2 DEF Until
    <3> QED BY <3>1, <3>3 DEF Copied
  <2> QED BY <2>1, <2>2
<1> QED BY <1>1 DEF Copied

\* What is known of the windows, spelled out for one of them.
LEMMA WindowIs ==
    ASSUME WInv, CopiedInv, NEW i \in 1 .. Len(stack)
    PROVE  /\ stack[i] \in Windows
           /\ stack[i].lo \in Nat /\ stack[i].run \in Nat /\ stack[i].pos \in Nat /\ stack[i].end \in Nat
           /\ stack[i].tag_start \in Nat /\ stack[i].size \in Nat /\ stack[i].out \in Seq(Nat)
           /\ stack[i].lo <= stack[i].run /\ stack[i].run <= stack[i].pos /\ stack[i].pos <= stack[i].end
           /\ stack[i].end <= Len(message) /\ stack[i].size = Len(stack[i].out)
           /\ Faithful(message, stack[i].lo, stack[i].run, stack[i].out)
           /\ WellFormed(message, stack[i].run, Until(stack, i))
           /\ i > 1 => HeaderOf(message, stack[i])
<1>1. Nested(stack, message) /\ stack \in Seq(Windows) /\ Copied(stack, message)
  BY DEF WInv, StackInv, Nested, CopiedInv
<1>2. stack[i] \in Windows
  BY <1>1, ElementOfSeq
<1>3. /\ stack[i].lo \in Nat /\ stack[i].run \in Nat /\ stack[i].pos \in Nat /\ stack[i].end \in Nat
      /\ stack[i].tag_start \in Nat /\ stack[i].size \in Nat /\ stack[i].out \in Seq(Nat)
  BY <1>2 DEF Windows
<1>4. /\ stack[i].lo <= stack[i].run /\ stack[i].run <= stack[i].pos /\ stack[i].pos <= stack[i].end
      /\ stack[i].end <= Len(message)
  BY <1>1 DEF Nested
<1>5. CopiedWindow(message, stack[i], Until(stack, i)) /\ (i > 1 => HeaderOf(message, stack[i]))
  BY <1>1 DEF Copied
<1> QED BY <1>2, <1>3, <1>4, <1>5 DEF CopiedWindow

\* A window at its end: what it has become.
LEMMA RestFaithful ==
    ASSUME WInv, CopiedInv, stack # <<>>, Top.pos = Top.end
    PROVE  /\ Faithful(message, Top.lo, Top.end, Rest(Top))
           /\ Rest(Top) \in Seq(Nat) /\ RestSize(Top) \in Nat /\ RestSize(Top) = Len(Rest(Top))
<1>1. Top = stack[Len(stack)] /\ Len(stack) \in Nat \ {0} /\ Len(stack) \in 1 .. Len(stack)
  BY TopIs
<1>2. PICK w : w = Top
  OBVIOUS
<1>3. /\ w.lo \in Nat /\ w.run \in Nat /\ w.pos \in Nat /\ w.end \in Nat
      /\ w.size \in Nat /\ w.out \in Seq(Nat)
      /\ w.lo <= w.run /\ w.run <= w.pos /\ w.pos <= w.end
      /\ w.end <= Len(message) /\ w.size = Len(w.out)
      /\ Faithful(message, w.lo, w.run, w.out) /\ WellFormed(message, w.run, w.pos) /\ w.pos = w.end
  BY <1>1, <1>2, WindowIs DEF Until
<1>4. message \in Seq(Nat)
  BY DEF WInv, MessageInv
<1>5. PICK c : c = Bytes(w.run, w.end) /\ c = SubSeq(message, w.run + 1, w.end)
  BY DEF Bytes
<1>6. Faithful(message, w.run, w.end, c) /\ Len(c) = w.end - w.run
  <2>1. WellFormed(message, w.run, w.end) /\ w.run <= w.end
    BY <1>3
  <2> QED BY <1>3, <1>4, <1>5, <2>1, FaithfulCopy
<1>7. Faithful(message, w.lo, w.end, w.out \o c)
  BY <1>3, <1>6, FaithfulJoined
<1>8. c \in Seq(Nat)
  BY <1>6 DEF Faithful
<1>9. w.out \o c \in Seq(Nat) /\ Len(w.out \o c) = Len(w.out) + Len(c)
  BY <1>3, <1>8, ConcatProperties
<1>10. w.size + (w.end - w.run) \in Nat /\ w.size + (w.end - w.run) = Len(w.out \o c)
  BY <1>3, <1>6, <1>9
<1> QED BY <1>2, <1>5, <1>7, <1>9, <1>10 DEF Rest, RestSize

RInv == CopiedInv /\ RebuiltInv

\* It holds of the first state: there is no window.
LEMMA RInvInit == Init => RInv
<1> SUFFICES ASSUME Init PROVE RInv
  OBVIOUS
<1>1. Len(stack) = 0
  BY DEF Init
<1>2. CopiedInv
  BY <1>1 DEF CopiedInv, Copied
<1>3. RebuiltInv
  BY DEF Init, RebuiltInv
<1> QED BY <1>2, <1>3 DEF RInv

\* A message that is taken is one window of which nothing is copied.
LEMMA RInvSubmit ==
    ASSUME WInv, RInv, pc = "idle", NEW r \in Requests, Refuse(r) \/ Submit(r)
    PROVE  RInv'
<1>1. CASE Refuse(r)
  BY <1>1 DEF Refuse, RInv, CopiedInv, RebuiltInv
<1>2. CASE Submit(r)
  <2>1. verdict = "none" /\ verdict' = "none"
    BY <1>2 DEF Submit, WInv, PhaseInv
  <2>2. PICK w : w = Window(0, Len(Message(r)), TopField, 0)
    OBVIOUS
  <2>3. w.lo = 0 /\ w.run = 0 /\ w.pos = 0 /\ w.out = <<>> /\ w.size = 0
    BY <2>2 DEF Window
  <2>4. stack' = <<w>>
    BY <1>2, <2>2 DEF Submit
  <2>5. \A i \in 1 .. 1 : i = 1
    OBVIOUS
  <2>6. Faithful(message', 0, 0, <<>>) /\ WellFormed(message', 0, 0)
    <3>1. 0 \in Nat /\ 0 \in 0 .. 0
      OBVIOUS
    <3> QED BY <3>1, FaithfulEmpty, WellFormedUnfold
  <2>7. CopiedWindow(message', w, Until(<<w>>, 1))
    BY <2>3, <2>6 DEF CopiedWindow, Until
  <2>8. Copied(<<w>>, message')
    <3>1. Len(<<w>>) = 1 /\ <<w>>[1] = w
      OBVIOUS
    <3> QED BY <2>5, <2>7, <3>1 DEF Copied
  <2> QED BY <2>1, <2>4, <2>8 DEF RInv, CopiedInv, RebuiltInv
<1> QED BY <1>1, <1>2

\* A field that is passed over belongs to what is yet to be copied.
LEMMA RInvSkip ==
    ASSUME WInv, RInv, SkipField
    PROVE  RInv'
<1>0. pc = "walk" /\ Top.pos < Top.end /\ stack # <<>> /\ verdict = "none"
  BY DEF SkipField, WInv, PhaseInv
<1>1. PICK r : r = skip(message, AfterTag(Top), WireType(Tag(Top).v))
  OBVIOUS
<1>2. r.err = "none" /\ Tag(Top).err = "none" /\ stack' = Moved(stack, r.pos)
  BY <1>1 DEF SkipField, Moved
<1>3. r.pos \in Top.pos + 1 .. Top.end /\ FieldAt(message, Top.pos, r.pos)
  BY <1>0, <1>1, <1>2, TopField1
<1>4. PICK n \in Nat \ {0} : n = Len(stack) /\ Top = stack[n]
  BY <1>0, TopIs
<1>5. n \in 1 .. n /\ n - 1 \in Nat /\ CopiedInv
  BY <1>4 DEF RInv
<1>6. /\ Top.lo \in Nat /\ Top.run \in Nat /\ Top.pos \in Nat /\ Top.end \in Nat /\ Top.run <= Top.pos
      /\ Top.size = Len(Top.out) /\ Faithful(message, Top.lo, Top.run, Top.out)
      /\ WellFormed(message, Top.run, Top.pos) /\ (n > 1 => HeaderOf(message, Top)) /\ Top \in Windows
  BY <1>4, <1>5, WindowIs DEF Until
<1>7. PICK x \in Nat : x = r.pos /\ Top.pos < x /\ x <= Top.end
  BY <1>3, <1>6
<1>8. WellFormed(message, Top.run, x)
  <2>1. Top.pos \in 0 .. x /\ x \in Top.pos + 1 .. x /\ x \in 0 .. x /\ Top.run \in 0 .. Top.pos
    BY <1>6, <1>7
  <2>2. WellFormed(message, x, x)
    BY <2>1, WellFormedUnfold
  <2>3. WellFormed(message, Top.pos, x)
    BY <1>3, <1>7, <2>1, <2>2, WellFormedUnfold
  <2> QED BY <1>6, <2>1, <2>3, WellFormedJoined
<1>9. PICK y : y = Moved(stack, x)
  OBVIOUS
<1>10. /\ Len(y) = n /\ (\A i \in 1 .. n - 1 : y[i] = stack[i])
       /\ y[n] = [Top EXCEPT !.pos = x]
  <2>1. message \in Seq(Nat) /\ Nested(stack, message)
    BY DEF WInv, MessageInv, StackInv
  <2>2. stack[Len(stack)].pos <= x /\ x <= stack[Len(stack)].end
    BY <1>4, <1>6, <1>7
  <2> QED BY <1>0, <1>4, <1>9, <2>1, <2>2, MovedNested
<1>11. /\ y[n].pos = x /\ y[n].lo = Top.lo /\ y[n].run = Top.run /\ y[n].end = Top.end /\ y[n].out = Top.out
       /\ y[n].size = Top.size /\ y[n].field = Top.field /\ y[n].tag_start = Top.tag_start
  BY <1>6, <1>10 DEF Windows
<1>12. Outer(stack, y, n - 1)
  <2>1. n - 1 + 1 = n /\ n - 1 < n
    OBVIOUS
  <2>2. y[n].tag_start = stack[n].tag_start
    BY <1>4, <1>11
  <2> QED BY ONLY <1>4, <1>5, <1>10, <2>1, <2>2, n \in Nat \ {0} DEF Outer
<1>13. \A i \in n - 1 + 1 .. Len(y) : CopiedWindow(message, y[i], Until(y, i)) /\ (i > 1 => HeaderOf(message, y[i]))
  <2>1. CopiedWindow(message, y[n], Until(y, n))
    BY <1>6, <1>8, <1>10, <1>11 DEF CopiedWindow, Until
  <2>2. n > 1 => HeaderOf(message, y[n])
    BY <1>6, <1>11 DEF HeaderOf
  <2>3. \A i \in n - 1 + 1 .. Len(y) : i = n
    BY <1>10
  <2> QED BY <2>1, <2>2, <2>3
<1>14. Copied(y, message)
  <2>1. Copied(stack, message)
    BY <1>5 DEF CopiedInv
  <2> QED BY <1>12, <1>13, <2>1, CopiedChanged
<1>15. stack' = y /\ message' = message /\ verdict' = "none"
  BY <1>0, <1>2, <1>7, <1>9 DEF SkipField
<1> QED BY <1>14, <1>15 DEF RInv, CopiedInv, RebuiltInv

\* A field that is opened is a window with its header before it and nothing copied.
LEMMA RInvEnter ==
    ASSUME WInv, RInv, EnterField
    PROVE  RInv'
<1>1. PICK t : t = Tag(Top)
  OBVIOUS
<1>2. PICK r : r = len_range(message, AfterTag(Top))
  OBVIOUS
<1>3. /\ pc = "walk" /\ stack # <<>> /\ WireType(t.v) = 2 /\ t.err = "none" /\ r.err = "none"
      /\ stack' = Append(Moved(stack, r.pos), Window(r.start, r.pos, Field(t.v), Top.pos))
      /\ r.pos \in Nat /\ r.start \in Nat /\ r.start <= r.pos /\ r.pos <= Top.end
      /\ Top.pos < t.pos /\ t.pos < r.start /\ t.pos \in Nat
      /\ VarintRead(message, Top.pos, Top.end, t) /\ LenRead(message, t.pos, Top.end, r)
  BY <1>1, <1>2, Entered
<1>4. PICK n \in Nat \ {0} : n = Len(stack) /\ Top = stack[n]
  BY <1>3, TopIs
<1>5. n \in 1 .. n /\ n - 1 \in Nat /\ CopiedInv
  BY <1>4 DEF RInv
<1>6. /\ Top.lo \in Nat /\ Top.run \in Nat /\ Top.pos \in Nat /\ Top.end \in Nat /\ Top.run <= Top.pos
      /\ Top.size = Len(Top.out) /\ Faithful(message, Top.lo, Top.run, Top.out)
      /\ WellFormed(message, Top.run, Top.pos) /\ (n > 1 => HeaderOf(message, Top)) /\ Top \in Windows
  BY <1>4, <1>5, WindowIs DEF Until
<1>7. PICK x \in Nat : x = r.pos /\ Top.pos < x /\ x <= Top.end
  BY <1>3, <1>6
<1>8. PICK z : z = Moved(stack, x)
  OBVIOUS
<1>9. /\ z \in Seq(Windows) /\ Len(z) = n /\ (\A i \in 1 .. n - 1 : z[i] = stack[i])
      /\ z[n] = [Top EXCEPT !.pos = x]
  <2>1. message \in Seq(Nat) /\ Nested(stack, message)
    BY ONLY WInv DEF WInv, MessageInv, StackInv
  <2>2. stack[Len(stack)].pos <= x /\ x <= stack[Len(stack)].end
    BY <1>4, <1>6, <1>7
  <2>3. stack # <<>> /\ n = Len(stack) /\ Top = stack[Len(stack)]
    BY <1>3, <1>4
  <2>4. /\ Nested(z, message) /\ Len(z) = Len(stack)
        /\ \A i \in 1 .. Len(stack) - 1 : z[i] = stack[i]
        /\ z[Len(stack)] = [stack[Len(stack)] EXCEPT !.pos = x]
    BY ONLY <1>8, <2>1, <2>2, <2>3, x \in Nat, MovedNested
  <2>5. z \in Seq(Windows)
    BY ONLY <2>4 DEF Nested
  <2> QED BY ONLY <2>3, <2>4, <2>5
<1>10. PICK w : w = Window(r.start, x, Field(t.v), Top.pos)
  OBVIOUS
<1>11. /\ w.lo = r.start /\ w.pos = r.start /\ w.run = r.start /\ w.end = x /\ w.out = <<>> /\ w.size = 0
       /\ w.field = Field(t.v) /\ w.tag_start = Top.pos
  BY <1>10 DEF Window
<1>12. HeaderOf(message, w)
  <2>1. t.pos \in Top.pos + 1 .. Top.pos + 10 /\ VarintAt(message, Top.pos, t.pos)
        /\ IsU64(t.v) /\ \A k \in 1 .. 10 : t.v[k] = DigitAt(message, Top.pos, t.pos, k)
    BY <1>3 DEF VarintRead, Digits10
  <2>2. t.v = DigitsAt(message, Top.pos, t.pos)
    <3>1. t.v = [k \in 1 .. 10 |-> t.v[k]]
      BY <2>1 DEF IsU64
    <3> QED BY <2>1, <3>1 DEF DigitsAt
  <2>3. r.start \in t.pos + 1 .. t.pos + 10 /\ VarintAt(message, t.pos, r.start)
        /\ ValueAt(message, t.pos, r.start, x - r.start)
    BY <1>3, <1>7 DEF LenRead
  <2> QED BY <1>3, <1>11, <2>1, <2>2, <2>3 DEF HeaderOf, HeaderAt
<1>13. PICK y : y = Append(z, w) /\ Len(y) = n + 1 /\ y[n + 1] = w /\ \A i \in 1 .. n : y[i] = z[i]
  <2>1. w \in Windows
    <3>1. IsU64(t.v)
      BY <1>3 DEF VarintRead
    <3>2. Field(t.v) \in [1 .. 5 -> Nat]
      BY <1>3, <3>1, FieldIs DEF IsField
    <3> QED BY <1>3, <1>6, <1>10, <3>2 DEF Window, Windows
  <2>2. /\ Len(Append(z, w)) = Len(z) + 1 /\ (\A i \in 1 .. Len(z) : Append(z, w)[i] = z[i])
        /\ Append(z, w)[Len(z) + 1] = w
    BY ONLY <1>9, <2>1, AppendProperties
  <2> QED BY ONLY <1>9, <2>2
<1>14. /\ y[n].lo = Top.lo /\ y[n].run = Top.run /\ y[n].end = Top.end /\ y[n].out = Top.out
       /\ y[n].size = Top.size /\ y[n].field = Top.field /\ y[n].tag_start = Top.tag_start
  <2>1. n \in 1 .. n
    BY <1>5
  <2>2. y[n] = [Top EXCEPT !.pos = x]
    BY ONLY <1>9, <1>13, <2>1
  <2>3. Top \in Windows
    BY <1>6
  <2> QED BY ONLY <2>2, <2>3 DEF Windows
<1>15. Outer(stack, y, n - 1)
  <2>1. n - 1 + 1 = n /\ \A i \in 1 .. n - 1 : i \in 1 .. n
    OBVIOUS
  <2>2. \A i \in 1 .. n - 1 : y[i] = stack[i]
    BY ONLY <1>9, <1>13, <2>1
  <2>3. /\ n - 1 \in Nat /\ Len(stack) \in Nat /\ Len(y) \in Nat /\ n - 1 < Len(stack) /\ n - 1 < Len(y)
        /\ y[n - 1 + 1].tag_start = stack[n - 1 + 1].tag_start
    BY <1>4, <1>5, <1>13, <1>14, <2>1
  <2> QED BY ONLY <2>2, <2>3 DEF Outer
<1>16. ASSUME NEW i \in n - 1 + 1 .. Len(y)
       PROVE  CopiedWindow(message, y[i], Until(y, i)) /\ (i > 1 => HeaderOf(message, y[i]))
  <2>1. i = n \/ i = n + 1
    BY <1>13
  <2>2. CASE i = n
    <3>1. Until(y, i) = Top.pos
      BY <1>11, <1>13, <2>2 DEF Until
    <3> QED BY <1>6, <1>14, <2>2, <3>1 DEF CopiedWindow, HeaderOf
  <2>3. CASE i = n + 1
    <3>1. Until(y, i) = r.start /\ y[i] = w
      BY <1>11, <1>13, <2>3 DEF Until
    <3>2. Faithful(message, r.start, r.start, <<>>)
      BY <1>3, FaithfulEmpty
    <3>3. WellFormed(message, r.start, r.start)
      <4>1. r.start \in 0 .. r.start
        BY <1>3
      <4> QED BY <1>3, <4>1, WellFormedUnfold
    <3>4. CopiedWindow(message, w, r.start)
      BY <1>11, <3>2, <3>3 DEF CopiedWindow
    <3> QED BY <1>12, <3>1, <3>4
  <2> QED BY <2>1, <2>2, <2>3
<1>17. Copied(y, message)
  <2>1. Copied(stack, message)
    BY <1>5 DEF CopiedInv
  <2> QED BY <1>15, <1>16, <2>1, CopiedChanged
<1>18. stack' = y /\ message' = message /\ verdict' = verdict /\ verdict = "none"
  BY <1>3, <1>7, <1>8, <1>10, <1>13 DEF EnterField, WInv, PhaseInv
<1> QED BY <1>17, <1>18 DEF RInv, CopiedInv, RebuiltInv

\* A window that is closed is copied, with a header for its size, into the one around it.
LEMMA RInvLeave ==
    ASSUME WInv, RInv, LeaveField
    PROVE  RInv'
<1>1. PICK n \in Nat : n = Len(stack)
  BY Left
<1>2. PICK up \in Windows : n > 1 /\ up = stack[n - 1]
  BY <1>1, Left
<1>3. PICK u \in Windows :
        /\ pc = "walk" /\ Top = stack[n]
        /\ stack' = Append(SubSeq(stack, 1, n - 2), u)
        /\ u.lo = up.lo /\ u.end = up.end /\ u.pos = up.pos /\ u.run = up.pos
        /\ u.field = up.field /\ u.tag_start = up.tag_start
        /\ u.out = up.out \o Bytes(up.run, Top.tag_start) \o header(Top.field, RestSize(Top)) \o Rest(Top)
        /\ u.size = up.size + (Top.tag_start - up.run) + header_len(Top.field, RestSize(Top)) + RestSize(Top)
        /\ Top.pos = Top.end /\ Top.end = up.pos /\ up.run <= Top.tag_start /\ Top.tag_start < Top.lo
  BY <1>1, <1>2, Left
<1>4. /\ n \in 1 .. n /\ n - 1 \in 1 .. n /\ n - 1 # n /\ n - 1 + 1 = n /\ n - 2 \in Nat /\ n - 2 < n /\ n - 2 + 1 = n - 1
      /\ CopiedInv /\ stack # <<>>
  <2>1. stack # <<>>
    BY <1>3 DEF WInv, PhaseInv
  <2> QED BY <1>2, <2>1 DEF RInv
<1>5. PICK top : top = Top
  OBVIOUS
<1>6. /\ top.lo \in Nat /\ top.run \in Nat /\ top.end \in Nat /\ top.tag_start \in Nat /\ top.lo <= top.end
      /\ top.end <= Len(message) /\ HeaderAt(message, top.tag_start, top.lo, top.field, top.end - top.lo)
  <2>1. /\ top.lo \in Nat /\ top.run \in Nat /\ top.pos \in Nat /\ top.end \in Nat /\ top.tag_start \in Nat
        /\ top.lo <= top.run /\ top.run <= top.pos /\ top.pos <= top.end
        /\ top.end <= Len(message) /\ HeaderOf(message, top)
    BY <1>1, <1>2, <1>3, <1>4, <1>5, WindowIs
  <2> QED BY <2>1 DEF HeaderOf
<1>7. /\ up.lo \in Nat /\ up.run \in Nat /\ up.pos \in Nat /\ up.size \in Nat /\ up.out \in Seq(Nat)
      /\ up.size = Len(up.out) /\ Faithful(message, up.lo, up.run, up.out)
      /\ WellFormed(message, up.run, top.tag_start) /\ (n - 1 > 1 => HeaderOf(message, up))
  <2>1. Until(stack, n - 1) = top.tag_start
    BY <1>1, <1>3, <1>4, <1>5 DEF Until
  <2> QED BY <1>1, <1>2, <1>4, <2>1, WindowIs
<1>8. PICK rest \in Seq(Nat), k \in Nat :
        rest = Rest(Top) /\ k = RestSize(Top) /\ k = Len(rest) /\ Faithful(message, top.lo, top.end, rest)
  BY <1>3, <1>4, <1>5, RestFaithful
<1>9. IsBytes(message) /\ message \in Seq(Nat)
  BY ONLY WInv DEF WInv, MessageInv, IsBytes
<1>10. PICK h : h = header(top.field, k)
  OBVIOUS
<1>11. Faithful(message, top.tag_start, top.end, h \o rest) /\ IsField(top.field)
  BY <1>6, <1>8, <1>9, <1>10, FaithfulHeader
<1>12. h \in Seq(Nat) /\ Len(h) = header_len(top.field, k) /\ Len(h) \in Nat
  BY <1>8, <1>10, <1>11, HeaderIs
<1>13. PICK c : c = Bytes(up.run, top.tag_start) /\ c = SubSeq(message, up.run + 1, top.tag_start)
  BY DEF Bytes
<1>14. up.run <= top.tag_start /\ top.tag_start <= Len(message)
  BY <1>3, <1>5, <1>6
<1>15. Faithful(message, up.run, top.tag_start, c) /\ Len(c) = top.tag_start - up.run
  <2>1. message \in Seq(Nat) /\ up.run \in Nat /\ top.tag_start \in Nat /\ WellFormed(message, up.run, top.tag_start)
    BY <1>6, <1>7, <1>9
  <2> QED BY ONLY <1>13, <1>14, <2>1, FaithfulCopy
<1>16. c \in Seq(Nat)
  BY <1>15 DEF Faithful
<1>17. Faithful(message, up.lo, top.tag_start, up.out \o c)
  BY <1>6, <1>7, <1>15, FaithfulJoined
<1>18. Faithful(message, up.lo, top.end, (up.out \o c) \o (h \o rest))
  BY <1>6, <1>7, <1>11, <1>17, FaithfulJoined
<1>19. up.out \o c \in Seq(Nat) /\ Len(up.out \o c) = Len(up.out) + Len(c)
  BY <1>7, <1>16, ConcatProperties
<1>20. (up.out \o c) \o (h \o rest) = ((up.out \o c) \o h) \o rest
  <2>1. PICK x \in Seq(Nat) : x = up.out \o c
    BY <1>19
  <2>2. (x \o h) \o rest = x \o (h \o rest)
    <3>1. h \in Seq(Nat)
      BY <1>12
    <3> QED BY ONLY <3>1, x \in Seq(Nat), rest \in Seq(Nat)
  <2> QED BY <2>1, <2>2
<1>21. u.out = ((up.out \o c) \o h) \o rest
  BY <1>3, <1>5, <1>8, <1>10, <1>13
<1>22. Faithful(message, u.lo, u.run, u.out)
  BY <1>3, <1>5, <1>18, <1>20, <1>21
<1>23. u.size = Len(u.out)
  <2>1. (up.out \o c) \o h \in Seq(Nat) /\ Len((up.out \o c) \o h) = Len(up.out \o c) + Len(h)
    BY <1>12, <1>19, ConcatProperties
  <2>2. Len(((up.out \o c) \o h) \o rest) = Len((up.out \o c) \o h) + Len(rest)
    BY <1>8, <2>1, ConcatProperties
  <2>3. u.size = up.size + (top.tag_start - up.run) + Len(h) + k
    BY <1>3, <1>5, <1>8, <1>12
  <2>4. PICK a \in Nat, b \in Nat, d \in Nat : a = Len(up.out) /\ b = Len(c) /\ d = Len(h)
    BY <1>7, <1>12, <1>16
  <2>5. u.size = a + b + d + k /\ Len(u.out) = a + b + d + k
    BY <1>7, <1>8, <1>15, <1>19, <1>21, <2>1, <2>2, <2>3, <2>4
  <2> QED BY <2>5
<1>24. PICK y : /\ y = Append(SubSeq(stack, 1, n - 2), u) /\ Len(y) = n - 1 /\ y[n - 1] = u
                /\ \A i \in 1 .. n - 2 : y[i] = stack[i]
  <2>1. PICK y : y = Append(SubSeq(stack, 1, n - 2), u)
    OBVIOUS
  <2>2. message \in Seq(Nat) /\ Nested(stack, message) /\ Walked(stack, message)
    BY DEF WInv, MessageInv, StackInv
  <2>3. SameWindow(u, stack[n - 1]) /\ u.run = u.pos
    BY <1>2, <1>3 DEF SameWindow
  <2>4. Popped(stack, message, n, u, y)
    BY <1>1, <1>2, <2>1, <2>2, <2>3 DEF Popped
  <2>5. Len(y) = n - 1 /\ y[n - 1] = u /\ \A i \in 1 .. n - 2 : y[i] = stack[i]
    BY ONLY <2>4, PopNested
  <2> QED BY <2>1, <2>5
<1>25. Outer(stack, y, n - 2)
  <2>1. y[n - 2 + 1].tag_start = stack[n - 2 + 1].tag_start
    BY <1>2, <1>3, <1>4, <1>24
  <2>2. n - 2 < n - 1 /\ n - 1 \in Nat
    BY <1>4
  <2> QED BY ONLY <1>1, <1>4, <1>24, <2>1, <2>2, n \in Nat DEF Outer
<1>26. ASSUME NEW i \in n - 2 + 1 .. Len(y)
       PROVE  CopiedWindow(message, y[i], Until(y, i)) /\ (i > 1 => HeaderOf(message, y[i]))
  <2>1. i = n - 1 /\ y[i] = u
    BY <1>4, <1>24
  <2>2. Until(y, i) = u.pos
    BY <1>24, <2>1 DEF Until
  <2>3. WellFormed(message, u.run, u.pos)
    <3>1. u.run = u.pos /\ u.pos \in Nat /\ u.pos \in 0 .. u.pos
      BY <1>3, <1>7
    <3> QED BY <3>1, WellFormedUnfold
  <2>4. CopiedWindow(message, u, u.pos)
    BY <1>22, <1>23, <2>3 DEF CopiedWindow
  <2>5. i > 1 => HeaderOf(message, u)
    BY <1>3, <1>7, <2>1 DEF HeaderOf
  <2> QED BY <2>1, <2>2, <2>4, <2>5
<1>27. Copied(y, message)
  <2>1. Copied(stack, message)
    BY <1>4 DEF CopiedInv
  <2> QED BY <1>25, <1>26, <2>1, CopiedChanged
<1>28. stack' = y /\ message' = message /\ verdict' = verdict /\ verdict = "none"
  BY <1>3, <1>24 DEF LeaveField, WInv, PhaseInv
<1> QED BY <1>27, <1>28 DEF RInv, CopiedInv, RebuiltInv

\* The last window is the rebuilt message.
LEMMA RInvFinish ==
    ASSUME WInv, RInv, Finish
    PROVE  RInv'
<1>0. pc = "walk" /\ Len(stack) = 1 /\ Top.pos >= Top.end /\ stack # <<>> /\ CopiedInv
  BY DEF Finish, WInv, PhaseInv, RInv
<1>1. /\ Top = stack[1] /\ Top.pos \in Nat /\ Top.end \in Nat /\ Top.pos <= Top.end
  BY <1>0, TopIs
<1>2. Top.lo = 0 /\ Top.end = Len(message)
  BY <1>0, <1>1 DEF WInv, StackInv, Nested
<1>3. Top.pos = Top.end
  BY <1>0, <1>1
<1>4. Faithful(message, 0, Len(message), Rest(Top))
  BY <1>0, <1>2, <1>3, RestFaithful
<1>5. CopiedInv'
  BY <1>0 DEF Finish, CopiedInv
<1>6. RebuiltInv'
  BY <1>4 DEF Finish, RebuiltInv
<1> QED BY <1>5, <1>6 DEF RInv

\* Every step keeps it.
LEMMA RInvStep == WInv /\ RInv /\ [Next]_vars => RInv'
<1> SUFFICES ASSUME WInv, RInv, [Next]_vars PROVE RInv'
  OBVIOUS
<1>1. CASE pc = "idle" /\ \E r \in Requests : Refuse(r) \/ Submit(r)
  BY <1>1, RInvSubmit
<1>2. CASE SkipField
  BY <1>2, RInvSkip
<1>3. CASE EnterField
  BY <1>3, RInvEnter
<1>4. CASE WalkFails
  <2>1. PICK e : Fail(e)
    BY <1>4 DEF WalkFails
  <2> QED BY <2>1 DEF Fail, RInv, CopiedInv, RebuiltInv
<1>5. CASE LeaveField
  BY <1>5, RInvLeave
<1>6. CASE Finish
  BY <1>6, RInvFinish
<1>7. CASE Respond
  BY <1>7 DEF Respond, RInv, CopiedInv, RebuiltInv
<1>8. CASE UNCHANGED vars
  BY <1>8 DEF vars, RInv, CopiedInv, RebuiltInv
<1> QED BY <1>1, <1>2, <1>3, <1>4, <1>5, <1>6, <1>7, <1>8 DEF Next

\* What is put together again is the message, whatever was looked into: a run
\* of fields under headers that say how long they are, never longer than it
\* was, and the same bytes when no header was longer than it had to be
\* (archiv-export, segs_encoded_len and push_header).
THEOREM RebuiltFaithfully == Spec => []RebuildFaithful
<1>1. RInv /\ WInv => RebuildFaithful
  <2> SUFFICES ASSUME RInv, WInv, verdict \in {"Accepted", "ForwardFailed"}
               PROVE  /\ WellFormed(rebuilt, 0, Len(rebuilt))
                      /\ Len(rebuilt) <= Len(message)
                      /\ Len(rebuilt) = Len(message) => rebuilt = message
    BY DEF RebuildFaithful
  <2>1. Faithful(message, 0, Len(message), rebuilt)
    BY DEF RInv, RebuiltInv
  <2>2. message \in Seq(Nat) /\ rebuilt \in Seq(Nat)
    BY <2>1 DEF WInv, MessageInv, Faithful
  <2>3. Len(rebuilt) <= Len(message) /\ WellFormed(rebuilt, 0, Len(rebuilt))
    BY <2>1, <2>2 DEF Faithful
  <2>4. ASSUME Len(rebuilt) = Len(message) PROVE rebuilt = message
    <3>1. \A i \in 1 .. Len(rebuilt) : rebuilt[i] = message[0 + i] /\ 0 + i = i
      BY <2>1, <2>2, <2>4 DEF Faithful
    <3> QED BY <2>2, <2>4, <3>1, SeqEqual
  <2> QED BY <2>3, <2>4
<1>2. Init => RInv
  BY RInvInit
<1>3. WInv /\ RInv /\ [Next]_vars => RInv'
  BY RInvStep
<1>4. Spec => []WInv
  BY WireInvariant
<1> QED BY <1>1, <1>2, <1>3, <1>4, PTL DEF Spec
=============================================================================
