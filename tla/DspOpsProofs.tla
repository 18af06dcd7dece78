---------------------------- MODULE DspOpsProofs ----------------------------
(***************************************************************************)
(* Proofs about DspImage and DspOps, for every image, every list of        *)
(* images and every word size: what an accepted plane, crop, mask and mesh *)
(* guarantee, how the buffers of a command are laid out, and from that the *)
(* properties of the commands the library sends.                           *)
(*                                                                         *)
(* The library keeps nothing between calls, so the invariant is short:     *)
(* a command is the request that the accepted arguments of the call under  *)
(* way make (SentOK).  The work is in what such a request is: SentShaped   *)
(* says which images it holds, Layout and CommandLayout where their        *)
(* buffers are, and the theorems use these alone.                          *)
(***************************************************************************)
EXTENDS DspOps, FiniteSetTheorems, WellFoundedInduction, TLAPS

-----------------------------------------------------------------------------
(* Arithmetic.                                                             *)

LEMMA SmallMod ==
  ASSUME NEW K \in Nat \ {0}, NEW n \in Nat, n < K
  PROVE  n % K = n
  OBVIOUS

LEMMA ModRange ==
  ASSUME NEW K \in Nat \ {0}, NEW n \in Nat
  PROVE  n % K \in 0..(K - 1)
  OBVIOUS

\* A byte l of line y is inside h lines of s bytes.
LEMMA LineInside ==
  ASSUME NEW y \in Nat, NEW h \in Nat, NEW s \in Nat, NEW l \in Nat, y < h, l < s
  PROVE  y * s + l < h * s
<1>1. (y + 1) * s <= h * s
  OBVIOUS
<1>2. (y + 1) * s = y * s + s
  OBVIOUS
<1> QED
  BY <1>1, <1>2

-----------------------------------------------------------------------------
(* Induction.  The provers cannot apply a theorem to a predicate, but they *)
(* can apply one to a set, and a set of numbers has a least element.       *)

NatLess == OpToRel(<, Nat)

LEMMA NatLessIs == NatLess = {ss \in Nat \X Nat : ss[1] < ss[2]}
BY DEF NatLess, OpToRel

LEMMA NatLessWellFounded == IsWellFoundedOn(NatLess, Nat)
BY NatLessThanWellFounded, Zenon DEF NatLess

LEMMA Least ==
  ASSUME NEW T \in SUBSET Nat, T # {}
  PROVE  \E x \in T : \A y \in T : x <= y
<1>1. PICK x \in T : \A y \in T : <<y, x>> \notin NatLess
  BY NatLessWellFounded, WFMin, Zenon
<1>2. ASSUME NEW y \in T PROVE x <= y
  <2>1. <<y, x>> \notin {ss \in Nat \X Nat : ss[1] < ss[2]}
    BY <1>1, NatLessIs
  <2>2. x \in Nat /\ y \in Nat
    OBVIOUS
  <2> QED
    BY <2>1, <2>2
<1> QED
  BY <1>2

LEMMA InductiveSet ==
  ASSUME NEW T \in SUBSET Nat, 0 \in T, \A n \in T : n + 1 \in T
  PROVE  T = Nat
<1> SUFFICES ASSUME Nat \ T # {} PROVE FALSE
  OBVIOUS
<1>1. PICK x \in Nat \ T : \A y \in Nat \ T : x <= y
  <2>1. Nat \ T \in SUBSET Nat
    OBVIOUS
  <2> QED
    BY <2>1, Least
<1>2. x # 0 /\ x - 1 \in Nat
  BY <1>1
<1>3. x - 1 \in T
  BY <1>1, <1>2
<1>4. (x - 1) + 1 = x
  BY <1>1
<1> QED
  BY <1>3, <1>4, <1>1

-----------------------------------------------------------------------------
(* Floating point.  Rounding is exact below exact, and never passes a      *)
(* multiple of the distance of the numbers around.                         *)

LEMMA SpacingLeast ==
  ASSUME NEW n \in Nat, n < SizeMod, NEW exact \in Nat \ {0}
  PROVE  /\ Spacing(n, exact) \in Nat \ {0} /\ Spacing(n, exact) <= SizeMod
         /\ PowerOfTwo(Spacing(n, exact))
         /\ \A v \in 1..SizeMod : PowerOfTwo(v) /\ n < exact * v => Spacing(n, exact) <= v
<1> DEFINE T == {u \in 1..SizeMod : PowerOfTwo(u) /\ n < exact * u}
<1>1. SizeMod \in T
  <2>1. PICK m \in Nat \ {0} : m = SizeMod
    BY WordAssumption
  <2>2. 1 * m <= exact * m
    <3>1. PICK e \in Nat : exact = e + 1
      <4>1. exact - 1 \in Nat /\ exact = (exact - 1) + 1
        OBVIOUS
      <4> QED
        BY <4>1
    <3>2. (e + 1) * m = e * m + m /\ e * m \in Nat
      OBVIOUS
    <3> QED
      BY <3>1, <3>2
  <2>3. n < exact * m
    BY <2>1, <2>2
  <2> QED
    BY <2>1, <2>3, WordAssumption
<1>2. PICK u \in T : \A v \in T : u <= v
  <2>1. T \in SUBSET Nat /\ T # {}
    BY <1>1, WordAssumption
  <2> HIDE DEF T
  <2> QED
    BY <2>1, Least
<1>3. /\ u \in 1..SizeMod /\ PowerOfTwo(u) /\ n < exact * u
      /\ \A v \in 1..(u - 1) : PowerOfTwo(v) => n >= exact * v
  <2>1. ASSUME NEW v \in 1..(u - 1), PowerOfTwo(v)
        PROVE  n >= exact * v
    <3>1. v \in 1..SizeMod /\ ~(u <= v)
      BY <1>2, WordAssumption
    <3>2. v \notin T
      BY <1>2, <3>1
    <3>3. exact * v \in Nat
      OBVIOUS
    <3> QED
      BY <2>1, <3>1, <3>2, <3>3
  <2> QED
    BY <1>2, <2>1
<1>4. PICK w : w = Spacing(n, exact)
  OBVIOUS
<1>5. /\ w \in 1..SizeMod /\ PowerOfTwo(w) /\ n < exact * w
      /\ \A v \in 1..(w - 1) : PowerOfTwo(v) => n >= exact * v
  <2>1. CASE n < exact
    <3>1. w = 1
      BY <1>4, <2>1 DEF Spacing
    <3>2. 1 \in 1..SizeMod /\ PowerOfTwo(1)
      BY WordAssumption DEF PowerOfTwo
    <3> QED
      BY <2>1, <3>1, <3>2
  <2>2. CASE ~(n < exact)
    BY <1>3, <1>4, <2>2 DEF Spacing
  <2> QED
    BY <2>1, <2>2
<1>6. ASSUME NEW v \in 1..SizeMod, PowerOfTwo(v), n < exact * v
      PROVE  w <= v
  <2>1. v \notin 1..(w - 1)
    <3>1. exact * v \in Nat
      OBVIOUS
    <3> QED
      BY <1>5, <1>6, <3>1
  <2> QED
    BY <1>5, <2>1, WordAssumption
<1> QED
  BY <1>4, <1>5, <1>6, WordAssumption

LEMMA RoundedNear ==
  ASSUME NEW n \in Nat, n < SizeMod, NEW exact \in Nat \ {0},
         NEW u \in Nat \ {0}, u = Spacing(n, exact)
  PROVE  \E q \in Nat : /\ RoundedTo(n, exact) = u * q
                        /\ u * q < n + u
                        /\ n % u = 0 => u * q = n
<1>1. PICK d \in Nat, r \in Nat : d = n \div u /\ r = n % u /\ r < u
  OBVIOUS
<1>2. n = u * d + r /\ u * d \in Nat
  BY <1>1
<1>3. RoundedTo(n, exact) = u * (IF 2 * r < u \/ (2 * r = u /\ d % 2 = 0) THEN d ELSE d + 1)
  BY <1>1 DEF RoundedTo
<1>4. CASE 2 * r < u \/ (2 * r = u /\ d % 2 = 0)
  <2>1. RoundedTo(n, exact) = u * d
    BY <1>3, <1>4
  <2>2. PICK p \in Nat : p = u * d
    BY <1>2
  <2>3. p < n + u /\ (r = 0 => p = n)
    BY <1>2, <2>2
  <2> QED
    BY <1>1, <2>1, <2>2, <2>3
<1>5. CASE ~(2 * r < u \/ (2 * r = u /\ d % 2 = 0))
  <2>1. RoundedTo(n, exact) = u * (d + 1)
    BY <1>3, <1>5
  <2>2. r # 0
    BY <1>5
  <2>3. u * (d + 1) = u * d + u
    OBVIOUS
  <2>4. u * (d + 1) < n + u
    BY <1>1, <1>2, <2>2, <2>3
  <2>5. d + 1 \in Nat /\ n % u # 0
    BY <1>1, <2>2
  <2> QED
    BY <2>1, <2>4, <2>5
<1> QED
  BY <1>4, <1>5

LEMMA RoundedNat ==
  ASSUME NEW n \in Nat, n < SizeMod, NEW exact \in Nat \ {0}
  PROVE  RoundedTo(n, exact) \in Nat
<1>1. PICK u \in Nat \ {0} : u = Spacing(n, exact)
  BY SpacingLeast
<1>2. PICK q \in Nat : RoundedTo(n, exact) = u * q
  BY <1>1, RoundedNear
<1>3. u * q \in Nat
  OBVIOUS
<1> QED
  BY <1>2, <1>3

LEMMA RoundedSmall ==
  ASSUME NEW n \in Nat, n < SizeMod, NEW exact \in Nat \ {0}, n < exact
  PROVE  RoundedTo(n, exact) = n
<1>1. PowerOfTwo(1) /\ 1 \in 1..SizeMod
  BY WordAssumption DEF PowerOfTwo
<1>2. PICK u \in Nat \ {0} : u = Spacing(n, exact)
  BY SpacingLeast
<1>3. u <= 1
  BY <1>1, <1>2, SpacingLeast
<1>4. u = 1 /\ n % 1 = 0
  BY <1>3
<1>5. PICK q \in Nat : RoundedTo(n, exact) = u * q /\ (n % u = 0 => u * q = n)
  BY <1>2, RoundedNear
<1> QED
  BY <1>4, <1>5

\* A multiple of the spacing that is not below n is not below n rounded.
LEMMA RoundedWithin ==
  ASSUME NEW n \in Nat, n < SizeMod, NEW exact \in Nat \ {0},
         NEW c \in Nat, n <= Spacing(n, exact) * c
  PROVE  RoundedTo(n, exact) <= Spacing(n, exact) * c
<1>1. PICK u \in Nat \ {0} : u = Spacing(n, exact)
  BY SpacingLeast
<1>2. PICK q \in Nat : RoundedTo(n, exact) = u * q /\ u * q < n + u
  BY <1>1, RoundedNear
<1>3. CASE q <= c
  <2>1. PICK e \in Nat : c = q + e
    <3>1. c - q \in Nat /\ c = q + (c - q)
      BY <1>3
    <3> QED
      BY <3>1
  <2>2. u * (q + e) = u * q + u * e /\ u * e \in Nat /\ u * q \in Nat
    OBVIOUS
  <2> QED
    BY <1>1, <1>2, <2>1, <2>2
<1>4. CASE c < q
  <2>1. PICK e \in Nat : q = c + 1 + e
    <3>1. q - (c + 1) \in Nat /\ q = c + 1 + (q - (c + 1))
      BY <1>4
    <3> QED
      BY <3>1
  <2>2. u * (c + 1 + e) = u * c + u + u * e /\ u * e \in Nat /\ u * c \in Nat
    OBVIOUS
  <2> QED
    BY <1>1, <1>2, <2>1, <2>2
<1> QED
  BY <1>3, <1>4

LEMMA Halved ==
  ASSUME NEW u \in Nat, u > 1, PowerOfTwo(u)
  PROVE  \E v \in Nat \ {0} : u = 2 * v /\ PowerOfTwo(v)
<1>1. u % u = 0 /\ u \in 2..u
  OBVIOUS
<1>2. u % 2 = 0
  BY <1>1 DEF PowerOfTwo
<1>3. PICK v \in Nat \ {0} : u = 2 * v
  <2>1. u \div 2 \in Nat \ {0} /\ u = 2 * (u \div 2)
    BY <1>2
  <2> QED
    BY <2>1
<1>4. ASSUME NEW d \in 2..v, v % d = 0 PROVE d % 2 = 0
  <2>1. PICK e \in Nat : v = d * e
    <3>1. v \div d \in Nat /\ v = d * (v \div d)
      BY <1>4
    <3> QED
      BY <3>1
  <2>2. u = d * (2 * e)
    BY <1>3, <2>1
  <2>3. (d * (2 * e)) % d = 0
    <3>1. PICK k \in Nat, f \in Nat \ {0} : k = 2 * e /\ f = d
      OBVIOUS
    <3>2. (f * k) % f = 0
      OBVIOUS
    <3> QED
      BY <3>1, <3>2
  <2>4. d \in 2..u
    BY <1>3
  <2> QED
    BY <2>2, <2>3, <2>4 DEF PowerOfTwo
<1> QED
  BY <1>3, <1>4 DEF PowerOfTwo

LEMMA PowersTo256 ==
  ASSUME NEW u \in Nat \ {0}, PowerOfTwo(u), u <= 256
  PROVE  u \in {1, 2, 4, 8, 16, 32, 64, 128, 256}
<1> DEFINE P(K, S) == \A w \in Nat \ {0} : PowerOfTwo(w) /\ w <= K => w \in S
<1>1. P(1, {1})
  OBVIOUS
<1>2. P(2, {1, 2})
  BY <1>1, Halved
<1>3. P(4, {1, 2, 4})
  BY <1>2, Halved
<1>4. P(8, {1, 2, 4, 8})
  BY <1>3, Halved
<1>5. P(16, {1, 2, 4, 8, 16})
  BY <1>4, Halved
<1>6. P(32, {1, 2, 4, 8, 16, 32})
  BY <1>5, Halved
<1>7. P(64, {1, 2, 4, 8, 16, 32, 64})
  BY <1>6, Halved
<1>8. P(128, {1, 2, 4, 8, 16, 32, 64, 128})
  BY <1>7, Halved
<1>9. P(256, {1, 2, 4, 8, 16, 32, 64, 128, 256})
  BY <1>8, Halved
<1> QED
  BY <1>9

LEMMA DoubleExactly ==
  ASSUME NEW n \in Nat, ExactSize(n)
  PROVE  Double(n) = n
BY FloatingAssumption, RoundedSmall DEF Double, ExactSize

LEMMA WordExact ==
  ASSUME NEW n \in Nat, n < U32Mod
  PROVE  ExactSize(n) /\ Double(n) = n
<1>1. ExactSize(n)
  BY WordAssumption, FloatingAssumption DEF ExactSize
<1> QED
  BY <1>1, DoubleExactly

LEMMA DoubleNat ==
  ASSUME NEW n \in Nat, n < SizeMod
  PROVE  Double(n) \in Nat
BY FloatingAssumption, RoundedNat DEF Double

\* A limit is never above the side itself.
LEMMA FloatLimit ==
  ASSUME NEW n \in Nat, n < SizeMod
  PROVE  CeilDiv(Float(n), 4) <= n /\ CeilDiv(Float(n), 4) \in Nat
<1>1. PICK u \in Nat \ {0} : u = Spacing(n, FloatExact) /\ PowerOfTwo(u)
  BY FloatingAssumption, SpacingLeast
<1>2. PICK f \in Nat, e \in Nat \ {0} : f = Float(n) /\ e = FloatExact
  BY FloatingAssumption, RoundedNat DEF Float
<1>3. f < n + u /\ (n % u = 0 => f = n)
  BY <1>1, <1>2, RoundedNear DEF Float
<1>4. CASE u = 1
  <2>1. n % 1 = 0
    OBVIOUS
  <2>2. f = n
    BY <1>3, <1>4, <2>1
  <2> QED
    BY <1>2, <2>2 DEF CeilDiv
<1>5. CASE u > 1
  <2>1. PICK v \in Nat \ {0} : u = 2 * v /\ PowerOfTwo(v)
    BY <1>1, <1>5, Halved
  <2>2. n >= e * v
    <3>1. u <= SizeMod /\ SizeMod \in Nat
      BY <1>1, <1>2, WordAssumption, SpacingLeast
    <3>2. v \in 1..SizeMod /\ ~(u <= v)
      BY <2>1, <3>1
    <3>3. \A w \in 1..SizeMod : PowerOfTwo(w) /\ n < e * w => u <= w
      BY <1>1, <1>2, SpacingLeast
    <3>4. ~(n < e * v)
      BY <2>1, <3>2, <3>3
    <3>5. e * v \in Nat
      OBVIOUS
    <3> QED
      BY <3>4, <3>5
  <2>3. e * v >= v
    <3>1. PICK g \in Nat : e = g + 1
      <4>1. e - 1 \in Nat /\ e = (e - 1) + 1
        OBVIOUS
      <4> QED
        BY <4>1
    <3>2. (g + 1) * v = g * v + v /\ g * v \in Nat
      OBVIOUS
    <3> QED
      BY <3>1, <3>2
  <2>4. v <= n
    <3>1. e * v \in Nat
      OBVIOUS
    <3> QED
      BY <2>2, <2>3, <3>1
  <2>5. f < 3 * n /\ (f + 3) \div 4 <= n
    BY <1>3, <2>1, <2>4
  <2> QED
    BY <1>2, <2>5 DEF CeilDiv
<1> QED
  BY <1>4, <1>5

\* Below 2^26 floats are at most a block apart: the limit of a region's lines is
\* the number of lines of blocks.
LEMMA FloatLines ==
  ASSUME NEW n \in Nat, n < SizeMod, n < 4 * FloatExact
  PROVE  CeilDiv(Float(n), 4) <= CeilDiv(n, 4) /\ Float(n) \in Nat
<1>1. PICK u \in Nat \ {0} : u = Spacing(n, FloatExact) /\ PowerOfTwo(u)
  BY FloatingAssumption, SpacingLeast
<1>2. u <= 4
  <2>1. PowerOfTwo(4)
    BY DEF PowerOfTwo
  <2>2. 4 \in 1..SizeMod /\ n < FloatExact * 4
    BY WordAssumption, FloatingAssumption
  <2> QED
    BY <1>1, <2>1, <2>2, FloatingAssumption, SpacingLeast
<1>3. u \in {1, 2, 4}
  BY <1>1, <1>2, PowersTo256
<1>4. PICK k \in Nat : k = (n + 3) \div 4 /\ n <= 4 * k
  OBVIOUS
<1>5. PICK c \in Nat : u * c = 4 * k
  <2>1. 1 * (4 * k) = 4 * k /\ 2 * (2 * k) = 4 * k
    OBVIOUS
  <2>2. {4 * k, 2 * k, k} \subseteq Nat
    OBVIOUS
  <2> QED
    BY <1>3, <2>1, <2>2
<1>6. PICK f \in Nat : f = Float(n)
  BY FloatingAssumption, RoundedNat DEF Float
<1>7. f <= 4 * k
  BY <1>1, <1>4, <1>5, <1>6, FloatingAssumption, RoundedWithin DEF Float
<1>8. (f + 3) \div 4 <= k
  BY <1>7
<1> QED
  BY <1>4, <1>6, <1>8 DEF CeilDiv

\* 32 bits hold no number that is rounded past a multiple of 256, the pixels of
\* 8 bytes of a bitmask's line.
LEMMA FloatColumns ==
  ASSUME NEW n \in Nat, n < U32Mod, NEW k \in Nat, n <= 256 * k
  PROVE  Float(n) <= 256 * k /\ Float(n) \in Nat
<1>0. n < SizeMod
  BY WordAssumption
<1>1. PICK u \in Nat \ {0} : u = Spacing(n, FloatExact) /\ PowerOfTwo(u)
  BY <1>0, FloatingAssumption, SpacingLeast
<1>2. u <= 256
  <2>1. PowerOfTwo(256)
    BY DEF PowerOfTwo
  <2>2. 256 \in 1..SizeMod /\ n < FloatExact * 256
    BY WordAssumption, FloatingAssumption
  <2> QED
    BY <1>0, <1>1, <2>1, <2>2, FloatingAssumption, SpacingLeast
<1>3. u \in {1, 2, 4, 8, 16, 32, 64, 128, 256}
  BY <1>1, <1>2, PowersTo256
<1>5. PICK c \in Nat : u * c = 256 * k
  <2>1. PICK d \in Nat : u * d = 256
    <3> DEFINE halves == <<256, 128, 64, 32, 16, 8, 4, 2, 1>>
    <3>1. \E i \in 1..9 : u = halves[i] /\ halves[10 - i] \in Nat
      BY <1>3
    <3>2. \A i \in 1..9 : halves[i] * halves[10 - i] = 256
      OBVIOUS
    <3> HIDE DEF halves
    <3> QED
      BY <3>1, <3>2
  <2>2. u * (d * k) = (u * d) * k /\ d * k \in Nat
    OBVIOUS
  <2> QED
    BY <2>1, <2>2
<1>6. PICK f \in Nat : f = Float(n)
  BY <1>0, FloatingAssumption, RoundedNat DEF Float
<1>7. f <= 256 * k
  BY <1>0, <1>1, <1>5, <1>6, FloatingAssumption, RoundedWithin DEF Float
<1> QED
  BY <1>6, <1>7

-----------------------------------------------------------------------------
(* Concatenation.                                                          *)

Flat(ss, n) == CHOOSE f : f = [i \in 1..n |-> IF i = 1 THEN ss[i] ELSE f[i-1] \o ss[i]]

LEMMA FlattenIsFlat ==
  ASSUME NEW ss, Len(ss) # 0
  PROVE  FlattenSeq(ss) = Flat(ss, Len(ss))[Len(ss)]
BY DEF FlattenSeq, Flat

LEMMA FlatExists ==
  ASSUME NEW ss, NEW n \in Nat
  PROVE  \E f : f = [i \in 1..n |-> IF i = 1 THEN ss[i] ELSE f[i-1] \o ss[i]]
<1> DEFINE T == {m \in Nat : \E f : f = [i \in 1..m |-> IF i = 1 THEN ss[i] ELSE f[i-1] \o ss[i]]}
<1>1. 0 \in T
  <2>1. \A f : [i \in 1..0 |-> IF i = 1 THEN ss[i] ELSE f[i-1] \o ss[i]] = <<>>
    OBVIOUS
  <2>2. <<>> = [i \in 1..0 |-> IF i = 1 THEN ss[i] ELSE <<>>[i-1] \o ss[i]]
    OBVIOUS
  <2> QED
    BY <2>2
<1>2. ASSUME NEW m \in T PROVE m + 1 \in T
  <2>1. PICK f : f = [i \in 1..m |-> IF i = 1 THEN ss[i] ELSE f[i-1] \o ss[i]]
    OBVIOUS
  <2> DEFINE g == [i \in 1..(m + 1) |-> IF i \in 1..m THEN f[i]
                                        ELSE IF i = 1 THEN ss[i] ELSE f[i-1] \o ss[i]]
  <2>m. m \in Nat
    OBVIOUS
  <2>2. \A i \in 1..m : g[i] = f[i]
    BY <2>m
  <2>3. ASSUME NEW i \in 1..(m + 1)
        PROVE  g[i] = IF i = 1 THEN ss[i] ELSE g[i-1] \o ss[i]
    <3>1. CASE i \in 1..m
      <4>1. f[i] = IF i = 1 THEN ss[i] ELSE f[i-1] \o ss[i]
        BY <2>1, <3>1
      <4>2. i # 1 => i - 1 \in 1..m
        BY <3>1, <2>m
      <4> HIDE DEF g
      <4> QED
        BY <3>1, <4>1, <4>2, <2>2
    <3>2. CASE i \notin 1..m
      <4>1. i # 1 => i - 1 \in 1..m
        BY <3>2, <2>m
      <4>2. g[i] = IF i = 1 THEN ss[i] ELSE f[i-1] \o ss[i]
        BY <3>2
      <4> HIDE DEF g
      <4> QED
        BY <4>1, <4>2, <2>2
    <3> QED
      BY <3>1, <3>2
  <2>4. g = [i \in 1..(m + 1) |-> g[i]]
    OBVIOUS
  <2> HIDE DEF g
  <2>5. g = [i \in 1..(m + 1) |-> IF i = 1 THEN ss[i] ELSE g[i-1] \o ss[i]]
    <3> DEFINE e(i) == IF i = 1 THEN ss[i] ELSE g[i-1] \o ss[i]
    <3>1. \A i \in 1..(m + 1) : g[i] = e(i)
      BY <2>3
    <3> HIDE DEF e
    <3>2. g = [i \in 1..(m + 1) |-> e(i)]
      BY <3>1, <2>4
    <3> QED
      BY <3>2 DEF e
  <2>6. \E h : h = [i \in 1..(m + 1) |-> IF i = 1 THEN ss[i] ELSE h[i-1] \o ss[i]]
    BY <2>5, Zenon
  <2>7. m + 1 \in Nat
    BY <2>m
  <2> QED
    BY <2>6, <2>7, Zenon
<1>3. T \in SUBSET Nat
  OBVIOUS
<1>4. n \in T
  <2> HIDE DEF T
  <2> QED
    BY <1>1, <1>2, <1>3, InductiveSet
<1> QED
  BY <1>4

LEMMA FlatIs ==
  ASSUME NEW ss, NEW n \in Nat, NEW i \in 1..n
  PROVE  Flat(ss, n)[i] = IF i = 1 THEN ss[i] ELSE Flat(ss, n)[i-1] \o ss[i]
<1>1. Flat(ss, n) = [k \in 1..n |-> IF k = 1 THEN ss[k] ELSE Flat(ss, n)[k-1] \o ss[k]]
  BY FlatExists DEF Flat
<1> QED
  BY <1>1

LEMMA FlatAgrees ==
  ASSUME NEW ss, NEW tt, NEW n \in Nat, NEW m \in 1..n,
         \A i \in 1..m : ss[i] = tt[i]
  PROVE  Flat(ss, n)[m] = Flat(tt, m)[m]
<1> DEFINE T == {k \in Nat : k \in 1..m => Flat(ss, n)[k] = Flat(tt, m)[k]}
<1>1. 0 \in T
  OBVIOUS
<1>2. ASSUME NEW k \in T PROVE k + 1 \in T
  <2>k. k \in Nat
    OBVIOUS
  <2> SUFFICES ASSUME k + 1 \in 1..m PROVE Flat(ss, n)[k + 1] = Flat(tt, m)[k + 1]
    OBVIOUS
  <2>1. k + 1 \in 1..n /\ m \in Nat
    OBVIOUS
  <2>2. /\ Flat(ss, n)[k + 1] = IF k + 1 = 1 THEN ss[k + 1]
                                ELSE Flat(ss, n)[(k + 1) - 1] \o ss[k + 1]
        /\ Flat(tt, m)[k + 1] = IF k + 1 = 1 THEN tt[k + 1]
                                ELSE Flat(tt, m)[(k + 1) - 1] \o tt[k + 1]
    BY <2>1, FlatIs
  <2>3. (k + 1) - 1 = k /\ (k + 1 # 1 => k \in 1..m)
    BY <2>1, <2>k
  <2> QED
    BY <2>2, <2>3
<1>3. T \in SUBSET Nat
  OBVIOUS
<1>4. T = Nat
  <2> HIDE DEF T
  <2> QED
    BY <1>1, <1>2, <1>3, InductiveSet
<1> QED
  BY <1>4

\* The first k sequences of ss, one after the other.
Joined(ss, k) == FlattenSeq([i \in 1..k |-> ss[i]])

LEMMA JoinedNone ==
  ASSUME NEW ss
  PROVE  Joined(ss, 0) = <<>>
<1>1. [i \in 1..0 |-> ss[i]] = <<>>
  OBVIOUS
<1> QED
  BY <1>1 DEF Joined, FlattenSeq

LEMMA JoinedOneMore ==
  ASSUME NEW ss, NEW k \in Nat, NEW S, ss[k + 1] \in Seq(S)
  PROVE  Joined(ss, k + 1) = Joined(ss, k) \o ss[k + 1]
<1> DEFINE tt == [i \in 1..(k + 1) |-> ss[i]]
           uu == [i \in 1..k |-> ss[i]]
<1>1. Len(tt) = k + 1 /\ Len(uu) = k
  OBVIOUS
<1>2. tt[k + 1] = ss[k + 1] /\ \A i \in 1..k : tt[i] = uu[i]
  OBVIOUS
<1> HIDE DEF tt, uu
<1>3. Joined(ss, k + 1) = Flat(tt, k + 1)[k + 1]
  BY <1>1, FlattenIsFlat DEF Joined, tt
<1>4. Flat(tt, k + 1)[k + 1] = IF k + 1 = 1 THEN tt[k + 1]
                               ELSE Flat(tt, k + 1)[(k + 1) - 1] \o tt[k + 1]
  <2>1. k + 1 \in Nat /\ k + 1 \in 1..(k + 1)
    OBVIOUS
  <2> QED
    BY <2>1, FlatIs
<1>5. CASE k = 0
  <2>1. Joined(ss, k) = <<>>
    BY <1>5, JoinedNone
  <2>2. Joined(ss, k + 1) = ss[k + 1]
    BY <1>2, <1>3, <1>4, <1>5
  <2> QED
    BY <2>1, <2>2
<1>6. CASE k # 0
  <2>1. Joined(ss, k) = Flat(uu, k)[k]
    BY <1>1, <1>6, FlattenIsFlat DEF Joined, uu
  <2>2. k \in 1..(k + 1) /\ k + 1 \in Nat /\ (k + 1) - 1 = k /\ k + 1 # 1
    BY <1>6
  <2>3. Flat(tt, k + 1)[k] = Flat(uu, k)[k]
    BY <1>2, <2>2, FlatAgrees
  <2> QED
    BY <1>2, <1>3, <1>4, <2>1, <2>2, <2>3
<1> QED
  BY <1>5, <1>6

\* The elements of two sequences, one after the other.
LEMMA Concatenated ==
  ASSUME NEW S, NEW a \in Seq(S), NEW b \in Seq(S)
  PROVE  /\ a \o b \in Seq(S)
         /\ Len(a) \in Nat /\ Len(b) \in Nat
         /\ Len(a \o b) = Len(a) + Len(b)
         /\ \A i \in 1..Len(a) : (a \o b)[i] = a[i]
         /\ \A i \in 1..Len(b) : (a \o b)[Len(a) + i] = b[i]
  OBVIOUS

SeqsOf(ss, n, S) == \A k \in 1..n : ss[k] \in Seq(S)

LEMMA JoinedSeq ==
  ASSUME NEW ss, NEW n \in Nat, NEW S, SeqsOf(ss, n, S), NEW k \in 0..n
  PROVE  Joined(ss, k) \in Seq(S)
<1> DEFINE T == {m \in Nat : m <= n => Joined(ss, m) \in Seq(S)}
<1>1. 0 \in T
  <2>1. Joined(ss, 0) = <<>> /\ <<>> \in Seq(S)
    BY JoinedNone
  <2> QED
    BY <2>1
<1>2. ASSUME NEW m \in T PROVE m + 1 \in T
  <2>1. SUFFICES ASSUME m + 1 <= n PROVE Joined(ss, m + 1) \in Seq(S)
    OBVIOUS
  <2>2. m \in Nat /\ Joined(ss, m) \in Seq(S)
    BY <2>1
  <2>3. ss[m + 1] \in Seq(S)
    BY <2>1, <2>2 DEF SeqsOf
  <2>4. Joined(ss, m + 1) = Joined(ss, m) \o ss[m + 1]
    BY <2>2, <2>3, JoinedOneMore
  <2> QED
    BY <2>2, <2>3, <2>4, Concatenated
<1>3. T \in SUBSET Nat
  OBVIOUS
<1>4. T = Nat
  <2> HIDE DEF T
  <2> QED
    BY <1>1, <1>2, <1>3, InductiveSet
<1> QED
  BY <1>4

\* Where the k-th sequence begins in the concatenation: behind Start(ss, k).
Start(ss, k) == Len(Joined(ss, k - 1))

LEMMA JoinedStep ==
  ASSUME NEW ss, NEW n \in Nat, NEW S, SeqsOf(ss, n, S), NEW k \in 1..n
  PROVE  /\ Joined(ss, k) = Joined(ss, k - 1) \o ss[k]
         /\ Joined(ss, k) \in Seq(S) /\ Joined(ss, k - 1) \in Seq(S) /\ ss[k] \in Seq(S)
         /\ Start(ss, k) \in Nat /\ Len(ss[k]) \in Nat
         /\ Len(Joined(ss, k)) = Start(ss, k) + Len(ss[k])
<1>1. k - 1 \in Nat /\ k - 1 \in 0..n /\ k \in 0..n /\ (k - 1) + 1 = k
  OBVIOUS
<1>2. ss[k] \in Seq(S)
  BY DEF SeqsOf
<1>3. Joined(ss, (k - 1) + 1) = Joined(ss, k - 1) \o ss[(k - 1) + 1]
  BY <1>1, <1>2, JoinedOneMore
<1>4. Joined(ss, k) \in Seq(S) /\ Joined(ss, k - 1) \in Seq(S)
  BY <1>1, JoinedSeq
<1>5. Joined(ss, k) = Joined(ss, k - 1) \o ss[k]
  BY <1>1, <1>3
<1> QED
  BY <1>2, <1>4, <1>5, Concatenated DEF Start

\* An element of the k-th sequence, in the concatenation of the first m.
LEMMA JoinedAt ==
  ASSUME NEW ss, NEW n \in Nat, NEW S, SeqsOf(ss, n, S),
         NEW m \in 1..n, NEW k \in 1..m, NEW j \in 1..Len(ss[k])
  PROVE  /\ Start(ss, k) + j \in 1..Len(Joined(ss, m))
         /\ Joined(ss, m)[Start(ss, k) + j] = ss[k][j]
<1> DEFINE P(x) == /\ Start(ss, k) + j \in 1..Len(Joined(ss, x))
                   /\ Joined(ss, x)[Start(ss, k) + j] = ss[k][j]
           T == {x \in Nat : x \in k..n => P(x)}
<1>k. k \in 1..n /\ k \in Nat /\ Start(ss, k) \in Nat /\ Len(ss[k]) \in Nat /\ j \in Nat
  <2>1. k \in 1..n
    OBVIOUS
  <2>2. Start(ss, k) \in Nat /\ Len(ss[k]) \in Nat
    BY <2>1, JoinedStep
  <2> QED
    BY <2>1, <2>2
<1>1. 0 \in T
  BY <1>k
<1>2. ASSUME NEW x \in T PROVE x + 1 \in T
  <2>x. x \in Nat /\ x + 1 \in Nat /\ (x + 1) - 1 = x
    OBVIOUS
  <2>1. SUFFICES ASSUME x + 1 \in k..n PROVE P(x + 1)
    BY <2>x
  <2>2. x + 1 \in 1..n
    BY <2>1, <1>k, <2>x
  <2>3. /\ Joined(ss, x + 1) = Joined(ss, x) \o ss[x + 1]
        /\ Joined(ss, x) \in Seq(S) /\ ss[x + 1] \in Seq(S)
    BY <2>2, <2>x, JoinedStep
  <2>4. CASE x + 1 = k
    <3>1. Start(ss, k) = Len(Joined(ss, x))
      BY <2>4, <2>x DEF Start
    <3>2. j \in 1..Len(ss[x + 1])
      BY <2>4
    <3> QED
      BY <2>3, <2>4, <3>1, <3>2, <1>k, Concatenated
  <2>5. CASE x + 1 # k
    <3>1. x \in k..n
      BY <2>1, <2>5, <2>x, <1>k
    <3>2. P(x)
      BY <3>1
    <3> QED
      BY <2>3, <3>2, <1>k
  <2> QED
    BY <2>4, <2>5
<1>3. T \in SUBSET Nat
  OBVIOUS
<1>4. T = Nat
  <2> HIDE DEF T
  <2> QED
    BY <1>1, <1>2, <1>3, InductiveSet
<1>5. m \in T /\ m \in k..n
  <2> HIDE DEF T
  <2>1. m \in Nat /\ m \in k..n
    BY <1>k
  <2> QED
    BY <1>4, <2>1
<1> QED
  BY <1>5

\* Every element of the concatenation comes from one of the sequences ...
LEMMA JoinedCovers ==
  ASSUME NEW ss, NEW n \in Nat, NEW S, SeqsOf(ss, n, S),
         NEW m \in 0..n, NEW i \in 1..Len(Joined(ss, m))
  PROVE  \E k \in 1..m : \E j \in 1..Len(ss[k]) : i = Start(ss, k) + j
<1> DEFINE P(x) == \A e \in 1..Len(Joined(ss, x)) :
                     \E k \in 1..x : \E j \in 1..Len(ss[k]) : e = Start(ss, k) + j
           T == {x \in Nat : x <= n => P(x)}
<1>1. 0 \in T
  <2>1. Len(Joined(ss, 0)) = 0
    BY JoinedNone
  <2> QED
    BY <2>1
<1>2. ASSUME NEW x \in T PROVE x + 1 \in T
  <2>x. x \in Nat /\ x + 1 \in Nat /\ (x + 1) - 1 = x
    OBVIOUS
  <2>1. SUFFICES ASSUME x + 1 <= n PROVE P(x + 1)
    BY <2>x
  <2>2. x + 1 \in 1..n /\ P(x)
    BY <2>1, <2>x
  <2>3. /\ Joined(ss, x) \in Seq(S) /\ ss[x + 1] \in Seq(S)
        /\ Start(ss, x + 1) = Len(Joined(ss, x))
        /\ Len(Joined(ss, x + 1)) = Start(ss, x + 1) + Len(ss[x + 1])
    BY <2>2, <2>x, JoinedStep DEF Start
  <2>4. ASSUME NEW e \in 1..Len(Joined(ss, x + 1))
        PROVE  \E k \in 1..(x + 1) : \E j \in 1..Len(ss[k]) : e = Start(ss, k) + j
    <3>1. CASE e <= Len(Joined(ss, x))
      <4>1. e \in 1..Len(Joined(ss, x))
        BY <2>3, <3>1
      <4>2. PICK k \in 1..x : \E j \in 1..Len(ss[k]) : e = Start(ss, k) + j
        BY <2>2, <4>1
      <4>3. k \in 1..(x + 1)
        BY <2>x
      <4> QED
        BY <4>2, <4>3
    <3>2. CASE e > Len(Joined(ss, x))
      <4>1. /\ e - Start(ss, x + 1) \in 1..Len(ss[x + 1])
            /\ e = Start(ss, x + 1) + (e - Start(ss, x + 1))
        BY <2>3, <3>2
      <4>2. x + 1 \in 1..(x + 1)
        BY <2>x
      <4> QED
        BY <4>1, <4>2
    <3> QED
      BY <2>3, <3>1, <3>2
  <2> QED
    BY <2>4
<1>3. T \in SUBSET Nat
  OBVIOUS
<1>4. T = Nat
  <2> HIDE DEF T
  <2> QED
    BY <1>1, <1>2, <1>3, InductiveSet
<1>5. m \in T /\ m <= n
  BY <1>4
<1>6. P(m)
  BY <1>5
<1> QED
  BY <1>6

\* ... the later ones behind the earlier ones, so from one alone.
LEMMA JoinedApart ==
  ASSUME NEW ss, NEW n \in Nat, NEW S, SeqsOf(ss, n, S),
         NEW k \in 1..n, NEW l \in 1..n, k < l
  PROVE  Start(ss, k) + Len(ss[k]) <= Start(ss, l)
<1> DEFINE T == {x \in Nat : x \in (k + 1)..n => Start(ss, k) + Len(ss[k]) <= Start(ss, x)}
<1>k. k \in Nat /\ Start(ss, k) \in Nat /\ Len(ss[k]) \in Nat
      /\ Len(Joined(ss, k)) = Start(ss, k) + Len(ss[k])
  <2>1. k \in Nat
    OBVIOUS
  <2> QED
    BY <2>1, JoinedStep
<1>1. 0 \in T
  BY <1>k
<1>2. ASSUME NEW x \in T PROVE x + 1 \in T
  <2>x. x \in Nat /\ x + 1 \in Nat /\ (x + 1) - 1 = x
    OBVIOUS
  <2>1. SUFFICES ASSUME x + 1 \in (k + 1)..n PROVE Start(ss, k) + Len(ss[k]) <= Start(ss, x + 1)
    BY <2>x
  <2>2. x \in 1..n /\ x + 1 \in 1..n
    BY <2>1, <2>x, <1>k
  <2>3. /\ Len(Joined(ss, x)) = Start(ss, x) + Len(ss[x])
        /\ Start(ss, x) \in Nat /\ Len(ss[x]) \in Nat
    BY <2>2, JoinedStep
  <2>4. Start(ss, x + 1) = Len(Joined(ss, x))
    BY <2>x DEF Start
  <2>5. CASE x = k
    BY <2>4, <2>5, <1>k
  <2>6. CASE x # k
    <3>1. x \in (k + 1)..n
      BY <2>1, <2>6, <2>x, <1>k
    <3>2. Start(ss, k) + Len(ss[k]) <= Start(ss, x)
      BY <3>1
    <3> QED
      BY <3>2, <2>3, <2>4, <1>k
  <2> QED
    BY <2>5, <2>6
<1>3. T \in SUBSET Nat
  OBVIOUS
<1>4. T = Nat
  <2> HIDE DEF T
  <2> QED
    BY <1>1, <1>2, <1>3, InductiveSet
<1>5. l \in T /\ l \in (k + 1)..n
  BY <1>4, <1>k
<1> QED
  BY <1>5

LEMMA JoinedOnce ==
  ASSUME NEW ss, NEW n \in Nat, NEW S, SeqsOf(ss, n, S),
         NEW k \in 1..n, NEW j \in 1..Len(ss[k]), NEW l \in 1..n, NEW i \in 1..Len(ss[l]),
         Start(ss, k) + j = Start(ss, l) + i
  PROVE  k = l /\ j = i
<1>1. /\ Start(ss, k) \in Nat /\ Len(ss[k]) \in Nat
      /\ Start(ss, l) \in Nat /\ Len(ss[l]) \in Nat
  BY JoinedStep
<1>2. ~(k < l)
  <2> SUFFICES ASSUME k < l PROVE FALSE
    OBVIOUS
  <2>1. Start(ss, k) + Len(ss[k]) <= Start(ss, l)
    BY JoinedApart
  <2> QED
    BY <2>1, <1>1
<1>3. ~(l < k)
  <2> SUFFICES ASSUME l < k PROVE FALSE
    OBVIOUS
  <2>1. Start(ss, l) + Len(ss[l]) <= Start(ss, k)
    BY JoinedApart
  <2> QED
    BY <2>1, <1>1
<1>4. k = l
  BY <1>2, <1>3
<1> QED
  BY <1>1, <1>4

-----------------------------------------------------------------------------
(* An accepted plane of a single-line layout (every plane of GRAY8 and     *)
(* RGB, and the Y and alpha planes of NV12 and A420) holds the last byte   *)
(* of every pixel, if the products the check takes do not wrap and a       *)
(* double holds them: the comparisons of verify_plane are enough for what  *)
(* the DSP reads.                                                          *)
THEOREM FullPlaneHoldsPixels ==
  ASSUME NEW image, NEW plane, NEW bytes \in Nat \ {0},
         image.width \in Nat, image.height \in Nat,
         plane.bytesperline \in Nat, plane.bytesused \in Nat,
         ExactSize(plane.bytesperline), ExactSize(plane.bytesused),
         ExactSize(image.width * bytes), ExactSize(plane.bytesperline * image.height),
         VerifyPlane(image, plane, Plane(bytes, 1, 1)),
         NEW x \in Nat, x < image.width,
         NEW y \in Nat, y < image.height
  PROVE  /\ x * bytes + bytes - 1 < plane.bytesperline
         /\ y * plane.bytesperline + (x * bytes + bytes - 1) < plane.bytesused
<1> DEFINE w == image.width
           h == image.height
           s == plane.bytesperline
<1>w. SizeMod \in Nat \ {0}
  BY WordAssumption
<1>1. w * bytes \in Nat /\ s * h \in Nat
  OBVIOUS
<1>2. Size(w * bytes) = w * bytes /\ Size(s * h) = s * h
  BY <1>w, <1>1, SmallMod DEF Size, ExactSize
<1>3. \A n \in Nat : CeilDiv(n, 1) = n
  BY DEF CeilDiv
<1>d. /\ Double(w * bytes) = w * bytes /\ Double(s * h) = s * h
      /\ Double(s) = s /\ Double(plane.bytesused) = plane.bytesused
  BY <1>1, DoubleExactly
<1>4. s >= w * bytes /\ plane.bytesused >= s * h
  BY <1>1, <1>2, <1>3, <1>d DEF VerifyPlane, Plane
<1>5. bytes - 1 \in Nat /\ bytes - 1 < bytes
  OBVIOUS
<1>6. x * bytes + (bytes - 1) < w * bytes
  <2> HIDE DEF w
  <2>1. w \in Nat /\ x < w
    BY DEF w
  <2> QED
    BY <2>1, <1>5, LineInside
<1>7. x * bytes + (bytes - 1) \in Nat /\ x * bytes + (bytes - 1) = x * bytes + bytes - 1
  BY <1>5
<1>8. x * bytes + bytes - 1 < s
  BY <1>1, <1>4, <1>6, <1>7
<1>9. y * s + (x * bytes + bytes - 1) < h * s
  <2> HIDE DEF h, s
  <2>1. h \in Nat /\ s \in Nat /\ y < h
    BY DEF h, s
  <2> QED
    BY <2>1, <1>7, <1>8, LineInside
<1>10. h * s = s * h
  OBVIOUS
<1>11. y * s + (x * bytes + bytes - 1) < s * h
  BY <1>9, <1>10
<1> QED
  BY <1>1, <1>4, <1>7, <1>8, <1>11

(* The same of a chroma plane, whose samples are shared by two pixels of a *)
(* line and by two lines, in an image with even sides.                     *)
THEOREM ChromaPlaneHoldsPixels ==
  ASSUME NEW image, NEW plane, NEW bytes \in {1, 2},
         image.width \in Nat, image.height \in Nat,
         plane.bytesperline \in Nat, plane.bytesused \in Nat,
         ExactSize(plane.bytesperline), ExactSize(plane.bytesused),
         ExactSize(image.width * bytes), ExactSize(plane.bytesperline * image.height),
         VerifyYuv420(image),
         VerifyPlane(image, plane, Plane(bytes, 2, 2)),
         NEW x \in Nat, x < image.width,
         NEW y \in Nat, y < image.height
  PROVE  /\ (x \div 2) * bytes + bytes - 1 < plane.bytesperline
         /\ (y \div 2) * plane.bytesperline + ((x \div 2) * bytes + bytes - 1)
              < plane.bytesused
<1> DEFINE s == plane.bytesperline
<1>w. SizeMod \in Nat \ {0}
  BY WordAssumption
<1>1. PICK w \in Nat : image.width = 2 * w
  <2>1. image.width = 2 * (image.width \div 2) /\ image.width \div 2 \in Nat
    BY DEF VerifyYuv420
  <2> QED
    BY <2>1
<1>2. PICK h \in Nat : image.height = 2 * h
  <2>1. image.height = 2 * (image.height \div 2) /\ image.height \div 2 \in Nat
    BY DEF VerifyYuv420
  <2> QED
    BY <2>1
<1>3. image.width * bytes = 2 * (w * bytes) /\ w * bytes \in Nat
  BY <1>1
<1>4. s * image.height = 2 * (s * h) /\ s * h \in Nat
  BY <1>2
<1>5. \A n \in Nat : CeilDiv(2 * n, 2) = n
  BY DEF CeilDiv
<1>6. Size(image.width * bytes) = image.width * bytes
  BY <1>w, <1>3, SmallMod DEF Size, ExactSize
<1>7. Size(s * image.height) = s * image.height
  BY <1>w, <1>4, SmallMod DEF Size, ExactSize
<1>d. /\ Double(image.width * bytes) = 2 * (w * bytes)
      /\ Double(s * image.height) = 2 * (s * h)
      /\ Double(s) = s /\ Double(plane.bytesused) = plane.bytesused
  <2>1. image.width * bytes \in Nat /\ s * image.height \in Nat
    OBVIOUS
  <2> QED
    BY <1>3, <1>4, <2>1, DoubleExactly
<1>8. s >= w * bytes /\ plane.bytesused >= s * h
  BY <1>3, <1>4, <1>5, <1>6, <1>7, <1>d DEF VerifyPlane, Plane
<1>9. x \div 2 \in Nat /\ x \div 2 < w /\ y \div 2 \in Nat /\ y \div 2 < h
  BY <1>1, <1>2
<1>10. (x \div 2) * bytes + bytes - 1 < s /\ (x \div 2) * bytes + bytes - 1 \in Nat
  <2>1. CASE bytes = 1
    BY <2>1, <1>8, <1>9
  <2>2. CASE bytes = 2
    BY <2>2, <1>8, <1>9
  <2> QED
    BY <2>1, <2>2
<1>11. (y \div 2) * s + ((x \div 2) * bytes + bytes - 1) < h * s
  <2> HIDE DEF s
  <2>1. s \in Nat
    BY DEF s
  <2> QED
    BY <2>1, <1>9, <1>10, LineInside
<1>12. h * s = s * h
  OBVIOUS
<1>13. (y \div 2) * s + ((x \div 2) * bytes + bytes - 1) < s * h
  BY <1>11, <1>12
<1> QED
  BY <1>4, <1>8, <1>10, <1>13

-----------------------------------------------------------------------------
(* What the checks of regions guarantee.                                   *)

\* A position inside one of the regions verify_privacy_mask_params accepts
\* has its bit in the described bitmask: the check's rounding to float and to
\* blocks and the description's rounding to double, bytes and lines agree, up
\* to 2^26 lines and for every width that 32 bits hold.
THEOREM MaskRegionInBitmask ==
  ASSUME NEW image, image.width \in Nat, image.height \in Nat,
         image.width < U32Mod, image.height < U32Mod, image.height < FloatHeights,
         NEW mask, NEW maxRois, mask # NULL,
         VerifyMask(image, mask, maxRois),
         NEW i \in DOMAIN mask.rois, HasRoi(mask.rois[i]),
         MaskStride(image) * MaskLines(image) < SizeMod,
         NEW x \in mask.rois[i].start_x..(mask.rois[i].end_x - 1),
         NEW y \in mask.rois[i].start_y..(mask.rois[i].end_y - 1)
  PROVE  /\ x \div 8 < MaskStride(image)
         /\ y * MaskStride(image) + x \div 8 < MaskSize(image)
<1> DEFINE r == mask.rois[i]
           s == MaskStride(image)
           h == MaskLines(image)
<1>w. SizeMod \in Nat \ {0}
  BY WordAssumption
<1>1. /\ r.start_x \in Nat /\ r.end_x \in Nat
      /\ r.start_y \in Nat /\ r.end_y \in Nat
  BY <1>w DEF HasRoi, SizeT
<1>d. Double(image.width) = image.width /\ Double(image.height) = image.height
  BY WordExact
<1>2. r.end_x <= CeilDiv(Float(image.width), 4) /\ r.end_y <= CeilDiv(Float(image.height), 4)
  BY DEF VerifyMask, VerifyRoi, MaskWidthLimit, MaskHeightLimit, MaskQuantization
<1>3. h \in Nat /\ s \in Nat /\ h = CeilDiv(image.height, 4)
  BY <1>d DEF CeilDiv, MaskQuantization, MaskStride, MaskLines, RoundUp
<1>k. PICK k \in Nat : s = 8 * k /\ image.width <= 256 * k
  <2>1. PICK k \in Nat : k = ((image.width + 31) \div 32 + 7) \div 8
    OBVIOUS
  <2>2. s = 8 * k /\ image.width <= 256 * k
    BY <1>d, <2>1 DEF MaskStride, RoundUp, CeilDiv, MaskQuantization
  <2> QED
    BY <2>2
<1>f. PICK f \in Nat : f = Float(image.width) /\ f <= 256 * k
  BY <1>k, FloatColumns
<1>g. r.end_y <= h
  <2>1. image.height < SizeMod /\ image.height < 4 * FloatExact
    BY WordAssumption DEF FloatHeights
  <2>2. CeilDiv(Float(image.height), 4) <= CeilDiv(image.height, 4) /\ Float(image.height) \in Nat
    BY <2>1, FloatLines
  <2>3. CeilDiv(Float(image.height), 4) \in Nat
    BY <2>2 DEF CeilDiv
  <2> HIDE DEF r, h
  <2> QED
    BY <1>1, <1>2, <1>3, <2>2, <2>3
<1>4. x \in Nat /\ x < 64 * k /\ y \in Nat /\ y < h
  <2>1. r.end_x <= (f + 3) \div 4 /\ (f + 3) \div 4 <= 64 * k
    BY <1>2, <1>f DEF CeilDiv
  <2> HIDE DEF r, h
  <2>2. x \in r.start_x..(r.end_x - 1) /\ y \in r.start_y..(r.end_y - 1)
    BY DEF r
  <2> QED
    BY <2>1, <2>2, <1>1, <1>3, <1>g
<1>7. x \div 8 \in Nat /\ x \div 8 < s
  <2> HIDE DEF s
  <2> QED
    BY <1>k, <1>4
<1>8. y * s + x \div 8 < h * s
  <2> HIDE DEF s, h
  <2> QED
    BY <1>3, <1>4, <1>7, LineInside
<1>9. h * s = s * h /\ s * h \in Nat
  <2> HIDE DEF s, h
  <2> QED
    BY <1>3
<1>10. MaskSize(image) = s * h
  BY <1>w, <1>9, SmallMod DEF MaskSize, Size
<1> QED
  BY <1>7, <1>8, <1>9, <1>10

-----------------------------------------------------------------------------
(* Every region the DSP is given lies in its image.                        *)

\* The sides and offsets of the caller's images fit the DSP's 32-bit fields,
\* and size_t holds the sum of two of those.
SidesFit32 ==
  /\ 2 * U32Mod <= SizeMod
  /\ \A s \in Sources \ {NULL} : s.width < U32Mod /\ s.height < U32Mod
  /\ \A os \in OverlayLists \ {NULL} : \A i \in DOMAIN os :
       /\ os[i].overlay.width < U32Mod /\ os[i].overlay.height < U32Mod
       /\ os[i].x_offset < U32Mod /\ os[i].y_offset < U32Mod

LEMMA Narrowed ==
  ASSUME NEW n \in Nat, n < U32Mod
  PROVE  U32(n) = n
BY WordAssumption, SmallMod DEF U32

LEMMA NotWrapped ==
  ASSUME NEW n \in Nat, n < SizeMod
  PROVE  Size(n) = n
BY WordAssumption, SmallMod DEF Size

\* A region that passes the check against the caller's image passes it
\* against the image the DSP is told of, after narrowing.
LEMMA RoiNarrowed ==
  ASSUME SidesFit32, NEW s \in Sources \ {NULL}, NEW r, HasRoi(r),
         VerifyRoi(s.width, s.height, r)
  PROVE  VerifyRoi(U32(s.width), U32(s.height), RoiU32(r))
<1>1. /\ s.width \in Nat /\ s.width < U32Mod
      /\ s.height \in Nat /\ s.height < U32Mod
  BY InputAssumption, WordAssumption DEF SidesFit32, IsImage, HasSides, SizeT
<1>2. /\ r.start_x \in Nat /\ r.end_x \in Nat
      /\ r.start_y \in Nat /\ r.end_y \in Nat
  BY WordAssumption DEF HasRoi, SizeT
<1>3. /\ r.start_x < U32Mod /\ r.end_x < U32Mod
      /\ r.start_y < U32Mod /\ r.end_y < U32Mod
  BY <1>1, <1>2, WordAssumption DEF VerifyRoi
<1>4. /\ U32(s.width) = s.width /\ U32(s.height) = s.height
      /\ U32(r.start_x) = r.start_x /\ U32(r.end_x) = r.end_x
      /\ U32(r.start_y) = r.start_y /\ U32(r.end_y) = r.end_y
  BY <1>1, <1>2, <1>3, Narrowed
<1> QED
  BY <1>4 DEF VerifyRoi, RoiU32

\* The sides of the k-th image of a request.
LEMMA ConvertedSides ==
  ASSUME NEW buffers, NEW images, NEW k \in DOMAIN images
  PROVE  /\ AddImages(buffers, images).images[k].width = U32(images[k].image.width)
         /\ AddImages(buffers, images).images[k].height = U32(images[k].image.height)
BY DEF AddImages, ConvertImage

LEMMA CropFits ==
  ASSUME SidesFit32, NEW c, c.src \in Sources \ {NULL}, HasRoi(c.roi), CropAccepted(c)
  PROVE  RegionsFit(CropRequest(c))
<1> DEFINE images == <<Read(c.src), Write(c.dst)>>
           q == CropRequest(c)
<1>1. /\ q.images = AddImages(<<>>, images).images
      /\ q.rois = <<RoiU32(c.roi)>>
      /\ q.overlays = <<>>
  BY DEF CropRequest, Request
<1>2. 1 \in DOMAIN images /\ images[1].image = c.src
  BY DEF Read
<1>3. q.images[1].width = U32(c.src.width) /\ q.images[1].height = U32(c.src.height)
  BY <1>1, <1>2, ConvertedSides
<1>4. VerifyRoi(U32(c.src.width), U32(c.src.height), RoiU32(c.roi))
  BY RoiNarrowed DEF CropAccepted, VerifyCrop
<1> QED
  BY <1>1, <1>3, <1>4 DEF RegionsFit

LEMMA MultiFits ==
  ASSUME SidesFit32, NEW c, c.src \in Sources \ {NULL}, HasRoi(c.roi), MultiAccepted(c)
  PROVE  RegionsFit(MultiRequest(c))
<1> DEFINE outputs == PresentOutputs(c.dsts)
           images == <<Read(c.src)>> \o [i \in DOMAIN outputs |-> Write(outputs[i])]
           q == MultiRequest(c)
<1>1. /\ q.images = AddImages(<<>>, images).images
      /\ q.rois = <<RoiU32(c.roi)>>
      /\ q.overlays = <<>>
  BY DEF MultiRequest, Request
<1>2. 1 \in DOMAIN images /\ images[1].image = c.src
  <2>1. IsFiniteSet(Present(c.dsts))
    <3>1. MultiOutputs \in Nat
      BY LimitAssumption
    <3>2. IsFiniteSet(1..MultiOutputs) /\ Present(c.dsts) \subseteq 1..MultiOutputs
      BY <3>1, FS_Interval DEF Present
    <3> QED
      BY <3>2, FS_Subset
  <2>2. Cardinality(Present(c.dsts)) \in Nat
    BY <2>1, FS_CardinalityType
  <2>3. DOMAIN outputs = 1..Cardinality(Present(c.dsts))
    BY DEF PresentOutputs
  <2> HIDE DEF outputs
  <2>4. [i \in DOMAIN outputs |-> Write(outputs[i])]
          \in Seq({Write(outputs[i]) : i \in DOMAIN outputs})
    BY <2>2, <2>3
  <2> QED
    BY <2>4 DEF Read
<1> HIDE DEF q, images
<1>3. q.images[1].width = U32(c.src.width) /\ q.images[1].height = U32(c.src.height)
  BY <1>1, <1>2, ConvertedSides
<1>4. VerifyRoi(U32(c.src.width), U32(c.src.height), RoiU32(c.roi))
  BY RoiNarrowed DEF MultiAccepted, VerifyCrop
<1> QED
  BY <1>1, <1>3, <1>4 DEF RegionsFit, q

LEMMA BlurFits ==
  ASSUME SidesFit32, NEW c, c.src \in Sources \ {NULL}, BlurAccepted(c),
         \A i \in DOMAIN c.rois : HasRoi(c.rois[i])
  PROVE  RegionsFit(BlurRequest(c))
<1> DEFINE images == <<ReadWrite(c.src)>>
           q == BlurRequest(c)
<1>1. /\ q.images = AddImages(<<>>, images).images
      /\ q.rois = [i \in DOMAIN c.rois |-> RoiU32(c.rois[i])]
      /\ q.overlays = <<>>
  BY DEF BlurRequest, Request
<1>2. 1 \in DOMAIN images /\ images[1].image = c.src
  BY DEF ReadWrite
<1>3. q.images[1].width = U32(c.src.width) /\ q.images[1].height = U32(c.src.height)
  BY <1>1, <1>2, ConvertedSides
<1>4. ASSUME NEW i \in DOMAIN c.rois
      PROVE  VerifyRoi(U32(c.src.width), U32(c.src.height), RoiU32(c.rois[i]))
  BY RoiNarrowed DEF BlurAccepted, VerifyCrop
<1> QED
  BY <1>1, <1>3, <1>4 DEF RegionsFit

LEMMA BlendFits ==
  ASSUME SidesFit32, NEW c, c.src \in Sources \ {NULL}, c.overlays \in OverlayLists \ {NULL},
         BlendAccepted(c)
  PROVE  RegionsFit(BlendRequest(c))
<1> DEFINE os == c.overlays
           reads == [i \in DOMAIN os |-> Read(os[i].overlay)]
           images == <<ReadWrite(c.src)>> \o reads
           q == BlendRequest(c)
<1>1. /\ q.images = AddImages(<<>>, images).images
      /\ q.rois = <<>>
      /\ q.overlays = [i \in DOMAIN os |->
           [x_offset |-> U32(os[i].x_offset), y_offset |-> U32(os[i].y_offset)]]
  BY DEF BlendRequest, Request
<1>2. IsArray(os)
  BY InputAssumption
<1>3. reads \in Seq({Read(os[i].overlay) : i \in DOMAIN os}) /\ Len(reads) = Len(os)
  BY <1>2 DEF IsArray
<1>4. 1 \in DOMAIN images /\ images[1].image = c.src
  BY <1>3 DEF ReadWrite
<1>5. ASSUME NEW i \in DOMAIN os
      PROVE  i + 1 \in DOMAIN images /\ images[i + 1].image = os[i].overlay
  <2>1. i \in 1..Len(os) /\ Len(os) \in Nat
    BY <1>2 DEF IsArray
  <2>2. images[i + 1] = reads[i] /\ i + 1 \in DOMAIN images
    BY <1>3, <2>1
  <2> QED
    BY <2>2 DEF Read
<1> HIDE DEF q, images
<1>6. q.images[1].width = U32(c.src.width) /\ q.images[1].height = U32(c.src.height)
  BY <1>1, <1>4, ConvertedSides
<1>7. ASSUME NEW i \in DOMAIN os
      PROVE  /\ q.images[i + 1].width = U32(os[i].overlay.width)
             /\ q.images[i + 1].height = U32(os[i].overlay.height)
  BY <1>1, <1>5, ConvertedSides
<1>8. ASSUME NEW i \in DOMAIN os
      PROVE  /\ U32(os[i].x_offset) + U32(os[i].overlay.width) <= U32(c.src.width)
             /\ U32(os[i].y_offset) + U32(os[i].overlay.height) <= U32(c.src.height)
  <2> DEFINE o == os[i]
  <2>1. /\ o.x_offset \in Nat /\ o.x_offset < U32Mod
        /\ o.y_offset \in Nat /\ o.y_offset < U32Mod
        /\ o.overlay.width \in Nat /\ o.overlay.width < U32Mod
        /\ o.overlay.height \in Nat /\ o.overlay.height < U32Mod
    BY InputAssumption, WordAssumption DEF SidesFit32, IsImage, HasSides, SizeT
  <2>2. /\ c.src.width \in Nat /\ c.src.width < U32Mod
        /\ c.src.height \in Nat /\ c.src.height < U32Mod
    BY InputAssumption, WordAssumption DEF SidesFit32, IsImage, HasSides, SizeT
  <2>3. VerifyOverlay(c.src, o)
    BY DEF BlendAccepted
  <2> HIDE DEF o
  <2>4. o.x_offset + o.overlay.width < SizeMod /\ o.y_offset + o.overlay.height < SizeMod
    BY <2>1, WordAssumption DEF SidesFit32
  <2>5. /\ Size(o.x_offset + o.overlay.width) = o.x_offset + o.overlay.width
        /\ Size(o.y_offset + o.overlay.height) = o.y_offset + o.overlay.height
    BY <2>1, <2>4, NotWrapped
  <2>6. /\ o.x_offset + o.overlay.width <= c.src.width
        /\ o.y_offset + o.overlay.height <= c.src.height
    BY <2>3, <2>5 DEF VerifyOverlay
  <2>7. /\ U32(o.x_offset) = o.x_offset /\ U32(o.overlay.width) = o.overlay.width
        /\ U32(o.y_offset) = o.y_offset /\ U32(o.overlay.height) = o.overlay.height
        /\ U32(c.src.width) = c.src.width /\ U32(c.src.height) = c.src.height
    BY <2>1, <2>2, Narrowed
  <2>8. /\ U32(o.x_offset) + U32(o.overlay.width) <= U32(c.src.width)
        /\ U32(o.y_offset) + U32(o.overlay.height) <= U32(c.src.height)
    BY <2>6, <2>7
  <2> QED
    BY <2>8 DEF o
<1>9. ASSUME NEW i \in DOMAIN q.overlays
      PROVE  /\ i \in DOMAIN os
             /\ q.overlays[i].x_offset = U32(os[i].x_offset)
             /\ q.overlays[i].y_offset = U32(os[i].y_offset)
  BY <1>1
<1> HIDE DEF os
<1> QED
  BY <1>1, <1>6, <1>7, <1>8, <1>9 DEF RegionsFit, q

LEMMA NoRegionsFit ==
  ASSUME NEW cmd, cmd.rois = <<>>, cmd.overlays = <<>>
  PROVE  RegionsFit(cmd)
BY DEF RegionsFit

-----------------------------------------------------------------------------
(* What a call gives the driver.  A command is there only while the call   *)
(* that sent it is, and is the request that the call's accepted arguments  *)
(* make: this is all that the properties of commands need of the state.    *)

Sent(c, q) ==
  \/ /\ c.op \in {"CROP", "RESIZE"}
     /\ c.src \in Sources \ {NULL} /\ c.dst \in Targets /\ HasRoi(c.roi)
     /\ c.op = "RESIZE" => c.roi = WholeImage(c.src)
     /\ CropAccepted(c) /\ q = CropRequest(c)
  \/ /\ c.op = "MULTI"
     /\ c.src \in Sources \ {NULL} /\ c.dsts \in TargetLists /\ HasRoi(c.roi) /\ c.mask \in Masks
     /\ MultiAccepted(c) /\ q = MultiRequest(c)
  \/ /\ c.op = "BLEND"
     /\ c.src \in Sources \ {NULL} /\ c.overlays \in OverlayLists \ {NULL}
     /\ BlendAccepted(c) /\ q = BlendRequest(c)
  \/ /\ c.op = "BLUR"
     /\ c.src \in Sources \ {NULL} /\ c.rois \in RoiLists \ {NULL}
     /\ BlurAccepted(c) /\ q = BlurRequest(c)
  \/ /\ c.op = "CONVERT"
     /\ c.src \in Sources \ {NULL} /\ c.dst \in Targets \ {NULL}
     /\ ConvertAccepted(c) /\ q = ConvertRequest(c)
  \/ /\ c.op = "DEWARP"
     /\ c.src \in Sources \ {NULL} /\ c.dst \in Targets \ {NULL} /\ c.mesh \in Meshes \ {NULL}
     /\ DewarpAccepted(c) /\ q = DewarpRequest(c)

SentOK ==
  /\ status \in {"UNINITIALIZED", "SUCCESS", "INVALID_ARGUMENT", "RUN_COMMAND_FAILED"}
  /\ command # NULL => Sent(call, command) /\ status \in {"SUCCESS", "RUN_COMMAND_FAILED"}

LEMMA RejectOK ==
  ASSUME NEW c, Reject(c)
  PROVE  SentOK'
BY DEF Reject, SentOK

LEMMA SendOK ==
  ASSUME NEW c, NEW q, Send(c, q), Sent(c, q)
  PROVE  SentOK'
BY DEF Send, SentOK

LEMMA CropCallOK ==
  ASSUME NEW c, c.op \in {"CROP", "RESIZE"}, c.src \in Sources, c.dst \in Targets,
         CropAccepted(c) => HasRoi(c.roi),
         c.op = "RESIZE" => c.roi = WholeImage(c.src), CropCall(c)
  PROVE  SentOK'
<1>1. CASE CropAccepted(c) /\ Send(c, CropRequest(c))
  <2>1. c.src # NULL
    BY <1>1 DEF CropAccepted, VerifyCrop
  <2>2. Sent(c, CropRequest(c))
    BY <1>1, <2>1 DEF Sent
  <2> QED
    BY <1>1, <2>2, SendOK
<1>2. CASE Reject(c)
  BY <1>2, RejectOK
<1> QED
  BY <1>1, <1>2 DEF CropCall

LEMMA CropOK ==
  ASSUME CropAndResize
  PROVE  SentOK'
<1>1. PICK d \in Devices, s \in Sources, t \in Targets, r \in Rois, i \in Interpolations :
        CropCall([op |-> "CROP", device |-> d, src |-> s, dst |-> t, roi |-> r,
                  interpolation |-> i])
  BY DEF CropAndResize
<1> DEFINE c == [op |-> "CROP", device |-> d, src |-> s, dst |-> t, roi |-> r,
                 interpolation |-> i]
<1>2. c.op = "CROP" /\ c.src = s /\ c.dst = t /\ c.roi = r
  OBVIOUS
<1>3. CropCall(c)
  BY <1>1
<1> HIDE DEF c
<1>4. CropAccepted(c) => HasRoi(c.roi)
  BY <1>2, InputAssumption DEF CropAccepted, VerifyCrop
<1> QED
  BY <1>2, <1>3, <1>4, CropCallOK

LEMMA WholeRoi ==
  ASSUME NEW s \in Sources \ {NULL}
  PROVE  HasRoi(WholeImage(s))
<1>1. s.width \in SizeT /\ s.height \in SizeT
  BY InputAssumption DEF IsImage, HasSides
<1>2. 0 \in SizeT
  BY WordAssumption DEF SizeT
<1> QED
  BY <1>1, <1>2 DEF HasRoi, WholeImage

LEMMA ResizeOK ==
  ASSUME Resize
  PROVE  SentOK'
<1>1. PICK d \in Devices, s \in Sources, t \in Targets, i \in Interpolations :
        IF s = NULL
        THEN Reject([op |-> "RESIZE", device |-> d, src |-> NULL])
        ELSE CropCall([op |-> "RESIZE", device |-> d, src |-> s, dst |-> t,
                       roi |-> WholeImage(s), interpolation |-> i])
  BY DEF Resize
<1> DEFINE c == [op |-> "RESIZE", device |-> d, src |-> s, dst |-> t,
                 roi |-> WholeImage(s), interpolation |-> i]
<1>2. c.op = "RESIZE" /\ c.src = s /\ c.dst = t /\ c.roi = WholeImage(s)
  OBVIOUS
<1>3. CASE s = NULL
  BY <1>1, <1>3, RejectOK
<1>4. CASE s # NULL
  <2>1. CropCall(c)
    BY <1>1, <1>4
  <2>2. HasRoi(c.roi)
    BY <1>2, <1>4, WholeRoi
  <2> HIDE DEF c
  <2> QED
    BY <1>2, <2>1, <2>2, CropCallOK
<1> QED
  BY <1>3, <1>4

LEMMA MultiOK ==
  ASSUME MultiCropAndResize
  PROVE  SentOK'
<1>1. PICK d \in Devices, s \in Sources, ts \in TargetLists, r \in Rois,
           m \in Masks, i \in Interpolations :
        LET c == [op |-> "MULTI", device |-> d, src |-> s, dsts |-> ts, roi |-> r,
                  mask |-> m, interpolation |-> i]
        IN  \/ MultiAccepted(c) /\ Send(c, MultiRequest(c))
            \/ ~MultiAccepted(c) /\ Reject(c)
  BY DEF MultiCropAndResize
<1> DEFINE c == [op |-> "MULTI", device |-> d, src |-> s, dsts |-> ts, roi |-> r,
                 mask |-> m, interpolation |-> i]
<1>2. c.op = "MULTI" /\ c.src = s /\ c.dsts = ts /\ c.roi = r /\ c.mask = m
  OBVIOUS
<1>3. \/ MultiAccepted(c) /\ Send(c, MultiRequest(c))
      \/ ~MultiAccepted(c) /\ Reject(c)
  BY <1>1
<1> HIDE DEF c
<1>4. CASE MultiAccepted(c) /\ Send(c, MultiRequest(c))
  <2>1. s # NULL /\ r # NULL
    BY <1>2, <1>4 DEF MultiAccepted, VerifyCrop
  <2>2. Sent(c, MultiRequest(c))
    BY <1>2, <1>4, <2>1, InputAssumption DEF Sent
  <2> QED
    BY <1>4, <2>2, SendOK
<1> QED
  BY <1>3, <1>4, RejectOK

LEMMA BlendOK ==
  ASSUME Blend
  PROVE  SentOK'
<1>1. PICK d \in Devices, s \in Sources, os \in OverlayLists :
        LET c == [op |-> "BLEND", device |-> d, src |-> s, overlays |-> os]
        IN  \/ BlendAccepted(c) /\ Send(c, BlendRequest(c))
            \/ ~BlendAccepted(c) /\ Reject(c)
  BY DEF Blend
<1> DEFINE c == [op |-> "BLEND", device |-> d, src |-> s, overlays |-> os]
<1>2. c.op = "BLEND" /\ c.src = s /\ c.overlays = os
  OBVIOUS
<1>3. \/ BlendAccepted(c) /\ Send(c, BlendRequest(c))
      \/ ~BlendAccepted(c) /\ Reject(c)
  BY <1>1
<1> HIDE DEF c
<1>4. CASE BlendAccepted(c) /\ Send(c, BlendRequest(c))
  <2>1. Sent(c, BlendRequest(c))
    BY <1>2, <1>4 DEF Sent, BlendAccepted
  <2> QED
    BY <1>4, <2>1, SendOK
<1> QED
  BY <1>3, <1>4, RejectOK

LEMMA BlurOK ==
  ASSUME Blur
  PROVE  SentOK'
<1>1. PICK d \in Devices, s \in Sources, rs \in RoiLists, k \in KernelSizes :
        LET c == [op |-> "BLUR", device |-> d, src |-> s, rois |-> rs, kernel_size |-> k]
        IN  \/ BlurAccepted(c) /\ Send(c, BlurRequest(c))
            \/ ~BlurAccepted(c) /\ Reject(c)
  BY DEF Blur
<1> DEFINE c == [op |-> "BLUR", device |-> d, src |-> s, rois |-> rs, kernel_size |-> k]
<1>2. c.op = "BLUR" /\ c.src = s /\ c.rois = rs
  OBVIOUS
<1>3. \/ BlurAccepted(c) /\ Send(c, BlurRequest(c))
      \/ ~BlurAccepted(c) /\ Reject(c)
  BY <1>1
<1> HIDE DEF c
<1>4. CASE BlurAccepted(c) /\ Send(c, BlurRequest(c))
  <2>1. Sent(c, BlurRequest(c))
    BY <1>2, <1>4 DEF Sent, BlurAccepted
  <2> QED
    BY <1>4, <2>1, SendOK
<1> QED
  BY <1>3, <1>4, RejectOK

LEMMA ConvertOK ==
  ASSUME ConvertFormat
  PROVE  SentOK'
<1>1. PICK d \in Devices, s \in Sources, t \in Targets :
        LET c == [op |-> "CONVERT", device |-> d, src |-> s, dst |-> t]
        IN  \/ ConvertAccepted(c) /\ Send(c, ConvertRequest(c))
            \/ ~ConvertAccepted(c) /\ Reject(c)
  BY DEF ConvertFormat
<1> DEFINE c == [op |-> "CONVERT", device |-> d, src |-> s, dst |-> t]
<1>2. c.op = "CONVERT" /\ c.src = s /\ c.dst = t
  OBVIOUS
<1>3. \/ ConvertAccepted(c) /\ Send(c, ConvertRequest(c))
      \/ ~ConvertAccepted(c) /\ Reject(c)
  BY <1>1
<1> HIDE DEF c
<1>4. CASE ConvertAccepted(c) /\ Send(c, ConvertRequest(c))
  <2>1. c.src # NULL /\ c.dst # NULL
    BY <1>4 DEF ConvertAccepted, VerifyImage
  <2>2. Sent(c, ConvertRequest(c))
    BY <1>2, <1>4, <2>1 DEF Sent
  <2> QED
    BY <1>4, <2>2, SendOK
<1> QED
  BY <1>3, <1>4, RejectOK

LEMMA DewarpOK ==
  ASSUME Dewarp
  PROVE  SentOK'
<1>1. PICK d \in Devices, s \in Sources, t \in Targets, m \in Meshes, i \in Interpolations :
        LET c == [op |-> "DEWARP", device |-> d, src |-> s, dst |-> t, mesh |-> m,
                  interpolation |-> i]
        IN  \/ DewarpAccepted(c) /\ Send(c, DewarpRequest(c))
            \/ ~DewarpAccepted(c) /\ Reject(c)
  BY DEF Dewarp
<1> DEFINE c == [op |-> "DEWARP", device |-> d, src |-> s, dst |-> t, mesh |-> m,
                 interpolation |-> i]
<1>2. c.op = "DEWARP" /\ c.src = s /\ c.dst = t /\ c.mesh = m
  OBVIOUS
<1>3. \/ DewarpAccepted(c) /\ Send(c, DewarpRequest(c))
      \/ ~DewarpAccepted(c) /\ Reject(c)
  BY <1>1
<1> HIDE DEF c
<1>4. CASE DewarpAccepted(c) /\ Send(c, DewarpRequest(c))
  <2>1. c.src # NULL /\ c.dst # NULL /\ c.mesh # NULL
    BY <1>4 DEF DewarpAccepted, VerifyImage
  <2>2. Sent(c, DewarpRequest(c))
    BY <1>2, <1>4, <2>1 DEF Sent
  <2> QED
    BY <1>4, <2>2, SendOK
<1> QED
  BY <1>3, <1>4, RejectOK

LEMMA SentInvariant == Spec => []SentOK
<1>1. Init => SentOK
  BY DEF Init, SentOK
<1>2. SentOK /\ [Next]_vars => SentOK'
  <2> SUFFICES ASSUME SentOK, [Next]_vars PROVE SentOK'
    OBVIOUS
  <2>1. CASE Return
    BY <2>1 DEF Return, SentOK
  <2>2. CASE UNCHANGED vars
    BY <2>2 DEF vars, SentOK
  <2> QED
    BY <2>1, <2>2, CropOK, ResizeOK, MultiOK, BlendOK, BlurOK, ConvertOK, DewarpOK DEF Next
<1> QED
  BY <1>1, <1>2, PTL DEF Spec

-----------------------------------------------------------------------------
(* Whatever images, regions and overlays a caller passes, a region or an   *)
(* overlay the DSP is given lies in its image, as the DSP sees it, if the  *)
(* sides and offsets fit 32 bits.                                          *)
THEOREM RegionsStayInImage ==
  ASSUME SidesFit32
  PROVE  Spec => []RegionsInImage
<1>1. SentOK => RegionsInImage
  <2> SUFFICES ASSUME NEW c, NEW q, Sent(c, q) PROVE RegionsFit(q)
    BY DEF SentOK, RegionsInImage
  <2>1. ASSUME CropAccepted(c), c.src \in Sources \ {NULL}, HasRoi(c.roi)
        PROVE  RegionsFit(CropRequest(c))
    BY <2>1, CropFits
  <2>2. ASSUME MultiAccepted(c), c.src \in Sources \ {NULL}, HasRoi(c.roi)
        PROVE  RegionsFit(MultiRequest(c))
    BY <2>2, MultiFits
  <2>3. ASSUME BlendAccepted(c), c.src \in Sources \ {NULL}, c.overlays \in OverlayLists \ {NULL}
        PROVE  RegionsFit(BlendRequest(c))
    BY <2>3, BlendFits
  <2>4. ASSUME BlurAccepted(c), c.src \in Sources \ {NULL}, c.rois \in RoiLists \ {NULL}
        PROVE  RegionsFit(BlurRequest(c))
    <3>1. \A i \in DOMAIN c.rois : HasRoi(c.rois[i])
      BY <2>4, InputAssumption DEF HasRois
    <3> QED
      BY <2>4, <3>1, BlurFits
  <2>5. RegionsFit(ConvertRequest(c))
    BY NoRegionsFit DEF ConvertRequest, Request
  <2>6. RegionsFit(DewarpRequest(c))
    <3>1. DewarpRequest(c).rois = <<>> /\ DewarpRequest(c).overlays = <<>>
      BY DEF DewarpRequest, Request
    <3> QED
      BY <3>1, NoRegionsFit
  <2> QED
    BY <2>1, <2>2, <2>3, <2>4, <2>5, <2>6 DEF Sent
<1> QED
  BY <1>1, SentInvariant, PTL

-----------------------------------------------------------------------------
(* The buffer list of a command.                                           *)

Given(ims) ==
  /\ IsArray(ims)
  /\ \A k \in DOMAIN ims : IsImage(ims[k].image) /\ Len(ims[k].image.planes) <= 4

PlanesSent(ims) == [k \in DOMAIN ims |-> PlaneBuffers(ims[k])]
BuffersSent(ims) ==
  UNION {{PlaneBuffers(ims[k])[j] : j \in DOMAIN ims[k].image.planes} : k \in DOMAIN ims}

LEMMA PlanesAreSeqs ==
  ASSUME NEW ims, Given(ims)
  PROVE  /\ Len(ims) \in Nat /\ DOMAIN ims = 1..Len(ims)
         /\ SeqsOf(PlanesSent(ims), Len(ims), BuffersSent(ims))
         /\ \A k \in DOMAIN ims : /\ Len(PlanesSent(ims)[k]) = Len(ims[k].image.planes)
                                  /\ DOMAIN ims[k].image.planes = 1..Len(ims[k].image.planes)
                                  /\ Len(ims[k].image.planes) \in Nat
<1>1. Len(ims) \in Nat /\ DOMAIN ims = 1..Len(ims)
  BY DEF Given, IsArray
<1>2. ASSUME NEW k \in DOMAIN ims
      PROVE  /\ PlanesSent(ims)[k] \in Seq(BuffersSent(ims))
             /\ Len(PlanesSent(ims)[k]) = Len(ims[k].image.planes)
             /\ DOMAIN ims[k].image.planes = 1..Len(ims[k].image.planes)
             /\ Len(ims[k].image.planes) \in Nat
  <2>1. PICK n \in Nat : Len(ims[k].image.planes) = n /\ DOMAIN ims[k].image.planes = 1..n
    BY DEF Given, IsImage, IsArray
  <2>2. PICK s : s = PlaneBuffers(ims[k])
    OBVIOUS
  <2>3. s = [j \in 1..n |-> s[j]]
    BY <2>1, <2>2 DEF PlaneBuffers
  <2>4. \A j \in 1..n : s[j] \in BuffersSent(ims)
    BY <2>1, <2>2 DEF BuffersSent
  <2>5. s \in Seq(BuffersSent(ims)) /\ Len(s) = n
    BY <2>3, <2>4
  <2> QED
    BY <2>1, <2>2, <2>5 DEF PlanesSent
<1> QED
  BY <1>1, <1>2 DEF SeqsOf

LEMMA FirstIsStart ==
  ASSUME NEW before, NEW ims, Given(ims), NEW k \in DOMAIN ims
  PROVE  FirstIndex(before, ims, k) = Len(before) + Start(PlanesSent(ims), k)
<1>1. Len(ims) \in Nat /\ DOMAIN ims = 1..Len(ims)
  BY PlanesAreSeqs
<1>2. \A i \in 1..(k - 1) : PlanesSent(ims)[i] = PlaneBuffers(ims[i])
  BY <1>1 DEF PlanesSent
<1>3. [i \in 1..(k - 1) |-> PlanesSent(ims)[i]] = [i \in 1..(k - 1) |-> PlaneBuffers(ims[i])]
  BY <1>2
<1> QED
  BY <1>3 DEF FirstIndex, Start, Joined

\* The plane of image k with number j has the buffer at Place(k, j), from 1.
Place(a, k, j) == a.images[k].planes[j].index + 1

\* add_images_to_buffer_list appends one buffer for each plane, in order, and
\* convert_image counts out where: the indices name all buffers that were
\* added, each once, and the buffers are those of the planes.
LEMMA Layout ==
  ASSUME NEW B, NEW before \in Seq(B), NEW ims, Given(ims), NEW a, a = AddImages(before, ims)
  PROVE  /\ \E C : a.buffers \in Seq(C)
         /\ Len(before) \in Nat /\ Len(a.buffers) \in Nat
         /\ DOMAIN a.images = DOMAIN ims
         /\ \A i \in 1..Len(before) : i <= Len(a.buffers) /\ a.buffers[i] = before[i]
         /\ Len(before) <= Len(a.buffers)
         /\ \A k \in DOMAIN ims :
              /\ DOMAIN a.images[k].planes = DOMAIN ims[k].image.planes
              /\ \A j \in DOMAIN ims[k].image.planes :
                   /\ a.images[k].planes[j].index \in Nat
                   /\ Place(a, k, j) \in (Len(before) + 1)..Len(a.buffers)
                   /\ a.buffers[Place(a, k, j)] = PlaneBuffers(ims[k])[j]
         /\ \A i \in (Len(before) + 1)..Len(a.buffers) :
              \E k \in DOMAIN ims : \E j \in DOMAIN ims[k].image.planes : i = Place(a, k, j)
         /\ \A k, l \in DOMAIN ims :
              \A j \in DOMAIN ims[k].image.planes, i \in DOMAIN ims[l].image.planes :
                Place(a, k, j) = Place(a, l, i) => k = l /\ j = i
<1>1. PICK n \in Nat : n = Len(ims)
  BY PlanesAreSeqs
<1>2. PICK ss : ss = PlanesSent(ims)
  OBVIOUS
<1>3. PICK S : S = BuffersSent(ims)
  OBVIOUS
<1>4. /\ DOMAIN ims = 1..n /\ SeqsOf(ss, n, S)
      /\ \A k \in 1..n : /\ Len(ss[k]) \in Nat /\ DOMAIN ims[k].image.planes = 1..Len(ss[k])
                         /\ ss[k] = PlaneBuffers(ims[k])
  BY <1>1, <1>2, <1>3, PlanesAreSeqs DEF PlanesSent
<1>5. PICK js : js = Joined(ss, n)
  OBVIOUS
<1>6. js \in Seq(S)
  BY <1>4, <1>5, JoinedSeq
<1>7. a.buffers = before \o js
  <2>1. [k \in DOMAIN ims |-> PlaneBuffers(ims[k])] = [i \in 1..n |-> ss[i]]
    BY <1>4
  <2> QED
    BY <2>1, <1>5 DEF AddImages, Joined
<1>8. PICK m \in Nat : m = Len(before)
  OBVIOUS
<1>9. /\ before \in Seq(B \cup S) /\ js \in Seq(B \cup S)
  BY <1>6
<1>10. /\ a.buffers \in Seq(B \cup S)
       /\ Len(js) \in Nat
       /\ Len(a.buffers) = m + Len(js)
       /\ \A i \in 1..m : a.buffers[i] = before[i]
       /\ \A i \in 1..Len(js) : a.buffers[m + i] = js[i]
  BY <1>7, <1>8, <1>9, Concatenated
<1>11. ASSUME NEW k \in 1..n
       PROVE  /\ DOMAIN a.images[k].planes = 1..Len(ss[k])
              /\ Start(ss, k) \in Nat
              /\ \A j \in 1..Len(ss[k]) :
                   a.images[k].planes[j].index = m + Start(ss, k) + j - 1
  <2>1. Start(ss, k) \in Nat
    BY <1>4, JoinedStep
  <2>2. FirstIndex(before, ims, k) = m + Start(ss, k)
    BY <1>2, <1>4, <1>8, FirstIsStart
  <2>3. a.images[k] = ConvertImage(ims[k].image, m + Start(ss, k))
    BY <1>4, <2>2 DEF AddImages
  <2> QED
    BY <1>4, <2>1, <2>3 DEF ConvertImage
<1>12. ASSUME NEW k \in 1..n, NEW j \in 1..Len(ss[k])
       PROVE  /\ a.images[k].planes[j].index \in Nat
              /\ Place(a, k, j) = m + (Start(ss, k) + j)
              /\ Start(ss, k) + j \in 1..Len(js)
              /\ js[Start(ss, k) + j] = ss[k][j]
  <2>1. n \in 1..n /\ k \in 1..n
    OBVIOUS
  <2>2. Start(ss, k) + j \in 1..Len(js) /\ js[Start(ss, k) + j] = ss[k][j]
    BY <1>4, <1>5, <2>1, JoinedAt
  <2>3. j \in Nat /\ j >= 1
    BY <1>4
  <2>4. a.images[k].planes[j].index = m + Start(ss, k) + j - 1
    BY <1>11
  <2>5. PICK s \in Nat : s = Start(ss, k)
    BY <1>11
  <2>6. m + s + j - 1 \in Nat /\ (m + s + j - 1) + 1 = m + (s + j)
    BY <2>3
  <2> QED
    BY <2>2, <2>4, <2>5, <2>6 DEF Place
<1>13. ASSUME NEW i \in (m + 1)..(m + Len(js))
       PROVE  \E k \in 1..n : \E j \in 1..Len(ss[k]) : i = Place(a, k, j)
  <2>1. i - m \in 1..Len(js) /\ n \in 0..n
    BY <1>10
  <2>2. PICK k \in 1..n : \E j \in 1..Len(ss[k]) : i - m = Start(ss, k) + j
    BY <1>4, <1>5, <2>1, JoinedCovers
  <2>3. PICK j \in 1..Len(ss[k]) : i - m = Start(ss, k) + j
    BY <2>2
  <2>4. i = Place(a, k, j)
    BY <2>3, <1>12
  <2> QED
    BY <2>4
<1>14. ASSUME NEW k \in 1..n, NEW l \in 1..n,
              NEW j \in 1..Len(ss[k]), NEW i \in 1..Len(ss[l]),
              Place(a, k, j) = Place(a, l, i)
       PROVE  k = l /\ j = i
  <2>1. Start(ss, k) + j = Start(ss, l) + i
    <3>1. Start(ss, k) + j \in 1..Len(js) /\ Start(ss, l) + i \in 1..Len(js)
      BY <1>12
    <3>2. m + (Start(ss, k) + j) = m + (Start(ss, l) + i)
      BY <1>12, <1>14
    <3> QED
      BY <3>1, <3>2
  <2> QED
    BY <1>4, <2>1, JoinedOnce
<1>15. DOMAIN a.images = DOMAIN ims
  BY DEF AddImages
<1>16. \A k \in 1..n : \A j \in 1..Len(ss[k]) :
         /\ Place(a, k, j) \in (m + 1)..(m + Len(js))
         /\ a.buffers[Place(a, k, j)] = PlaneBuffers(ims[k])[j]
  <2> SUFFICES ASSUME NEW k \in 1..n, NEW j \in 1..Len(ss[k])
               PROVE  /\ Place(a, k, j) \in (m + 1)..(m + Len(js))
                      /\ a.buffers[Place(a, k, j)] = PlaneBuffers(ims[k])[j]
    OBVIOUS
  <2>1. PICK e \in 1..Len(js) : e = Start(ss, k) + j /\ Place(a, k, j) = m + e /\ js[e] = ss[k][j]
    BY <1>12
  <2>2. a.buffers[m + e] = js[e] /\ m + e \in (m + 1)..(m + Len(js))
    BY <1>10
  <2> QED
    BY <1>4, <2>1, <2>2
<1>17. \A i \in 1..m : i <= m + Len(js)
  BY <1>10
<1>18. \A k \in 1..n : \A j \in 1..Len(ss[k]) : a.images[k].planes[j].index \in Nat
  BY <1>12
<1>19. m <= m + Len(js) /\ m + Len(js) \in Nat
  BY <1>10
<1>20. ASSUME NEW k \in DOMAIN ims
       PROVE  /\ DOMAIN a.images[k].planes = DOMAIN ims[k].image.planes
              /\ \A j \in DOMAIN ims[k].image.planes :
                   /\ a.images[k].planes[j].index \in Nat
                   /\ Place(a, k, j) \in (Len(before) + 1)..Len(a.buffers)
                   /\ a.buffers[Place(a, k, j)] = PlaneBuffers(ims[k])[j]
  BY <1>4, <1>8, <1>10, <1>11, <1>16, <1>18
<1>21. ASSUME NEW i \in (Len(before) + 1)..Len(a.buffers)
       PROVE  \E k \in DOMAIN ims : \E j \in DOMAIN ims[k].image.planes : i = Place(a, k, j)
  <2>1. i \in (m + 1)..(m + Len(js))
    BY <1>8, <1>10
  <2>2. PICK k \in 1..n : \E j \in 1..Len(ss[k]) : i = Place(a, k, j)
    BY <2>1, <1>13
  <2>3. k \in DOMAIN ims /\ DOMAIN ims[k].image.planes = 1..Len(ss[k])
    BY <1>4
  <2> QED
    BY <2>2, <2>3
<1>22. ASSUME NEW k \in DOMAIN ims, NEW l \in DOMAIN ims,
              NEW j \in DOMAIN ims[k].image.planes, NEW i \in DOMAIN ims[l].image.planes,
              Place(a, k, j) = Place(a, l, i)
       PROVE  k = l /\ j = i
  BY <1>4, <1>14, <1>22
<1>23. \E C : a.buffers \in Seq(C)
  BY <1>10
<1>24. /\ Len(before) \in Nat /\ Len(a.buffers) \in Nat /\ Len(before) <= Len(a.buffers)
       /\ \A i \in 1..Len(before) : i <= Len(a.buffers) /\ a.buffers[i] = before[i]
  BY <1>8, <1>10, <1>17, <1>19
<1> QED
  BY <1>15, <1>20, <1>21, <1>22, <1>23, <1>24

-----------------------------------------------------------------------------
(* The outputs of a call to dsp_multi_crop_and_resize that are there: each *)
(* of them once.                                                           *)

Rank(P, i) == Cardinality(P \cap (1..i))

LEMMA RankType ==
  ASSUME NEW n \in Nat, NEW P \in SUBSET (1..n), NEW i \in Nat
  PROVE  /\ IsFiniteSet(P) /\ Cardinality(P) \in Nat
         /\ IsFiniteSet(P \cap (1..i)) /\ Rank(P, i) \in Nat /\ Rank(P, i) <= Cardinality(P)
<1>1. IsFiniteSet(P)
  <2>1. IsFiniteSet(1..n)
    BY FS_Interval
  <2> QED
    BY <2>1, FS_Subset
<1>2. P \cap (1..i) \subseteq P
  OBVIOUS
<1>3. IsFiniteSet(P \cap (1..i)) /\ Cardinality(P \cap (1..i)) <= Cardinality(P)
  BY <1>1, <1>2, FS_Subset
<1> QED
  BY <1>1, <1>3, FS_CardinalityType DEF Rank

LEMMA RankStep ==
  ASSUME NEW n \in Nat, NEW P \in SUBSET (1..n), NEW i \in Nat
  PROVE  Rank(P, i + 1) = Rank(P, i) + (IF i + 1 \in P THEN 1 ELSE 0)
<1>1. CASE i + 1 \in P
  <2>1. P \cap (1..(i + 1)) = (P \cap (1..i)) \cup {i + 1} /\ i + 1 \notin P \cap (1..i)
    BY <1>1
  <2>2. Cardinality((P \cap (1..i)) \cup {i + 1}) = Cardinality(P \cap (1..i)) + 1
    BY <2>1, RankType, FS_AddElement
  <2> QED
    BY <1>1, <2>1, <2>2 DEF Rank
<1>2. CASE i + 1 \notin P
  <2>1. P \cap (1..(i + 1)) = P \cap (1..i)
    BY <1>2
  <2> QED
    <3>1. Rank(P, i + 1) = Rank(P, i) /\ Rank(P, i) \in Nat
      BY <2>1, RankType DEF Rank
    <3> QED
      BY <1>2, <3>1
<1> QED
  BY <1>1, <1>2

LEMMA RankTaken ==
  ASSUME NEW n \in Nat, NEW P \in SUBSET (1..n), NEW k \in 1..Cardinality(P)
  PROVE  \E i \in P : Rank(P, i) = k
<1> DEFINE T == {i \in Nat : Rank(P, i) >= k}
<1>k. k \in Nat /\ k >= 1
  OBVIOUS
<1>1. n \in T
  <2>1. P \cap (1..n) = P
    OBVIOUS
  <2> QED
    BY <2>1, RankType DEF Rank
<1>2. PICK x \in T : \A y \in T : x <= y
  <2> T \in SUBSET Nat
    OBVIOUS
  <2> HIDE DEF T
  <2> QED
    BY <1>1, Least
<1>3. x # 0
  <2>1. P \cap (1..0) = {}
    OBVIOUS
  <2>2. Rank(P, 0) = 0
    BY <2>1, FS_EmptySet DEF Rank
  <2> QED
    BY <2>2
<1>4. PICK y \in Nat : y + 1 = x
  <2>1. x - 1 \in Nat /\ (x - 1) + 1 = x
    BY <1>3
  <2> QED
    BY <2>1
<1>5. Rank(P, y) < k /\ Rank(P, y) \in Nat
  <2>1. Rank(P, y) \in Nat
    BY RankType
  <2>2. y \notin T
    BY <1>2, <1>4
  <2> QED
    BY <2>1, <2>2
<1>6. Rank(P, x) = Rank(P, y) + (IF x \in P THEN 1 ELSE 0)
  BY <1>4, RankStep
<1>7. Rank(P, x) >= k
  OBVIOUS
<1> QED
  BY <1>5, <1>6, <1>7

LEMMA RankOnce ==
  ASSUME NEW n \in Nat, NEW P \in SUBSET (1..n), NEW i \in P, NEW l \in P,
         Rank(P, i) = Rank(P, l)
  PROVE  i = l
<1>1. ASSUME NEW a \in P, NEW b \in P, a < b PROVE Rank(P, a) # Rank(P, b)
  <2>1. P \cap (1..a) \subseteq P \cap (1..b)
    BY <1>1
  <2>2. b \in P \cap (1..b) /\ b \notin P \cap (1..a)
    BY <1>1
  <2>3. b \in Nat
    OBVIOUS
  <2>4. IsFiniteSet(P \cap (1..b))
    BY <2>3, RankType
  <2> QED
    BY <2>1, <2>2, <2>4, FS_Subset DEF Rank
<1>2. ~(i < l) /\ ~(l < i)
  BY <1>1
<1> QED
  BY <1>2

LEMMA RankInRange ==
  ASSUME NEW n \in Nat, NEW P \in SUBSET (1..n), NEW i \in P
  PROVE  Rank(P, i) \in 1..Cardinality(P)
<1>1. PICK y \in Nat : i \in Nat /\ y + 1 = i
  <2>1. i \in Nat /\ i - 1 \in Nat /\ (i - 1) + 1 = i
    OBVIOUS
  <2> QED
    BY <2>1
<1>2. Rank(P, i) = Rank(P, y) + 1 /\ Rank(P, y) \in Nat
  <2>1. Rank(P, y + 1) = Rank(P, y) + (IF y + 1 \in P THEN 1 ELSE 0)
    BY RankStep
  <2>2. Rank(P, y) \in Nat
    BY RankType
  <2> QED
    BY <1>1, <2>1, <2>2
<1>3. Rank(P, i) <= Cardinality(P) /\ Cardinality(P) \in Nat /\ Rank(P, i) \in Nat
  BY <1>1, RankType
<1> QED
  BY <1>2, <1>3

LEMMA OutputsThere ==
  ASSUME NEW dsts
  PROVE  \E n \in Nat :
           /\ PresentOutputs(dsts) = [k \in 1..n |-> PresentOutputs(dsts)[k]]
           /\ \A k \in 1..n : \E i \in Present(dsts) : PresentOutputs(dsts)[k] = dsts[i]
           /\ \A i \in Present(dsts) : \E k \in 1..n : PresentOutputs(dsts)[k] = dsts[i]
<1>1. PICK m \in Nat : m = MultiOutputs
  BY LimitAssumption
<1>2. PICK P \in SUBSET (1..m) : P = Present(dsts)
  BY <1>1 DEF Present
<1>3. PICK n \in Nat : n = Cardinality(P)
  BY <1>1, RankType
<1> DEFINE place(k) == CHOOSE i \in P : Rank(P, i) = k
<1>4. PresentOutputs(dsts) = [k \in 1..n |-> dsts[place(k)]]
  BY <1>2, <1>3 DEF PresentOutputs, Rank
<1>5. ASSUME NEW k \in 1..n PROVE place(k) \in P /\ Rank(P, place(k)) = k
  <2>1. \E i \in P : Rank(P, i) = k
    BY <1>3, RankTaken
  <2> QED
    BY <2>1
<1>6. ASSUME NEW i \in P PROVE \E k \in 1..n : place(k) = i
  <2>1. PICK k \in 1..n : k = Rank(P, i)
    BY <1>3, RankInRange
  <2>2. place(k) \in P /\ Rank(P, place(k)) = Rank(P, i)
    BY <2>1, <1>5
  <2> HIDE DEF place
  <2>3. place(k) = i
    BY <2>2, RankOnce
  <2> QED
    BY <2>3
<1> HIDE DEF place
<1>7. \A k \in 1..n : PresentOutputs(dsts)[k] = dsts[place(k)]
  BY <1>4
<1>8. PresentOutputs(dsts) = [k \in 1..n |-> PresentOutputs(dsts)[k]]
  BY <1>4
<1> QED
  BY <1>2, <1>5, <1>6, <1>7, <1>8

-----------------------------------------------------------------------------
(* What a command holds: the images the operation works on, each with the  *)
(* access the DSP has to it, behind the mesh if there is one and before    *)
(* the bitmask if there is one.                                            *)

\* The buffer b is the one of the side table t.
TableBuffer(t, b) == b.size = t.size /\ b.access = {"R"} /\ t # NULL

Tables(q, before, added) ==
  /\ \/ q.mesh = NULL /\ before = <<>>
     \/ /\ q.mask = NULL /\ q.mesh.index = 0
        /\ \E b : before = <<b>> /\ TableBuffer(q.mesh, b)
  /\ \/ q.mask = NULL /\ q.buffers = added
     \/ /\ q.mesh = NULL /\ q.mask.index = Len(added)
        /\ \E b : q.buffers = Append(added, b) /\ TableBuffer(q.mask, b)

With(ims, a) == {ims[k].image : k \in {i \in DOMAIN ims : a \in ims[i].access}}

Works(c, ims) ==
  /\ Given(ims)
  /\ 1 \in DOMAIN ims /\ ims[1].image = c.src
  /\ With(ims, "W") = Outputs(c)
  /\ Inputs(c) \subseteq With(ims, "R")
  /\ \A k \in DOMAIN ims : ims[k].access # {} /\ ims[k].image \in Inputs(c) \cup Outputs(c)
  /\ \A k \in DOMAIN ims : ~(k = 1 /\ c.op \in {"CROP", "MULTI"}) => VerifyImage(ims[k].image)

Shaped(c, q, before, ims) ==
  /\ Works(c, ims)
  /\ q.images = AddImages(before, ims).images
  /\ Tables(q, before, AddImages(before, ims).buffers)

LEMMA FewPlanes ==
  ASSUME NEW image, VerifyImage(image)
  PROVE  /\ Len(image.planes) \in 1..4 /\ Len(image.planes) <= 4
         /\ image.format \in {"GRAY8", "RGB", "NV12", "A420"}
         /\ Len(image.planes) = Len(PlaneLayout[image.format])
<1>1. DOMAIN PlaneLayout = {"GRAY8", "RGB", "NV12", "A420"}
  BY DEF PlaneLayout
<1>2. \A f \in DOMAIN PlaneLayout : Len(PlaneLayout[f]) \in 1..4
  BY <1>1 DEF PlaneLayout
<1>3. \A n \in 1..4 : n <= 4
  OBVIOUS
<1> QED
  BY <1>1, <1>2, <1>3 DEF VerifyImage

LEMMA CroppedFields ==
  ASSUME NEW s, IsImage(s), NEW r
  PROVE  /\ Cropped(s, r).planes = s.planes /\ Cropped(s, r).format = s.format
         /\ Cropped(s, r).width = r.end_x - r.start_x
         /\ Cropped(s, r).height = r.end_y - r.start_y
BY DEF Cropped, IsImage

LEMMA SourceFits ==
  ASSUME NEW s \in Sources \ {NULL}, NEW r, VerifyImage(Cropped(s, r))
  PROVE  /\ IsImage(s) /\ Len(s.planes) <= 4
         /\ r = WholeImage(s) => VerifyImage(s)
<1>1. IsImage(s)
  BY InputAssumption
<1>2. Len(s.planes) <= 4
  <2>1. Len(Cropped(s, r).planes) <= 4
    BY FewPlanes
  <2> QED
    BY <1>1, <2>1, CroppedFields
<1>3. ASSUME r = WholeImage(s) PROVE VerifyImage(s)
  <2>1. s.width \in Nat /\ s.height \in Nat
    BY <1>1, WordAssumption DEF IsImage, HasSides, SizeT
  <2>2. r.end_x - r.start_x = s.width /\ r.end_y - r.start_y = s.height
    BY <1>3, <2>1 DEF WholeImage
  <2>3. \A p, l : VerifyPlane(Cropped(s, r), p, l) => VerifyPlane(s, p, l)
    BY <1>1, <2>2, CroppedFields DEF VerifyPlane
  <2>4. VerifyYuv420(Cropped(s, r)) => VerifyYuv420(s)
    BY <1>1, <2>2, CroppedFields DEF VerifyYuv420
  <2> QED
    BY <1>1, <2>2, <2>3, <2>4, CroppedFields DEF VerifyImage
<1> QED
  BY <1>1, <1>2, <1>3

LEMMA ImageFits ==
  ASSUME NEW s \in (Sources \cup Targets) \ {NULL}, VerifyImage(s)
  PROVE  IsImage(s) /\ Len(s.planes) <= 4
<1>1. IsImage(s)
  BY InputAssumption
<1>2. Len(s.planes) <= 4
  BY FewPlanes
<1> QED
  BY <1>1, <1>2

\* The operations from one image to another.
LEMMA TwoWorks ==
  ASSUME NEW c, c.op \in {"CROP", "RESIZE", "CONVERT", "DEWARP"},
         IsImage(c.src), Len(c.src.planes) <= 4, IsImage(c.dst), VerifyImage(c.dst),
         c.op # "CROP" => VerifyImage(c.src)
  PROVE  Works(c, <<Read(c.src), Write(c.dst)>>)
<1> DEFINE ims == <<Read(c.src), Write(c.dst)>>
<1>1. /\ DOMAIN ims = 1..2 /\ Len(ims) = 2
      /\ ims[1].image = c.src /\ ims[1].access = {"R"}
      /\ ims[2].image = c.dst /\ ims[2].access = {"W"}
  BY DEF Read, Write
<1> HIDE DEF ims
<1>2. \A k \in DOMAIN ims : k = 1 \/ k = 2
  BY <1>1
<1>3. 1 \in DOMAIN ims /\ 2 \in DOMAIN ims
  BY <1>1
<1>4. Given(ims)
  <2>1. Len(c.dst.planes) <= 4
    BY FewPlanes
  <2> QED
    BY <1>1, <1>2, <2>1 DEF Given, IsArray
<1>5. Outputs(c) = {c.dst} /\ Inputs(c) = {c.src}
  BY DEF Outputs, Inputs
<1>6. With(ims, "W") = {c.dst} /\ With(ims, "R") = {c.src}
  BY <1>1, <1>2, <1>3 DEF With
<1> QED
  BY <1>1, <1>2, <1>3, <1>4, <1>5, <1>6 DEF Works, ims
\* The operations with a list of further images behind the first.
LEMMA ListWorks ==
  ASSUME NEW c, NEW first, NEW n \in Nat, NEW rest, rest = [i \in 1..n |-> rest[i]],
         first.image = c.src, IsImage(c.src), Len(c.src.planes) <= 4,
         c.op # "MULTI" => VerifyImage(c.src),
         \A i \in 1..n : IsImage(rest[i].image) /\ VerifyImage(rest[i].image)
  PROVE  LET ims == <<first>> \o rest
         IN  /\ Given(ims) /\ DOMAIN ims = 1..(n + 1)
             /\ ims[1] = first /\ \A i \in 1..n : ims[i + 1] = rest[i]
             /\ \A k \in DOMAIN ims : k = 1 \/ (k - 1 \in 1..n /\ ims[k] = rest[k - 1])
             /\ \A k \in DOMAIN ims :
                  ~(k = 1 /\ c.op \in {"CROP", "MULTI"}) => VerifyImage(ims[k].image)
<1> DEFINE ims == <<first>> \o rest
           S == {first} \cup {rest[i] : i \in 1..n}
<1>1. <<first>> \in Seq(S) /\ Len(<<first>>) = 1 /\ <<first>>[1] = first
  OBVIOUS
<1>2. rest \in Seq(S) /\ Len(rest) = n
  OBVIOUS
<1> HIDE DEF S
<1>3. ims \in Seq(S) /\ Len(ims) = n + 1 /\ ims[1] = first /\ \A i \in 1..n : ims[i + 1] = rest[i]
  BY <1>1, <1>2
<1> HIDE DEF ims
<1>4. DOMAIN ims = 1..(n + 1) /\ IsArray(ims)
  BY <1>3 DEF IsArray
<1>5. ASSUME NEW k \in DOMAIN ims PROVE k = 1 \/ (k - 1 \in 1..n /\ ims[k] = rest[k - 1])
  <2>1. CASE k # 1
    <3>1. k - 1 \in 1..n /\ (k - 1) + 1 = k
      BY <1>4, <2>1
    <3> QED
      BY <1>3, <3>1
  <2> QED
    BY <2>1
<1>6. ASSUME NEW k \in DOMAIN ims
      PROVE  /\ IsImage(ims[k].image) /\ Len(ims[k].image.planes) <= 4
             /\ ~(k = 1 /\ c.op \in {"CROP", "MULTI"}) => VerifyImage(ims[k].image)
  <2>1. CASE k = 1
    BY <1>3, <2>1
  <2>2. CASE k # 1
    <3>1. IsImage(ims[k].image) /\ VerifyImage(ims[k].image)
      BY <1>5, <2>2
    <3>2. Len(ims[k].image.planes) <= 4
      BY <3>1, FewPlanes
    <3> QED
      BY <3>1, <3>2
  <2> QED
    BY <2>1, <2>2
<1>7. Given(ims)
  BY <1>4, <1>6 DEF Given
<1> QED
  BY <1>3, <1>4, <1>5, <1>6, <1>7 DEF ims
MultiImages(c) ==
  LET outputs == PresentOutputs(c.dsts)
  IN  <<Read(c.src)>> \o [i \in DOMAIN outputs |-> Write(outputs[i])]

LEMMA MultiWorks ==
  ASSUME NEW c, c.op = "MULTI", c.src \in Sources \ {NULL}, c.dsts \in TargetLists,
         MultiAccepted(c)
  PROVE  Works(c, MultiImages(c))
<1> DEFINE outputs == PresentOutputs(c.dsts)
           rest == [i \in DOMAIN outputs |-> Write(outputs[i])]
           ims == <<Read(c.src)>> \o rest
<1>1. PICK n \in Nat :
        /\ outputs = [k \in 1..n |-> outputs[k]]
        /\ \A k \in 1..n : \E i \in Present(c.dsts) : outputs[k] = c.dsts[i]
        /\ \A i \in Present(c.dsts) : \E k \in 1..n : outputs[k] = c.dsts[i]
  BY OutputsThere
<1>2. /\ rest = [i \in 1..n |-> rest[i]]
      /\ \A k \in 1..n : rest[k].image = outputs[k] /\ rest[k].access = {"W"}
  BY <1>1 DEF Write
<1>3. ASSUME NEW i \in Present(c.dsts) PROVE IsImage(c.dsts[i]) /\ VerifyImage(c.dsts[i])
  BY InputAssumption DEF Present, MultiAccepted
<1>4. ASSUME NEW k \in 1..n PROVE IsImage(rest[k].image) /\ VerifyImage(rest[k].image)
  BY <1>1, <1>2, <1>3
<1>5. Outputs(c) = {outputs[k] : k \in 1..n}
  <2>1. DOMAIN c.dsts = 1..MultiOutputs
    BY InputAssumption
  <2>2. Outputs(c) = {c.dsts[i] : i \in 1..MultiOutputs} \ {NULL}
    BY <2>1 DEF Outputs
  <2>3. {c.dsts[i] : i \in 1..MultiOutputs} \ {NULL} = {c.dsts[i] : i \in Present(c.dsts)}
    BY DEF Present
  <2>4. \A k \in 1..n : outputs[k] \in {c.dsts[i] : i \in Present(c.dsts)}
    BY <1>1
  <2>5. \A i \in Present(c.dsts) : c.dsts[i] \in {outputs[k] : k \in 1..n}
    BY <1>1
  <2> HIDE DEF outputs
  <2> QED
    BY <2>2, <2>3, <2>4, <2>5
<1>6. Inputs(c) = {c.src}
  BY DEF Inputs
<1>7. IsImage(c.src) /\ Len(c.src.planes) <= 4
  BY SourceFits DEF MultiAccepted
<1>8. Read(c.src).image = c.src /\ Read(c.src).access = {"R"}
  BY DEF Read
<1> HIDE DEF rest, outputs
<1>9. /\ Given(ims) /\ DOMAIN ims = 1..(n + 1)
      /\ ims[1] = Read(c.src) /\ \A i \in 1..n : ims[i + 1] = rest[i]
      /\ \A k \in DOMAIN ims : k = 1 \/ (k - 1 \in 1..n /\ ims[k] = rest[k - 1])
      /\ \A k \in DOMAIN ims : ~(k = 1 /\ c.op \in {"CROP", "MULTI"}) => VerifyImage(ims[k].image)
  BY <1>2, <1>4, <1>7, <1>8, ListWorks
<1> HIDE DEF ims
<1>10. \A k \in 1..n : k + 1 \in DOMAIN ims
  BY <1>9
<1>11. 1 \in DOMAIN ims
  BY <1>9
<1>12. With(ims, "W") = Outputs(c)
  <2>1. ASSUME NEW k \in 1..n PROVE outputs[k] \in With(ims, "W")
    BY <1>2, <1>9, <1>10 DEF With
  <2>2. ASSUME NEW k \in DOMAIN ims, "W" \in ims[k].access
        PROVE  ims[k].image \in Outputs(c)
    <3>1. k # 1
      BY <1>8, <1>9, <2>2
    <3>2. PICK e \in 1..n : ims[k] = rest[e]
      BY <1>9, <3>1
    <3> QED
      BY <1>2, <1>5, <3>2
  <2> QED
    BY <1>5, <2>1, <2>2 DEF With
<1>13. c.src \in With(ims, "R")
  BY <1>8, <1>9, <1>11 DEF With
<1>14. ASSUME NEW k \in DOMAIN ims
       PROVE  ims[k].access # {} /\ ims[k].image \in Inputs(c) \cup Outputs(c)
  <2>1. CASE k = 1
    BY <1>6, <1>8, <1>9, <2>1
  <2>2. CASE k # 1
    <3>1. PICK e \in 1..n : ims[k] = rest[e]
      BY <1>9, <2>2
    <3> QED
      BY <1>2, <1>5, <3>1
  <2> QED
    BY <2>1, <2>2
<1> QED
  BY <1>6, <1>8, <1>9, <1>11, <1>12, <1>13, <1>14 DEF Works, MultiImages, ims, rest, outputs

BlendImages(c) ==
  <<ReadWrite(c.src)>> \o [i \in DOMAIN c.overlays |-> Read(c.overlays[i].overlay)]

LEMMA BlendWorks ==
  ASSUME NEW c, c.op = "BLEND", c.src \in Sources \ {NULL}, c.overlays \in OverlayLists \ {NULL},
         BlendAccepted(c)
  PROVE  Works(c, BlendImages(c))
<1> DEFINE os == c.overlays
           rest == [i \in DOMAIN os |-> Read(os[i].overlay)]
           ims == <<ReadWrite(c.src)>> \o rest
<1>1. PICK n \in Nat : n = Len(os) /\ DOMAIN os = 1..n
  BY InputAssumption DEF IsArray
<1>2. /\ rest = [i \in 1..n |-> rest[i]]
      /\ \A k \in 1..n : rest[k].image = os[k].overlay /\ rest[k].access = {"R"}
  BY <1>1 DEF Read
<1>3. ASSUME NEW k \in 1..n PROVE IsImage(rest[k].image) /\ VerifyImage(rest[k].image)
  BY <1>1, <1>2, InputAssumption DEF BlendAccepted
<1>4. Outputs(c) = {c.src} /\ Inputs(c) = {c.src} \cup {os[k].overlay : k \in 1..n}
  BY <1>1 DEF Outputs, Inputs
<1>5. IsImage(c.src) /\ Len(c.src.planes) <= 4 /\ VerifyImage(c.src)
  BY ImageFits DEF BlendAccepted
<1>6. ReadWrite(c.src).image = c.src /\ ReadWrite(c.src).access = {"R", "W"}
  BY DEF ReadWrite
<1> HIDE DEF rest, os
<1>7. /\ Given(ims) /\ DOMAIN ims = 1..(n + 1)
      /\ ims[1] = ReadWrite(c.src) /\ \A i \in 1..n : ims[i + 1] = rest[i]
      /\ \A k \in DOMAIN ims : k = 1 \/ (k - 1 \in 1..n /\ ims[k] = rest[k - 1])
      /\ \A k \in DOMAIN ims : ~(k = 1 /\ c.op \in {"CROP", "MULTI"}) => VerifyImage(ims[k].image)
  BY <1>2, <1>3, <1>5, <1>6, ListWorks
<1> HIDE DEF ims
<1>8. 1 \in DOMAIN ims /\ \A k \in 1..n : k + 1 \in DOMAIN ims
  BY <1>7
<1>9. With(ims, "W") = {c.src}
  <2>1. c.src \in With(ims, "W")
    BY <1>6, <1>7, <1>8 DEF With
  <2>2. ASSUME NEW k \in DOMAIN ims, "W" \in ims[k].access PROVE ims[k].image = c.src
    <3>1. CASE k = 1
      BY <1>6, <1>7, <3>1
    <3>2. CASE k # 1
      <4>1. PICK e \in 1..n : ims[k] = rest[e]
        BY <1>7, <3>2
      <4> QED
        BY <1>2, <2>2, <4>1
    <3> QED
      BY <3>1, <3>2
  <2> QED
    BY <2>1, <2>2 DEF With
<1>10. Inputs(c) \subseteq With(ims, "R")
  <2>1. c.src \in With(ims, "R")
    BY <1>6, <1>7, <1>8 DEF With
  <2>2. ASSUME NEW k \in 1..n PROVE os[k].overlay \in With(ims, "R")
    BY <1>2, <1>7, <1>8 DEF With
  <2> QED
    BY <1>4, <2>1, <2>2
<1>11. ASSUME NEW k \in DOMAIN ims
       PROVE  ims[k].access # {} /\ ims[k].image \in Inputs(c) \cup Outputs(c)
  <2>1. CASE k = 1
    BY <1>4, <1>6, <1>7, <2>1
  <2>2. CASE k # 1
    <3>1. PICK e \in 1..n : ims[k] = rest[e]
      BY <1>7, <2>2
    <3> QED
      BY <1>2, <1>4, <3>1
  <2> QED
    BY <2>1, <2>2
<1> QED
  BY <1>4, <1>6, <1>7, <1>8, <1>9, <1>10, <1>11 DEF Works, BlendImages, ims, rest, os

LEMMA BlurWorks ==
  ASSUME NEW c, c.op = "BLUR", c.src \in Sources \ {NULL}, BlurAccepted(c)
  PROVE  Works(c, <<ReadWrite(c.src)>>)
<1> DEFINE ims == <<ReadWrite(c.src)>>
<1>1. /\ DOMAIN ims = {1} /\ DOMAIN ims = 1..1 /\ Len(ims) = 1
      /\ ims[1].image = c.src /\ ims[1].access = {"R", "W"}
  BY DEF ReadWrite
<1>2. IsImage(c.src) /\ Len(c.src.planes) <= 4 /\ VerifyImage(c.src)
  BY ImageFits DEF BlurAccepted
<1> HIDE DEF ims
<1>3. Given(ims)
  BY <1>1, <1>2 DEF Given, IsArray
<1>4. Outputs(c) = {c.src} /\ Inputs(c) = {c.src}
  BY DEF Outputs, Inputs
<1>5. With(ims, "W") = {c.src} /\ With(ims, "R") = {c.src}
  BY <1>1 DEF With
<1> QED
  BY <1>1, <1>2, <1>3, <1>4, <1>5 DEF Works, ims
\* The numbers the DSP is given, and the side tables' descriptions.
LEMMA NarrowRange ==
  ASSUME NEW n \in Nat
  PROVE  U32(n) \in Nat /\ U32(n) < U32Mod /\ U32(n) <= n
<1>1. U32Mod \in Nat \ {0}
  BY WordAssumption
<1>2. PICK m \in Nat \ {0} : m = U32Mod
  BY <1>1
<1>3. n % m \in Nat /\ n % m < m /\ n % m <= n
  OBVIOUS
<1> QED
  BY <1>2, <1>3 DEF U32

LEMMA SizeRange ==
  ASSUME NEW n \in Nat
  PROVE  Size(n) \in Nat /\ Size(n) < SizeMod /\ Size(n) <= n
<1>1. PICK m \in Nat \ {0} : m = SizeMod
  BY WordAssumption
<1>2. n % m \in Nat /\ n % m < m /\ n % m <= n
  OBVIOUS
<1> QED
  BY <1>1, <1>2 DEF Size

LEMMA MaskSizes ==
  ASSUME NEW s, IsImage(s)
  PROVE  MaskStride(s) \in Nat /\ MaskSize(s) \in Nat /\ MaskLines(s) \in Nat
<1>1. Double(s.width) \in Nat /\ Double(s.height) \in Nat
  <2>1. /\ s.width \in Nat /\ s.height \in Nat
        /\ s.width < SizeMod /\ s.height < SizeMod
    BY WordAssumption DEF IsImage, HasSides, SizeT
  <2> QED
    BY <2>1, DoubleNat
<1>2. MaskStride(s) \in Nat /\ MaskLines(s) \in Nat
  BY <1>1 DEF MaskStride, MaskLines, RoundUp, CeilDiv, MaskQuantization
<1>3. MaskStride(s) * MaskLines(s) \in Nat
  BY <1>2
<1> QED
  BY <1>2, <1>3, SizeRange DEF MaskSize

LEMMA RoiNumbers ==
  ASSUME NEW r, HasRoi(r)
  PROVE  RoiU32(r) \in [start_x : Nat, start_y : Nat, end_x : Nat, end_y : Nat]
<1>1. {r.start_x, r.start_y, r.end_x, r.end_y} \subseteq Nat
  BY WordAssumption DEF HasRoi, SizeT
<1> QED
  BY <1>1, NarrowRange DEF RoiU32

LEMMA MaskTableThere ==
  ASSUME NEW s, IsImage(s), NEW m \in Masks \ {NULL}, NEW n \in Nat
  PROVE  [index |-> n, stride |-> U32(MaskStride(s)), size |-> U32(MaskSize(s)),
          rois |-> [i \in DOMAIN m.rois |-> RoiU32(m.rois[i])]] # NULL
<1> DEFINE R == [start_x : Nat, start_y : Nat, end_x : Nat, end_y : Nat]
           rs == [i \in DOMAIN m.rois |-> RoiU32(m.rois[i])]
<1>1. PICK k \in Nat : DOMAIN m.rois = 1..k
  BY InputAssumption DEF HasRois, IsArray
<1>2. \A i \in 1..k : rs[i] \in R
  BY <1>1, InputAssumption, RoiNumbers DEF HasRois
<1>3. rs = [i \in 1..k |-> rs[i]]
  BY <1>1
<1> HIDE DEF rs, R
<1>4. rs \in Seq(R)
  BY <1>2, <1>3
<1>5. U32(MaskStride(s)) \in Nat /\ U32(MaskSize(s)) \in Nat
  BY MaskSizes, NarrowRange
<1>6. [index |-> n, stride |-> U32(MaskStride(s)), size |-> U32(MaskSize(s)), rois |-> rs]
        \in [index : Nat, stride : Nat, size : Nat, rois : Seq(R)]
  BY <1>4, <1>5
<1> QED
  BY <1>6, NullAssumption DEF rs, R

LEMMA MeshNumbers ==
  ASSUME NEW m \in Meshes \ {NULL}
  PROVE  /\ m.width \in Nat /\ m.height \in Nat
         /\ Size(m.width * 2 * 4) \in Nat
         /\ Size(Size(m.width * 2 * 4) * m.height) \in Nat
<1>1. m.width \in Nat /\ m.height \in Nat
  BY InputAssumption, WordAssumption DEF SizeT
<1>2. m.width * 2 * 4 \in Nat
  BY <1>1
<1>3. Size(m.width * 2 * 4) \in Nat
  BY <1>2, SizeRange
<1>4. Size(m.width * 2 * 4) * m.height \in Nat
  BY <1>1, <1>3
<1> QED
  BY <1>1, <1>3, <1>4, SizeRange

LEMMA MeshTableThere ==
  ASSUME NEW m \in Meshes \ {NULL}
  PROVE  [index |-> 0, stride |-> U32(Size(m.width * 2 * 4)),
          size |-> U32(Size(Size(m.width * 2 * 4) * m.height)),
          width |-> U32(m.width), height |-> U32(m.height)] # NULL
<1>1. /\ U32(Size(m.width * 2 * 4)) \in Nat
      /\ U32(Size(Size(m.width * 2 * 4) * m.height)) \in Nat
      /\ U32(m.width) \in Nat /\ U32(m.height) \in Nat
  BY MeshNumbers, NarrowRange
<1>2. [index |-> 0, stride |-> U32(Size(m.width * 2 * 4)),
       size |-> U32(Size(Size(m.width * 2 * 4) * m.height)),
       width |-> U32(m.width), height |-> U32(m.height)]
        \in [index : Nat, stride : Nat, size : Nat, width : Nat, height : Nat]
  BY <1>1
<1> QED
  BY <1>2, NullAssumption
MeshBuffer(c) ==
  AddBuffer(<<>>, c.mesh.table, Size(Size(c.mesh.width * 2 * 4) * c.mesh.height), {"R"})

\* Every command has that shape.
LEMMA SentShaped ==
  ASSUME NEW c, NEW q, Sent(c, q)
  PROVE  \E B, before, ims : before \in Seq(B) /\ Shaped(c, q, before, ims)
<1>e. ASSUME NEW ims, Works(c, ims), q.images = AddImages(<<>>, ims).images,
             Tables(q, <<>>, AddImages(<<>>, ims).buffers)
      PROVE  \E B, before, jms : before \in Seq(B) /\ Shaped(c, q, before, jms)
  <2>1. <<>> \in Seq({}) /\ Shaped(c, q, <<>>, ims)
    BY <1>e DEF Shaped
  <2> QED
    BY <2>1
<1>1. CASE /\ c.op \in {"CROP", "RESIZE"}
           /\ c.src \in Sources \ {NULL} /\ c.dst \in Targets /\ HasRoi(c.roi)
           /\ c.op = "RESIZE" => c.roi = WholeImage(c.src)
           /\ CropAccepted(c) /\ q = CropRequest(c)
  <2>1. /\ q.images = AddImages(<<>>, <<Read(c.src), Write(c.dst)>>).images
        /\ q.buffers = AddImages(<<>>, <<Read(c.src), Write(c.dst)>>).buffers
        /\ q.mask = NULL /\ q.mesh = NULL
    BY <1>1 DEF CropRequest, Request
  <2>2. IsImage(c.dst) /\ VerifyImage(c.dst)
    BY <1>1, InputAssumption DEF CropAccepted, VerifyImage
  <2>3. /\ IsImage(c.src) /\ Len(c.src.planes) <= 4
        /\ c.op # "CROP" => VerifyImage(c.src)
    BY <1>1, SourceFits DEF CropAccepted
  <2>4. Works(c, <<Read(c.src), Write(c.dst)>>)
    BY <1>1, <2>2, <2>3, TwoWorks
  <2> QED
    BY <1>e, <2>1, <2>4 DEF Tables
<1>2. CASE /\ c.op = "MULTI"
           /\ c.src \in Sources \ {NULL} /\ c.dsts \in TargetLists /\ HasRoi(c.roi)
           /\ c.mask \in Masks /\ MultiAccepted(c) /\ q = MultiRequest(c)
  <2> DEFINE added == AddImages(<<>>, MultiImages(c))
             b == [ptr |-> c.mask.bitmask, size |-> U32(MaskSize(c.src)), access |-> {"R"},
                   memory |-> "USERPTR"]
             t == [index |-> Len(added.buffers), stride |-> U32(MaskStride(c.src)),
                   size |-> U32(MaskSize(c.src)),
                   rois |-> [i \in DOMAIN c.mask.rois |-> RoiU32(c.mask.rois[i])]]
  <2>1. Works(c, MultiImages(c))
    BY <1>2, MultiWorks
  <2>2. /\ q.images = added.images /\ q.mesh = NULL
        /\ c.mask = NULL => q.mask = NULL /\ q.buffers = added.buffers
        /\ c.mask # NULL => q.mask = t /\ q.buffers = Append(added.buffers, b)
    BY <1>2 DEF MultiRequest, Request, MultiImages, AddBuffer
  <2>3. ASSUME c.mask # NULL PROVE TableBuffer(t, b) /\ t.index = Len(added.buffers)
    <3>1. <<>> \in Seq({}) /\ Given(MultiImages(c))
      BY <2>1 DEF Works
    <3>2. PICK n \in Nat : n = Len(added.buffers)
      BY <3>1, Layout
    <3>3. IsImage(c.src) /\ c.mask \in Masks \ {NULL}
      BY <1>2, <2>3, InputAssumption
    <3>4. t # NULL
      BY <3>2, <3>3, MaskTableThere
    <3> QED
      BY <3>4 DEF TableBuffer
  <2> HIDE DEF t, b, added
  <2>4. Tables(q, <<>>, added.buffers)
    BY <2>2, <2>3 DEF Tables
  <2> QED
    BY <1>e, <2>1, <2>2, <2>4 DEF added
<1>3. CASE /\ c.op = "BLEND"
           /\ c.src \in Sources \ {NULL} /\ c.overlays \in OverlayLists \ {NULL}
           /\ BlendAccepted(c) /\ q = BlendRequest(c)
  <2>1. /\ q.images = AddImages(<<>>, BlendImages(c)).images
        /\ q.buffers = AddImages(<<>>, BlendImages(c)).buffers
        /\ q.mask = NULL /\ q.mesh = NULL
    BY <1>3 DEF BlendRequest, Request, BlendImages
  <2> QED
    BY <1>3, <1>e, <2>1, BlendWorks DEF Tables
<1>4. CASE /\ c.op = "BLUR"
           /\ c.src \in Sources \ {NULL} /\ c.rois \in RoiLists \ {NULL}
           /\ BlurAccepted(c) /\ q = BlurRequest(c)
  <2>1. /\ q.images = AddImages(<<>>, <<ReadWrite(c.src)>>).images
        /\ q.buffers = AddImages(<<>>, <<ReadWrite(c.src)>>).buffers
        /\ q.mask = NULL /\ q.mesh = NULL
    BY <1>4 DEF BlurRequest, Request
  <2> QED
    BY <1>4, <1>e, <2>1, BlurWorks DEF Tables
<1>5. CASE /\ c.op = "CONVERT"
           /\ c.src \in Sources \ {NULL} /\ c.dst \in Targets \ {NULL}
           /\ ConvertAccepted(c) /\ q = ConvertRequest(c)
  <2>1. /\ q.images = AddImages(<<>>, <<Read(c.src), Write(c.dst)>>).images
        /\ q.buffers = AddImages(<<>>, <<Read(c.src), Write(c.dst)>>).buffers
        /\ q.mask = NULL /\ q.mesh = NULL
    BY <1>5 DEF ConvertRequest, Request
  <2>2. /\ IsImage(c.src) /\ Len(c.src.planes) <= 4 /\ IsImage(c.dst)
        /\ VerifyImage(c.src) /\ VerifyImage(c.dst)
    BY <1>5, ImageFits DEF ConvertAccepted
  <2>3. Works(c, <<Read(c.src), Write(c.dst)>>)
    BY <1>5, <2>2, TwoWorks
  <2> QED
    BY <1>e, <2>1, <2>3 DEF Tables
<1>6. CASE /\ c.op = "DEWARP"
           /\ c.src \in Sources \ {NULL} /\ c.dst \in Targets \ {NULL}
           /\ c.mesh \in Meshes \ {NULL} /\ DewarpAccepted(c) /\ q = DewarpRequest(c)
  <2> DEFINE stride == Size(c.mesh.width * 2 * 4)
             size == Size(stride * c.mesh.height)
             b == [ptr |-> c.mesh.table, size |-> U32(size), access |-> {"R"},
                   memory |-> "USERPTR"]
             t == [index |-> 0, stride |-> U32(stride), size |-> U32(size),
                   width |-> U32(c.mesh.width), height |-> U32(c.mesh.height)]
             added == AddImages(MeshBuffer(c), <<Read(c.src), Write(c.dst)>>)
  <2>1. /\ q.images = added.images /\ q.buffers = added.buffers
        /\ q.mask = NULL /\ q.mesh = t
    BY <1>6 DEF DewarpRequest, Request, MeshBuffer
  <2>2. MeshBuffer(c) = <<b>>
    BY DEF MeshBuffer, AddBuffer
  <2>3. /\ IsImage(c.src) /\ Len(c.src.planes) <= 4 /\ IsImage(c.dst)
        /\ VerifyImage(c.src) /\ VerifyImage(c.dst)
    BY <1>6, ImageFits DEF DewarpAccepted
  <2>4. Works(c, <<Read(c.src), Write(c.dst)>>)
    BY <1>6, <2>3, TwoWorks
  <2>5. TableBuffer(t, b) /\ t.index = 0
    <3>1. t # NULL
      BY <1>6, MeshTableThere
    <3> QED
      BY <3>1 DEF TableBuffer
  <2>6. MeshBuffer(c) \in Seq({b})
    BY <2>2
  <2> HIDE DEF b, t
  <2>7. Tables(q, MeshBuffer(c), added.buffers)
    BY <2>1, <2>2, <2>5 DEF Tables
  <2>8. Shaped(c, q, MeshBuffer(c), <<Read(c.src), Write(c.dst)>>)
    BY <2>1, <2>4, <2>7 DEF Shaped
  <2> QED
    BY <2>6, <2>8
<1> QED
  BY <1>1, <1>2, <1>3, <1>4, <1>5, <1>6 DEF Sent
TablesOf(q) == {q.mask, q.mesh} \ {NULL}

\* The buffers of a command are those of its images' planes and of its side
\* table, each once, where the descriptions say.
LaidOut(q, ims, n) ==
  /\ DOMAIN q.buffers = 1..n /\ DOMAIN q.images = DOMAIN ims
  /\ \A k \in DOMAIN ims :
       /\ DOMAIN q.images[k].planes = DOMAIN ims[k].image.planes
       /\ \A j \in DOMAIN ims[k].image.planes :
            /\ q.images[k].planes[j].index \in Nat
            /\ Place(q, k, j) \in 1..n
            /\ q.buffers[Place(q, k, j)] = PlaneBuffers(ims[k])[j]
  /\ \A k, l \in DOMAIN ims :
       \A j \in DOMAIN ims[k].image.planes, i \in DOMAIN ims[l].image.planes :
         Place(q, k, j) = Place(q, l, i) => k = l /\ j = i
  /\ \A i \in 1..n :
       \/ \E k \in DOMAIN ims : \E j \in DOMAIN ims[k].image.planes : i = Place(q, k, j)
       \/ \E t \in TablesOf(q) : i = t.index + 1
  /\ \A t \in TablesOf(q) :
       /\ TablesOf(q) = {t}
       /\ t.index \in Nat /\ t.index + 1 \in 1..n
       /\ TableBuffer(t, q.buffers[t.index + 1])
       /\ \A k \in DOMAIN ims : \A j \in DOMAIN ims[k].image.planes :
            Place(q, k, j) # t.index + 1

LEMMA CommandLayout ==
  ASSUME NEW c, NEW q, NEW B, NEW before \in Seq(B), NEW ims, Shaped(c, q, before, ims)
  PROVE  \E n \in Nat : LaidOut(q, ims, n)
<1>1. PICK a : a = AddImages(before, ims)
  OBVIOUS
<1>2. Given(ims) /\ q.images = a.images /\ Tables(q, before, a.buffers)
  BY <1>1 DEF Shaped, Works
<1>3. PICK C : a.buffers \in Seq(C)
  BY <1>1, <1>2, Layout
<1>m. PICK m \in Nat : m = Len(a.buffers)
  BY <1>1, <1>2, Layout
<1>4. PICK d \in Nat : d = Len(before) /\ d <= m /\ \A i \in 1..d : a.buffers[i] = before[i]
  BY <1>1, <1>2, <1>m, Layout
<1>5. DOMAIN q.images = DOMAIN ims
  BY <1>1, <1>2, Layout
<1>6. \A k \in DOMAIN ims :
        /\ DOMAIN q.images[k].planes = DOMAIN ims[k].image.planes
        /\ \A j \in DOMAIN ims[k].image.planes :
             /\ q.images[k].planes[j].index \in Nat
             /\ Place(q, k, j) \in (d + 1)..m
             /\ a.buffers[Place(q, k, j)] = PlaneBuffers(ims[k])[j]
  <2>1. \A k, j : Place(q, k, j) = Place(a, k, j)
    BY <1>2 DEF Place
  <2> QED
    BY <1>1, <1>2, <1>m, <1>4, <2>1, Layout
<1>7. \A i \in (d + 1)..m :
        \E k \in DOMAIN ims : \E j \in DOMAIN ims[k].image.planes : i = Place(q, k, j)
  <2>1. \A k, j : Place(q, k, j) = Place(a, k, j)
    BY <1>2 DEF Place
  <2> QED
    BY <1>1, <1>2, <1>m, <1>4, <2>1, Layout
<1>8. \A k, l \in DOMAIN ims :
        \A j \in DOMAIN ims[k].image.planes, i \in DOMAIN ims[l].image.planes :
          Place(q, k, j) = Place(q, l, i) => k = l /\ j = i
  BY <1>1, <1>2, Layout DEF Place
<1>9. DOMAIN a.buffers = 1..m
  BY <1>3, <1>m
<1>10. CASE q.mesh = NULL /\ before = <<>> /\ q.mask = NULL /\ q.buffers = a.buffers
  <2>1. d = 0 /\ TablesOf(q) = {}
    BY <1>4, <1>10 DEF TablesOf
  <2> QED
    BY <1>5, <1>6, <1>7, <1>8, <1>9, <1>10, <2>1 DEF LaidOut
<1>11. CASE /\ q.mask = NULL /\ q.mesh.index = 0 /\ q.buffers = a.buffers
            /\ \E b : before = <<b>> /\ TableBuffer(q.mesh, b)
  <2>1. PICK b : before = <<b>> /\ TableBuffer(q.mesh, b)
    BY <1>11
  <2>2. d = 1 /\ TablesOf(q) = {q.mesh} /\ before[1] = b
    BY <1>4, <1>11, <2>1 DEF TablesOf, TableBuffer
  <2>3. q.buffers[q.mesh.index + 1] = b /\ q.mesh.index + 1 = 1 /\ 1 \in 1..m
    BY <1>4, <1>11, <2>2
  <2>4. \A i \in 1..m : i \in (d + 1)..m \/ i = 1
    BY <2>2
  <2>5. \A i \in (d + 1)..m : i \in 1..m /\ i # 1
    BY <2>2
  <2> QED
    BY <1>5, <1>6, <1>7, <1>8, <1>9, <1>11, <2>1, <2>2, <2>3, <2>4, <2>5 DEF LaidOut
<1>12. CASE /\ q.mesh = NULL /\ before = <<>> /\ q.mask.index = Len(a.buffers)
            /\ \E b : q.buffers = Append(a.buffers, b) /\ TableBuffer(q.mask, b)
  <2>1. PICK b : q.buffers = Append(a.buffers, b) /\ TableBuffer(q.mask, b)
    BY <1>12
  <2>2. d = 0 /\ TablesOf(q) = {q.mask} /\ q.mask.index = m
    BY <1>m, <1>4, <1>12, <2>1 DEF TablesOf, TableBuffer
  <2>3. /\ DOMAIN q.buffers = 1..(m + 1) /\ q.buffers[m + 1] = b
        /\ \A i \in 1..m : q.buffers[i] = a.buffers[i]
    BY <1>3, <1>m, <2>1
  <2>4. \A i \in 1..(m + 1) : i \in (d + 1)..m \/ i = m + 1
    BY <2>2
  <2>5. \A i \in (d + 1)..m : i \in 1..m /\ i \in 1..(m + 1) /\ i # m + 1
    BY <2>2
  <2>6. m + 1 \in Nat /\ m + 1 \in 1..(m + 1)
    OBVIOUS
  <2>7. \A k \in DOMAIN ims :
          /\ DOMAIN q.images[k].planes = DOMAIN ims[k].image.planes
          /\ \A j \in DOMAIN ims[k].image.planes :
               /\ q.images[k].planes[j].index \in Nat
               /\ Place(q, k, j) \in 1..(m + 1) /\ Place(q, k, j) # m + 1
               /\ q.buffers[Place(q, k, j)] = PlaneBuffers(ims[k])[j]
    BY <1>6, <2>3, <2>5
  <2>8. \A t \in TablesOf(q) :
          /\ TablesOf(q) = {t} /\ t.index \in Nat /\ t.index + 1 \in 1..(m + 1)
          /\ TableBuffer(t, q.buffers[t.index + 1])
          /\ \A k \in DOMAIN ims : \A j \in DOMAIN ims[k].image.planes :
               Place(q, k, j) # t.index + 1
    BY <2>1, <2>2, <2>3, <2>6, <2>7
  <2>9. \A i \in 1..(m + 1) :
          \/ \E k \in DOMAIN ims : \E j \in DOMAIN ims[k].image.planes : i = Place(q, k, j)
          \/ \E t \in TablesOf(q) : i = t.index + 1
    BY <1>7, <2>2, <2>4
  <2> QED
    <3>1. LaidOut(q, ims, m + 1)
      BY <1>5, <1>8, <2>3, <2>7, <2>8, <2>9, Zenon DEF LaidOut
    <3> QED
      BY <2>6, <3>1
<1> QED
  BY <1>2, <1>10, <1>11, <1>12 DEF Tables, TableBuffer
LEMMA OneEach ==
  ASSUME NEW S, IsFiniteSet(S), NEW f, f = [x \in S |-> f[x]],
         \A x, y \in S : f[x] = f[y] => x = y
  PROVE  /\ IsFiniteSet({f[x] : x \in S})
         /\ Cardinality({f[x] : x \in S}) = Cardinality(S)
<1> DEFINE T == {f[x] : x \in S}
<1>1. f \in [S -> T]
  OBVIOUS
<1>2. f \in Injection(S, T)
  BY <1>1 DEF Injection, IsInjective
<1>3. f \in Surjection(S, T)
  BY <1>1 DEF Surjection
<1>4. ExistsBijection(S, T)
  BY <1>2, <1>3 DEF ExistsBijection, Bijection
<1> HIDE DEF T
<1>5. IsFiniteSet(T) /\ Cardinality(T) = Cardinality(S)
  BY <1>4, FS_Bijection
<1> QED
  BY <1>5 DEF T

(* Whatever outputs are absent and whichever of mesh and images comes      *)
(* first, the indices the code counts out while the list of buffers grows  *)
(* name every buffer, each for one plane or side table, whose size it has. *)
THEOREM PlanesHaveBuffers == Spec => []EveryPlaneHasItsBuffer
<1>1. SentOK => EveryPlaneHasItsBuffer
  <2> SUFFICES ASSUME SentOK, command # NULL PROVE EveryPlaneHasItsBuffer
    BY DEF EveryPlaneHasItsBuffer
  <2> DEFINE planes == [k \in DOMAIN command.images |-> command.images[k].planes]
             places == {p \in (DOMAIN planes) \X (1..4) : p[2] \in DOMAIN planes[p[1]]}
             f == [p \in places |-> planes[p[1]][p[2]].index]
             I == {planes[p[1]][p[2]].index : p \in places}
             index == I \cup {t.index : t \in SideTables}
  <2>1. PICK B, before, ims : before \in Seq(B) /\ Shaped(call, command, before, ims)
    BY SentShaped DEF SentOK
  <2>2. PICK n \in Nat : LaidOut(command, ims, n)
    BY <2>1, CommandLayout
  <2>3. TablesOf(command) = SideTables
    BY DEF TablesOf, SideTables
  <2>4. PICK m \in Nat : DOMAIN ims = 1..m
    BY <2>1 DEF Shaped, Works, Given, IsArray
  <2>5. ASSUME NEW k \in DOMAIN ims
        PROVE  DOMAIN ims[k].image.planes \subseteq 1..4
    <3>1. IsArray(ims[k].image.planes) /\ Len(ims[k].image.planes) <= 4
      BY <2>1, <2>5 DEF Shaped, Works, Given, IsImage
    <3>2. PICK l \in Nat : l = Len(ims[k].image.planes) /\ DOMAIN ims[k].image.planes = 1..l
      BY <3>1 DEF IsArray
    <3> QED
      BY <3>1, <3>2
  <2>6. ASSUME NEW p
        PROVE  p \in places <=>
                 \E k \in DOMAIN ims : \E j \in DOMAIN ims[k].image.planes : p = <<k, j>>
    BY <2>2, <2>5 DEF LaidOut
  <2>7. IsFiniteSet(places)
    <3>1. IsFiniteSet(1..m) /\ IsFiniteSet(1..4)
      <4>1. 1 \in Int /\ m \in Int /\ 4 \in Int
        OBVIOUS
      <4> QED
        BY <4>1, FS_Interval
    <3>2. IsFiniteSet((1..m) \X (1..4))
      BY <3>1, FS_Product
    <3>3. places \subseteq (1..m) \X (1..4)
      BY <2>4, <2>5, <2>6
    <3> QED
      BY <3>2, <3>3, FS_Subset
  <2>8. \A k \in DOMAIN ims : \A j \in DOMAIN ims[k].image.planes :
          /\ planes[k][j].index \in Nat
          /\ Place(command, k, j) = planes[k][j].index + 1
          /\ f[<<k, j>>] = planes[k][j].index
    BY <2>2, <2>6 DEF LaidOut, Place
  <2>9. ASSUME NEW x \in places, NEW y \in places, f[x] = f[y] PROVE x = y
    <3>1. PICK k \in DOMAIN ims : \E j \in DOMAIN ims[k].image.planes : x = <<k, j>>
      BY <2>6
    <3>2. PICK j \in DOMAIN ims[k].image.planes : x = <<k, j>>
      BY <3>1
    <3>3. PICK l \in DOMAIN ims : \E i \in DOMAIN ims[l].image.planes : y = <<l, i>>
      BY <2>6
    <3>4. PICK i \in DOMAIN ims[l].image.planes : y = <<l, i>>
      BY <3>3
    <3>5. Place(command, k, j) = Place(command, l, i)
      <4> HIDE DEF f, planes
      <4> QED
        BY <2>8, <2>9, <3>2, <3>4
    <3> QED
      BY <2>2, <3>2, <3>4, <3>5 DEF LaidOut
  <2>10. /\ I = {f[p] : p \in places}
         /\ f = [p \in places |-> f[p]]
    OBVIOUS
  <2>11. IsFiniteSet(I) /\ Cardinality(I) = Cardinality(places)
    <3> HIDE DEF f, I, places
    <3> QED
      BY <2>7, <2>9, <2>10, OneEach
  <2>13. index = {i - 1 : i \in DOMAIN command.buffers}
    <3>1. ASSUME NEW k \in DOMAIN ims, NEW j \in DOMAIN ims[k].image.planes
          PROVE  planes[k][j].index \in {i - 1 : i \in 1..n}
      <4>1. PICK x \in Nat : x = planes[k][j].index
        BY <2>8
      <4>2. x + 1 = Place(command, k, j)
        BY <2>8, <4>1
      <4>3. x + 1 \in 1..n /\ (x + 1) - 1 = x
        BY <2>2, <4>2 DEF LaidOut
      <4> QED
        BY <4>1, <4>3
    <3>2. ASSUME NEW t \in SideTables PROVE t.index \in {i - 1 : i \in 1..n}
      <4>1. PICK x \in Nat : x = t.index
        BY <2>2, <2>3 DEF LaidOut
      <4>2. x + 1 \in 1..n /\ (x + 1) - 1 = x
        BY <2>2, <2>3, <4>1 DEF LaidOut
      <4> QED
        BY <4>1, <4>2
    <3>3. ASSUME NEW i \in 1..n PROVE i - 1 \in index
      <4>1. CASE \E k \in DOMAIN ims : \E j \in DOMAIN ims[k].image.planes :
                   i = Place(command, k, j)
        <5>1. PICK k \in DOMAIN ims : \E j \in DOMAIN ims[k].image.planes : i = Place(command, k, j)
          BY <4>1
        <5>2. PICK j \in DOMAIN ims[k].image.planes : i = Place(command, k, j)
          BY <5>1
        <5>3. <<k, j>> \in places
          BY <2>6
        <5>4. PICK x \in Nat : x = planes[k][j].index
          BY <2>8
        <5>5. i = x + 1 /\ f[<<k, j>>] = x
          BY <2>8, <5>2, <5>4
        <5>6. i - 1 = f[<<k, j>>]
          BY <5>5
        <5> HIDE DEF f, places, planes, I
        <5> QED
          BY <2>10, <5>3, <5>6
      <4>2. CASE \E t \in SideTables : i = t.index + 1
        <5>1. PICK t \in SideTables : i = t.index + 1
          BY <4>2
        <5>2. i - 1 = t.index
          BY <2>2, <2>3, <5>1 DEF LaidOut
        <5> QED
          BY <5>2
      <4> QED
        BY <2>2, <2>3, <4>1, <4>2 DEF LaidOut
    <3>4. ASSUME NEW p \in places PROVE planes[p[1]][p[2]].index \in {i - 1 : i \in 1..n}
      <4>1. PICK k \in DOMAIN ims : \E j \in DOMAIN ims[k].image.planes : p = <<k, j>>
        BY <2>6
      <4>2. PICK j \in DOMAIN ims[k].image.planes : p = <<k, j>>
        BY <4>1
      <4> HIDE DEF planes, places
      <4> QED
        BY <3>1, <4>2
    <3>5. DOMAIN command.buffers = 1..n
      BY <2>2 DEF LaidOut
    <3> HIDE DEF places, planes
    <3> QED
      BY <3>2, <3>3, <3>4, <3>5
  <2>14. Cardinality(index) = Cardinality(places) + Cardinality(SideTables)
    <3>1. CASE SideTables = {}
      <4>1. Cardinality(SideTables) = 0 /\ index = I
        BY <3>1, FS_EmptySet
      <4>2. Cardinality(places) \in Nat
        BY <2>7, FS_CardinalityType
      <4> HIDE DEF index, I, places
      <4> QED
        BY <2>11, <4>1, <4>2
    <3>2. CASE SideTables # {}
      <4>1. PICK t : t \in SideTables
        BY <3>2
      <4>2. SideTables = {t}
        BY <2>2, <2>3, <4>1 DEF LaidOut
      <4>3. t.index \notin I
        <5> SUFFICES ASSUME NEW p \in places, t.index = planes[p[1]][p[2]].index PROVE FALSE
          OBVIOUS
        <5>1. PICK k \in DOMAIN ims : \E j \in DOMAIN ims[k].image.planes : p = <<k, j>>
          BY <2>6
        <5>2. PICK j \in DOMAIN ims[k].image.planes : p = <<k, j>>
          BY <5>1
        <5>3. Place(command, k, j) = t.index + 1
          BY <2>8, <5>2
        <5> QED
          BY <2>2, <2>3, <4>1, <5>3 DEF LaidOut
      <4>4. Cardinality(SideTables) = 1
        BY <4>2, FS_Singleton
      <4>5. index = I \cup {t.index}
        BY <4>2
      <4> HIDE DEF index, I, places
      <4> QED
        BY <2>11, <4>3, <4>4, <4>5, FS_AddElement
    <3> QED
      BY <3>1, <3>2
  <2>15. ASSUME NEW p \in AllPlanes PROVE command.buffers[p.index + 1].size = p.size
    <3>1. CASE p \in SideTables
      BY <2>2, <2>3, <3>1 DEF LaidOut, TableBuffer
    <3>2. CASE p \notin SideTables
      <4>1. PICK k \in DOMAIN ims :
              \E j \in DOMAIN ims[k].image.planes : p = command.images[k].planes[j]
        <5>1. PICK k \in DOMAIN command.images : p \in PlanesOf(command.images[k])
          BY <3>2 DEF AllPlanes
        <5> QED
          BY <2>2, <5>1 DEF PlanesOf, LaidOut
      <4>2. PICK j \in DOMAIN ims[k].image.planes : p = command.images[k].planes[j]
        BY <4>1
      <4>3. command.buffers[p.index + 1] = PlaneBuffers(ims[k])[j]
        BY <2>2, <4>2 DEF LaidOut, Place
      <4>4. p.size = U32(ims[k].image.planes[j].bytesused)
        BY <2>1, <4>2 DEF Shaped, AddImages, ConvertImage
      <4> QED
        BY <4>3, <4>4 DEF PlaneBuffers
    <3> QED
      BY <3>1, <3>2
  <2> HIDE DEF index
  <2> QED
    BY <2>13, <2>14, <2>15, Zenon DEF EveryPlaneHasItsBuffer, index, I, places, planes
<1> QED
  BY <1>1, SentInvariant, PTL
(* The DSP may write exactly what the operation is documented to write,    *)
(* and is given all that it reads.                                         *)
THEOREM OnlyOutputsAreWritten == Spec => []WritesOnlyOutputs
<1>1. SentOK => WritesOnlyOutputs
  <2> SUFFICES ASSUME SentOK, command # NULL PROVE WritesOnlyOutputs
    BY DEF WritesOnlyOutputs
  <2> DEFINE given(a) == {command.buffers[i].ptr :
                            i \in {b \in DOMAIN command.buffers : a \in command.buffers[b].access}}
  <2>1. PICK B, before, ims : before \in Seq(B) /\ Shaped(call, command, before, ims)
    BY SentShaped DEF SentOK
  <2>2. PICK n \in Nat : LaidOut(command, ims, n)
    BY <2>1, CommandLayout
  <2>3. \A k \in DOMAIN ims : \A j \in DOMAIN ims[k].image.planes :
          /\ Place(command, k, j) \in DOMAIN command.buffers
          /\ command.buffers[Place(command, k, j)].ptr = ims[k].image.planes[j].ptr
          /\ command.buffers[Place(command, k, j)].access = ims[k].access
    <3>1. \A k \in DOMAIN ims : \A j \in DOMAIN ims[k].image.planes :
            /\ Place(command, k, j) \in DOMAIN command.buffers
            /\ command.buffers[Place(command, k, j)] = PlaneBuffers(ims[k])[j]
      BY <2>2 DEF LaidOut
    <3>2. \A k : \A j \in DOMAIN ims[k].image.planes :
            /\ PlaneBuffers(ims[k])[j].ptr = ims[k].image.planes[j].ptr
            /\ PlaneBuffers(ims[k])[j].access = ims[k].access
      BY DEF PlaneBuffers
    <3> QED
      BY <3>1, <3>2
  <2>4. ASSUME NEW a, NEW p \in Pointers(With(ims, a)) PROVE p \in given(a)
    <3>1. PICK im \in With(ims, a) : \E j \in DOMAIN im.planes : p = im.planes[j].ptr
      BY DEF Pointers
    <3>2. PICK k \in DOMAIN ims : a \in ims[k].access /\ im = ims[k].image
      BY DEF With
    <3>3. PICK j \in DOMAIN ims[k].image.planes : p = ims[k].image.planes[j].ptr
      BY <3>1, <3>2
    <3> QED
      BY <2>3, <3>2, <3>3
  <2>5. ASSUME NEW p \in given("W") PROVE p \in Pointers(With(ims, "W"))
    <3>1. PICK i \in DOMAIN command.buffers :
            "W" \in command.buffers[i].access /\ p = command.buffers[i].ptr
      OBVIOUS
    <3>2. ~\E t \in TablesOf(command) : i = t.index + 1
      BY <2>2, <3>1 DEF LaidOut, TableBuffer
    <3>3. PICK k \in DOMAIN ims : \E j \in DOMAIN ims[k].image.planes : i = Place(command, k, j)
      BY <2>2, <3>2 DEF LaidOut
    <3>4. PICK j \in DOMAIN ims[k].image.planes : i = Place(command, k, j)
      BY <3>3
    <3>5. "W" \in ims[k].access /\ p = ims[k].image.planes[j].ptr
      BY <2>3, <3>1, <3>4
    <3>6. ims[k].image \in With(ims, "W")
      BY <3>5 DEF With
    <3> QED
      BY <3>5, <3>6 DEF Pointers
  <2>6. With(ims, "W") = Outputs(call) /\ Inputs(call) \subseteq With(ims, "R")
    BY <2>1 DEF Shaped, Works
  <2>7. Pointers(Inputs(call)) \subseteq Pointers(With(ims, "R"))
    BY <2>6 DEF Pointers
  <2> HIDE DEF given
  <2>8. given("W") = Pointers(Outputs(call)) /\ Pointers(Inputs(call)) \subseteq given("R")
    <3>1. Pointers(With(ims, "W")) \subseteq given("W")
      BY <2>4
    <3>2. Pointers(With(ims, "R")) \subseteq given("R")
      BY <2>4
    <3>3. given("W") \subseteq Pointers(With(ims, "W"))
      BY <2>5
    <3> QED
      BY <2>6, <2>7, <3>1, <3>2, <3>3
  <2> QED
    BY <2>8 DEF WritesOnlyOutputs, given
<1> QED
  BY <1>1, SentInvariant, PTL

-----------------------------------------------------------------------------
(* The numbers of a command.                                               *)

LEMMA EmptyAndSingle ==
  /\ Len(<<>>) = 0
  /\ \A r : Len(<<r>>) = 1
  OBVIOUS

LEMMA SequenceLength ==
  ASSUME NEW a, IsArray(a), NEW b, b = [i \in DOMAIN a |-> b[i]]
  PROVE  Len(b) = Len(a)
<1>1. PICK n \in Nat : n = Len(a) /\ DOMAIN a = 1..n
  BY DEF IsArray
<1>2. b = [i \in 1..n |-> b[i]]
  BY <1>1
<1>3. Len(b) = n
  BY <1>2
<1> QED
  BY <1>1, <1>3

Limited(q) ==
  /\ Len(q.overlays) <= MaxBlendOverlays
  /\ Len(q.rois) <= (IF q.op = "BLUR" THEN MaxBlurRois ELSE 1)
  /\ q.mask # NULL => Len(q.mask.rois) <= MaxMaskRois
  /\ \A t \in TablesOf(q) : t.size < U32Mod /\ t.stride < U32Mod

\* Without overlays, tables and regions but perhaps one.
LEMMA PlainLimited ==
  ASSUME NEW q, NEW r, q.overlays = <<>>, q.rois = <<>> \/ q.rois = <<r>>,
         q.mask = NULL, q.mesh = NULL
  PROVE  Limited(q)
<1>1. {MaxBlendOverlays, MaxBlurRois} \subseteq Nat \ {0}
  BY LimitAssumption
<1>2. Len(q.overlays) <= MaxBlendOverlays
  BY <1>1
<1>n. Len(q.rois) \in {0, 1}
  BY Zenon, EmptyAndSingle
<1>p. PICK n \in {0, 1} : n = Len(q.rois)
  BY <1>n
<1>b. PICK m \in Nat \ {0} : m = MaxBlurRois
  BY <1>1
<1>c. n <= 1 /\ n <= m
  OBVIOUS
<1>3. Len(q.rois) <= 1
  BY <1>p, <1>c
<1>4. Len(q.rois) <= MaxBlurRois
  BY <1>p, <1>b, <1>c
<1> QED
  BY <1>2, <1>3, <1>4 DEF Limited, TablesOf

LEMMA SentLimited ==
  ASSUME NEW c, NEW q, Sent(c, q)
  PROVE  Limited(q)
<1>0. MaxBlendOverlays \in Nat \ {0} /\ MaxBlurRois \in Nat \ {0} /\ MaxMaskRois \in Nat \ {0}
  BY LimitAssumption
<1>1. CASE q = CropRequest(c)
  BY <1>1, PlainLimited DEF CropRequest, Request
<1>2. CASE c.src \in Sources \ {NULL} /\ c.mask \in Masks /\ MultiAccepted(c) /\ q = MultiRequest(c)
  <2>1. CASE c.mask = NULL
    BY <1>2, <2>1, PlainLimited DEF MultiRequest, Request
  <2>2. CASE c.mask # NULL
    <3> DEFINE rs == [i \in DOMAIN c.mask.rois |-> RoiU32(c.mask.rois[i])]
    <3>1. /\ q.op = "MULTI_CROP_AND_RESIZE_PRIVACY_MASK"
          /\ q.overlays = <<>> /\ q.rois = <<RoiU32(c.roi)>> /\ q.mesh = NULL
          /\ q.mask.stride = U32(MaskStride(c.src)) /\ q.mask.size = U32(MaskSize(c.src))
          /\ q.mask.rois = rs
      BY <1>2, <2>2 DEF MultiRequest, Request
    <3>2. q.mask.stride < U32Mod /\ q.mask.size < U32Mod
      BY <1>2, <3>1, InputAssumption, MaskSizes, NarrowRange
    <3>3. Len(rs) = Len(c.mask.rois)
      BY <1>2, <2>2, InputAssumption, SequenceLength DEF HasRois
    <3>4. Len(c.mask.rois) \in 1..MaxMaskRois
      BY <1>2, <2>2 DEF MultiAccepted, VerifyMask
    <3>5. Len(rs) <= MaxMaskRois
      BY <1>0, <3>3, <3>4
    <3> HIDE DEF rs
    <3>6. Len(q.overlays) <= MaxBlendOverlays /\ Len(q.rois) <= 1
      BY <1>0, <3>1
    <3> QED
      BY <3>1, <3>2, <3>5, <3>6 DEF Limited, TablesOf
  <2> QED
    BY <2>1, <2>2
<1>3. CASE c.overlays \in OverlayLists \ {NULL} /\ BlendAccepted(c) /\ q = BlendRequest(c)
  <2>1. /\ q.op = "BLEND" /\ q.rois = <<>> /\ q.mask = NULL /\ q.mesh = NULL
        /\ q.overlays = [i \in DOMAIN c.overlays |->
             [x_offset |-> U32(c.overlays[i].x_offset), y_offset |-> U32(c.overlays[i].y_offset)]]
    BY <1>3 DEF BlendRequest, Request
  <2>2. Len(q.overlays) = Len(c.overlays)
    <3>1. q.overlays = [i \in DOMAIN c.overlays |-> q.overlays[i]]
      BY <2>1
    <3> QED
      BY <1>3, <3>1, InputAssumption, SequenceLength
  <2>3. Len(q.overlays) <= MaxBlendOverlays
    BY <1>3, <2>2 DEF BlendAccepted
  <2>4. Len(q.rois) <= 1
    BY <2>1
  <2> QED
    BY <2>1, <2>3, <2>4 DEF Limited, TablesOf
<1>4. CASE c.rois \in RoiLists \ {NULL} /\ BlurAccepted(c) /\ q = BlurRequest(c)
  <2>1. /\ q.op = "BLUR" /\ q.overlays = <<>> /\ q.mask = NULL /\ q.mesh = NULL
        /\ q.rois = [i \in DOMAIN c.rois |-> RoiU32(c.rois[i])]
    BY <1>4 DEF BlurRequest, Request
  <2>2. Len(q.rois) = Len(c.rois)
    <3>1. q.rois = [i \in DOMAIN c.rois |-> q.rois[i]]
      BY <2>1
    <3> QED
      BY <1>4, <3>1, InputAssumption, SequenceLength DEF HasRois
  <2>3. Len(q.rois) <= MaxBlurRois
    BY <1>4, <2>2 DEF BlurAccepted
  <2>4. Len(q.overlays) <= MaxBlendOverlays
    BY <1>0, <2>1
  <2> QED
    BY <2>1, <2>3, <2>4 DEF Limited, TablesOf
<1>5. CASE q = ConvertRequest(c)
  BY <1>5, PlainLimited DEF ConvertRequest, Request
<1>6. CASE c.mesh \in Meshes \ {NULL} /\ q = DewarpRequest(c)
  <2>1. /\ q.op = "DEWARP" /\ q.overlays = <<>> /\ q.rois = <<>> /\ q.mask = NULL
        /\ q.mesh.stride = U32(Size(c.mesh.width * 2 * 4))
        /\ q.mesh.size = U32(Size(Size(c.mesh.width * 2 * 4) * c.mesh.height))
    BY <1>6 DEF DewarpRequest, Request
  <2>2. q.mesh.stride < U32Mod /\ q.mesh.size < U32Mod
    BY <1>6, <2>1, MeshNumbers, NarrowRange
  <2>3. Len(q.overlays) <= MaxBlendOverlays /\ Len(q.rois) <= 1
    BY <1>0, <2>1
  <2> QED
    BY <2>1, <2>2, <2>3 DEF Limited, TablesOf
<1> QED
  BY <1>1, <1>2, <1>3, <1>4, <1>5, <1>6 DEF Sent

\* What a command says of the plane j of its image k.
LEMMA PlaneNumbers ==
  ASSUME NEW c, NEW q, NEW before, NEW ims, Shaped(c, q, before, ims),
         NEW k \in DOMAIN ims, NEW j \in DOMAIN ims[k].image.planes
  PROVE  /\ ims[k].image.planes[j].bytesperline \in Nat
         /\ ims[k].image.planes[j].bytesused \in Nat
         /\ q.images[k].planes[j].stride = U32(ims[k].image.planes[j].bytesperline)
         /\ q.images[k].planes[j].size = U32(ims[k].image.planes[j].bytesused)
<1>1. IsImage(ims[k].image)
  BY DEF Shaped, Works, Given
<1>2. {ims[k].image.planes[j].bytesperline, ims[k].image.planes[j].bytesused} \subseteq SizeT
  BY <1>1 DEF IsImage
<1>3. SizeT \subseteq Nat
  BY WordAssumption DEF SizeT
<1>5. q.images[k] = ConvertImage(ims[k].image, FirstIndex(before, ims, k))
  BY DEF Shaped, AddImages
<1>6. /\ q.images[k].planes[j].stride = U32(ims[k].image.planes[j].bytesperline)
      /\ q.images[k].planes[j].size = U32(ims[k].image.planes[j].bytesused)
  BY <1>5 DEF ConvertImage
<1> QED
  BY <1>2, <1>3, <1>6

(* The arrays of a command are within their limits and every number fits   *)
(* the DSP's 32-bit field; an error of the call's own has sent nothing.    *)
THEOREM TypeCorrect == Spec => []TypeOK
<1>1. SentOK => TypeOK
  <2> SUFFICES ASSUME SentOK, command # NULL PROVE TypeOK
    BY DEF TypeOK, SentOK
  <2>1. PICK B, before, ims : before \in Seq(B) /\ Shaped(call, command, before, ims)
    BY SentShaped DEF SentOK
  <2>2. PICK n \in Nat : LaidOut(command, ims, n)
    BY <2>1, CommandLayout
  <2>3. Limited(command)
    BY SentLimited DEF SentOK
  <2>4. ASSUME NEW k \in DOMAIN ims, NEW j \in DOMAIN ims[k].image.planes
        PROVE  /\ command.images[k].planes[j].size < U32Mod
               /\ command.images[k].planes[j].stride < U32Mod
               /\ command.buffers[Place(command, k, j)].size < U32Mod
    <3>1. command.buffers[Place(command, k, j)] = PlaneBuffers(ims[k])[j]
      BY <2>2 DEF LaidOut
    <3>2. command.buffers[Place(command, k, j)].size = U32(ims[k].image.planes[j].bytesused)
      BY <3>1 DEF PlaneBuffers
    <3>3. /\ ims[k].image.planes[j].bytesperline \in Nat
          /\ ims[k].image.planes[j].bytesused \in Nat
          /\ command.images[k].planes[j].stride = U32(ims[k].image.planes[j].bytesperline)
          /\ command.images[k].planes[j].size = U32(ims[k].image.planes[j].bytesused)
      BY <2>1, PlaneNumbers
    <3> QED
      BY <3>2, <3>3, NarrowRange
  <2>5. ASSUME NEW i \in DOMAIN command.buffers PROVE command.buffers[i].size < U32Mod
    <3>1. CASE \E t \in TablesOf(command) : i = t.index + 1
      BY <2>2, <2>3, <3>1 DEF LaidOut, TableBuffer, Limited
    <3>2. CASE \E k \in DOMAIN ims : \E j \in DOMAIN ims[k].image.planes : i = Place(command, k, j)
      BY <2>4, <3>2
    <3> QED
      BY <2>2, <3>1, <3>2 DEF LaidOut
  <2>6. ASSUME NEW p \in AllPlanes PROVE p.size < U32Mod /\ p.stride < U32Mod
    <3>1. CASE p \in SideTables
      BY <2>3, <3>1 DEF Limited, TablesOf, SideTables
    <3>2. CASE p \notin SideTables
      <4>1. PICK k \in DOMAIN command.images : p \in PlanesOf(command.images[k])
        BY <3>2 DEF AllPlanes
      <4>2. PICK j \in DOMAIN ims[k].image.planes : p = command.images[k].planes[j]
        BY <2>2, <4>1 DEF PlanesOf, LaidOut
      <4> QED
        BY <2>2, <2>4, <4>2 DEF LaidOut
    <3> QED
      BY <3>1, <3>2
  <2> QED
    BY <2>3, <2>5, <2>6 DEF TypeOK, Limited, SentOK
<1> QED
  BY <1>1, SentInvariant, PTL

-----------------------------------------------------------------------------
(* The pixels of the images.                                               *)

\* The planes of an accepted image, if no product wraps.
LEMMA PixelHeld ==
  ASSUME NEW image, IsImage(image), VerifyImage(image), Representable(image),
         NEW j \in DOMAIN image.planes,
         NEW x \in Nat, x < image.width, NEW y \in Nat, y < image.height
  PROVE  LET layout == PlaneLayout[image.format][j]
             last == (x \div layout.across) * layout.bytes + layout.bytes - 1
         IN  /\ last < image.planes[j].bytesperline
             /\ (y \div layout.down) * image.planes[j].bytesperline + last
                  < image.planes[j].bytesused
<1> DEFINE layout == PlaneLayout[image.format][j]
           plane == image.planes[j]
<1>1. /\ image.width \in Nat /\ image.height \in Nat
      /\ plane.bytesperline \in Nat /\ plane.bytesused \in Nat
  <2>1. SizeT \subseteq Nat
    BY WordAssumption DEF SizeT
  <2> QED
    BY <2>1 DEF IsImage, HasSides
<1>2. /\ ExactSize(image.width * layout.bytes)
      /\ ExactSize(plane.bytesperline * image.height)
      /\ ExactSize(plane.bytesperline) /\ ExactSize(plane.bytesused)
  BY <1>1, WordExact DEF Representable
<1>3. VerifyPlane(image, plane, layout)
  BY DEF VerifyImage
<1>4. /\ image.format \in {"GRAY8", "RGB", "NV12", "A420"}
      /\ j \in 1..Len(PlaneLayout[image.format])
  BY FewPlanes DEF IsImage, IsArray
<1>5. CASE layout \in {Plane(1, 1, 1), Plane(3, 1, 1)}
  <2>1. PICK b \in Nat \ {0} : layout = Plane(b, 1, 1)
    BY <1>5
  <2>2. layout.bytes = b /\ layout.across = 1 /\ layout.down = 1
    BY <2>1 DEF Plane
  <2>3. x \div 1 = x /\ y \div 1 = y
    OBVIOUS
  <2> HIDE DEF layout, plane
  <2>4. /\ x * b + b - 1 < plane.bytesperline
        /\ y * plane.bytesperline + (x * b + b - 1) < plane.bytesused
    BY <1>1, <1>2, <1>3, <2>1, <2>2, FullPlaneHoldsPixels
  <2> QED
    BY <2>2, <2>3, <2>4 DEF layout, plane
<1>6. CASE layout \in {Plane(1, 2, 2), Plane(2, 2, 2)} /\ image.format \in {"NV12", "A420"}
  <2>1. PICK b \in {1, 2} : layout = Plane(b, 2, 2)
    BY <1>6
  <2>2. layout.bytes = b /\ layout.across = 2 /\ layout.down = 2
    BY <2>1 DEF Plane
  <2>3. VerifyYuv420(image)
    BY <1>6 DEF VerifyImage
  <2> HIDE DEF layout, plane
  <2>4. /\ (x \div 2) * b + b - 1 < plane.bytesperline
        /\ (y \div 2) * plane.bytesperline + ((x \div 2) * b + b - 1) < plane.bytesused
    BY <1>1, <1>2, <1>3, <2>1, <2>2, <2>3, ChromaPlaneHoldsPixels
  <2> QED
    BY <2>2, <2>4 DEF layout, plane
<1>7. \/ layout \in {Plane(1, 1, 1), Plane(3, 1, 1)}
      \/ layout \in {Plane(1, 2, 2), Plane(2, 2, 2)} /\ image.format \in {"NV12", "A420"}
  <2>1. CASE image.format = "GRAY8"
    BY <1>4, <2>1 DEF PlaneLayout
  <2>2. CASE image.format = "RGB"
    BY <1>4, <2>2 DEF PlaneLayout
  <2>3. CASE image.format = "NV12"
    <3>1. j \in {1, 2}
      BY <1>4, <2>3 DEF PlaneLayout
    <3> QED
      BY <3>1, <2>3 DEF PlaneLayout
  <2>4. CASE image.format = "A420"
    <3>1. j \in {1, 2, 3, 4}
      BY <1>4, <2>4 DEF PlaneLayout
    <3> QED
      BY <3>1, <2>4 DEF PlaneLayout
  <2> QED
    BY <1>4, <2>1, <2>2, <2>3, <2>4
<1> QED
  BY <1>5, <1>6, <1>7

\* The same in a command, with the numbers and the buffers the driver sees.
LEMMA PixelInCommand ==
  ASSUME NEW B, NEW before \in Seq(B), NEW ims, Shaped(call, command, before, ims),
         NEW k \in DOMAIN ims, VerifyImage(ims[k].image), Representable(ims[k].image)
  PROVE  /\ command.images[k].width = ims[k].image.width
         /\ command.images[k].height = ims[k].image.height
         /\ ims[k].image.width \in Nat /\ ims[k].image.height \in Nat
         /\ \A x, y \in Nat : x < ims[k].image.width /\ y < ims[k].image.height
              => PixelInside(command.images[k], x, y)
<1>1. PICK im : im = ims[k].image
  OBVIOUS
<1>2. PICK out : out = command.images[k]
  OBVIOUS
<1>3. IsImage(im) /\ VerifyImage(im) /\ Representable(im)
  BY <1>1 DEF Shaped, Works, Given
<1>4. im.width \in Nat /\ im.height \in Nat
  <2>1. SizeT \subseteq Nat
    BY WordAssumption DEF SizeT
  <2> QED
    BY <1>3, <2>1 DEF IsImage, HasSides
<1>5. out = ConvertImage(im, FirstIndex(before, ims, k))
  BY <1>1, <1>2 DEF Shaped, AddImages
<1>6. out.width = im.width /\ out.height = im.height /\ out.format = im.format
  <2>1. U32(im.width) = im.width /\ U32(im.height) = im.height
    BY <1>3, <1>4, Narrowed DEF Representable
  <2> QED
    BY <1>5, <2>1 DEF ConvertImage
<1>7. PICK n \in Nat : LaidOut(command, ims, n)
  BY CommandLayout
<1>8. DOMAIN out.planes = DOMAIN im.planes
  BY <1>1, <1>2, <1>7 DEF LaidOut
<1>9. ASSUME NEW j \in DOMAIN im.planes
      PROVE  /\ out.planes[j].stride = im.planes[j].bytesperline
             /\ command.buffers[out.planes[j].index + 1].size = im.planes[j].bytesused
  <2>1. /\ im.planes[j].bytesperline \in Nat /\ im.planes[j].bytesused \in Nat
        /\ out.planes[j].stride = U32(im.planes[j].bytesperline)
    BY <1>1, <1>2, PlaneNumbers
  <2>2. command.buffers[out.planes[j].index + 1] = PlaneBuffers(ims[k])[j]
    BY <1>1, <1>2, <1>7 DEF LaidOut, Place
  <2>3. command.buffers[out.planes[j].index + 1].size = U32(im.planes[j].bytesused)
    BY <1>1, <2>2 DEF PlaneBuffers
  <2>4. /\ U32(im.planes[j].bytesperline) = im.planes[j].bytesperline
        /\ U32(im.planes[j].bytesused) = im.planes[j].bytesused
    BY <1>3, <2>1, Narrowed DEF Representable
  <2> QED
    BY <2>1, <2>3, <2>4
<1>10. ASSUME NEW x \in Nat, NEW y \in Nat, x < im.width, y < im.height
       PROVE  PixelInside(out, x, y)
  <2> SUFFICES ASSUME NEW j \in DOMAIN out.planes
               PROVE  LET layout == PlaneLayout[out.format][j]
                          plane == out.planes[j]
                          last == (x \div layout.across) * layout.bytes + layout.bytes - 1
                      IN  /\ last < plane.stride
                          /\ (y \div layout.down) * plane.stride + last
                               < command.buffers[plane.index + 1].size
    BY DEF PixelInside
  <2>1. j \in DOMAIN im.planes
    BY <1>8
  <2>2. LET layout == PlaneLayout[im.format][j]
            last == (x \div layout.across) * layout.bytes + layout.bytes - 1
        IN  /\ last < im.planes[j].bytesperline
            /\ (y \div layout.down) * im.planes[j].bytesperline + last < im.planes[j].bytesused
    BY <1>3, <1>10, <2>1, PixelHeld
  <2> QED
    BY <1>6, <1>9, <2>1, <2>2
<1> QED
  BY <1>1, <1>2, <1>4, <1>6, <1>10

(* Every pixel of every image the DSP works on whole is inside its planes  *)
(* and the buffers the driver is given, if 32 bits hold the image's sizes. *)
THEOREM PixelsStayInside == Spec => []PixelsInside
<1>1. SentOK => PixelsInside
  <2> SUFFICES ASSUME SentOK, command # NULL, NEW k \in DOMAIN command.images,
                      ~(k = 1 /\ call.op \in {"CROP", "MULTI"}),
                      \A i \in Inputs(call) \cup Outputs(call) : Representable(i)
               PROVE  \A x \in 0..(command.images[k].width - 1),
                         y \in 0..(command.images[k].height - 1) :
                        PixelInside(command.images[k], x, y)
    BY DEF PixelsInside
  <2>1. PICK B, before, ims : before \in Seq(B) /\ Shaped(call, command, before, ims)
    BY SentShaped DEF SentOK
  <2>2. k \in DOMAIN ims
    <3>1. PICK n \in Nat : LaidOut(command, ims, n)
      BY <2>1, CommandLayout
    <3> QED
      BY <3>1 DEF LaidOut
  <2>3. VerifyImage(ims[k].image) /\ Representable(ims[k].image)
    BY <2>1, <2>2 DEF Shaped, Works
  <2>4. PICK w \in Nat, h \in Nat : w = ims[k].image.width /\ h = ims[k].image.height
    BY <2>1, <2>2, <2>3, PixelInCommand
  <2>5. command.images[k].width = w /\ command.images[k].height = h
    BY <2>1, <2>2, <2>3, <2>4, PixelInCommand
  <2>6. \A x, y \in Nat : x < w /\ y < h => PixelInside(command.images[k], x, y)
    BY <2>1, <2>2, <2>3, <2>4, PixelInCommand
  <2>7. \A x \in 0..(w - 1) : x \in Nat /\ x < w
    OBVIOUS
  <2>8. \A y \in 0..(h - 1) : y \in Nat /\ y < h
    OBVIOUS
  <2> QED
    BY <2>5, <2>6, <2>7, <2>8
<1> QED
  BY <1>1, SentInvariant, PTL
(* What a crop reads of a source that is itself a correct image is inside  *)
(* the source's planes and the buffers the driver is given.                *)
THEOREM CropStaysInside == Spec => []CropOfCorrectSource
<1>1. SentOK => CropOfCorrectSource
  <2> SUFFICES ASSUME SentOK, command # NULL, call.op \in {"CROP", "MULTI"},
                      VerifyImage(call.src), Representable(call.src)
               PROVE  CropPixelsInside
    BY DEF CropOfCorrectSource
  <2>1. PICK B, before, ims : before \in Seq(B) /\ Shaped(call, command, before, ims)
    BY SentShaped DEF SentOK
  <2>2. 1 \in DOMAIN ims /\ ims[1].image = call.src
    BY <2>1 DEF Shaped, Works
  <2>3. PICK w \in Nat, h \in Nat : w = call.src.width /\ h = call.src.height
    BY <2>1, <2>2, PixelInCommand
  <2>4. \A x, y \in Nat : x < w /\ y < h => PixelInside(command.images[1], x, y)
    BY <2>1, <2>2, <2>3, PixelInCommand
  <2>5. /\ HasRoi(call.roi) /\ VerifyCrop(call.src, call.roi)
        /\ command.rois = <<RoiU32(call.roi)>>
    <3>1. Sent(call, command)
      BY DEF SentOK
    <3>2. /\ CropAccepted(call) => VerifyCrop(call.src, call.roi)
          /\ MultiAccepted(call) => VerifyCrop(call.src, call.roi)
      BY DEF CropAccepted, MultiAccepted
    <3>3. CropRequest(call).rois = <<RoiU32(call.roi)>>
      BY DEF CropRequest, Request
    <3>4. MultiRequest(call).rois = <<RoiU32(call.roi)>>
      BY DEF MultiRequest, Request
    <3> QED
      BY <3>1, <3>2, <3>3, <3>4 DEF Sent
  <2>6. PICK a \in Nat, b \in Nat, d \in Nat, e \in Nat :
          /\ a = call.roi.start_x /\ b = call.roi.start_y
          /\ d = call.roi.end_x /\ e = call.roi.end_y
    BY <2>5, WordAssumption DEF HasRoi, SizeT
  <2>7. d <= w /\ e <= h
    BY <2>3, <2>5, <2>6 DEF VerifyCrop, VerifyRoi
  <2>8. /\ U32(a) \in Nat /\ U32(b) \in Nat /\ U32(d) \in Nat /\ U32(e) \in Nat
        /\ U32(d) <= d /\ U32(e) <= e
    BY NarrowRange
  <2>9. /\ command.rois[1].start_x = U32(a) /\ command.rois[1].end_x = U32(d)
        /\ command.rois[1].start_y = U32(b) /\ command.rois[1].end_y = U32(e)
    BY <2>5, <2>6 DEF RoiU32
  <2>10. \A x \in U32(a)..(U32(d) - 1) : x \in Nat /\ x < w
    BY <2>7, <2>8
  <2>11. \A y \in U32(b)..(U32(e) - 1) : y \in Nat /\ y < h
    BY <2>7, <2>8
  <2> QED
    BY <2>4, <2>9, <2>10, <2>11 DEF CropPixelsInside
<1> QED
  BY <1>1, SentInvariant, PTL

-----------------------------------------------------------------------------
(* The side tables.                                                        *)

\* The bitmask of every source and every mesh are smaller than 4 GiB, so the
\* driver's 32-bit size field holds their size.
TablesFit32 ==
  /\ \A s \in Sources \ {NULL} : MaskStride(s) * MaskLines(s) < U32Mod
  /\ \A m \in Meshes \ {NULL} : m.width * 2 * 4 * m.height < U32Mod

\* A factor of a product that fits a word fits it too.
LEMMA FactorFits ==
  ASSUME NEW a \in Nat, NEW b \in Nat \ {0}, NEW K \in Nat, a * b < K
  PROVE  a < K
<1>1. a * 1 <= a * b
  <2>1. PICK d \in Nat : b = d + 1
    <3>1. b - 1 \in Nat /\ b = (b - 1) + 1
      OBVIOUS
    <3> QED
      BY <3>1
  <2>2. a * (d + 1) = a * d + a /\ a * d \in Nat
    OBVIOUS
  <2> QED
    BY <2>1, <2>2
<1> QED
  BY <1>1

LEMMA WordsFit ==
  ASSUME NEW n \in Nat, n < U32Mod
  PROVE  U32(n) = n /\ Size(n) = n /\ U32(Size(n)) = n
<1>1. n < SizeMod
  BY WordAssumption
<1> QED
  BY <1>1, Narrowed, NotWrapped

\* The bitmask: its lines are a multiple of 8 bytes, and a bit for each 4x4
\* block of the image is inside it.
LEMMA BitmaskHoldsImage ==
  ASSUME NEW s, s.width \in Nat, s.height \in Nat, s.width < U32Mod, s.height < U32Mod
  PROVE  /\ MaskStride(s) % 8 = 0
         /\ \A x, y \in Nat : x < s.width /\ y < s.height =>
              /\ (x \div 4) \div 8 < MaskStride(s)
              /\ (y \div 4) * MaskStride(s) + (x \div 4) \div 8
                   < MaskStride(s) * MaskLines(s)
<1>d. Double(s.width) = s.width /\ Double(s.height) = s.height
  BY WordExact
<1>1. PICK l \in Nat : l = MaskStride(s)
  BY <1>d DEF MaskStride, RoundUp, CeilDiv, MaskQuantization
<1>2. PICK h \in Nat : h = MaskLines(s) /\ h = (s.height + 3) \div 4
  BY <1>d DEF MaskLines, CeilDiv, MaskQuantization
<1>3. MaskStride(s) = (((s.width + 31) \div 32 + 7) \div 8) * 8
  BY <1>d DEF MaskStride, RoundUp, CeilDiv, MaskQuantization
<1>4. l % 8 = 0
  <2>1. PICK e \in Nat : e = ((s.width + 31) \div 32 + 7) \div 8
    OBVIOUS
  <2>2. (e * 8) % 8 = 0
    OBVIOUS
  <2> QED
    BY <1>1, <1>3, <2>1, <2>2
<1>5. (s.width + 31) \div 32 <= l
  BY <1>1, <1>3
<1>6. ASSUME NEW x \in Nat, NEW y \in Nat, x < s.width, y < s.height
      PROVE  /\ (x \div 4) \div 8 < l
             /\ (y \div 4) * l + (x \div 4) \div 8 < l * h
  <2>1. (x \div 4) \div 8 < (s.width + 31) \div 32
    BY <1>6
  <2>2. PICK e \in Nat : e = (x \div 4) \div 8
    OBVIOUS
  <2>3. e < l
    BY <1>5, <2>1, <2>2
  <2>4. PICK v \in Nat : v = y \div 4
    OBVIOUS
  <2>5. v < h
    BY <1>2, <1>6, <2>4
  <2>6. v * l + e < h * l
    BY <2>3, <2>5, LineInside
  <2>7. h * l = l * h
    OBVIOUS
  <2> QED
    BY <2>2, <2>3, <2>4, <2>6, <2>7
<1> QED
  BY <1>1, <1>2, <1>4, <1>6

\* The mask of a command, with the numbers the DSP sees.
LEMMA MaskFits ==
  ASSUME TablesFit32, NEW s \in Sources \ {NULL}, Representable(s), s.height < FloatHeights,
         NEW m \in Masks \ {NULL}, VerifyMask(s, m, MaxMaskRois)
  PROVE  /\ s.width \in Nat /\ s.height \in Nat
         /\ s.width < U32Mod /\ s.height < U32Mod
         /\ U32(MaskStride(s)) = MaskStride(s)
         /\ U32(MaskSize(s)) = MaskStride(s) * MaskLines(s)
         /\ MaskSize(s) = MaskStride(s) * MaskLines(s)
         /\ \A i \in DOMAIN m.rois : /\ HasRoi(m.rois[i])
                                     /\ RoiU32(m.rois[i]).start_x = m.rois[i].start_x
                                     /\ RoiU32(m.rois[i]).start_y = m.rois[i].start_y
                                     /\ RoiU32(m.rois[i]).end_x = m.rois[i].end_x
                                     /\ RoiU32(m.rois[i]).end_y = m.rois[i].end_y
<1>1. IsImage(s) /\ s.width \in Nat /\ s.height \in Nat
  <2>1. SizeT \subseteq Nat
    BY WordAssumption DEF SizeT
  <2> QED
    BY <2>1, InputAssumption DEF IsImage, HasSides
<1>2. PICK l \in Nat : l = MaskStride(s)
  BY <1>1, MaskSizes
<1>3. PICK h \in Nat : h = MaskLines(s)
  BY <1>1, MaskSizes
<1>d. s.width < U32Mod /\ s.height < U32Mod /\ U32Mod \in Nat
  BY WordAssumption DEF Representable
<1>f. PICK a \in Nat, b \in Nat : /\ a = MaskWidthLimit(s) /\ a <= s.width
                                  /\ b = MaskHeightLimit(s) /\ b <= s.height /\ b <= h
  <2>1. s.height < SizeMod /\ s.width < SizeMod /\ s.height < 4 * FloatExact
    BY <1>1, <1>d, WordAssumption DEF FloatHeights
  <2>2. CeilDiv(Float(s.height), 4) <= CeilDiv(s.height, 4)
    BY <1>1, <2>1, FloatLines
  <2>3. h = CeilDiv(s.height, 4)
    BY <1>1, <1>3, <1>d, WordExact DEF MaskLines, MaskQuantization
  <2> QED
    BY <1>1, <2>1, <2>2, <2>3, FloatLimit DEF MaskWidthLimit, MaskHeightLimit, MaskQuantization
<1>4. l * h < U32Mod /\ l * h \in Nat
  BY <1>2, <1>3 DEF TablesFit32
<1>5. MaskSize(s) = l * h /\ U32(MaskSize(s)) = l * h
  BY <1>2, <1>3, <1>4, WordsFit DEF MaskSize
<1>6. PICK k \in Nat : k = Len(m.rois) /\ DOMAIN m.rois = 1..k
  BY InputAssumption DEF HasRois, IsArray
<1>7. 1 \in DOMAIN m.rois
  <2>1. k \in 1..MaxMaskRois
    BY <1>6 DEF VerifyMask
  <2> QED
    BY <1>6, <2>1
<1>8. ASSUME NEW i \in DOMAIN m.rois
      PROVE  /\ HasRoi(m.rois[i])
             /\ RoiU32(m.rois[i]).start_x = m.rois[i].start_x
             /\ RoiU32(m.rois[i]).start_y = m.rois[i].start_y
             /\ RoiU32(m.rois[i]).end_x = m.rois[i].end_x
             /\ RoiU32(m.rois[i]).end_y = m.rois[i].end_y
             /\ h # 0
  <2>1. HasRoi(m.rois[i])
    BY InputAssumption DEF HasRois
  <2>2. PICK x0 \in Nat, y0 \in Nat, x1 \in Nat, y1 \in Nat :
          /\ x0 = m.rois[i].start_x /\ y0 = m.rois[i].start_y
          /\ x1 = m.rois[i].end_x /\ y1 = m.rois[i].end_y
    BY <2>1, WordAssumption DEF HasRoi, SizeT
  <2>3. x0 < x1 /\ y0 < y1 /\ x1 <= a /\ y1 <= b
    BY <1>f, <2>2 DEF VerifyMask, VerifyRoi
  <2>6. x0 < U32Mod /\ y0 < U32Mod /\ x1 < U32Mod /\ y1 < U32Mod
    BY <1>1, <1>d, <1>f, <2>3
  <2>7. U32(x0) = x0 /\ U32(y0) = y0 /\ U32(x1) = x1 /\ U32(y1) = y1
    BY <2>6, Narrowed
  <2>8. h # 0
    BY <1>f, <2>3
  <2> QED
    BY <2>1, <2>2, <2>7, <2>8 DEF RoiU32
<1>9. l < U32Mod
  <2>1. U32Mod \in Nat /\ h \in Nat \ {0}
    BY <1>7, <1>8, WordAssumption
  <2> QED
    BY <1>4, <2>1, FactorFits
<1>10. U32(l) = l
  BY <1>9, Narrowed
<1> QED
  BY <1>1, <1>2, <1>3, <1>5, <1>8, <1>10, <1>d

\* The mesh of a command.
LEMMA MeshFits ==
  ASSUME TablesFit32, NEW m \in Meshes \ {NULL}, m.width # 0, m.height # 0
  PROVE  \E w, h \in Nat :
           /\ U32(m.width) = w /\ U32(m.height) = h
           /\ U32(Size(m.width * 2 * 4)) = 8 * w
           /\ U32(Size(Size(m.width * 2 * 4) * m.height)) = (8 * w) * h
<1>1. PICK w \in Nat \ {0}, h \in Nat \ {0} : w = m.width /\ h = m.height
  BY MeshNumbers
<1>2. w * 2 * 4 = 8 * w /\ 8 * w \in Nat
  OBVIOUS
<1>3. (8 * w) * h < U32Mod /\ (8 * w) * h \in Nat
  BY <1>1, <1>2 DEF TablesFit32
<1>4. U32Mod \in Nat
  BY WordAssumption
<1>5. 8 * w < U32Mod
  BY <1>2, <1>3, <1>4, FactorFits
<1>6. w < U32Mod
  BY <1>4, <1>5
<1>7. h < U32Mod
  <2>1. h * (8 * w) < U32Mod /\ 8 * w \in Nat \ {0}
    BY <1>3
  <2> QED
    BY <1>4, <2>1, FactorFits
<1>8. U32(w) = w /\ U32(h) = h
  BY <1>6, <1>7, Narrowed
<1>9. Size(8 * w) = 8 * w /\ U32(Size(8 * w)) = 8 * w
  BY <1>2, <1>5, WordsFit
<1>10. U32(Size((8 * w) * h)) = (8 * w) * h
  BY <1>3, WordsFit
<1> QED
  BY <1>1, <1>2, <1>8, <1>9, <1>10

(* The bitmask of a command has a bit for every pixel of the source and    *)
(* every block of every region, for a source of fewer than 2^26 lines, and *)
(* the mesh's buffer holds every vertex, if the tables are smaller than    *)
(* 4 GiB.                                                                  *)
THEOREM TablesHoldWhatTheyDescribe ==
  ASSUME TablesFit32
  PROVE  Spec => []SideTablesFit
<1>1. SentOK => SideTablesFit
  <2> SUFFICES ASSUME SentOK, command # NULL, Representable(call.src),
                      command.mask # NULL => call.src.height < FloatHeights
               PROVE  SideTablesFit
    BY DEF SideTablesFit
  <2> DEFINE inside(t, line, last) ==
        last < t.stride /\ line * t.stride + last < command.buffers[t.index + 1].size
  <2>1. PICK B, before, ims : before \in Seq(B) /\ Shaped(call, command, before, ims)
    BY SentShaped DEF SentOK
  <2>2. PICK n \in Nat : LaidOut(command, ims, n)
    BY <2>1, CommandLayout
  <2>3. \A t \in SideTables : command.buffers[t.index + 1].size = t.size
    BY <2>2 DEF LaidOut, TableBuffer, TablesOf, SideTables
  <2>4. Sent(call, command)
    BY DEF SentOK
  <2>5. command.mask # NULL =>
          /\ command.mask.stride % 8 = 0
          /\ \A x \in 0..(call.src.width - 1), y \in 0..(call.src.height - 1) :
               inside(command.mask, y \div 4, (x \div 4) \div 8)
          /\ \A i \in DOMAIN command.mask.rois :
               LET r == command.mask.rois[i]
               IN  \A x \in r.start_x..(r.end_x - 1), y \in r.start_y..(r.end_y - 1) :
                     inside(command.mask, y, x \div 8)
    <3> SUFFICES ASSUME command.mask # NULL
                 PROVE  /\ command.mask.stride % 8 = 0
                        /\ \A x \in 0..(call.src.width - 1), y \in 0..(call.src.height - 1) :
                             inside(command.mask, y \div 4, (x \div 4) \div 8)
                        /\ \A i \in DOMAIN command.mask.rois :
                             LET r == command.mask.rois[i]
                             IN  \A x \in r.start_x..(r.end_x - 1), y \in r.start_y..(r.end_y - 1) :
                                   inside(command.mask, y, x \div 8)
      OBVIOUS
    <3>1. /\ call.src \in Sources \ {NULL} /\ call.mask \in Masks
          /\ MultiAccepted(call) /\ command = MultiRequest(call)
      <4>1. /\ CropRequest(call).mask = NULL /\ BlendRequest(call).mask = NULL
            /\ BlurRequest(call).mask = NULL /\ ConvertRequest(call).mask = NULL
        BY DEF CropRequest, BlendRequest, BlurRequest, ConvertRequest, Request
      <4>2. DewarpRequest(call).mask = NULL
        BY DEF DewarpRequest, Request
      <4> QED
        BY <2>4, <4>1, <4>2 DEF Sent
    <3>2. call.mask # NULL
      BY <3>1 DEF MultiRequest, Request
    <3>3. /\ command.mask.stride = U32(MaskStride(call.src))
          /\ command.mask.size = U32(MaskSize(call.src))
          /\ command.mask.rois = [i \in DOMAIN call.mask.rois |-> RoiU32(call.mask.rois[i])]
      BY <3>1, <3>2 DEF MultiRequest, Request
    <3>4. PICK s, m : s = call.src /\ m = call.mask
      OBVIOUS
    <3>5. /\ VerifyMask(s, m, MaxMaskRois) /\ s \in Sources \ {NULL} /\ m \in Masks \ {NULL}
          /\ Representable(s) /\ s.height < FloatHeights
      BY <3>1, <3>2, <3>4 DEF MultiAccepted
    <3>6. PICK l, z : l = MaskStride(s) /\ z = MaskStride(s) * MaskLines(s)
      OBVIOUS
    <3>7. /\ s.width \in Nat /\ s.height \in Nat
          /\ s.width < U32Mod /\ s.height < U32Mod
          /\ U32(MaskStride(s)) = l /\ U32(MaskSize(s)) = z /\ MaskSize(s) = z
          /\ \A i \in DOMAIN m.rois : /\ HasRoi(m.rois[i])
                                      /\ RoiU32(m.rois[i]).start_x = m.rois[i].start_x
                                      /\ RoiU32(m.rois[i]).start_y = m.rois[i].start_y
                                      /\ RoiU32(m.rois[i]).end_x = m.rois[i].end_x
                                      /\ RoiU32(m.rois[i]).end_y = m.rois[i].end_y
      BY <3>4, <3>5, <3>6, MaskFits
    <3>8. command.mask.stride = l /\ command.buffers[command.mask.index + 1].size = z
      BY <2>3, <3>3, <3>4, <3>7 DEF SideTables
    <3>9. ASSUME NEW line, NEW last, last < l, line * l + last < z
          PROVE  inside(command.mask, line, last)
      BY <3>8, <3>9
    <3> HIDE DEF inside
    <3>10. command.mask.stride % 8 = 0
      BY <3>6, <3>7, <3>8, BitmaskHoldsImage
    <3>11. ASSUME NEW x \in 0..(call.src.width - 1), NEW y \in 0..(call.src.height - 1)
           PROVE  inside(command.mask, y \div 4, (x \div 4) \div 8)
      <4>1. PICK w \in Nat, h \in Nat : w = s.width /\ h = s.height
        BY <3>7
      <4>2. x \in 0..(w - 1) /\ y \in 0..(h - 1)
        BY <3>4, <4>1
      <4>3. x \in Nat /\ y \in Nat /\ x < w /\ y < h
        BY <4>2
      <4>4. (x \div 4) \div 8 < l /\ (y \div 4) * l + (x \div 4) \div 8 < z
        BY <3>6, <3>7, <4>1, <4>3, BitmaskHoldsImage
      <4> QED
        BY <3>9, <4>4
    <3>12. ASSUME NEW i \in DOMAIN command.mask.rois, NEW r, r = command.mask.rois[i],
                  NEW x \in r.start_x..(r.end_x - 1), NEW y \in r.start_y..(r.end_y - 1)
           PROVE  inside(command.mask, y, x \div 8)
      <4>1. i \in DOMAIN m.rois /\ r = RoiU32(m.rois[i])
        BY <3>3, <3>4, <3>12
      <4>2. /\ x \in m.rois[i].start_x..(m.rois[i].end_x - 1)
            /\ y \in m.rois[i].start_y..(m.rois[i].end_y - 1)
        BY <3>7, <4>1
      <4>3. z < SizeMod /\ HasRoi(m.rois[i])
        <5>1. PICK k \in Nat : k = z /\ k < U32Mod
          BY <3>5, <3>6, <3>7, MaskSizes, InputAssumption DEF TablesFit32
        <5> QED
          BY <5>1, <3>7, <4>1, WordAssumption
      <4>4. x \div 8 < l /\ y * l + x \div 8 < z
        BY <3>5, <3>6, <3>7, <4>1, <4>2, <4>3, MaskRegionInBitmask
      <4> QED
        BY <3>9, <4>4
    <3> QED
      BY <3>10, <3>11, <3>12
  <2>6. command.mesh # NULL =>
          \A i \in 0..(command.mesh.width - 1), k \in 0..(command.mesh.height - 1) :
            inside(command.mesh, k, 8 * i + 7)
    <3> SUFFICES ASSUME command.mesh # NULL
                 PROVE  \A i \in 0..(command.mesh.width - 1), k \in 0..(command.mesh.height - 1) :
                          inside(command.mesh, k, 8 * i + 7)
      OBVIOUS
    <3>1. call.mesh \in Meshes \ {NULL} /\ DewarpAccepted(call) /\ command = DewarpRequest(call)
      <4>1. /\ CropRequest(call).mesh = NULL /\ BlendRequest(call).mesh = NULL
            /\ BlurRequest(call).mesh = NULL /\ ConvertRequest(call).mesh = NULL
        BY DEF CropRequest, BlendRequest, BlurRequest, ConvertRequest, Request
      <4>2. MultiRequest(call).mesh = NULL
        BY DEF MultiRequest, Request
      <4> QED
        BY <2>4, <4>1, <4>2 DEF Sent
    <3>2. PICK m : m = call.mesh
      OBVIOUS
    <3>3. /\ command.mesh.stride = U32(Size(m.width * 2 * 4))
          /\ command.mesh.size = U32(Size(Size(m.width * 2 * 4) * m.height))
          /\ command.mesh.width = U32(m.width) /\ command.mesh.height = U32(m.height)
      BY <3>1, <3>2 DEF DewarpRequest, Request
    <3>4. m \in Meshes \ {NULL} /\ m.width # 0 /\ m.height # 0
      BY <3>1, <3>2 DEF DewarpAccepted, VerifyMesh
    <3>5. PICK w \in Nat, h \in Nat :
            /\ U32(m.width) = w /\ U32(m.height) = h
            /\ U32(Size(m.width * 2 * 4)) = 8 * w
            /\ U32(Size(Size(m.width * 2 * 4) * m.height)) = (8 * w) * h
      BY <3>4, MeshFits
    <3>6. command.buffers[command.mesh.index + 1].size = (8 * w) * h
      BY <2>3, <3>3, <3>5 DEF SideTables
    <3>7. ASSUME NEW i \in 0..(w - 1), NEW k \in 0..(h - 1)
          PROVE  inside(command.mesh, k, 8 * i + 7)
      <4>1. PICK v \in Nat : v = 8 * w
        OBVIOUS
      <4>2. 8 * i + 7 \in Nat /\ 8 * i + 7 < v
        BY <4>1
      <4>3. k \in Nat /\ k < h
        OBVIOUS
      <4>4. k * v + (8 * i + 7) < h * v
        BY <4>2, <4>3, LineInside
      <4>5. h * v = v * h
        OBVIOUS
      <4> QED
        BY <3>3, <3>5, <3>6, <4>1, <4>2, <4>4, <4>5
    <3> HIDE DEF inside
    <3> QED
      BY <3>3, <3>5, <3>7
  <2> QED
    BY <2>5, <2>6 DEF SideTablesFit
<1> QED
  BY <1>1, SentInvariant, PTL
=============================================================================
