--------------------------- MODULE VectorCodeProofs ---------------------------
(***************************************************************************)
(* What the vector code of a gang computes, for every gang size: the       *)
(* packed, shuffled and scattered memory accesses (PackedMem), the         *)
(* collectives (Collectives), the reductions (Reductions), and the shapes  *)
(* all of them rely on (ShapeRules, Shapes).  They rest on the same facts  *)
(* about quotients and about least elements.                               *)
(***************************************************************************)
EXTENDS PackedMem, Collectives, Reductions, Shapes,
        FiniteSetTheorems, WellFoundedInduction, TLAPS

-----------------------------------------------------------------------------
(* Largest and smallest numbers *)

Below == {p \in Nat \X Nat : p[1] < p[2]}

\* A non-empty set of natural numbers has a least element.
LEMMA LeastNat ==
    ASSUME NEW S \in SUBSET Nat, S # {}
    PROVE  \E m \in S : \A n \in S : m <= n
  <1>1. Below = OpToRel(<, Nat)
    BY DEF Below, OpToRel
  <1>2. IsWellFoundedOn(Below, Nat)
    BY <1>1, NatLessThanWellFounded
  <1>3. PICK m \in S : \A n \in S : ~(<<n, m>> \in Below)
    BY <1>2, WFMin
  <1>4. \A n \in S : ~(n < m)
    BY <1>3 DEF Below
  <1> QED
    BY <1>4

\* A set of integers with a lower bound has a least element, Min.
LEMMA MinOf ==
    ASSUME NEW S \in SUBSET Int, S # {}, NEW b \in Int, \A x \in S : b <= x
    PROVE  Min(S) \in S /\ \A x \in S : Min(S) <= x
  <1> DEFINE T == {x - b : x \in S}
  <1>0. \A x \in S : x - b \in Nat
    OBVIOUS
  <1>1. T \in SUBSET Nat /\ T # {}
    BY ONLY <1>0, S # {}
  <1>2. PICK m \in T : \A n \in T : m <= n
    <2> HIDE DEF T
    <2> QED
      BY <1>1, LeastNat
  <1>3. PICK y \in S : m = y - b
    OBVIOUS
  <1>4. \A x \in S : y <= x
    <2> TAKE x \in S
    <2>1. m <= x - b
      BY <1>2
    <2> QED
      BY <1>3, <2>1
  <1> QED
    BY <1>3, <1>4 DEF Min

\* A set of integers with an upper bound has a largest element, Max.
LEMMA MaxOf ==
    ASSUME NEW S \in SUBSET Int, S # {}, NEW b \in Int, \A x \in S : x <= b
    PROVE  Max(S) \in S /\ \A x \in S : x <= Max(S)
  <1> DEFINE T == {b - x : x \in S}
  <1>0. \A x \in S : b - x \in Nat
    OBVIOUS
  <1>1. T \in SUBSET Nat /\ T # {}
    BY ONLY <1>0, S # {}
  <1>2. PICK m \in T : \A n \in T : m <= n
    <2> HIDE DEF T
    <2> QED
      BY <1>1, LeastNat
  <1>3. PICK y \in S : m = b - y
    OBVIOUS
  <1>4. \A x \in S : y >= x
    <2> TAKE x \in S
    <2>1. m <= b - x
      BY <1>2
    <2> QED
      BY <1>3, <2>1
  <1> QED
    BY <1>3, <1>4 DEF Max

-----------------------------------------------------------------------------
(* Division *)

\* Quotient and remainder.
LEMMA DivMod ==
    ASSUME NEW a \in Int, NEW n \in Nat, n > 0
    PROVE  /\ a \div n \in Int /\ a % n \in Int
           /\ a = n * (a \div n) + (a % n)
           /\ 0 <= a % n /\ a % n < n
  BY SMTT(60)

\* The only multiple of w that is nearer to 0 than w is 0.
LEMMA NoMultiple ==
    ASSUME NEW w \in Nat, NEW k \in Int, -w < w * k, w * k < w
    PROVE  k = 0
  <1>1. CASE k >= 1
    <2> DEFINE d == k - 1
    <2>1. d \in Nat /\ k = d + 1
      BY <1>1
    <2> HIDE DEF d
    <2>2. w * (d + 1) = w * d + w /\ w * d >= 0
      BY <2>1
    <2> QED
      BY <2>1, <2>2
  <1>2. CASE k <= -1
    <2> DEFINE d == -k - 1
    <2>1. d \in Nat /\ k = -(d + 1)
      BY <1>2
    <2> HIDE DEF d
    <2>2. w * (-(d + 1)) = -(w * d) - w /\ w * d >= 0 /\ w * d \in Nat
      BY <2>1
    <2> QED
      BY <2>1, <2>2
  <1> QED
    BY <1>1, <1>2

\* What determines a quotient.
LEMMA QuotientIs ==
    ASSUME NEW n \in Nat, n > 0, NEW q \in Int, NEW r \in Int, 0 <= r, r < n
    PROVE  (n * q + r) \div n = q /\ (n * q + r) % n = r
  <1> DEFINE a == n * q + r
             p == a \div n
             s == a % n
  <1>1. n * q \in Int
    OBVIOUS
  <1>2. a \in Int
    BY <1>1
  <1>3. p \in Int /\ s \in Int /\ a = n * p + s /\ 0 <= s /\ s < n
    BY <1>2, DivMod
  <1>4. a = n * q + r
    OBVIOUS
  <1> HIDE DEF a, p, s
  <1>5. n * (q - p) = n * q - n * p /\ n * p \in Int
    BY <1>3
  <1>6. n * (q - p) = s - r
    BY <1>1, <1>3, <1>4, <1>5
  <1>7. q - p = 0
    BY <1>3, <1>6, NoMultiple
  <1>8. q = p
    BY <1>3, <1>7
  <1>9. s = r
    BY <1>1, <1>3, <1>4, <1>8
  <1> QED
    BY <1>8, <1>9 DEF a, p, s

\* A word whose low bits are those of q, read with a sign, is q.
LEMMA SignedIs ==
    ASSUME NEW w \in Nat, NEW q \in Int, NEW k \in Int, -w <= 2 * q, 2 * q < w
    PROVE  Signed(q + w * k, w) = q
  <1>0. w > 0
    OBVIOUS
  <1>1. CASE q >= 0
    <2>1. (w * k + q) % w = q
      BY <1>0, <1>1, QuotientIs
    <2>2. w * k + q = q + w * k
      OBVIOUS
    <2> QED
      BY <1>1, <2>1, <2>2 DEF Signed
  <1>2. CASE q < 0
    <2>0. q + w \in Int /\ 0 <= q + w /\ q + w < w /\ k - 1 \in Int
      BY <1>2
    <2>1. (w * (k - 1) + (q + w)) % w = q + w
      BY <1>0, <2>0, QuotientIs
    <2>2. w * (k - 1) = w * k - w /\ w * k \in Int
      OBVIOUS
    <2>3. w * (k - 1) + (q + w) = q + w * k
      BY <2>2
    <2> QED
      BY <1>2, <2>1, <2>3 DEF Signed
  <1> QED
    BY <1>1, <1>2

\* Rounding, of a multiple of e: away by at most one, because a negative
\* quotient is cut towards 0.
LEMMA CeilDivOf ==
    ASSUME NEW e \in Nat, e > 0, NEW q \in Int
    PROVE  /\ CeilDiv(e * q, e) \in Int
           /\ q <= CeilDiv(e * q, e) /\ CeilDiv(e * q, e) <= q + 1
           /\ q >= 0 => CeilDiv(e * q, e) = q
  <1> DEFINE a == e * q + e - 1
  <1>1. e * q \in Int /\ a \in Int /\ a = e * q + (e - 1)
    OBVIOUS
  <1>2. (e * q + (e - 1)) \div e = q
    BY QuotientIs
  <1>3. CASE a >= 0
    <2>1. CeilDiv(e * q, e) = q
      BY <1>1, <1>2, <1>3 DEF CeilDiv, Quot
    <2> QED
      BY <2>1
  <1>4. CASE a < 0
    <2>1. q < 0
      <3>1. q >= 0 => e * q >= 0
        OBVIOUS
      <3> QED
        BY <1>1, <1>4, <3>1
    <2>2. CeilDiv(e * q, e) = -((-a) \div e)
      BY <1>4 DEF CeilDiv, Quot
    <2>3. CASE e = 1
      <3>1. -a = e * (-q) + 0
        BY <1>1, <2>3
      <3>2. (e * (-q) + 0) \div e = -q
        BY QuotientIs
      <3> QED
        BY <2>1, <2>2, <3>1, <3>2
    <2>4. CASE e > 1
      <3>1. e * (-q - 1) = -(e * q) - e
        OBVIOUS
      <3>2. -a = e * (-q - 1) + 1
        BY <1>1, <3>1
      <3>3. (e * (-q - 1) + 1) \div e = -q - 1
        BY <2>4, QuotientIs
      <3>4. CeilDiv(e * q, e) = q + 1
        BY <2>2, <3>2, <3>3
      <3> QED
        BY <2>1, <3>4
    <2> QED
      BY <2>3, <2>4
  <1> QED
    BY <1>1, <1>3, <1>4

-----------------------------------------------------------------------------
(* The shape of the pointer *)

\* An access has typed fields, and its widths divide each other.
LEMMA InstType ==
    ASSUME NEW i \in Insts
    PROVE  /\ NumLanes \in Nat /\ NumLanes > 0 /\ 0 \in Lanes
           /\ i.kind \in {"load", "store"}
           /\ i.esize \in Nat /\ i.esize > 0
           /\ i.idx \in [Lanes -> Int]
           /\ i.value \in {"uniform", "strided", "varying"}
           /\ i.active \subseteq Lanes /\ i.active # {}
           /\ Wrap64 \in Nat /\ Wrap64 > 0 /\ Wrap32 \in Nat /\ 8 * NumLanes < Wrap32
           /\ \A l \in Lanes : -Wrap64 <= 2 * i.idx[l] /\ 2 * i.idx[l] < Wrap64
           /\ Wrap64 % (i.esize * Wrap32) = 0
  <1>1. NumLanes \in Nat /\ NumLanes > 0 /\ 0 \in Lanes
    BY LanesAssumption DEF Lanes
  <1>2. 8 * NumLanes < Wrap32
    BY <1>1, PackedMemAssumption DEF MaxFactor
  <1> QED
    BY <1>1, <1>2, PackedMemAssumption

\* 2^64 is a multiple of the elements' sizes, by a multiple of 2^32.
LEMMA WrapOf ==
    ASSUME NEW i \in Insts
    PROVE  \E c \in Nat : /\ Wrap64 = i.esize * (Wrap32 * c)
                          /\ Wrap32 * c \in Nat /\ Wrap32 <= Wrap32 * c
  <1> DEFINE e == i.esize
             u == e * Wrap32
             c == Wrap64 \div u
  <1>1. e \in Nat /\ e > 0 /\ Wrap32 \in Nat /\ Wrap32 > 0 /\ Wrap64 \in Nat
        /\ Wrap64 > 0 /\ Wrap64 % u = 0
    BY InstType
  <1> HIDE DEF e
  <1>2. u \in Nat /\ u > 0
    <2>1. PICK d \in Nat : e = d + 1
      <3>1. e - 1 \in Nat /\ e = (e - 1) + 1
        BY <1>1
      <3> QED
        BY <3>1
    <2>2. (d + 1) * Wrap32 = d * Wrap32 + Wrap32 /\ d * Wrap32 \in Nat
      BY <1>1
    <2> QED
      BY <1>1, <2>1, <2>2
  <1>3. u = e * Wrap32
    OBVIOUS
  <1> HIDE DEF u
  <1>4. c \in Int /\ Wrap64 = u * c + (Wrap64 % u)
    BY <1>1, <1>2, DivMod
  <1> HIDE DEF c
  <1>5. Wrap64 = u * c
    <2>1. u * c \in Int
      BY <1>2, <1>4
    <2> QED
      BY <1>1, <1>4, <2>1
  <1>6. c >= 1
    <2> SUFFICES ASSUME c <= 0 PROVE FALSE
      BY <1>4
    <2>1. u * c <= 0
      BY <1>2, <1>4
    <2> QED
      BY <1>1, <1>5, <2>1
  <1>7. (e * Wrap32) * c = e * (Wrap32 * c)
    BY <1>1, <1>4
  <1>8. Wrap32 * c = Wrap32 * (c - 1) + Wrap32 /\ Wrap32 * (c - 1) >= 0
    BY <1>1, <1>4, <1>6
  <1>9. Wrap32 * c \in Nat /\ Wrap32 <= Wrap32 * c
    BY <1>1, <1>4, <1>6, <1>8
  <1>10. c \in Nat
    BY <1>4, <1>6
  <1>11. Wrap64 = e * (Wrap32 * c)
    BY <1>3, <1>5, <1>7
  <1> QED
    BY <1>9, <1>10, <1>11 DEF e

\* The elements of a packed access are within half of the address space.
LEMMA ElementsFit ==
    ASSUME NEW i \in Insts
    PROVE  2 * (NumLanes * i.esize) < Wrap64 /\ NumLanes * i.esize \in Nat
  <1> DEFINE e == i.esize
  <1>1. PICK c \in Nat : Wrap64 = e * (Wrap32 * c) /\ Wrap32 * c \in Nat
                         /\ Wrap32 <= Wrap32 * c
    BY WrapOf
  <1> DEFINE w == Wrap32 * c
  <1>2. e \in Nat /\ e > 0 /\ NumLanes \in Nat /\ 8 * NumLanes < w /\ w \in Nat
    BY <1>1, InstType
  <1>3. Wrap64 = e * w
    BY <1>1
  <1> HIDE DEF w
  <1>4. NumLanes * e \in Nat
    BY <1>2
  <1>5. e * (w - 2 * NumLanes) > 0
    <2> DEFINE d == w - 2 * NumLanes
    <2>1. d \in Nat /\ d > 0
      BY <1>2
    <2> HIDE DEF d
    <2>2. e * d > 0
      BY <1>2, <2>1
    <2> QED
      BY <2>2 DEF d
  <1>6. e * (w - 2 * NumLanes) = e * w - 2 * (NumLanes * e) /\ e * w \in Int
    BY <1>2
  <1> QED
    BY <1>3, <1>4, <1>5, <1>6

\* Offsets that grow by s modulo 2^64 from lane to lane grow by s.
LEMMA StrideIs ==
    ASSUME NEW i \in Insts, BaseIsLane0s(i), NEW s \in Nat,
           2 * (NumLanes * s) < Wrap64, NumLanes * s \in Nat, HasStride(i, s)
    PROVE  \A l \in Lanes : i.idx[l] = l * s
  <1> DEFINE Off == {l \in Lanes : i.idx[l] # l * s}
  <1> SUFFICES ASSUME Off # {} PROVE FALSE
    OBVIOUS
  <1>0. NumLanes \in Nat /\ Wrap64 \in Nat
    BY InstType
  <1>1. Off \in SUBSET Nat
    BY DEF Lanes
  <1>2. PICK l \in Off : \A k \in Off : l <= k
    <2> HIDE DEF Off
    <2> QED
      BY <1>1, LeastNat
  <1>3. l \in Lanes /\ l \in Nat /\ i.idx[l] # l * s /\ i.idx[l] \in Int
    BY <1>1, InstType
  <1>4. l # 0
    <2>1. i.idx[0] = 0 /\ 0 * s = 0
      BY DEF BaseIsLane0s
    <2> QED
      BY <1>3, <2>1
  <1>5. l - 1 \in Lanes /\ l - 1 \notin Off
    <2>1. l - 1 \in Lanes
      BY <1>3, <1>4, InstType DEF Lanes
    <2>2. ~(l <= l - 1)
      BY <1>3
    <2> QED
      BY <1>2, <2>1, <2>2
  <1> DEFINE k == l - 1
             d == i.idx[l] - i.idx[k]
             m == d \div Wrap64
  <1>6. i.idx[k] = k * s /\ k \in Nat /\ l = k + 1
    BY <1>3, <1>4, <1>5
  <1>7. d % Wrap64 = s
    BY <1>3, <1>4 DEF HasStride
  <1>8. k * s \in Nat /\ (k + 1) * s = k * s + s
    BY <1>6
  <1>9. d \in Int
    BY <1>3, <1>6, <1>8
  <1>10. m \in Int /\ d = Wrap64 * m + (d % Wrap64)
    BY <1>9, InstType, DivMod
  <1>11. d = i.idx[l] - k * s
    BY <1>6
  <1>12. l * s \in Nat /\ 2 * (l * s) < Wrap64
    <2> DEFINE r == NumLanes - l
    <2>1. NumLanes \in Nat /\ r \in Nat /\ l + r = NumLanes
      BY <1>0, <1>3 DEF Lanes
    <2> HIDE DEF k, d, m, r, Off
    <2>2. (l + r) * s = l * s + r * s /\ l * s \in Nat /\ r * s \in Nat
      BY <1>3, <2>1
    <2>3. NumLanes * s = l * s + r * s
      BY <2>1, <2>2
    <2> QED
      BY <1>0, <2>2, <2>3
  <1> HIDE DEF Off, k, d, m
  <1>13. Wrap64 * m \in Int
    BY <1>10, InstType
  <1>14. Wrap64 * m = i.idx[l] - l * s
    BY <1>3, <1>6, <1>7, <1>8, <1>10, <1>11, <1>13
  <1>15. -Wrap64 < Wrap64 * m /\ Wrap64 * m < Wrap64
    BY <1>3, <1>12, <1>14, InstType
  <1>16. m = 0
    BY <1>10, <1>15, InstType, NoMultiple
  <1>17. Wrap64 * m = 0
    BY <1>16, InstType
  <1> QED
    BY <1>3, <1>12, <1>14, <1>17

\* An offset that is a multiple of the element size is one of the element
\* number, which int can hold if it is small.
LEMMA ElementIs ==
    ASSUME NEW i \in Insts, NEW l \in Lanes, (i.idx[l] % Wrap64) % i.esize = 0
    PROVE  \E q \in Int : /\ i.idx[l] = i.esize * q
                          /\ -Wrap32 <= 2 * q /\ 2 * q < Wrap32 => ElementIndex(i, l) = q
  <1> DEFINE e == i.esize
             a == i.idx[l]
             r == a % Wrap64
             t == r \div e
             k == a \div Wrap64
  <1>1. PICK c \in Nat : Wrap64 = e * (Wrap32 * c) /\ Wrap32 * c \in Nat
    BY WrapOf
  <1>2. e \in Nat /\ e > 0 /\ a \in Int /\ Wrap64 \in Nat /\ Wrap64 > 0
        /\ Wrap32 \in Nat
    BY InstType
  <1>3. r \in Int /\ k \in Int /\ a = Wrap64 * k + r
    BY <1>2, DivMod
  <1>4. t \in Int /\ r = e * t + (r % e) /\ r % e = 0
    BY <1>2, <1>3, DivMod
  <1>5. ElementIndex(i, l) = Signed(t, Wrap32)
    BY DEF ElementIndex
  <1>6. i.idx[l] = a
    OBVIOUS
  <1> HIDE DEF e, a, r, t, k
  <1> DEFINE n == -(c * k)
  <1>7. (e * (Wrap32 * c)) * k = -(e * (Wrap32 * n)) /\ n \in Int
    BY <1>2, <1>3
  <1> HIDE DEF n
  <1> DEFINE q == t - Wrap32 * n
  <1>8. Wrap32 * n \in Int
    BY <1>2, <1>7
  <1>9. q \in Int /\ t = q + Wrap32 * n
    BY <1>4, <1>8
  <1>10. e * q = e * t - e * (Wrap32 * n) /\ e * t \in Int /\ e * (Wrap32 * n) \in Int
    BY <1>2, <1>4, <1>7
  <1>11. a = e * q
    BY <1>1, <1>3, <1>4, <1>7, <1>10
  <1> HIDE DEF q
  <1>12. -Wrap32 <= 2 * q /\ 2 * q < Wrap32 => Signed(q + Wrap32 * n, Wrap32) = q
    BY <1>2, <1>7, <1>9, SignedIs
  <1>13. -Wrap32 <= 2 * q /\ 2 * q < Wrap32 => ElementIndex(i, l) = q
    BY <1>5, <1>9, <1>12
  <1>14. i.idx[l] = e * q
    BY <1>6, <1>11
  <1>15. q \in Int
    BY <1>9
  <1> QED
    BY <1>13, <1>14, <1>15 DEF e

\* Multiples of e are ordered as their factors, and differ if these do.
LEMMA FactorsOrdered ==
    ASSUME NEW e \in Nat, e > 0, NEW p \in Int, NEW q \in Int, e * p <= e * q
    PROVE  p <= q
  <1> SUFFICES ASSUME q < p PROVE FALSE
    OBVIOUS
  <1> DEFINE d == p - q
  <1>1. d \in Nat /\ d > 0 /\ p = q + d
    OBVIOUS
  <1> HIDE DEF d
  <1>2. e * (q + d) = e * q + e * d /\ e * q \in Int /\ e * d \in Int
    BY <1>1
  <1>3. e * d > 0
    BY <1>1
  <1> QED
    BY <1>1, <1>2, <1>3

\* The values of a bounded function on the lanes have a largest and a smallest
\* one.
LEMMA Extremes ==
    ASSUME NEW f \in [Lanes -> Int], NEW b \in Nat,
           \A l \in Lanes : -b <= f[l] /\ f[l] <= b
    PROVE  /\ \E l \in Lanes : f[l] = Min(Range(f))
           /\ \E l \in Lanes : f[l] = Max(Range(f))
           /\ \A l \in Lanes : Min(Range(f)) <= f[l] /\ f[l] <= Max(Range(f))
  <1> DEFINE S == Range(f)
  <1>1. 0 \in Lanes
    BY LanesAssumption DEF Lanes
  <1>2. S = {f[l] : l \in Lanes}
    BY DEF Range
  <1>3. S \in SUBSET Int /\ S # {}
    BY <1>1, <1>2
  <1>4. -b \in Int /\ b \in Int /\ (\A x \in S : -b <= x) /\ (\A x \in S : x <= b)
    BY <1>2
  <1> HIDE DEF S
  <1>5. Min(S) \in S /\ \A x \in S : Min(S) <= x
    BY ONLY <1>3, <1>4, MinOf
  <1>6. Max(S) \in S /\ \A x \in S : x <= Max(S)
    BY ONLY <1>3, <1>4, MaxOf
  <1> QED
    BY <1>2, <1>5, <1>6 DEF S

\* The offsets of a packed access with a permutation are its element numbers,
\* which lie close together.
LEMMA ShuffledElements ==
    ASSUME NEW i \in Insts, BaseIsLane0s(i), MappedShape(i) = "packed_shuffle",
           NEW l \in Lanes
    PROVE  /\ ElementIndex(i, l) \in Int
           /\ i.idx[l] = i.esize * ElementIndex(i, l)
           /\ -Wrap32 <= ElementIndex(i, l) /\ ElementIndex(i, l) <= Wrap32
  <1>1. IsGangPacked(i) /\ \A k \in Lanes : (i.idx[k] % Wrap64) % i.esize = 0
    BY DEF MappedShape
  <1> DEFINE e == i.esize
             f == i.idx
             top == Max(Range(f))
             bottom == Min(Range(f))
  <1>2. e \in Nat /\ e > 0 /\ f \in [Lanes -> Int] /\ f[0] = 0 /\ 0 \in Lanes
        /\ NumLanes \in Nat /\ Wrap32 \in Nat /\ 8 * NumLanes < Wrap32
        /\ NumLanes > 0
    BY InstType DEF BaseIsLane0s
  <1>3. \A k \in Lanes : -Wrap64 <= f[k] /\ f[k] <= Wrap64 /\ f[k] \in Int
    <2> TAKE k \in Lanes
    <2>1. -Wrap64 <= 2 * i.idx[k] /\ 2 * i.idx[k] < Wrap64 /\ i.idx[k] \in Int
          /\ Wrap64 \in Nat
      BY InstType
    <2> QED
      BY <2>1
  <1>4. /\ \E k \in Lanes : f[k] = bottom
        /\ \E k \in Lanes : f[k] = top
        /\ \A k \in Lanes : bottom <= f[k] /\ f[k] <= top
    <2>1. Wrap64 \in Nat
      BY InstType
    <2> HIDE DEF f
    <2> QED
      BY <1>2, <1>3, <2>1, Extremes
  <1>5. PICK x \in Int : top = e * x
    BY <1>1, <1>4, ElementIs
  <1>6. PICK n \in Int : bottom = e * n
    BY <1>1, <1>4, ElementIs
  <1>7. PICK q \in Int :
            /\ f[l] = e * q
            /\ -Wrap32 <= 2 * q /\ 2 * q < Wrap32 => ElementIndex(i, l) = q
    BY <1>1, ElementIs
  <1>8. CeilDiv(top, e) - CeilDiv(bottom, e) < NumLanes * MaxFactor
    BY <1>1 DEF IsGangPacked
  <1>9. bottom <= f[l] /\ f[l] <= top /\ bottom <= 0 /\ 0 <= top
    BY <1>2, <1>4
  <1> HIDE DEF e, f, top, bottom
  <1>10. e * 0 = 0
    BY <1>2
  <1>11. n <= q /\ q <= x /\ n <= 0 /\ 0 <= x
    <2>1. e * n <= e * q /\ e * q <= e * x /\ e * n <= e * 0 /\ e * 0 <= e * x
      BY <1>5, <1>6, <1>7, <1>9, <1>10
    <2> QED
      BY <1>2, <2>1, FactorsOrdered
  <1>12. CeilDiv(e * x, e) = x
    BY <1>2, <1>11, CeilDivOf
  <1>13. CeilDiv(e * n, e) \in Int /\ CeilDiv(e * n, e) <= n + 1
    BY <1>2, CeilDivOf
  <1>14. x - (n + 1) < 4 * NumLanes
    BY <1>2, <1>5, <1>6, <1>8, <1>12, <1>13 DEF MaxFactor
  <1>15. -(4 * NumLanes) <= q /\ q <= 4 * NumLanes
    BY <1>2, <1>11, <1>14
  <1>16. ElementIndex(i, l) = q
    BY <1>2, <1>7, <1>15
  <1>17. -Wrap32 <= q /\ q <= Wrap32
    BY <1>2, <1>15
  <1> QED
    BY <1>7, <1>16, <1>17 DEF e, f

\* The other packed accesses: all lanes at one address, or at successive ones.
LEMMA UniformOffsets ==
    ASSUME NEW i \in Insts, BaseIsLane0s(i), MappedShape(i) = "uniform"
    PROVE  \A l \in Lanes : i.idx[l] = 0
  <1>1. HasStride(i, 0)
    BY DEF MappedShape
  <1>2. NumLanes * 0 = 0 /\ 2 * (NumLanes * 0) < Wrap64
    BY InstType
  <1>3. \A l \in Lanes : i.idx[l] = l * 0
    BY <1>1, <1>2, StrideIs
  <1>4. \A l \in Lanes : l * 0 = 0
    BY DEF Lanes
  <1> QED
    BY <1>3, <1>4

LEMMA PackedOffsets ==
    ASSUME NEW i \in Insts, BaseIsLane0s(i), MappedShape(i) = "packed"
    PROVE  \A l \in Lanes : i.idx[l] = l * i.esize
  <1>1. HasStride(i, i.esize)
    BY DEF MappedShape
  <1> QED
    BY <1>1, ElementsFit, InstType, StrideIs

-----------------------------------------------------------------------------
(* The inductive invariant *)

\* No element is shared, or all lanes do the access.
Apart == IsInjective(inst.idx) \/ inst.active = Lanes

\* Element indices[l] of the registers is lane l's.
IndicesHold ==
    /\ min \in Int
    /\ indices \in [Lanes -> Nat]
    /\ \A l \in Lanes : inst.idx[l] = (min + indices[l]) * inst.esize
    /\ \A l \in Lanes : indices[l] \in DOMAIN shfl
    /\ shfl \in [DOMAIN shfl -> BOOLEAN]

\* The mask has the elements of the active lanes routed so far, and no other
\* as long as lanes that share an element agree.
MaskHolds ==
    /\ toRoute \subseteq Lanes
    /\ \A l \in inst.active \ toRoute : shfl[indices[l]]
    /\ Apart => \A p \in DOMAIN shfl :
                   shfl[p] => \E l \in inst.active : indices[l] = p
    /\ IsInjective(inst.idx) => toRoute \in {{}, Lanes}

MemInv ==
    /\ inst \in Insts
    /\ phase \in {"rebase", "mask"} => mapped = "packed_shuffle"
    /\ phase \in {"rebase", "mask", "access"} => mapped = MappedShape(inst)
    /\ phase = "rebase" => indices = [l \in Lanes |-> ElementIndex(inst, l)]
    /\ phase \in {"mask", "access"} /\ mapped = "packed_shuffle" =>
           IndicesHold /\ MaskHolds
    /\ phase = "access" /\ mapped = "packed_shuffle" => toRoute = {}
    /\ LoadIsLaneWise /\ StoreIsLaneWise /\ NoStrayAccess

\* Distinct offsets have distinct elements.
LEMMA IndicesInjective ==
    inst \in Insts /\ IndicesHold /\ IsInjective(inst.idx) =>
        \A k, l \in Lanes : indices[k] = indices[l] => k = l
  <1> SUFFICES ASSUME inst \in Insts, IndicesHold, IsInjective(inst.idx),
                      NEW k \in Lanes, NEW l \in Lanes, indices[k] = indices[l]
               PROVE  k = l
    OBVIOUS
  <1>1. inst.idx[k] = inst.idx[l]
    BY DEF IndicesHold
  <1>2. DOMAIN inst.idx = Lanes
    BY InstType
  <1> QED
    BY <1>1, <1>2 DEF IsInjective

\* The registers have room for the largest element number.
LEMMA FactorCovers ==
    ASSUME NEW m \in Nat
    PROVE  m \in 0..(NumLanes * FactorFor(m) - 1) /\ FactorFor(m) \in Int
  <1>1. NumLanes \in Nat /\ NumLanes > 0
    BY LanesAssumption
  <1> DEFINE f == (m + NumLanes) \div NumLanes
  <1>2. FactorFor(m) = f
    <2>1. m + 1 + NumLanes - 1 = m + NumLanes /\ m + NumLanes >= 0
      BY <1>1
    <2> QED
      BY <2>1 DEF FactorFor, CeilDiv, Quot
  <1>3. /\ f \in Int
        /\ m + NumLanes = NumLanes * f + ((m + NumLanes) % NumLanes)
        /\ (m + NumLanes) % NumLanes < NumLanes
        /\ (m + NumLanes) % NumLanes \in Int
    BY <1>1, DivMod
  <1> HIDE DEF f
  <1>4. NumLanes * f \in Int
    BY <1>1, <1>3
  <1>5. m < NumLanes * f
    BY <1>1, <1>3, <1>4
  <1> QED
    BY <1>2, <1>3, <1>4, <1>5

LEMMA InitMemInv == Init => MemInv
  BY DEF Init, MemInv, LoadIsLaneWise, StoreIsLaneWise, NoStrayAccess

LEMMA MapMemInv == MemInv /\ MapMemInst => MemInv'
  <1> SUFFICES ASSUME MemInv, MapMemInst PROVE MemInv'
    OBVIOUS
  <1>1. inst' = inst /\ inst \in Insts /\ mapped' = MappedShape(inst)
    BY DEF MemInv, MapMemInst
  <1>2. CASE mapped' = "packed_shuffle"
    <2>1. phase' = "rebase" /\ indices' = [l \in Lanes |-> ElementIndex(inst, l)]
      BY <1>2 DEF MapMemInst
    <2> QED
      BY <1>1, <1>2, <2>1 DEF MemInv, LoadIsLaneWise, StoreIsLaneWise, NoStrayAccess
  <1>3. CASE mapped' # "packed_shuffle"
    <2>1. phase' = "access"
      BY <1>3 DEF MapMemInst
    <2> QED
      BY <1>1, <1>3, <2>1 DEF MemInv, LoadIsLaneWise, StoreIsLaneWise, NoStrayAccess
  <1> QED
    BY <1>2, <1>3

LEMMA RebaseMemInv ==
    InstsAreRegular /\ MemInv /\ RebaseMemPackedIndices => MemInv'
  <1> SUFFICES ASSUME InstsAreRegular, MemInv, RebaseMemPackedIndices
               PROVE  MemInv'
    OBVIOUS
  <1>1. /\ inst' = inst /\ inst \in Insts /\ mapped' = mapped
        /\ mapped = "packed_shuffle" /\ mapped = MappedShape(inst)
        /\ indices = [l \in Lanes |-> ElementIndex(inst, l)]
        /\ phase' = "mask" /\ toRoute' = Lanes
    BY DEF MemInv, RebaseMemPackedIndices
  <1>2. BaseIsLane0s(inst)
    BY <1>1 DEF InstsAreRegular
  <1>3. \A l \in Lanes : /\ indices[l] \in Int
                         /\ inst.idx[l] = inst.esize * indices[l]
                         /\ -Wrap32 <= indices[l] /\ indices[l] <= Wrap32
    BY <1>1, <1>2, ShuffledElements
  <1>4. indices \in [Lanes -> Int] /\ Wrap32 \in Nat
    BY <1>1, <1>3, InstType
  <1>5. min' = Min(Range(indices)) /\ indices' = [l \in Lanes |-> indices[l] - min']
    BY DEF RebaseMemPackedIndices
  <1>6. /\ \E l \in Lanes : indices[l] = min'
        /\ \A l \in Lanes : min' <= indices[l]
    BY <1>3, <1>4, <1>5, Extremes
  <1>7. min' \in Int /\ -Wrap32 <= min'
    BY <1>3, <1>6
  <1>8. \A l \in Lanes : /\ indices'[l] = indices[l] - min'
                         /\ indices'[l] \in Nat
                         /\ indices'[l] <= 2 * Wrap32
    BY <1>3, <1>4, <1>5, <1>6, <1>7
  <1>9. indices' \in [Lanes -> Nat]
    BY <1>5, <1>8
  <1> DEFINE top == Max(Range(indices'))
  <1>10. top \in Nat /\ \A l \in Lanes : indices'[l] <= top
    <2> DEFINE b == 2 * Wrap32
    <2>1. b \in Nat
      BY <1>4
    <2>2. \A l \in Lanes : -b <= indices'[l] /\ indices'[l] <= b
      BY <1>4, <1>8
    <2>3. indices' \in [Lanes -> Int]
      BY <1>9
    <2> HIDE DEF b
    <2>4. /\ \E l \in Lanes : indices'[l] = Max(Range(indices'))
          /\ \A l \in Lanes : indices'[l] <= Max(Range(indices'))
      BY ONLY <2>1, <2>2, <2>3, Extremes
    <2> QED
      BY <1>8, <2>4
  <1>11. shfl' = [p \in 0..(NumLanes * FactorFor(top) - 1) |-> FALSE]
    BY DEF RebaseMemPackedIndices
  <1> HIDE DEF top
  <1>12. top \in 0..(NumLanes * FactorFor(top) - 1)
    BY <1>10, FactorCovers
  <1>13. \A l \in Lanes : indices'[l] \in DOMAIN shfl'
    <2> DEFINE last == NumLanes * FactorFor(top) - 1
    <2>1. last \in Int
      BY <1>10, FactorCovers, LanesAssumption
    <2>2. DOMAIN shfl' = 0..last /\ top \in 0..last
      BY <1>11, <1>12
    <2> HIDE DEF last
    <2> TAKE l \in Lanes
    <2>3. indices'[l] \in Nat /\ indices'[l] <= top
      BY <1>8, <1>10
    <2> QED
      BY <2>1, <2>2, <2>3
  <1>14. \A l \in Lanes : inst.idx[l] = (min' + indices'[l]) * inst.esize
    <2> TAKE l \in Lanes
    <2>1. min' + indices'[l] = indices[l]
      BY <1>3, <1>7, <1>8
    <2>2. inst.esize \in Nat
      BY <1>1, InstType
    <2> QED
      BY <1>3, <2>1, <2>2
  <1>15. IndicesHold'
    BY <1>1, <1>7, <1>9, <1>11, <1>13, <1>14 DEF IndicesHold
  <1>16. MaskHolds'
    <2>1. \A p \in DOMAIN shfl' : ~shfl'[p]
      BY <1>11
    <2>2. inst'.active \ toRoute' = {}
      BY <1>1, InstType
    <2> QED
      BY <1>1, <2>1, <2>2 DEF MaskHolds
  <1> QED
    BY <1>1, <1>15, <1>16
       DEF MemInv, LoadIsLaneWise, StoreIsLaneWise, NoStrayAccess

\* One round: the routed lanes' elements get their bits.  If no two lanes share
\* an element, all are routed at once and no element is left undefined.
LEMMA MaskRoundInv == MemInv /\ MaskRound => MemInv'
  <1> SUFFICES ASSUME MemInv, MaskRound PROVE MemInv'
    OBVIOUS
  <1>1. /\ inst' = inst /\ inst \in Insts /\ phase = "mask" /\ phase' = phase
        /\ mapped' = mapped /\ mapped = "packed_shuffle"
        /\ mapped = MappedShape(inst)
        /\ indices' = indices /\ min' = min
        /\ toRoute' = toRoute \ Routed /\ toRoute # {}
        /\ IndicesHold /\ MaskHolds
    BY DEF MemInv, MaskRound
  <1>2. PICK stray \in SUBSET (Named \ {indices[l] : l \in Routed}) :
            shfl' = OrShuffle(stray)
    BY DEF MaskRound
  <1>3. DOMAIN shfl' = DOMAIN shfl /\ shfl' \in [DOMAIN shfl -> BOOLEAN]
    BY <1>1, <1>2 DEF OrShuffle, IndicesHold
  <1>4. \A p \in DOMAIN shfl :
            shfl'[p] <=> \/ shfl[p] \/ p \in stray
                         \/ \E l \in Routed : indices[l] = p /\ l \in inst.active
    BY <1>2 DEF OrShuffle
  <1>5. IndicesHold'
    BY <1>1, <1>3 DEF IndicesHold
  <1>6. Routed \subseteq toRoute /\ toRoute \subseteq Lanes /\ inst.active \subseteq Lanes
    BY <1>1, InstType DEF Routed, MaskHolds
  <1>7. \A l \in inst.active \ toRoute' : shfl'[indices[l]]
    <2> TAKE l \in inst.active \ toRoute'
    <2>1. indices[l] \in DOMAIN shfl
      BY <1>1, <1>6 DEF IndicesHold
    <2>2. CASE l \in Routed
      BY <1>4, <2>1, <2>2
    <2>3. CASE l \notin Routed
      <3>1. shfl[indices[l]]
        BY <1>1, <2>3 DEF MaskHolds
      <3> QED
        BY <1>4, <2>1, <3>1
    <2> QED
      BY <2>2, <2>3
  <1>8. ASSUME IsInjective(inst.idx) PROVE Routed = Lanes /\ toRoute = Lanes
    <2>1. toRoute = Lanes
      BY <1>1, <1>8 DEF MaskHolds
    <2>2. \A k, l \in Lanes : indices[k] = indices[l] => k = l
      BY <1>1, <1>8, IndicesInjective
    <2>3. \A l \in Lanes : l <= l
      BY DEF Lanes
    <2> QED
      BY <2>1, <2>2, <2>3 DEF Routed
  <1>9. Named = {indices[l] : l \in Lanes}
    BY <1>1 DEF Named, Range, IndicesHold
  <1>10. ASSUME Apart, NEW p \in DOMAIN shfl, shfl'[p]
         PROVE  \E l \in inst.active : indices[l] = p
    <2>1. CASE shfl[p]
      BY <1>1, <1>10, <2>1 DEF MaskHolds
    <2>2. CASE p \in stray
      <3>1. p \in Named \ {indices[l] : l \in Routed}
        BY <2>2
      <3>2. ~IsInjective(inst.idx)
        BY <1>8, <1>9, <3>1
      <3>3. inst.active = Lanes
        BY <1>10, <3>2 DEF Apart
      <3> QED
        BY <1>9, <3>1, <3>3
    <2>3. CASE \E l \in Routed : indices[l] = p /\ l \in inst.active
      BY <2>3
    <2> QED
      BY <1>4, <1>10, <2>1, <2>2, <2>3
  <1>11. IsInjective(inst.idx) => toRoute' = {}
    BY <1>1, <1>8
  <1>12. MaskHolds'
    <2>1. Apart' <=> Apart
      BY <1>1 DEF Apart
    <2>2. toRoute' \subseteq Lanes
      BY <1>1, <1>6
    <2> QED
      BY <1>1, <1>3, <1>7, <1>10, <1>11, <2>1, <2>2 DEF MaskHolds
  <1> QED
    BY <1>1, <1>5, <1>12
       DEF MemInv, LoadIsLaneWise, StoreIsLaneWise, NoStrayAccess

\* idx_mask takes nothing from an active lane.
LEMMA MaskDoneInv == MemInv /\ MaskDone => MemInv'
  <1> SUFFICES ASSUME MemInv, MaskDone PROVE MemInv'
    OBVIOUS
  <1>1. /\ inst' = inst /\ inst \in Insts /\ phase = "mask" /\ phase' = "access"
        /\ mapped' = mapped /\ mapped = "packed_shuffle"
        /\ mapped = MappedShape(inst)
        /\ indices' = indices /\ min' = min
        /\ toRoute' = toRoute /\ toRoute = {}
        /\ IndicesHold /\ MaskHolds
    BY DEF MemInv, MaskDone
  <1>2. shfl' = [p \in DOMAIN shfl |-> shfl[p] /\ p \in Named]
    BY DEF MaskDone
  <1>3. DOMAIN shfl' = DOMAIN shfl /\ shfl' \in [DOMAIN shfl -> BOOLEAN]
    BY <1>1, <1>2 DEF IndicesHold
  <1>4. \A p \in DOMAIN shfl : shfl'[p] <=> shfl[p] /\ p \in Named
    BY <1>2
  <1>5. IndicesHold'
    BY <1>1, <1>3 DEF IndicesHold
  <1>6. \A l \in inst.active : shfl'[indices[l]]
    <2> TAKE l \in inst.active
    <2>1. l \in Lanes
      BY <1>1, InstType
    <2>2. indices[l] \in DOMAIN shfl /\ indices[l] \in Named
      BY <1>1, <2>1 DEF IndicesHold, Named, Range
    <2>3. shfl[indices[l]]
      BY <1>1 DEF MaskHolds
    <2> QED
      BY <1>4, <2>2, <2>3
  <1>7. MaskHolds'
    <2>1. Apart' <=> Apart
      BY <1>1 DEF Apart
    <2>2. Apart => \A p \in DOMAIN shfl : shfl'[p] => \E l \in inst.active : indices[l] = p
      BY <1>1, <1>4 DEF MaskHolds
    <2> QED
      BY <1>1, <1>3, <1>6, <2>1, <2>2 DEF MaskHolds
  <1> QED
    BY <1>1, <1>5, <1>7
       DEF MemInv, LoadIsLaneWise, StoreIsLaneWise, NoStrayAccess

-----------------------------------------------------------------------------
(* The access itself *)

LEMMA UniformRight ==
    InstsAreRegular /\ MemInv /\ Access /\ mapped = "uniform" => MemInv'
  <1> SUFFICES ASSUME InstsAreRegular, MemInv, Access, mapped = "uniform"
               PROVE  MemInv'
    OBVIOUS
  <1>1. /\ inst' = inst /\ inst \in Insts /\ phase' = "done"
        /\ mapped = MappedShape(inst) /\ AccessUniform
    BY DEF MemInv, Access
  <1>2. BaseIsLane0s(inst) /\ StoresApart(inst)
    BY <1>1 DEF InstsAreRegular
  <1>3. \A l \in Lanes : inst.idx[l] = 0
    BY <1>1, <1>2, UniformOffsets
  <1>4. inst.active \subseteq Lanes /\ inst.active # {} /\ 0 \in Lanes
        /\ inst.kind \in {"load", "store"}
    BY <1>1, InstType
  <1>5. touched' = {0}
    BY <1>1 DEF AccessUniform
  <1>6. LoadIsLaneWise'
    <2> SUFFICES ASSUME inst.kind = "load", NEW l \in inst.active
                 PROVE  result'[l] = inst.idx[l]
      BY <1>1 DEF LoadIsLaneWise
    <2>1. result' = [k \in Lanes |-> 0]
      BY <1>1 DEF AccessUniform
    <2> QED
      BY <1>3, <1>4, <2>1
  <1>7. StoreIsLaneWise'
    <2> SUFFICES ASSUME inst.kind = "store"
                 PROVE  /\ \A l \in inst.active : inst.idx[l] \in DOMAIN result'
                        /\ \A a \in DOMAIN result' :
                              \E l \in inst.active : inst.idx[l] = a /\ Owner(l) = result'[a]
      BY <1>1 DEF StoreIsLaneWise, Owner
    <2>1. result' = [a \in {0} |-> ScalarOwner]
      BY <1>1 DEF AccessUniform
    <2>2. inst.value = "uniform"
      BY <1>2, <1>3, <1>4 DEF StoresApart
    <2> QED
      BY <1>3, <1>4, <2>1, <2>2 DEF Owner, ScalarOwner
  <1>8. NoStrayAccess'
    BY <1>1, <1>3, <1>4, <1>5 DEF NoStrayAccess
  <1> QED
    BY <1>1, <1>6, <1>7, <1>8 DEF MemInv

LEMMA PackedRight ==
    InstsAreRegular /\ MemInv /\ Access /\ mapped = "packed" => MemInv'
  <1> SUFFICES ASSUME InstsAreRegular, MemInv, Access, mapped = "packed"
               PROVE  MemInv'
    OBVIOUS
  <1>1. /\ inst' = inst /\ inst \in Insts /\ phase' = "done"
        /\ mapped = MappedShape(inst) /\ AccessPacked
    BY DEF MemInv, Access
  <1>2. \A l \in Lanes : inst.idx[l] = l * inst.esize
    BY <1>1, PackedOffsets DEF InstsAreRegular
  <1>3. inst.active \subseteq Lanes /\ inst.esize \in Nat /\ inst.esize > 0
    BY <1>1, InstType
  <1>4. touched' = {l * inst.esize : l \in inst.active}
    BY <1>1 DEF AccessPacked
  <1>5. touched' = {inst.idx[l] : l \in inst.active}
    BY <1>2, <1>3, <1>4
  <1>6. LoadIsLaneWise'
    <2> SUFFICES ASSUME inst.kind = "load", NEW l \in inst.active
                 PROVE  result'[l] = inst.idx[l]
      BY <1>1 DEF LoadIsLaneWise
    <2>1. result' = [k \in Lanes |-> IF k \in inst.active THEN k * inst.esize ELSE Undef]
      BY <1>1 DEF AccessPacked
    <2> QED
      BY <1>2, <1>3, <2>1
  <1>7. StoreIsLaneWise'
    <2> SUFFICES ASSUME inst.kind = "store"
                 PROVE  /\ \A l \in inst.active : inst.idx[l] \in DOMAIN result'
                        /\ \A a \in DOMAIN result' :
                              \E l \in inst.active : inst.idx[l] = a /\ Owner(l) = result'[a]
      BY <1>1 DEF StoreIsLaneWise, Owner
    <2>1. result' = [a \in touched' |-> Owner(a \div inst.esize)]
      BY <1>1 DEF AccessPacked
    <2>2. \A l \in Lanes : (l * inst.esize) \div inst.esize = l
      <3> TAKE l \in Lanes
      <3>1. l \in Int /\ inst.esize * l + 0 = l * inst.esize
        BY <1>3 DEF Lanes
      <3>2. (inst.esize * l + 0) \div inst.esize = l
        BY <1>3, <3>1, QuotientIs
      <3> QED
        BY <3>1, <3>2
    <2>3. ASSUME NEW l \in inst.active
          PROVE  inst.idx[l] \in touched' /\ result'[inst.idx[l]] = Owner(l)
      BY <1>2, <1>3, <1>5, <2>1, <2>2
    <2> QED
      BY <1>5, <2>1, <2>3
  <1>8. NoStrayAccess'
    BY <1>1, <1>5 DEF NoStrayAccess
  <1> QED
    BY <1>1, <1>6, <1>7, <1>8 DEF MemInv

\* The lane that Max picks from a set of lanes is in the set.
LEMMA LastLane ==
    ASSUME NEW S \in SUBSET Lanes, S # {}
    PROVE  Max(S) \in S
  <1>1. NumLanes \in Int /\ S \in SUBSET Int /\ \A l \in S : l <= NumLanes
    BY LanesAssumption DEF Lanes
  <1> QED
    BY ONLY <1>1, S # {}, MaxOf

LEMMA GatherScatterRight == MemInv /\ Access /\ mapped = "gather_scatter" => MemInv'
  <1> SUFFICES ASSUME MemInv, Access, mapped = "gather_scatter"
               PROVE  MemInv'
    OBVIOUS
  <1>1. /\ inst' = inst /\ inst \in Insts /\ phase' = "done" /\ AccessGatherScatter
    BY DEF MemInv, Access
  <1>2. inst.active \subseteq Lanes
    BY <1>1, InstType
  <1>3. touched' = {inst.idx[l] : l \in inst.active}
    BY <1>1 DEF AccessGatherScatter
  <1>4. LoadIsLaneWise'
    <2> SUFFICES ASSUME inst.kind = "load", NEW l \in inst.active
                 PROVE  result'[l] = inst.idx[l]
      BY <1>1 DEF LoadIsLaneWise
    <2>1. result' = [k \in Lanes |-> IF k \in inst.active THEN inst.idx[k] ELSE Undef]
      BY <1>1 DEF AccessGatherScatter
    <2> QED
      BY <1>2, <2>1
  <1>5. StoreIsLaneWise'
    <2> SUFFICES ASSUME inst.kind = "store"
                 PROVE  /\ \A l \in inst.active : inst.idx[l] \in DOMAIN result'
                        /\ \A a \in DOMAIN result' :
                              \E l \in inst.active : inst.idx[l] = a /\ Owner(l) = result'[a]
      BY <1>1 DEF StoreIsLaneWise, Owner
    <2>1. result' = [a \in touched' |-> Owner(Max({l \in inst.active : inst.idx[l] = a}))]
      BY <1>1 DEF AccessGatherScatter
    <2>2. ASSUME NEW a \in touched'
          PROVE  \E l \in inst.active : inst.idx[l] = a /\ Owner(l) = result'[a]
      <3> DEFINE S == {l \in inst.active : inst.idx[l] = a}
      <3>1. S \in SUBSET Lanes /\ S # {}
        BY <1>2, <1>3
      <3>2. Max(S) \in S
        <4> HIDE DEF S
        <4> QED
          BY <3>1, LastLane
      <3>3. result'[a] = Owner(Max(S))
        BY <2>1
      <3>4. Max(S) \in inst.active /\ inst.idx[Max(S)] = a
        BY <3>2
      <3> QED
        BY <3>3, <3>4
    <2> QED
      BY <1>3, <2>1, <2>2
  <1>6. NoStrayAccess'
    BY <1>1, <1>3 DEF NoStrayAccess
  <1> QED
    BY <1>1, <1>4, <1>5, <1>6 DEF MemInv

\* Offsets that are all equal make a uniform access.
LEMMA ShuffledStoresApart ==
    ASSUME NEW i \in Insts, StoresApart(i), i.kind = "store",
           MappedShape(i) = "packed_shuffle"
    PROVE  IsInjective(i.idx) \/ i.active = Lanes
  <1>1. ASSUME \A l \in Lanes : i.idx[l] = i.idx[0] PROVE FALSE
    <2>1. \A l \in Lanes \ {0} : i.idx[l] - i.idx[l - 1] = 0
      <3> TAKE l \in Lanes \ {0}
      <3>1. l - 1 \in Lanes
        BY LanesAssumption DEF Lanes
      <3>2. i.idx[l] = i.idx[l - 1] /\ i.idx[l] \in Int
        BY <1>1, <3>1, InstType
      <3> QED
        BY <3>2
    <2>2. 0 % Wrap64 = 0
      BY PackedMemAssumption
    <2>3. HasStride(i, 0)
      BY <2>1, <2>2 DEF HasStride
    <2> QED
      BY <2>3 DEF MappedShape
  <1> QED
    BY <1>1 DEF StoresApart

LEMMA ShuffledAccessRight ==
    InstsAreRegular /\ MemInv /\ Access /\ mapped = "packed_shuffle" => MemInv'
  <1> SUFFICES ASSUME InstsAreRegular, MemInv, Access, mapped = "packed_shuffle"
               PROVE  MemInv'
    OBVIOUS
  <1>1. /\ inst' = inst /\ inst \in Insts /\ phase' = "done"
        /\ mapped = MappedShape(inst) /\ AccessPackedShuffle
        /\ IndicesHold /\ MaskHolds /\ toRoute = {}
    BY DEF MemInv, Access
  <1>2. inst.active \subseteq Lanes /\ inst.kind \in {"load", "store"}
    BY <1>1, InstType
  <1>3. \A l \in Lanes : Address(indices[l]) = inst.idx[l]
    BY <1>1 DEF IndicesHold, Address
  <1>4. \A l \in inst.active : indices[l] \in Elements
    BY <1>1, <1>2 DEF IndicesHold, MaskHolds, Elements
  <1>5. inst.kind = "store" => Apart
    BY <1>1, ShuffledStoresApart DEF InstsAreRegular, Apart
  <1>6. Apart => \A p \in Elements : \E l \in inst.active : indices[l] = p
    BY <1>1 DEF MaskHolds, Elements
  <1>7. touched' = {Address(p) : p \in Elements}
    BY <1>1 DEF AccessPackedShuffle
  <1>8. LoadIsLaneWise'
    <2> SUFFICES ASSUME inst.kind = "load", NEW l \in inst.active
                 PROVE  result'[l] = inst.idx[l]
      BY <1>1 DEF LoadIsLaneWise
    <2>1. result' = [k \in Lanes |-> IF indices[k] \in Elements
                                     THEN Address(indices[k]) ELSE Undef]
      BY <1>1 DEF AccessPackedShuffle
    <2>2. result'[l] = Address(indices[l])
      BY <1>2, <1>4, <2>1
    <2> QED
      BY <1>2, <1>3, <2>2
  <1>9. StoreIsLaneWise'
    <2> SUFFICES ASSUME inst.kind = "store"
                 PROVE  /\ \A l \in inst.active : inst.idx[l] \in DOMAIN result'
                        /\ \A a \in DOMAIN result' :
                              \E l \in inst.active : inst.idx[l] = a /\ Owner(l) = result'[a]
      BY <1>1 DEF StoreIsLaneWise, Owner
    <2>1. result' = [a \in touched' |->
                        Owner(ValueLane(CHOOSE p \in Elements : Address(p) = a))]
      BY <1>1 DEF AccessPackedShuffle
    <2>2. ASSUME NEW a \in touched'
          PROVE  \E l \in inst.active : inst.idx[l] = a /\ Owner(l) = result'[a]
      <3> DEFINE q == CHOOSE p \in Elements : Address(p) = a
                 S == {l \in Lanes : indices[l] = q}
      <3>1. q \in Elements /\ Address(q) = a
        BY <1>7
      <3>2. result'[a] = Owner(ValueLane(q))
        BY <2>1
      <3> HIDE DEF q
      <3>3. PICK k \in inst.active : indices[k] = q
        BY <1>5, <1>6, <3>1
      <3>4. S \in SUBSET Lanes /\ S # {}
        BY <1>2, <3>3
      <3>5. ValueLane(q) = Max(S)
        BY DEF ValueLane
      <3>6. Max(S) \in S
        <4> HIDE DEF S
        <4> QED
          BY <3>4, LastLane
      <3>7. ValueLane(q) \in Lanes /\ indices[ValueLane(q)] = q
        BY <3>5, <3>6
      <3>8. inst.idx[ValueLane(q)] = a
        BY <1>3, <3>1, <3>7
      <3>9. ValueLane(q) \in inst.active
        <4>1. CASE IsInjective(inst.idx)
          <5>1. \A x, y \in Lanes : indices[x] = indices[y] => x = y
            BY <1>1, <4>1, IndicesInjective
          <5> QED
            BY <1>2, <3>3, <3>7, <5>1
        <4>2. CASE inst.active = Lanes
          BY <3>7, <4>2
        <4> QED
          BY <1>5, <4>1, <4>2 DEF Apart
      <3> QED
        BY <3>2, <3>8, <3>9
    <2>3. \A l \in inst.active : inst.idx[l] \in touched'
      BY <1>2, <1>3, <1>4, <1>7
    <2> QED
      BY <2>1, <2>2, <2>3
  <1>10. NoStrayAccess'
    <2> SUFFICES ASSUME inst.kind = "store" \/ IsInjective(inst.idx), NEW a \in touched'
                 PROVE  \E l \in inst.active : inst.idx[l] = a
      BY <1>1 DEF NoStrayAccess
    <2>1. Apart
      BY <1>5 DEF Apart
    <2>2. PICK p \in Elements : a = Address(p)
      BY <1>7
    <2>3. PICK l \in inst.active : indices[l] = p
      BY <1>6, <2>1
    <2> QED
      BY <1>2, <1>3, <2>2, <2>3
  <1> QED
    BY <1>1, <1>8, <1>9, <1>10 DEF MemInv

-----------------------------------------------------------------------------
LEMMA NextMemInv == InstsAreRegular /\ MemInv /\ [Next]_vars => MemInv'
  <1> SUFFICES ASSUME InstsAreRegular, MemInv, [Next]_vars PROVE MemInv'
    OBVIOUS
  <1>1. CASE MapMemInst
    BY <1>1, MapMemInv
  <1>2. CASE RebaseMemPackedIndices
    BY <1>2, RebaseMemInv
  <1>3. CASE MaskRound
    BY <1>3, MaskRoundInv
  <1>4. CASE MaskDone
    BY <1>4, MaskDoneInv
  <1>5. CASE Access
    <2>1. mapped \in {"uniform", "packed", "packed_shuffle", "gather_scatter"}
      BY <1>5 DEF Access
    <2> QED
      BY <1>5, <2>1, UniformRight, PackedRight, ShuffledAccessRight, GatherScatterRight
  <1>6. CASE Done
    BY <1>6 DEF Done, vars, MemInv, IndicesHold, MaskHolds, Apart,
                LoadIsLaneWise, StoreIsLaneWise, NoStrayAccess, Owner
  <1>7. CASE UNCHANGED vars
    BY <1>7 DEF vars, MemInv, IndicesHold, MaskHolds, Apart,
                LoadIsLaneWise, StoreIsLaneWise, NoStrayAccess, Owner
  <1> QED
    BY <1>1, <1>2, <1>3, <1>4, <1>5, <1>6, <1>7 DEF Next

\* MemInv always holds of regular accesses.
LEMMA Invariant == InstsAreRegular => (Spec => []MemInv)
  <1>1. InstsAreRegular /\ MemInv /\ [Next]_vars => MemInv'
    BY NextMemInv
  <1>2. InstsAreRegular => (Init /\ [][Next]_vars => []MemInv)
    <2>1. SUFFICES ASSUME InstsAreRegular PROVE Init /\ [][Next]_vars => []MemInv
      OBVIOUS
    <2>2. MemInv /\ [Next]_vars => MemInv'
      BY <2>1, <1>1
    <2> QED
      BY <2>2, InitMemInv, PTL
  <1> QED
    BY <1>2 DEF Spec

\* For every gang size, element size and choice of offsets, an active lane of a
\* load gets the element at its own address (transform.cpp:231-254).
THEOREM LoadsRight == InstsAreRegular => (Spec => []LoadIsLaneWise)
  <1>1. MemInv => LoadIsLaneWise
    BY DEF MemInv
  <1> QED
    BY <1>1, Invariant, PTL

\* A store writes every active lane's address, with the value of an active lane
\* that stores there (transform.cpp:223-236).
THEOREM StoresRight == InstsAreRegular => (Spec => []StoreIsLaneWise)
  <1>1. MemInv => StoreIsLaneWise
    BY DEF MemInv
  <1> QED
    BY <1>1, Invariant, PTL

\* Neither stores nor loads of distinct elements touch memory that no active
\* lane names (transform.cpp:131-175).
THEOREM NothingElseTouched == InstsAreRegular => (Spec => []NoStrayAccess)
  <1>1. MemInv => NoStrayAccess
    BY DEF MemInv
  <1> QED
    BY <1>1, Invariant, PTL

-----------------------------------------------------------------------------
(* Collectives *)

\* What the sum of multiples leaves between bounds.
LEMMA PieceBounds0 ==
    ASSUME NEW b \in Nat, NEW f \in Nat, NEW q \in 0..(f - 1), NEW r \in 0..(b - 1)
    PROVE  0 <= q * b + r /\ q * b + r < b * f
  <1> DEFINE d == f - 1 - q
  <1>1. d \in Nat /\ f = q + 1 + d
    OBVIOUS
  <1> HIDE DEF d
  <1>2. b * (q + 1 + d) = q * b + b + b * d /\ b * d \in Nat /\ q * b \in Nat
    BY <1>1
  <1> QED
    BY <1>1, <1>2

LEMMA PieceBounds ==
    ASSUME NEW width \in Nat, NEW f \in Nat, NEW r \in Int, 0 <= r, r < f, NEW i \in 1..width
    PROVE  0 <= r * width + (i - 1) /\ r * width + (i - 1) < width * f /\ r * width \in Int
  BY PieceBounds0, i - 1 \in 0..(width - 1)

LEMMA QuotientBounds ==
    ASSUME NEW f \in Nat, f > 0, NEW n \in Nat, NEW q \in Int, NEW r \in Int, 0 <= r, r < f,
           0 <= f * q + r, f * q + r < f * n
    PROVE  0 <= q /\ q < n
  <1>1. CASE q < 0
    <2> DEFINE d == -q - 1
    <2>1. d \in Nat /\ q = -(d + 1)
      BY <1>1
    <2> HIDE DEF d
    <2>2. f * (-(d + 1)) = -(f * d) - f /\ f * d \in Nat
      BY <2>1
    <2> QED
      BY <2>1, <2>2
  <1>2. CASE q >= n
    <2> DEFINE d == q - n
    <2>1. d \in Nat /\ q = n + d
      BY <1>2
    <2> HIDE DEF d
    <2>2. f * (n + d) = f * n + f * d /\ f * d \in Nat /\ f * n \in Nat
      BY <2>1
    <2> QED
      BY <2>1, <2>2
  <1> QED
    BY <1>1, <1>2

-----------------------------------------------------------------------------
(* Vectors *)

\* A vector of n elements of w bytes.
IsVec(v, n, w) ==
    /\ v = [e \in 1..n |-> v[e]]
    /\ \A e \in 1..n : v[e] = [i \in 1..w |-> v[e][i]]

\* A function on 1..n is a sequence.
LEMMA SeqOf ==
    ASSUME NEW n \in Nat, NEW f, f = [i \in 1..n |-> f[i]]
    PROVE  f \in Seq({f[i] : i \in 1..n}) /\ Len(f) = n /\ DOMAIN f = 1..n
  <1> DEFINE S == {f[i] : i \in 1..n}
  <1>1. f \in [1..n -> S]
    OBVIOUS
  <1> HIDE DEF S
  <1>2. f \in Seq(S)
    BY <1>1
  <1>3. Len(f) = n
    BY <1>1
  <1> QED
    BY <1>2, <1>3 DEF S

LEMMA VecFacts ==
    ASSUME NEW n \in Nat \ {0}, NEW w \in Nat \ {0}, NEW v, IsVec(v, n, w)
    PROVE  /\ v \in Seq({v[e] : e \in 1..n}) /\ Len(v) = n /\ DOMAIN v = 1..n
           /\ WidthOf(v) = w
           /\ \A e \in 1..n : Len(v[e]) = w /\ DOMAIN v[e] = 1..w
  <1>1. v \in Seq({v[e] : e \in 1..n}) /\ Len(v) = n /\ DOMAIN v = 1..n
    BY SeqOf DEF IsVec
  <1>2. \A e \in 1..n : Len(v[e]) = w /\ DOMAIN v[e] = 1..w
    BY SeqOf DEF IsVec
  <1>3. 1 \in 1..n
    OBVIOUS
  <1> QED
    BY <1>1, <1>2, <1>3 DEF WidthOf

LEMMA VecEq ==
    ASSUME NEW n \in Nat, NEW w \in Nat, NEW u, NEW v, IsVec(u, n, w), IsVec(v, n, w),
           \A e \in 1..n : \A i \in 1..w : u[e][i] = v[e][i]
    PROVE  u = v
  <1>1. \A e \in 1..n : u[e] = v[e]
    BY DEF IsVec
  <1> QED
    BY <1>1 DEF IsVec

\* A vector given by its bytes.
LEMMA VecIs ==
    ASSUME NEW n \in Nat, NEW w \in Nat, NEW v, NEW b1(_, _),
           v = [e \in 1..n |-> [i \in 1..w |-> b1(e, i)]]
    PROVE  IsVec(v, n, w)
  BY DEF IsVec

-----------------------------------------------------------------------------
(* Bit casts *)

\* Byte j of a vector of elements of w bytes.
ByteOf(v, w, j) == v[(j \div w) + 1][(j % w) + 1]

\* u holds the bytes of v in m elements of width bytes.
Recut(u, v, w, m, width) ==
    \A e \in 1..m : \A i \in 1..width :
        u[e][i] = ByteOf(v, w, (e - 1) * width + i - 1)

LEMMA BitCastIs ==
    ASSUME NEW n \in Nat \ {0}, NEW w \in Nat \ {0}, NEW v, IsVec(v, n, w),
           NEW m \in Nat \ {0}, NEW width \in Nat \ {0}, n * w = width * m
    PROVE  IsVec(BitCast(v, width), m, width) /\ Recut(BitCast(v, width), v, w, m, width)
  <1>1. Len(v) = n /\ WidthOf(v) = w
    BY VecFacts
  <1>2. (n * w) \div width = m
    <2>1. (width * m + 0) \div width = m
      BY QuotientIs
    <2>2. width * m + 0 = n * w
      OBVIOUS
    <2> QED
      BY <2>1, <2>2
  <1>3. BitCast(v, width) =
            [e \in 1..m |-> [i \in 1..width |-> ByteOf(v, w, (e - 1) * width + i - 1)]]
    BY <1>1, <1>2 DEF BitCast, ByteOf
  <1> DEFINE u == BitCast(v, width)
  <1> HIDE DEF u
  <1>4. u = [e \in 1..m |-> [i \in 1..width |-> ByteOf(v, w, (e - 1) * width + i - 1)]]
    BY <1>3 DEF u
  <1>5. IsVec(u, m, width)
    BY <1>4, Zenon DEF IsVec
  <1>6. Recut(u, v, w, m, width)
    BY <1>4, Zenon DEF Recut
  <1> QED
    BY <1>5, <1>6 DEF u

\* The elements of u are those of v cut into f pieces each.
CutInto(u, v, n, len, f, width) ==
    \A e \in 1..len : \A i \in 1..width :
        /\ (e - 1) \div f \in 0..(n - 1) /\ (e - 1) % f \in 0..(f - 1)
        /\ u[e][i] = v[((e - 1) \div f) + 1][((e - 1) % f) * width + i]

LEMMA BitCastNarrow ==
    ASSUME NEW n \in Nat \ {0}, NEW f \in Nat \ {0}, NEW width \in Nat \ {0},
           NEW size, size = width * f, NEW len, len = n * f,
           NEW v, IsVec(v, n, size)
    PROVE  /\ IsVec(BitCast(v, width), len, width)
           /\ CutInto(BitCast(v, width), v, n, len, f, width)
  <1>1. size \in Nat \ {0} /\ len \in Nat \ {0} /\ n * size = width * len /\ len = f * n
    OBVIOUS
  <1> DEFINE u == BitCast(v, width)
  <1>2. IsVec(u, len, width) /\ Recut(u, v, size, len, width)
    BY ONLY <1>1, BitCastIs, IsVec(v, n, size), n \in Nat \ {0}, width \in Nat \ {0}
  <1> HIDE DEF u
  <1>a. SUFFICES ASSUME NEW e \in 1..len, NEW i \in 1..width
               PROVE  /\ (e - 1) \div f \in 0..(n - 1) /\ (e - 1) % f \in 0..(f - 1)
                      /\ u[e][i] = v[((e - 1) \div f) + 1][((e - 1) % f) * width + i]
    BY <1>2, Zenon DEF CutInto, u
  <1> DEFINE q == (e - 1) \div f
             r == (e - 1) % f
             j == (e - 1) * width + i - 1
  <1>3. q \in Int /\ r \in Int /\ e - 1 = f * q + r /\ 0 <= r /\ r < f
    BY DivMod
  <1>4. 0 <= f * q + r /\ f * q + r < f * n
    <2> HIDE DEF q, r
    <2> QED
      BY <1>1, <1>3
  <1> HIDE DEF q, r
  <1>5. 0 <= q /\ q < n
    BY <1>3, <1>4, QuotientBounds
  <1>6. 0 <= r * width + (i - 1) /\ r * width + (i - 1) < size /\ r * width \in Int
    BY <1>3, PieceBounds
  <1>7. j = size * q + (r * width + (i - 1))
    <2>1. (f * q + r) * width = size * q + r * width
      BY <1>3
    <2>2. (e - 1) * width = size * q + r * width
      BY <1>3, <2>1
    <2>3. size * q \in Int /\ (e - 1) * width \in Int
      BY <1>3
    <2> QED
      BY <1>6, <2>2, <2>3
  <1>b. u[e][i] = ByteOf(v, size, j)
    BY <1>2, Zenon DEF Recut
  <1> HIDE DEF j
  <1>8. j \div size = q /\ j % size = r * width + (i - 1)
    BY <1>1, <1>3, <1>6, <1>7, QuotientIs
  <1>9. u[e][i] = v[q + 1][(r * width + (i - 1)) + 1]
    BY <1>b, <1>8 DEF ByteOf
  <1>10. (r * width + (i - 1)) + 1 = r * width + i
    BY <1>6
  <1>11. q \in 0..(n - 1) /\ r \in 0..(f - 1)
    BY <1>3, <1>5
  <1>12. u[e][i] = v[q + 1][r * width + i]
    BY <1>9, <1>10
  <1> QED
    BY <1>11, <1>12 DEF q, r

\* The elements of u are each put together from f of v.
PutTogether(u, v, m, len, f, w) ==
    \A e \in 1..m : \A q \in 0..(f - 1) : \A i \in 1..w :
        /\ (e - 1) * f + q + 1 \in 1..len
        /\ u[e][q * w + i] = v[(e - 1) * f + q + 1][i]

LEMMA BitCastWide ==
    ASSUME NEW m \in Nat \ {0}, NEW f \in Nat \ {0}, NEW w \in Nat \ {0},
           NEW size, size = w * f, NEW len, len = m * f,
           NEW v, IsVec(v, len, w)
    PROVE  /\ IsVec(BitCast(v, size), m, size)
           /\ PutTogether(BitCast(v, size), v, m, len, f, w)
  <1>1. size \in Nat \ {0} /\ len \in Nat \ {0} /\ len * w = size * m /\ len = f * m
    OBVIOUS
  <1> DEFINE u == BitCast(v, size)
  <1>2. IsVec(u, m, size) /\ Recut(u, v, w, m, size)
    BY ONLY <1>1, BitCastIs, IsVec(v, len, w), m \in Nat \ {0}, w \in Nat \ {0}
  <1> HIDE DEF u
  <1>a. SUFFICES ASSUME NEW e \in 1..m, NEW q \in 0..(f - 1), NEW i \in 1..w
               PROVE  /\ (e - 1) * f + q + 1 \in 1..len
                      /\ u[e][q * w + i] = v[(e - 1) * f + q + 1][i]
    BY <1>2, Zenon DEF PutTogether, u
  <1> DEFINE j == (e - 1) * size + (q * w + i) - 1
             p == (e - 1) * f + q
  <1>3. p \in Int /\ q * w \in Int /\ (e - 1) * f \in Int /\ (e - 1) * size \in Int
    OBVIOUS
  <1>4. 0 <= p /\ p < len
    <2>1. 0 <= (e - 1) * f + q /\ (e - 1) * f + q < f * m
      BY PieceBounds0
    <2> QED
      BY <1>1, <2>1
  <1>5. 0 <= q * w + (i - 1) /\ q * w + (i - 1) < size
    <2>1. i - 1 \in 0..(w - 1)
      OBVIOUS
    <2>2. 0 <= q * w + (i - 1) /\ q * w + (i - 1) < w * f
      BY <2>1, PieceBounds0
    <2> QED
      BY <2>2
  <1>6. j = w * p + (i - 1)
    <2>1. w * p = (e - 1) * size + q * w
      BY <1>1
    <2> HIDE DEF p
    <2> QED
      BY <1>3, <2>1
  <1>7. j \div w = p /\ j % w = i - 1
    <2> HIDE DEF p, j
    <2> QED
      BY <1>3, <1>6, QuotientIs
  <1>8. q * w + i \in 1..size
    BY <1>1, <1>3, <1>5
  <1>9. u[e][q * w + i] = ByteOf(v, w, j)
    BY <1>2, <1>8, Zenon DEF Recut
  <1>10. u[e][q * w + i] = v[p + 1][(i - 1) + 1]
    <2> HIDE DEF p, j
    <2> QED
      BY <1>7, <1>9 DEF ByteOf
  <1>11. p + 1 \in 1..len /\ (i - 1) + 1 = i
    <2> HIDE DEF p
    <2> QED
      BY <1>1, <1>3, <1>4
  <1> QED
    BY <1>10, <1>11

\* Putting together and cutting again changes nothing.
LEMMA RoundTrip ==
    ASSUME NEW m \in Nat \ {0}, NEW f \in Nat \ {0}, NEW w \in Nat \ {0},
           NEW size, size = w * f, NEW len, len = m * f,
           NEW v, IsVec(v, len, w)
    PROVE  BitCast(BitCast(v, size), w) = v
  <1> DEFINE u == BitCast(v, size)
  <1>1. IsVec(u, m, size) /\ PutTogether(u, v, m, len, f, w)
    BY BitCastWide
  <1>0. len \in Nat
    OBVIOUS
  <1> HIDE DEF u
  <1> DEFINE b == BitCast(u, w)
  <1>2. IsVec(b, len, w) /\ CutInto(b, u, m, len, f, w)
    BY <1>1, BitCastNarrow
  <1> HIDE DEF b
  <1>3. \A e \in 1..len : \A i \in 1..w : b[e][i] = v[e][i]
    <2> TAKE e \in 1..len
    <2> TAKE i \in 1..w
    <2> DEFINE q == (e - 1) \div f
               r == (e - 1) % f
    <2>1. q \in Int /\ r \in Int /\ e - 1 = f * q + r
      BY DivMod
    <2>2. q \in 0..(m - 1) /\ r \in 0..(f - 1) /\ b[e][i] = u[q + 1][r * w + i]
      BY <1>2, Zenon DEF CutInto
    <2> HIDE DEF q, r
    <2>3. q + 1 \in 1..m
      BY <2>2
    <2>4. u[q + 1][r * w + i] = v[((q + 1) - 1) * f + r + 1][i]
      BY <1>1, <2>2, <2>3, Zenon DEF PutTogether
    <2>5. ((q + 1) - 1) * f + r + 1 = e
      <3>1. ((q + 1) - 1) * f = f * q /\ f * q \in Int
        BY <2>1
      <3> QED
        BY <2>1, <3>1
    <2> QED
      BY <2>2, <2>4, <2>5
  <1>4. b = v
    BY <1>0, <1>2, <1>3, VecEq
  <1> QED
    BY <1>4 DEF b, u

-----------------------------------------------------------------------------
(* Zip and unzip *)

\* A positive number that another one divides is a positive multiple of it.
LEMMA Divides ==
    ASSUME NEW n \in Nat \ {0}, NEW d \in Nat \ {0}, n % d = 0
    PROVE  n \div d \in Nat \ {0} /\ n = d * (n \div d) /\ n = (n \div d) * d
  <1> DEFINE q == n \div d
  <1>1. q \in Int /\ n = d * q + (n % d)
    BY DivMod
  <1> HIDE DEF q
  <1>2. n = d * q
    <2>1. d * q \in Int
      BY <1>1
    <2> QED
      BY <1>1, <2>1
  <1>3. 0 <= d * q /\ d * q < d * (n + 1)
    <2>1. d * (n + 1) = d * n + d /\ d * n >= n
      <3> DEFINE c == d - 1
      <3>1. c \in Nat /\ d = c + 1
        OBVIOUS
      <3> HIDE DEF c
      <3>2. (c + 1) * n = c * n + n /\ c * n \in Nat
        BY <3>1
      <3> QED
        BY <3>1, <3>2
    <2> QED
      BY <1>2, <2>1
  <1>4. q >= 0
    <2>1. 0 <= d * q + 0 /\ d * q + 0 < d * (n + 1)
      BY <1>1, <1>3
    <2> QED
      BY <1>1, <2>1, QuotientBounds
  <1>5. q # 0
    BY <1>2
  <1>6. d * q = q * d
    BY <1>1
  <1> QED
    BY <1>1, <1>2, <1>4, <1>5, <1>6 DEF q

\* m of n lanes, after the first p, a multiple of m.
SetOfLanes(n, m, p) ==
    \A e \in 1..m : p + e \in 1..n /\ ((p + e - 1) % m) + 1 = e

\* The lanes of set k when n lanes are split into f sets of m.
LEMMA LanesOfSet ==
    ASSUME NEW m \in Nat \ {0}, NEW f \in Nat \ {0}, NEW k \in 0..(f - 1),
           NEW n, n = m * f, NEW p, p = k * m
    PROVE  /\ (k * n) \div f = p
           /\ SetOfLanes(n, m, p)
  <1>1. (k * n) \div f = p
    <2>1. p \in Int /\ k * n = f * p
      OBVIOUS
    <2>2. (f * p + 0) \div f = p
      BY <2>1, QuotientIs
    <2>3. f * p + 0 = k * n
      BY <2>1
    <2> QED
      BY <2>2, <2>3
  <1>2. ASSUME NEW e \in 1..m
        PROVE  p + e \in 1..n /\ ((p + e - 1) % m) + 1 = e
    <2>1. e - 1 \in 0..(m - 1)
      OBVIOUS
    <2>2. 0 <= k * m + (e - 1) /\ k * m + (e - 1) < m * f
      BY <2>1, PieceBounds0
    <2>3. k * m \in Int /\ n \in Int /\ k * m = m * k
      OBVIOUS
    <2>4. (m * k + (e - 1)) % m = e - 1
      BY QuotientIs
    <2>5. p = m * k
      BY <2>3
    <2>6. (p + e - 1) % m = e - 1
      <3>1. p + e - 1 = m * k + (e - 1)
        BY <2>3, <2>5
      <3> QED
        BY <2>4, <3>1
    <2>7. p + e \in 1..n
      BY <2>2, <2>3
    <2> QED
      BY <2>6, <2>7
  <1> QED
    BY <1>1, <1>2, Zenon DEF SetOfLanes

\* The operands of a call are vectors with an element for every lane.
GangVec(n, v) == WidthOf(v) \in Nat \ {0} /\ IsVec(v, n, WidthOf(v))

LEMMA IsGangVec ==
    ASSUME numLanes \in Nat \ {0}, NEW w \in Nat \ {0}, NEW v, IsVec(v, numLanes, w)
    PROVE  GangVec(numLanes, v) /\ WidthOf(v) = w
  <1>1. WidthOf(v) = w
    BY VecFacts
  <1> QED
    BY <1>1, Zenon DEF GangVec

\* m elements taken from v one after the other.
LEMMA SliceIs ==
    ASSUME NEW n \in Nat, NEW w, NEW v, IsVec(v, n, w), NEW m \in Nat, NEW start \in Int,
           \A e \in 1..m : start + e \in 1..n
    PROVE  IsVec([e \in 1..m |-> v[start + e]], m, w)
  <1> DEFINE u == [e \in 1..m |-> v[start + e]]
  <1>1. \A e \in 1..m : u[e] = v[start + e]
    OBVIOUS
  <1>2. u = [e \in 1..m |-> u[e]]
    OBVIOUS
  <1> HIDE DEF u
  <1>3. \A e \in 1..m : u[e] = [i \in 1..w |-> u[e][i]]
    BY <1>1 DEF IsVec
  <1>4. IsVec(u, m, w)
    BY <1>2, <1>3 DEF IsVec
  <1> QED
    BY <1>4 DEF u

\* The conditions of a zip to elements of width bytes.
MayZip(n, v, width) ==
    /\ GangVec(n, v)
    /\ width \in Nat \ {0}
    /\ width % WidthOf(v) = 0
    /\ n % (width \div WidthOf(v)) = 0

\* The elements of v, f at a time, in as many copies.
Zipped(v, width, f, m) ==
    /\ width = WidthOf(v) * f /\ f = width \div WidthOf(v) /\ numLanes = m * f
    /\ IsVec(BitCast(v, width), m, width)
    /\ BitCast(BitCast(v, width), WidthOf(v)) = v
    /\ \A k \in 0..(f - 1) : \A e \in 1..m :
          ZipSync(v, width)[k * m + e] = BitCast(v, width)[e]

LEMMA ZipIs ==
    ASSUME numLanes \in Nat \ {0}, NEW v, NEW width, MayZip(numLanes, v, width)
    PROVE  /\ IsVec(ZipSync(v, width), numLanes, width)
           /\ \E f, m \in Nat \ {0} : Zipped(v, width, f, m)
  <1> DEFINE w == WidthOf(v)
             f == width \div w
             m == numLanes \div f
             zipped == BitCast(v, width)
             ret == ZipSync(v, width)
  <1>1. w \in Nat \ {0} /\ IsVec(v, numLanes, w) /\ width \in Nat \ {0} /\ width % w = 0
    BY DEF MayZip, GangVec
  <1>2. numLanes % f = 0
    BY DEF MayZip
  <1> HIDE DEF w
  <1>3. f \in Nat \ {0} /\ width = w * f
    BY <1>1, Divides
  <1> HIDE DEF f
  <1>4. m \in Nat \ {0} /\ numLanes = m * f /\ numLanes = f * m
    BY <1>2, <1>3, Divides
  <1> HIDE DEF m
  <1>5. IsVec(zipped, m, width)
    BY <1>1, <1>3, <1>4, BitCastWide
  <1>6. BitCast(zipped, w) = v
    BY <1>1, <1>3, <1>4, RoundTrip
  <1>7. Len(zipped) = m
    BY <1>1, <1>4, <1>5, VecFacts
  <1>8. ret = [i \in 1..numLanes |-> zipped[((i - 1) % m) + 1]]
    <2>1. f = width \div WidthOf(v)
      BY DEF f, w
    <2> QED
      BY <1>4, <1>7, <2>1 DEF ZipSync
  <1> HIDE DEF zipped, ret
  <1>9. \A i \in 1..numLanes : ((i - 1) % m) + 1 \in 1..m
    <2> TAKE i \in 1..numLanes
    <2> DEFINE r == (i - 1) % m
    <2>1. r \in Int /\ 0 <= r /\ r < m
      BY <1>4, DivMod
    <2> HIDE DEF r
    <2>2. r + 1 \in 1..m
      BY <2>1, <1>4
    <2> QED
      BY <2>2 DEF r
  <1>10. IsVec(ret, numLanes, width)
    <2>1. \A i \in 1..numLanes : ret[i] = zipped[((i - 1) % m) + 1]
      BY <1>8, Zenon
    <2>2. ret = [i \in 1..numLanes |-> ret[i]]
      BY <1>8, Zenon
    <2>3. \A i \in 1..numLanes : ret[i] = [b \in 1..width |-> ret[i][b]]
      <3> TAKE i \in 1..numLanes
      <3> DEFINE x == ((i - 1) % m) + 1
      <3>1. ret[i] = zipped[x] /\ x \in 1..m
        BY <2>1, <1>9
      <3> HIDE DEF x
      <3> QED
        BY <3>1, <1>5 DEF IsVec
    <2> QED
      BY <2>2, <2>3 DEF IsVec
  <1>11. \A k \in 0..(f - 1) : \A e \in 1..m : ret[k * m + e] = zipped[e]
    <2> TAKE k \in 0..(f - 1)
    <2> TAKE e \in 1..m
    <2> DEFINE p == k * m
               x == p + e
    <2>1. p = k * m
      OBVIOUS
    <2> HIDE DEF p
    <2>4. SetOfLanes(numLanes, m, p)
      BY <1>3, <1>4, <2>1, LanesOfSet
    <2>5. x = p + e
      OBVIOUS
    <2> HIDE DEF x
    <2>6. p + e \in 1..numLanes /\ ((p + e - 1) % m) + 1 = e
      BY <2>4, Zenon DEF SetOfLanes
    <2>7. x - 1 = p + e - 1
      BY <1>3, <1>4, <2>1, <2>5
    <2>2. x \in 1..numLanes /\ ((x - 1) % m) + 1 = e
      BY <2>5, <2>6, <2>7, Zenon
    <2>3. ret[x] = zipped[((x - 1) % m) + 1]
      BY <1>8, <2>2, Zenon
    <2> QED
      BY <2>2, <2>3 DEF x, p
  <1>12. f = width \div WidthOf(v)
    BY DEF f, w
  <1>13. Zipped(v, width, f, m)
    BY <1>3, <1>4, <1>5, <1>6, <1>11, <1>12, Zenon DEF w, zipped, ret, Zipped
  <1> QED
    BY <1>3, <1>4, <1>10, <1>13 DEF ret

\* The conditions of an unzip to elements of width bytes.
MayUnzip(v, width, index) ==
    /\ GangVec(numLanes, v)
    /\ width \in Nat \ {0}
    /\ WidthOf(v) % width = 0
    /\ numLanes % (WidthOf(v) \div width) = 0
    /\ index \in Nat
    /\ index < WidthOf(v) \div width

\* Set index of m elements of v, each cut into f pieces.
Unzipped(v, width, index, f, m) ==
    /\ f = WidthOf(v) \div width /\ WidthOf(v) = width * f /\ numLanes = m * f
    /\ index \in 0..(f - 1)
    /\ (index * numLanes) \div f = index * m
    /\ \A e \in 1..m : index * m + e \in 1..numLanes
    /\ IsVec([e \in 1..m |-> v[index * m + e]], m, WidthOf(v))
    /\ UnzipSync(v, width, index) = BitCast([e \in 1..m |-> v[index * m + e]], width)

LEMMA UnzipIs ==
    ASSUME numLanes \in Nat \ {0}, NEW v, NEW width, NEW index, MayUnzip(v, width, index)
    PROVE  \E f, m \in Nat \ {0} : Unzipped(v, width, index, f, m)
  <1> DEFINE size == WidthOf(v)
             f == size \div width
             m == numLanes \div f
             start == index * m
  <1>1. size \in Nat \ {0} /\ IsVec(v, numLanes, size) /\ width \in Nat \ {0}
        /\ size % width = 0 /\ index \in Nat
    BY DEF MayUnzip, GangVec
  <1>2. numLanes % f = 0 /\ index < f
    BY DEF MayUnzip
  <1> HIDE DEF size
  <1>3. f \in Nat \ {0} /\ size = width * f
    BY <1>1, Divides
  <1> HIDE DEF f
  <1>4. m \in Nat \ {0} /\ numLanes = m * f
    BY <1>2, <1>3, Divides
  <1>13. m = numLanes \div f
    OBVIOUS
  <1> HIDE DEF m
  <1>5. index \in 0..(f - 1)
    BY <1>1, <1>2, <1>3
  <1>14. start = index * m
    OBVIOUS
  <1>15. start \in Int
    BY <1>1, <1>4
  <1> HIDE DEF start
  <1>7. (index * numLanes) \div f = start /\ SetOfLanes(numLanes, m, start)
    BY <1>3, <1>4, <1>5, <1>14, LanesOfSet
  <1>6. (index * numLanes) \div f = start /\ \A e \in 1..m : start + e \in 1..numLanes
    BY <1>7, Zenon DEF SetOfLanes
  <1>8. IsVec([e \in 1..m |-> v[start + e]], m, size)
    BY <1>1, <1>4, <1>6, <1>15, SliceIs
  <1>9. f = WidthOf(v) \div width
    BY DEF f, size
  <1>10. UnzipSync(v, width, index) = BitCast([e \in 1..m |-> v[start + e]], width)
    BY <1>6, <1>9, <1>13, Zenon DEF UnzipSync, UnzipStart
  <1>16. Unzipped(v, width, index, f, m)
    BY <1>3, <1>4, <1>5, <1>6, <1>8, <1>9, <1>10, <1>14 DEF size, Unzipped
  <1> QED
    BY <1>3, <1>4, <1>16

\* An element is a vector of one element.
LEMMA OneElement ==
    ASSUME NEW n \in Nat, NEW w, NEW v, IsVec(v, n, w), NEW e \in 1..n
    PROVE  IsVec(<<v[e]>>, 1, w)
  <1> DEFINE x == v[e]
             u == <<x>>
  <1>1. x = [i \in 1..w |-> x[i]]
    BY DEF IsVec
  <1> HIDE DEF x
  <1>2. u = [k \in 1..1 |-> u[k]] /\ \A k \in 1..1 : u[k] = x
    OBVIOUS
  <1> HIDE DEF u
  <1>3. IsVec(u, 1, w)
    BY <1>1, <1>2 DEF IsVec
  <1> QED
    BY <1>3 DEF u, x

\* Piece r of an element.
PieceOf(piece, x, r, width) ==
    /\ piece = [i \in 1..width |-> piece[i]]
    /\ \A i \in 1..width : piece[i] = x[r * width + i]

LEMMA PieceIs ==
    ASSUME NEW f \in Nat \ {0}, NEW width \in Nat \ {0}, NEW size, size = width * f,
           NEW x, IsVec(<<x>>, 1, size), NEW r \in 0..(f - 1)
    PROVE  PieceOf(Pieces(x, width)[r + 1], x, r, width)
  <1> DEFINE v == <<x>>
             u == BitCast(v, width)
  <1>0. f = 1 * f /\ 1 \in Nat \ {0}
    OBVIOUS
  <1>1. IsVec(u, f, width) /\ CutInto(u, v, 1, f, f, width)
    BY <1>0, BitCastNarrow
  <1>2. r + 1 \in 1..f /\ (r + 1) - 1 = r
    OBVIOUS
  <1>3. u[r + 1] = [i \in 1..width |-> u[r + 1][i]]
    <2> HIDE DEF u
    <2> QED
      BY <1>1, <1>2 DEF IsVec
  <1>4. r \div f = 0 /\ r % f = r
    <2>1. f * 0 + r = r
      OBVIOUS
    <2>2. (f * 0 + r) \div f = 0 /\ (f * 0 + r) % f = r
      BY QuotientIs
    <2> QED
      BY <2>1, <2>2
  <1>5. ASSUME NEW i \in 1..width
        PROVE  u[r + 1][i] = x[r * width + i]
    <2> HIDE DEF u, v
    <2> DEFINE e == r + 1
    <2>1. e \in 1..f /\ e - 1 = r
      BY <1>2
    <2> HIDE DEF e
    <2>2. u[e][i] = v[((e - 1) \div f) + 1][((e - 1) % f) * width + i]
      BY <1>1, <2>1, Zenon DEF CutInto
    <2>5. (e - 1) \div f = 0 /\ (e - 1) % f = r
      BY <1>4, <2>1, Zenon
    <2>6. u[e][i] = v[0 + 1][r * width + i]
      BY <2>2, <2>5, Zenon
    <2>3. u[e][i] = v[1][r * width + i]
      BY <2>6, 0 + 1 = 1
    <2>4. v[1] = x
      BY DEF v
    <2> QED
      BY <2>3, <2>4 DEF e
  <1> QED
    BY <1>3, <1>5, Zenon DEF Pieces, PieceOf

LEMMA UnzipTakes ==
    ASSUME numLanes \in Nat \ {0}, NEW v, NEW width, NEW index, MayUnzip(v, width, index),
           NEW f, f = WidthOf(v) \div width,
           NEW first, first = (index * numLanes) \div f,
           NEW ret, ret = UnzipSync(v, width, index)
    PROVE  /\ IsVec(ret, numLanes, width)
           /\ \A lane \in 0..(numLanes - 1) :
                 ret[lane + 1] = Pieces(v[first + (lane \div f) + 1], width)[(lane % f) + 1]
  <1> DEFINE size == WidthOf(v)
  <1>1. PICK g, m \in Nat \ {0} : Unzipped(v, width, index, g, m)
    BY UnzipIs
  <1>2. f = g /\ first = index * m
    BY <1>1 DEF Unzipped
  <1>3. first \in Int /\ f \in Nat \ {0}
    BY <1>1, <1>2 DEF Unzipped
  <1> DEFINE u == [e \in 1..m |-> v[first + e]]
  <1>4. IsVec(u, m, size) /\ ret = BitCast(u, width)
    BY <1>1, <1>2, Zenon DEF Unzipped
  <1>5. size = width * f /\ numLanes = m * f /\ \A e \in 1..m : first + e \in 1..numLanes
    BY <1>1, <1>2 DEF Unzipped
  <1>6. width \in Nat \ {0} /\ IsVec(v, numLanes, size)
    BY DEF MayUnzip, GangVec
  <1>7. \A e \in 1..m : u[e] = v[first + e]
    OBVIOUS
  <1> HIDE DEF size, u
  <1>8. IsVec(ret, numLanes, width) /\ CutInto(ret, u, m, numLanes, f, width)
    BY <1>3, <1>4, <1>5, <1>6, BitCastNarrow
  <1>9. ASSUME NEW lane \in 0..(numLanes - 1)
        PROVE  ret[lane + 1] = Pieces(v[first + (lane \div f) + 1], width)[(lane % f) + 1]
    <2> DEFINE q == lane \div f
               r == lane % f
               e == lane + 1
    <2>1. q \in Int /\ r \in Int
      BY <1>3, DivMod
    <2>2. e \in 1..numLanes /\ e - 1 = lane
      OBVIOUS
    <2> HIDE DEF e
    <2>3. q = (e - 1) \div f /\ r = (e - 1) % f
      BY <2>2
    <2> HIDE DEF q, r
    <2>4. ASSUME NEW i \in 1..width
          PROVE  q \in 0..(m - 1) /\ r \in 0..(f - 1) /\ ret[e][i] = u[q + 1][r * width + i]
      BY <1>8, <2>2, <2>3, Zenon DEF CutInto
    <2>5. q \in 0..(m - 1) /\ r \in 0..(f - 1)
      BY <1>6, <2>4, 1 \in 1..width
    <2> DEFINE x == v[first + (q + 1)]
    <2>6. q + 1 \in 1..m /\ first + (q + 1) \in 1..numLanes /\ first + (q + 1) = first + q + 1
      BY <1>3, <1>5, <2>1, <2>5
    <2>7. u[q + 1] = x
      BY <1>7, <2>6
    <2>8. IsVec(<<x>>, 1, size)
      BY <1>6, <2>6, OneElement
    <2> HIDE DEF x
    <2> DEFINE piece == Pieces(x, width)[r + 1]
    <2>9. PieceOf(piece, x, r, width)
      BY <1>3, <1>5, <1>6, <2>5, <2>8, PieceIs
    <2>10. ret[e] = [i \in 1..width |-> ret[e][i]]
      BY <1>8, <2>2 DEF IsVec
    <2> HIDE DEF piece
    <2>11. \A i \in 1..width : ret[e][i] = piece[i]
      BY <2>4, <2>7, <2>9, Zenon DEF PieceOf
    <2>12. ret[e] = piece
      BY <2>9, <2>10, <2>11, Zenon DEF PieceOf
    <2> QED
      BY <2>6, <2>12 DEF e, q, r, x, piece
  <1> QED
    BY <1>8, <1>9

\* Unzipping what was zipped.
LEMMA UnzipOfZip ==
    ASSUME numLanes \in Nat \ {0}, NEW v, NEW width, MayZip(numLanes, v, width),
           NEW u, u = ZipSync(v, width),
           NEW index, MayUnzip(u, WidthOf(v), index)
    PROVE  UnzipSync(u, WidthOf(v), index) = v
  <1> DEFINE w == WidthOf(v)
  <1>1. PICK f, m \in Nat \ {0} : Zipped(v, width, f, m)
    BY ZipIs
  <1>2. IsVec(u, numLanes, width) /\ width \in Nat \ {0}
    BY ZipIs DEF MayZip
  <1>3. WidthOf(u) = width
    BY <1>2, IsGangVec
  <1>4. PICK g, k \in Nat \ {0} : Unzipped(u, w, index, g, k)
    BY UnzipIs
  <1>5. g = f
    BY <1>1, <1>3, <1>4 DEF Zipped, Unzipped
  <1>6. k = m
    <2>1. numLanes = f * m + 0 /\ numLanes = f * k + 0
      BY <1>1, <1>4, <1>5 DEF Zipped, Unzipped
    <2>2. (f * m + 0) \div f = m /\ (f * k + 0) \div f = k
      BY QuotientIs
    <2> QED
      BY <2>1, <2>2
  <1> DEFINE zipped == BitCast(v, width)
  <1>7. \A e \in 1..m : u[index * m + e] = zipped[e]
    BY <1>1, <1>4, <1>5, Zenon DEF Zipped, Unzipped
  <1>8. zipped = [e \in 1..m |-> zipped[e]]
    <2>1. IsVec(zipped, m, width)
      BY <1>1 DEF Zipped
    <2> HIDE DEF zipped
    <2> QED
      BY <2>1 DEF IsVec
  <1> HIDE DEF zipped
  <1>9. [e \in 1..m |-> u[index * m + e]] = zipped
    BY <1>7, <1>8
  <1>10. UnzipSync(u, w, index) = BitCast(zipped, w)
    BY <1>4, <1>6, <1>9, Zenon DEF Unzipped
  <1> QED
    BY <1>1, <1>10, Zenon DEF zipped, Zipped

-----------------------------------------------------------------------------
(* Shuffle *)

\* Two vectors of n elements after each other.
Joined(s, n, v, u) ==
    /\ \A k \in 1..n : s[k] = v[k]
    /\ \A k \in (n + 1)..(2 * n) : s[k] = u[k - n]

LEMMA ConcatIs ==
    ASSUME NEW n \in Nat \ {0}, NEW w \in Nat \ {0}, NEW v, IsVec(v, n, w),
           NEW u, IsVec(u, n, w)
    PROVE  Joined(v \o u, n, v, u)
  <1> DEFINE S == {v[e] : e \in 1..n} \cup {u[e] : e \in 1..n}
  <1>1. v \in Seq({v[e] : e \in 1..n}) /\ Len(v) = n
    BY VecFacts
  <1>2. u \in Seq({u[e] : e \in 1..n}) /\ Len(u) = n
    BY ONLY VecFacts, IsVec(u, n, w), n \in Nat \ {0}, w \in Nat \ {0}
  <1>3. v \in Seq(S) /\ u \in Seq(S)
    BY <1>1, <1>2
  <1> HIDE DEF S
  <1>4. /\ \A k \in 1..n : (v \o u)[k] = v[k]
        /\ \A k \in (n + 1)..(2 * n) : (v \o u)[k] = u[k - n]
    BY <1>1, <1>2, <1>3
  <1> QED
    BY <1>4, Zenon DEF Joined

LEMMA ZeroVectorIs ==
    ASSUME NEW n \in Nat, NEW w
    PROVE  /\ IsVec(ZeroVector(n, w), n, w)
           /\ \A e \in 1..n : ZeroVector(n, w)[e] = Repeat(Zero, w)
  <1> DEFINE z == Repeat(Zero, w)
             u == ZeroVector(n, w)
  <1>1. u = [e \in 1..n |-> z]
    BY DEF ZeroVector, Repeat
  <1>2. z = [i \in 1..w |-> z[i]]
    BY DEF Repeat
  <1> HIDE DEF z, u
  <1>3. IsVec(u, n, w) /\ \A e \in 1..n : u[e] = z
    BY <1>1, <1>2 DEF IsVec
  <1> QED
    BY <1>3 DEF u, z

\* The element of v or u that a mask position names.
Named2(v, u, k) == IF k < numLanes THEN v[k + 1] ELSE u[k - numLanes + 1]

IsMask(mask, len) ==
    /\ mask = [e \in 1..len |-> mask[e]]
    /\ \A e \in 1..len : mask[e] \in 0..(2 * numLanes - 1)

TakenBy(ret, v, u, mask, len) == \A e \in 1..len : ret[e] = Named2(v, u, mask[e])

\* A mask of in-range positions takes the elements it names.
LEMMA ShuffleIs ==
    ASSUME numLanes \in Nat \ {0}, NEW w \in Nat \ {0},
           NEW v, IsVec(v, numLanes, w), NEW u, IsVec(u, numLanes, w),
           NEW len \in Nat, NEW mask, IsMask(mask, len)
    PROVE  /\ IsVec(ShuffleVector(v, u, mask), len, w)
           /\ TakenBy(ShuffleVector(v, u, mask), v, u, mask, len)
  <1> DEFINE ret == ShuffleVector(v, u, mask)
  <1>1. Len(mask) = len
    BY SeqOf DEF IsMask
  <1>2. Len(v) = numLanes
    BY VecFacts
  <1>3. ret = [e \in 1..len |-> Named2(v, u, mask[e])]
    BY <1>1, <1>2 DEF ShuffleVector, Named2
  <1> HIDE DEF ret
  <1>4. \A e \in 1..len : ret[e] = Named2(v, u, mask[e])
    BY <1>3, Zenon
  <1>5. ret = [e \in 1..len |-> ret[e]]
    BY <1>3, Zenon
  <1>6. \A k \in 0..(2 * numLanes - 1) :
            Named2(v, u, k) = [i \in 1..w |-> Named2(v, u, k)[i]]
    <2> TAKE k \in 0..(2 * numLanes - 1)
    <2> DEFINE x == Named2(v, u, k)
    <2>1. CASE k < numLanes
      <3>1. x = v[k + 1] /\ k + 1 \in 1..numLanes
        BY <2>1 DEF Named2
      <3> HIDE DEF x
      <3> QED
        BY <3>1 DEF IsVec, x
    <2>2. CASE ~(k < numLanes)
      <3>1. x = u[k - numLanes + 1] /\ k - numLanes + 1 \in 1..numLanes
        BY <2>2 DEF Named2
      <3> HIDE DEF x
      <3> QED
        BY <3>1 DEF IsVec, x
    <2> QED
      BY <2>1, <2>2
  <1>7. \A e \in 1..len : ret[e] = [i \in 1..w |-> ret[e][i]]
    BY <1>4, <1>6, Zenon DEF IsMask
  <1>8. IsVec(ret, len, w)
    BY <1>5, <1>7 DEF IsVec
  <1> QED
    BY <1>4, <1>8 DEF ret, TakenBy

\* A resize works on one element at a time.
LEMMA ResizeIs ==
    ASSUME NEW n \in Nat \ {0}, NEW w \in Nat \ {0}, NEW v, IsVec(v, n, w),
           NEW type, type.width \in Nat \ {0}
    PROVE  /\ IsVec(Resize(v, type), n, type.width)
           /\ \A e \in 1..n : Resize(v, type)[e] = Resize(<<v[e]>>, type)[1]
  <1> DEFINE width == type.width
  <1>1. WidthOf(v) = w /\ Len(v) = n
    BY VecFacts
  <1>2. ASSUME NEW e \in 1..n
        PROVE  WidthOf(<<v[e]>>) = w /\ Len(<<v[e]>>) = 1 /\ <<v[e]>>[1] = v[e]
    <2>1. IsVec(<<v[e]>>, 1, w)
      BY OneElement
    <2> DEFINE u == <<v[e]>>
    <2>2. u[1] = v[e] /\ Len(u) = 1
      OBVIOUS
    <2> HIDE DEF u
    <2>3. WidthOf(u) = w
      <3>1. IsVec(u, 1, w) /\ 1 \in Nat \ {0}
        BY <2>1 DEF u
      <3> QED
        BY ONLY <3>1, VecFacts, w \in Nat \ {0}
    <2> QED
      BY <2>2, <2>3 DEF u
  <1>3. CASE width = w
    <2>1. Resize(v, type) = v /\ \A e \in 1..n : Resize(<<v[e]>>, type) = <<v[e]>>
      BY <1>1, <1>2, <1>3 DEF Resize
    <2> QED
      BY <1>3, <2>1
  <1>5. CASE width < w
    <2>1. width # w
      BY <1>5
    <2>2. Resize(v, type) = [e \in 1..n |-> [i \in 1..width |-> v[e][i]]]
      BY <1>1, <1>5, <2>1 DEF Resize, Trunc
    <2>3. ASSUME NEW e \in 1..n
          PROVE  Resize(<<v[e]>>, type)[1] = [i \in 1..width |-> v[e][i]]
      <3> DEFINE u == <<v[e]>>
      <3>1. WidthOf(u) = w /\ Len(u) = 1 /\ u[1] = v[e]
        BY <1>2
      <3> HIDE DEF u
      <3>2. Resize(u, type) = Trunc(u, width)
        BY <1>5, <2>1, <3>1 DEF Resize
      <3>3. Trunc(u, width)[1] = [i \in 1..width |-> u[1][i]]
        BY <3>1 DEF Trunc
      <3> QED
        BY <3>1, <3>2, <3>3 DEF u
    <2> DEFINE u == Resize(v, type)
    <2> HIDE DEF u
    <2>4. u = [e \in 1..n |-> [i \in 1..width |-> v[e][i]]]
      BY <2>2 DEF u
    <2>5. IsVec(u, n, width) /\ \A e \in 1..n : u[e] = [i \in 1..width |-> v[e][i]]
      BY <2>4, Zenon DEF IsVec
    <2> QED
      BY <2>3, <2>5, Zenon DEF u
  <1>6. CASE width > w /\ type.unsigned
    <2>1. width # w /\ ~(width < w)
      BY <1>6
    <2>2. Resize(v, type) =
              [e \in 1..n |-> [i \in 1..width |-> IF i <= w THEN v[e][i] ELSE Zero]]
      BY <1>1, <1>6, <2>1 DEF Resize, ZExt
    <2>3. ASSUME NEW e \in 1..n
          PROVE  Resize(<<v[e]>>, type)[1] =
                     [i \in 1..width |-> IF i <= w THEN v[e][i] ELSE Zero]
      <3> DEFINE u == <<v[e]>>
      <3>1. WidthOf(u) = w /\ Len(u) = 1 /\ u[1] = v[e]
        BY <1>2
      <3> HIDE DEF u
      <3>2. Resize(u, type) = ZExt(u, width)
        BY <1>6, <2>1, <3>1 DEF Resize
      <3>3. ZExt(u, width)[1] = [i \in 1..width |-> IF i <= w THEN u[1][i] ELSE Zero]
        BY <3>1 DEF ZExt
      <3> QED
        BY <3>1, <3>2, <3>3 DEF u
    <2> DEFINE u == Resize(v, type)
    <2> HIDE DEF u
    <2>4. u = [e \in 1..n |-> [i \in 1..width |-> IF i <= w THEN v[e][i] ELSE Zero]]
      BY <2>2 DEF u
    <2>5. IsVec(u, n, width) /\ \A e \in 1..n : u[e] = [i \in 1..width |-> IF i <= w THEN v[e][i] ELSE Zero]
      BY <2>4, Zenon DEF IsVec
    <2> QED
      BY <2>3, <2>5, Zenon DEF u
  <1>7. CASE width > w /\ ~type.unsigned
    <2>1. width # w /\ ~(width < w)
      BY <1>7
    <2>2. Resize(v, type) =
              [e \in 1..n |-> [i \in 1..width |-> IF i <= w THEN v[e][i] ELSE SignOf(v[e][w])]]
      BY <1>1, <1>7, <2>1 DEF Resize, SExt
    <2>3. ASSUME NEW e \in 1..n
          PROVE  Resize(<<v[e]>>, type)[1] =
                     [i \in 1..width |-> IF i <= w THEN v[e][i] ELSE SignOf(v[e][w])]
      <3> DEFINE u == <<v[e]>>
      <3>1. WidthOf(u) = w /\ Len(u) = 1 /\ u[1] = v[e]
        BY <1>2
      <3> HIDE DEF u
      <3>2. Resize(u, type) = SExt(u, width)
        BY <1>7, <2>1, <3>1 DEF Resize
      <3>3. SExt(u, width)[1] =
                [i \in 1..width |-> IF i <= w THEN u[1][i] ELSE SignOf(u[1][w])]
        BY <3>1 DEF SExt
      <3> QED
        BY <3>1, <3>2, <3>3 DEF u
    <2> DEFINE u == Resize(v, type)
    <2> HIDE DEF u
    <2>4. u = [e \in 1..n |-> [i \in 1..width |-> IF i <= w THEN v[e][i] ELSE SignOf(v[e][w])]]
      BY <2>2 DEF u
    <2>5. IsVec(u, n, width) /\ \A e \in 1..n : u[e] = [i \in 1..width |-> IF i <= w THEN v[e][i] ELSE SignOf(v[e][w])]
      BY <2>4, Zenon DEF IsVec
    <2> QED
      BY <2>3, <2>5, Zenon DEF u
  <1> QED
    BY <1>3, <1>5, <1>6, <1>7

\* A zero of any width resizes to the zero of the type.
LEMMA ResizeZero ==
    ASSUME NEW w \in Nat \ {0}, NEW type, type.width \in Nat \ {0}
    PROVE  Resize(<<Repeat(Zero, w)>>, type)[1] = Repeat(Zero, type.width)
  <1> DEFINE z == Repeat(Zero, w)
             u == <<z>>
             width == type.width
  <1>1. z = [i \in 1..w |-> Zero]
    BY DEF Repeat
  <1> HIDE DEF z
  <1>2. u[1] = z /\ Len(u) = 1
    OBVIOUS
  <1> HIDE DEF u
  <1>3. WidthOf(u) = w
    BY <1>1, <1>2 DEF WidthOf
  <1>4. SignOf(Zero) = Zero
    BY DEF SignOf, Zero
  <1>5. CASE width = w
    BY <1>1, <1>2, <1>3, <1>5 DEF Resize, Repeat, u, z
  <1>6. CASE width < w
    <2>1. Resize(u, type) = Trunc(u, width)
      BY <1>3, <1>6 DEF Resize
    <2>2. Trunc(u, width)[1] = [i \in 1..width |-> z[i]]
      BY <1>2 DEF Trunc
    <2>3. \A i \in 1..width : z[i] = Zero
      BY <1>1, <1>6
    <2> QED
      BY <2>1, <2>2, <2>3 DEF Repeat, u, z
  <1>7. CASE width > w /\ type.unsigned
    <2>1. Resize(u, type) = ZExt(u, width)
      BY <1>3, <1>7 DEF Resize
    <2>2. ZExt(u, width)[1] = [i \in 1..width |-> IF i <= w THEN z[i] ELSE Zero]
      BY <1>2, <1>3 DEF ZExt
    <2>3. \A i \in 1..width : (IF i <= w THEN z[i] ELSE Zero) = Zero
      BY <1>1
    <2> QED
      BY <2>1, <2>2, <2>3 DEF Repeat, u, z
  <1>8. CASE width > w /\ ~type.unsigned
    <2>1. Resize(u, type) = SExt(u, width)
      BY <1>3, <1>8 DEF Resize
    <2>2. SExt(u, width)[1] = [i \in 1..width |-> IF i <= w THEN z[i] ELSE SignOf(z[w])]
      BY <1>2, <1>3 DEF SExt
    <2>3. \A i \in 1..width : (IF i <= w THEN z[i] ELSE SignOf(z[w])) = Zero
      BY <1>1, <1>4
    <2> QED
      BY <2>1, <2>2, <2>3 DEF Repeat, u, z
  <1> QED
    BY <1>5, <1>6, <1>7, <1>8

\* What the assumption says of a pattern and of a type.
PatternIsInt(pattern) ==
    \A lane \in 1..numLanes :
        /\ pattern[lane] \in Int
        /\ -IndexWrap <= 2 * pattern[lane] /\ 2 * pattern[lane] < IndexWrap

IndicesFit == IndexWrap \in Nat /\ 2 * numLanes < IndexWrap

\* The 64-bit number of an index: the index itself when it is one of the
\* elements, and no element of the first operand when it is negative.
LEMMA IndexIs ==
    ASSUME numLanes \in Nat \ {0}, IndicesFit, NEW pattern, PatternIsInt(pattern),
           NEW lane \in 1..numLanes
    PROVE  /\ ValueAtLane(pattern, lane) \in Nat
           /\ pattern[lane] >= 0 => ValueAtLane(pattern, lane) = pattern[lane]
           /\ pattern[lane] < 0 => ValueAtLane(pattern, lane) >= numLanes
  <1> DEFINE p == pattern[lane]
             r == ValueAtLane(pattern, lane)
  <1>1. p \in Int /\ -IndexWrap <= 2 * p /\ 2 * p < IndexWrap
    BY DEF PatternIsInt
  <1>2. r = p % IndexWrap
    BY DEF ValueAtLane
  <1> HIDE DEF p, r
  <1>3. IndexWrap \in Nat /\ IndexWrap > 0 /\ 2 * numLanes < IndexWrap
    BY DEF IndicesFit
  <1>4. r \in Nat
    BY <1>1, <1>2, <1>3, DivMod
  <1>5. CASE p >= 0
    <2>1. (IndexWrap * 0 + p) % IndexWrap = p
      BY <1>1, <1>3, <1>5, QuotientIs
    <2>2. IndexWrap * 0 + p = p
      BY <1>1, <1>3
    <2> QED
      BY <1>2, <1>4, <1>5, <2>1, <2>2 DEF p, r
  <1>6. CASE p < 0
    <2> DEFINE m == p + IndexWrap
    <2>1. m \in Int /\ 0 <= m /\ m < IndexWrap /\ m >= numLanes
      BY <1>1, <1>3, <1>6
    <2>2. IndexWrap * (-1) + m = p
      BY <1>1, <1>3
    <2> HIDE DEF m
    <2>3. (IndexWrap * (-1) + m) % IndexWrap = m
      BY <1>3, <2>1, QuotientIs
    <2> QED
      BY <1>1, <1>2, <1>4, <1>6, <2>1, <2>2, <2>3 DEF p, r
  <1> QED
    BY <1>1, <1>5, <1>6

\* The mask of a shuffle stays within the two operands.
LEMMA MaskIndexIs ==
    ASSUME numLanes \in Nat \ {0}, IndicesFit, NEW pattern, PatternIsInt(pattern),
           NEW lane \in 1..numLanes, NEW operands \in {1, 2}
    PROVE  /\ MaskIndex(pattern, lane, operands) \in 0..(2 * numLanes - 1)
           /\ pattern[lane] \in 0..(numLanes * operands - 1) =>
                 MaskIndex(pattern, lane, operands) = pattern[lane]
           /\ operands = 1 /\ ~(pattern[lane] \in 0..(numLanes - 1)) =>
                 MaskIndex(pattern, lane, operands) >= numLanes
  <1> DEFINE p == pattern[lane]
             r == ValueAtLane(pattern, lane)
             k == MaskIndex(pattern, lane, operands)
             n == numLanes * operands
  <1>1. k = IF r < n THEN r ELSE numLanes + lane - 1
    BY DEF MaskIndex
  <1>2. r \in Nat /\ (p >= 0 => r = p) /\ (p < 0 => r >= numLanes) /\ p \in Int
    BY IndexIs DEF PatternIsInt
  <1>3. n \in Nat /\ n <= 2 * numLanes /\ (operands = 1 => n = numLanes)
    BY numLanes * 1 = numLanes, numLanes * 2 = 2 * numLanes
  <1> HIDE DEF k, r, p, n
  <1>4. k \in 0..(2 * numLanes - 1)
    BY <1>1, <1>2, <1>3
  <1>5. p \in 0..(n - 1) => k = p
    BY <1>1, <1>2, <1>3
  <1>6. operands = 1 /\ ~(p \in 0..(numLanes - 1)) => k >= numLanes
    BY <1>1, <1>2, <1>3
  <1> QED
    BY <1>4, <1>5, <1>6 DEF k, p, n

\* A shuffle that is no widening.
LEMMA ShuffleResizes ==
    ASSUME numLanes \in Nat \ {0}, IndicesFit, NEW pattern, PatternIsInt(pattern),
           NEW w \in Nat \ {0}, NEW v, IsVec(v, numLanes, w), NEW u, IsVec(u, numLanes, w),
           NEW operands \in {1, 2}, NEW type, type.width \in Nat \ {0},
           ~WidensByShuffle(v, type),
           NEW ret, ret = ShuffleSync(v, u, pattern, operands, type)
    PROVE  /\ IsVec(ret, numLanes, type.width)
           /\ \A lane \in 1..numLanes :
                 ret[lane] =
                    Resize(<<Named2(v, u, MaskIndex(pattern, lane, operands))>>, type)[1]
  <1> DEFINE mask == [lane \in 1..numLanes |-> MaskIndex(pattern, lane, operands)]
             x == ShuffleVector(v, u, mask)
  <1>1. ret = Resize(x, type)
    BY DEF ShuffleSync
  <1>2. \A lane \in 1..numLanes : mask[lane] = MaskIndex(pattern, lane, operands)
    BY Zenon
  <1>3. mask = [lane \in 1..numLanes |-> mask[lane]]
    BY Zenon
  <1> HIDE DEF mask
  <1>4. \A lane \in 1..numLanes : mask[lane] \in 0..(2 * numLanes - 1)
    BY <1>2, MaskIndexIs
  <1>7. IsMask(mask, numLanes) /\ numLanes \in Nat
    BY <1>3, <1>4 DEF IsMask
  <1>5. IsVec(x, numLanes, w) /\ TakenBy(x, v, u, mask, numLanes)
    BY <1>7, ShuffleIs
  <1> HIDE DEF x
  <1>6. /\ IsVec(ret, numLanes, type.width)
        /\ \A lane \in 1..numLanes : ret[lane] = Resize(<<x[lane]>>, type)[1]
    BY <1>1, <1>5, ResizeIs
  <1> QED
    BY <1>2, <1>5, <1>6, Zenon DEF TakenBy

\* The positions of a widening's mask: the lane's own element, then zeroes.
LEMMA WidenMaskIs ==
    ASSUME numLanes \in Nat \ {0}, IndicesFit, NEW pattern, PatternIsInt(pattern),
           NEW ratio \in Nat \ {0}, NEW len, len = numLanes * ratio
    PROVE  /\ Len(WidenMask(pattern, ratio)) = len
           /\ WidenMask(pattern, ratio) =
                 [i \in 1..len |-> WidenMask(pattern, ratio)[i]]
           /\ \A i \in 1..len : WidenMask(pattern, ratio)[i] \in Nat
           /\ \A lane \in 1..numLanes : \A q \in 0..(ratio - 1) :
                 /\ (lane - 1) * ratio + q + 1 \in 1..len
                 /\ WidenMask(pattern, ratio)[(lane - 1) * ratio + q + 1] =
                       IF q = 0 THEN WidenIndex(pattern, lane) ELSE numLanes
  <1> DEFINE mask == WidenMask(pattern, ratio)
             bit(i) == IF (i - 1) % ratio = 0
                      THEN WidenIndex(pattern, ((i - 1) \div ratio) + 1) ELSE numLanes
  <1>0. len \in Nat
    OBVIOUS
  <1>1. mask = [i \in 1..len |-> bit(i)]
    BY DEF WidenMask
  <1>2. \A i \in 1..len : mask[i] = bit(i)
    <2> HIDE DEF mask, bit
    <2> QED
      BY <1>1, Zenon
  <1>3. mask = [i \in 1..len |-> mask[i]]
    <2> HIDE DEF mask, bit
    <2> QED
      BY <1>1, Zenon
  <1> HIDE DEF mask
  <1>4. Len(mask) = len
    BY <1>0, <1>3, SeqOf
  <1>5. \A lane \in 1..numLanes : WidenIndex(pattern, lane) \in Nat
    BY IndexIs DEF WidenIndex
  <1>6. ASSUME NEW i \in 1..len
        PROVE  mask[i] \in Nat
    <2> DEFINE q == (i - 1) \div ratio
               r == (i - 1) % ratio
    <2>1. q \in Int /\ r \in Int /\ i - 1 = ratio * q + r /\ 0 <= r /\ r < ratio
      BY DivMod
    <2>2. mask[i] = IF r = 0 THEN WidenIndex(pattern, q + 1) ELSE numLanes
      BY <1>2, Zenon
    <2> HIDE DEF q, r
    <2>3. 0 <= ratio * q + r /\ ratio * q + r < ratio * numLanes
      <3>1. ratio * q + r = i - 1 /\ len = ratio * numLanes
        BY <2>1
      <3> QED
        BY <3>1, <1>0
    <2>4. 0 <= q /\ q < numLanes
      BY <2>1, <2>3, QuotientBounds
    <2>5. q + 1 \in 1..numLanes
      BY <2>1, <2>4
    <2> QED
      BY <1>5, <2>2, <2>5
  <1>7. ASSUME NEW lane \in 1..numLanes, NEW q \in 0..(ratio - 1)
        PROVE  /\ (lane - 1) * ratio + q + 1 \in 1..len
               /\ mask[(lane - 1) * ratio + q + 1] =
                     IF q = 0 THEN WidenIndex(pattern, lane) ELSE numLanes
    <2> DEFINE i == (lane - 1) * ratio + q + 1
               p == lane - 1
    <2>1. p \in 0..(numLanes - 1) /\ p + 1 = lane
      OBVIOUS
    <2>2. 0 <= p * ratio + q /\ p * ratio + q < ratio * numLanes
      BY <2>1, PieceBounds0
    <2>3. p * ratio \in Int /\ p * ratio = ratio * p /\ ratio * numLanes = len
      BY <2>1
    <2>4. i = p * ratio + q + 1
      OBVIOUS
    <2> HIDE DEF p, i
    <2>5. i \in 1..len /\ i - 1 = ratio * p + q
      BY <1>0, <2>2, <2>3, <2>4
    <2>6. (i - 1) \div ratio = p /\ (i - 1) % ratio = q
      BY <2>1, <2>5, QuotientIs
    <2>7. mask[i] = bit(i)
      BY <1>2, <2>5
    <2>8. mask[i] = IF q = 0 THEN WidenIndex(pattern, lane) ELSE numLanes
      BY <2>1, <2>6, <2>7
    <2> QED
      BY <2>5, <2>8 DEF i
  <1> QED
    BY <1>3, <1>4, <1>6, <1>7 DEF mask

\* A shuffle that widens: the element of the lane's index when there is one,
\* and zero otherwise.
LEMMA WidenIs ==
    ASSUME numLanes \in Nat \ {0}, IndicesFit, NEW pattern, PatternIsInt(pattern),
           NEW w \in Nat \ {0}, NEW v, IsVec(v, numLanes, w),
           NEW type, type.width \in Nat \ {0}, WidensByShuffle(v, type),
           NEW ret, ret = Widen(v, pattern, type), ret # Abort
    PROVE  /\ IsVec(ret, numLanes, type.width)
           /\ \A lane \in 1..numLanes :
                 ret[lane] = IF pattern[lane] \in 0..(numLanes - 1)
                             THEN Resize(<<v[pattern[lane] + 1]>>, type)[1]
                             ELSE Repeat(Zero, type.width)
  <1> DEFINE width == type.width
             ratio == width \div w
             len == numLanes * ratio
             mask == WidenMask(pattern, ratio)
             zeroes == ZeroVector(numLanes, w)
             x == ShuffleVector(v, zeroes, mask)
  <1>1. WidthOf(v) = w
    BY VecFacts
  <1>2. type.unsigned /\ width > w /\ width % w = 0
    BY <1>1 DEF WidensByShuffle
  <1>3. ratio \in Nat \ {0} /\ width = w * ratio
    BY <1>2, Divides
  <1>4. ret = BitCast(x, width) /\ \A i \in 1..Len(mask) : mask[i] < 2 * numLanes
    BY <1>1 DEF Widen
  <1> HIDE DEF ratio
  <1>5. len \in Nat \ {0}
    BY <1>3
  <1>6. /\ Len(mask) = len
        /\ mask = [i \in 1..len |-> mask[i]]
        /\ \A i \in 1..len : mask[i] \in Nat
        /\ \A lane \in 1..numLanes : \A q \in 0..(ratio - 1) :
              /\ (lane - 1) * ratio + q + 1 \in 1..len
              /\ mask[(lane - 1) * ratio + q + 1] =
                    IF q = 0 THEN WidenIndex(pattern, lane) ELSE numLanes
    BY <1>3, WidenMaskIs
  <1> HIDE DEF mask
  <1>7. \A i \in 1..len : mask[i] \in 0..(2 * numLanes - 1)
    BY <1>4, <1>6
  <1>8. IsVec(zeroes, numLanes, w) /\ \A e \in 1..numLanes : zeroes[e] = Repeat(Zero, w)
    BY ZeroVectorIs
  <1> HIDE DEF zeroes
  <1>13. len = numLanes * ratio
    OBVIOUS
  <1> HIDE DEF len
  <1>14. IsMask(mask, len) /\ len \in Nat
    BY <1>5, <1>6, <1>7 DEF IsMask
  <1>9. IsVec(x, len, w) /\ TakenBy(x, v, zeroes, mask, len)
    BY <1>8, <1>14, ShuffleIs
  <1> HIDE DEF x
  <1>10. IsVec(ret, numLanes, width) /\ PutTogether(ret, x, numLanes, len, ratio, w)
    BY <1>3, <1>4, <1>9, <1>13, BitCastWide
  <1>11. ASSUME NEW lane \in 1..numLanes
         PROVE  ret[lane] = IF pattern[lane] \in 0..(numLanes - 1)
                            THEN Resize(<<v[pattern[lane] + 1]>>, type)[1]
                            ELSE Repeat(Zero, width)
    <2> DEFINE k == WidenIndex(pattern, lane)
               z == Repeat(Zero, w)
               el == IF pattern[lane] \in 0..(numLanes - 1) THEN v[pattern[lane] + 1] ELSE z
    <2>1. k \in 0..(2 * numLanes - 1)
      <3>1. 0 \in 0..(ratio - 1)
        BY <1>3
      <3> QED
        BY <1>6, <1>7, <3>1
    <2>2. Named2(v, zeroes, k) = el
      <3> DEFINE p == pattern[lane]
                 r == ValueAtLane(pattern, lane)
      <3>1. r \in Nat /\ (p >= 0 => r = p) /\ (p < 0 => r >= numLanes) /\ p \in Int
        BY IndexIs DEF PatternIsInt
      <3>2. k = IF r >= IndexWrap - 1 THEN numLanes ELSE r
        BY DEF WidenIndex
      <3>3. IndexWrap \in Nat /\ 2 * numLanes < IndexWrap
        BY DEF IndicesFit
      <3> HIDE DEF p, r, k
      <3>4. CASE p \in 0..(numLanes - 1)
        <4>1. k = p
          BY <3>1, <3>2, <3>3, <3>4
        <4> QED
          BY <3>4, <4>1 DEF Named2, p
      <3>5. CASE ~(p \in 0..(numLanes - 1))
        <4>1. k >= numLanes
          BY <3>1, <3>2, <3>3, <3>5
        <4>2. k - numLanes + 1 \in 1..numLanes
          BY <2>1, <4>1
        <4>3. Named2(v, zeroes, k) = zeroes[k - numLanes + 1]
          BY <2>1, <4>1 DEF Named2
        <4> QED
          BY <1>8, <3>5, <4>2, <4>3 DEF p
      <3> QED
        BY <3>4, <3>5
    <2>3. Named2(v, zeroes, numLanes) = z
      <3>1. Named2(v, zeroes, numLanes) = zeroes[1] /\ 1 \in 1..numLanes
        BY DEF Named2
      <3> QED
        BY <1>8, <3>1
    <2>4. el = [i \in 1..w |-> el[i]] /\ z = [i \in 1..w |-> Zero]
      <3>1. z = [i \in 1..w |-> Zero]
        BY DEF Repeat
      <3>2. CASE pattern[lane] \in 0..(numLanes - 1)
        <4>1. pattern[lane] + 1 \in 1..numLanes /\ el = v[pattern[lane] + 1]
          BY <3>2
        <4> HIDE DEF el
        <4>2. el = [i \in 1..w |-> el[i]]
          BY <4>1 DEF IsVec
        <4> QED
          BY <3>1, <4>2 DEF el
      <3>3. CASE ~(pattern[lane] \in 0..(numLanes - 1))
        <4> HIDE DEF z
        <4> QED
          BY <3>1, <3>3
      <3> QED
        BY <3>2, <3>3
    <2> HIDE DEF k, z, el
    <2>5. ASSUME NEW q \in 0..(ratio - 1), NEW i \in 1..w
          PROVE  ret[lane][q * w + i] = IF q = 0 THEN el[i] ELSE Zero
      <3> DEFINE j == (lane - 1) * ratio + q + 1
      <3>1. j \in 1..len /\ ret[lane][q * w + i] = x[j][i]
        BY <1>10, Zenon DEF PutTogether
      <3>2. mask[j] = IF q = 0 THEN k ELSE numLanes
        BY <1>6, Zenon DEF k
      <3> HIDE DEF j
      <3>3. x[j] = Named2(v, zeroes, mask[j])
        BY <1>9, <3>1, Zenon DEF TakenBy
      <3>4. x[j] = IF q = 0 THEN el ELSE z
        BY <2>2, <2>3, <3>2, <3>3
      <3> QED
        BY <2>4, <3>1, <3>4
    <2>6. ASSUME NEW b \in 1..width
          PROVE  ret[lane][b] = IF b <= w THEN el[b] ELSE Zero
      <3> DEFINE q == (b - 1) \div w
                 r == (b - 1) % w
      <3>1. q \in Int /\ r \in Int /\ b - 1 = w * q + r /\ 0 <= r /\ r < w
        BY DivMod
      <3> HIDE DEF q, r
      <3>2. 0 <= w * q + r /\ w * q + r < w * ratio
        BY <1>3, <3>1
      <3>3. 0 <= q /\ q < ratio
        BY <1>3, <3>1, <3>2, QuotientBounds
      <3>4. q \in 0..(ratio - 1) /\ r + 1 \in 1..w
        BY <1>3, <3>1, <3>3
      <3>5. q * w + (r + 1) = b
        <4>1. q * w = w * q /\ w * q \in Int
          BY <3>1
        <4> QED
          BY <3>1, <4>1
      <3>6. ret[lane][b] = IF q = 0 THEN el[r + 1] ELSE Zero
        BY <2>5, <3>4, <3>5
      <3>7. CASE q = 0
        BY <3>1, <3>5, <3>6, <3>7
      <3>8. CASE q >= 1
        <4> DEFINE d == q - 1
        <4>1. d \in Nat /\ q = d + 1
          BY <3>1, <3>8
        <4> HIDE DEF d
        <4>2. w * (d + 1) = w * d + w /\ w * d \in Nat
          BY <4>1
        <4>3. b > w
          BY <3>1, <4>1, <4>2
        <4> QED
          BY <3>6, <3>8, <4>3
      <3> QED
        BY <3>1, <3>3, <3>7, <3>8
    <2>7. ret[lane] = [b \in 1..width |-> ret[lane][b]]
      BY <1>10 DEF IsVec
    <2>8. ret[lane] = [b \in 1..width |-> IF b <= w THEN el[b] ELSE Zero]
      BY <2>6, <2>7
    <2>9. Resize(<<el>>, type)[1] = ret[lane]
      <3> DEFINE u == <<el>>
      <3>1. u[1] = el /\ Len(u) = 1
        OBVIOUS
      <3> HIDE DEF u
      <3>2. WidthOf(u) = w
        BY <2>4, <3>1 DEF WidthOf
      <3>3. Resize(u, type) = ZExt(u, width)
        BY <1>2, <3>2 DEF Resize
      <3>4. ZExt(u, width)[1] = [b \in 1..width |-> IF b <= w THEN el[b] ELSE Zero]
        BY <3>1, <3>2 DEF ZExt
      <3> QED
        BY <2>8, <3>3, <3>4 DEF u
    <2>10. CASE pattern[lane] \in 0..(numLanes - 1)
      BY <2>9, <2>10 DEF el
    <2>11. CASE ~(pattern[lane] \in 0..(numLanes - 1))
      <3>1. el = Repeat(Zero, w)
        BY <2>11 DEF el, z
      <3> QED
        BY <2>9, <2>11, <3>1, ResizeZero
    <2> QED
      BY <2>10, <2>11
  <1> QED
    BY <1>10, <1>11

-----------------------------------------------------------------------------
(* The calls of a gang *)

\* A value is the sequence of its own elements.
IsSequence(s) == Len(s) \in Nat /\ s = [k \in 1..Len(s) |-> s[k]]

LEMMA AppendIs ==
    ASSUME NEW s, IsSequence(s), NEW x
    PROVE  /\ IsSequence(Append(s, x))
           /\ Len(Append(s, x)) = Len(s) + 1
           /\ \A k \in 1..Len(s) : Append(s, x)[k] = s[k]
           /\ Append(s, x)[Len(s) + 1] = x
  <1> DEFINE S == {s[k] : k \in 1..Len(s)} \cup {x}
             t == Append(s, x)
  <1>1. s \in Seq({s[k] : k \in 1..Len(s)}) /\ Len(s) \in Nat
    BY SeqOf DEF IsSequence
  <1>2. s \in Seq(S) /\ x \in S
    BY <1>1
  <1> HIDE DEF S
  <1>3. /\ t \in Seq(S) /\ Len(t) = Len(s) + 1
        /\ \A k \in 1..Len(s) : t[k] = s[k]
        /\ t[Len(s) + 1] = x
    BY <1>1, <1>2
  <1> HIDE DEF t
  <1>4. Len(t) \in Nat /\ t = [k \in 1..Len(t) |-> t[k]]
    BY <1>3
  <1> QED
    BY <1>3, <1>4 DEF IsSequence, t

\* The four calls, each as its property states it, for a gang of n lanes.
ZipRight(n, c) == MayZip(n, c.a, c.with.width) /\ c.ret = ZipSync(c.a, c.with.width)

UnzipRight(n, c) ==
    LET f == WidthOf(c.a) \div c.with.width
        first == (c.with.index * n) \div f
    IN /\ f \in Nat \ {0} /\ n % f = 0
       /\ \A lane \in 0..(n - 1) :
          c.ret[lane + 1] =
              Pieces(c.a[first + (lane \div f) + 1], c.with.width)[(lane % f) + 1]

ElementNamed(n, c, lane, operands) ==
    IF c.with.pattern[lane] \in 0..(n * operands - 1)
    THEN Resize(<<(c.a \o c.b)[c.with.pattern[lane] + 1]>>, c.with.type)[1]
    ELSE Repeat(Zero, c.with.type.width)

ShuffleRight(n, c) ==
    c.ret # Abort => \A lane \in 1..n : c.ret[lane] = ElementNamed(n, c, lane, 1)

Shuffle2Right(n, c) ==
    ~WidensByShuffle(c.a, c.with.type) =>
        \A lane \in 1..n :
            c.with.pattern[lane] \in 0..(n * 2 - 1) =>
                c.ret[lane] = ElementNamed(n, c, lane, 2)

CallRight(n, c) ==
    /\ c.api = "zip" => ZipRight(n, c)
    /\ c.api = "unzip" => UnzipRight(n, c)
    /\ c.api = "shuffle" => ShuffleRight(n, c)
    /\ c.api = "shuffle2" => Shuffle2Right(n, c)

\* Each call is right, and works on the result of the one before.
CallsInv ==
    /\ numLanes \in GangSizes
    /\ GangVec(numLanes, value)
    /\ IsVec(other, numLanes, WidthOf(value))
    /\ IsSequence(calls)
    /\ \A k \in 1..Len(calls) : CallRight(numLanes, calls[k])
    /\ calls # << >> /\ calls[Len(calls)].ret # Abort => value = calls[Len(calls)].ret
    /\ UnzipUndoesZip

LEMMA OperandIs ==
    ASSUME NEW name, NEW n, NEW width
    PROVE  IsVec(Operand(name, n, width), n, width)
  <1> DEFINE u == Operand(name, n, width)
  <1>1. u = [lane \in 1..n |-> [i \in 1..width |-> Byte(name, lane, i)]]
    BY DEF Operand
  <1> HIDE DEF u
  <1>2. IsVec(u, n, width)
    BY <1>1, Zenon DEF IsVec
  <1> QED
    BY <1>2 DEF u

LEMMA GangSizeIs ==
    ASSUME numLanes \in GangSizes
    PROVE  numLanes \in Nat \ {0} /\ IndicesFit
  BY CollectivesAssumption DEF IndicesFit

\* A right call on the last result keeps the invariant.
LEMMA CalledKeeps ==
    ASSUME CallsInv, MayCall, NEW fn, NEW with, NEW ret, Called(fn, with, ret),
           NEW c, c = [api |-> fn, a |-> value, b |-> other, with |-> with, ret |-> ret],
           CallRight(numLanes, c),
           ret # Abort => \E w \in Nat \ {0} : IsVec(ret, numLanes, w),
           calls # << >> /\ calls[Len(calls)].api = "zip" /\ fn = "unzip"
              /\ with.width = WidthOf(calls[Len(calls)].a) => ret = calls[Len(calls)].a
    PROVE  CallsInv'
  <1> DEFINE L == Len(calls)
  <1>1. c.api = fn /\ c.a = value /\ c.b = other /\ c.with = with /\ c.ret = ret
    OBVIOUS
  <1>2. calls' = Append(calls, c) /\ numLanes' = numLanes
    BY DEF Called
  <1>3. /\ IsSequence(calls') /\ Len(calls') = L + 1
        /\ \A k \in 1..L : calls'[k] = calls[k]
        /\ calls'[L + 1] = c /\ L \in Nat
    BY <1>2, AppendIs DEF CallsInv, IsSequence
  <1>4. numLanes' \in GangSizes
    BY <1>2 DEF CallsInv
  <1>5. GangVec(numLanes', value') /\ IsVec(other', numLanes', WidthOf(value'))
    <2>1. CASE ret = Abort
      BY <1>2, <2>1 DEF CallsInv, Called
    <2>2. CASE ret # Abort
      <3>1. value' = ret /\ other' = Operand("c", numLanes, WidthOf(ret))
        BY <2>2 DEF Called
      <3>2. PICK w \in Nat \ {0} : IsVec(ret, numLanes, w)
        BY <2>2
      <3>3. numLanes \in Nat \ {0}
        BY GangSizeIs DEF CallsInv
      <3>4. GangVec(numLanes, ret)
        BY <3>2, <3>3, IsGangVec
      <3>5. IsVec(other', numLanes, WidthOf(ret))
        BY <3>1, OperandIs
      <3> QED
        BY <1>2, <3>1, <3>4, <3>5
    <2> QED
      BY <2>1, <2>2
  <1>6. \A k \in 1..Len(calls') : CallRight(numLanes', calls'[k])
    <2> TAKE k \in 1..Len(calls')
    <2>1. CASE k = L + 1
      BY <1>2, <1>3, <2>1
    <2>2. CASE k \in 1..L
      BY <1>2, <1>3, <2>2 DEF CallsInv
    <2> QED
      BY <1>3, <2>1, <2>2
  <1>7. calls'[Len(calls')].ret # Abort => value' = calls'[Len(calls')].ret
    BY <1>1, <1>3 DEF Called
  <1>8. UnzipUndoesZip'
    <2> SUFFICES ASSUME NEW k \in 1..(Len(calls') - 1),
                        calls'[k].api = "zip", calls'[k + 1].api = "unzip",
                        calls'[k + 1].with.width = WidthOf(calls'[k].a)
                 PROVE  calls'[k + 1].ret = calls'[k].a
      BY DEF UnzipUndoesZip
    <2>1. CASE k = L
      <3>1. calls'[k] = calls[L] /\ calls'[k + 1] = c /\ L \in 1..L
        BY <1>3, <2>1
      <3>2. calls # << >>
        BY <3>1
      <3> QED
        BY <1>1, <3>1, <3>2
    <2>2. CASE k \in 1..(L - 1)
      <3>1. calls'[k] = calls[k] /\ calls'[k + 1] = calls[k + 1]
        BY <1>3, <2>2
      <3> QED
        BY <2>2, <3>1 DEF CallsInv, UnzipUndoesZip
    <2> QED
      BY <1>3, <2>1, <2>2
  <1> QED
    BY <1>3, <1>4, <1>5, <1>6, <1>7, <1>8 DEF CallsInv

LEMMA NoCallsKeeps ==
    ASSUME NoCalls
    PROVE  CallsInv
  <1>1. numLanes \in GangSizes /\ calls = << >>
    BY DEF NoCalls
  <1>2. PICK width \in Widths :
            value = Operand("a", numLanes, width) /\ other = Operand("b", numLanes, width)
    BY DEF NoCalls
  <1>3. numLanes \in Nat \ {0} /\ width \in Nat \ {0}
    BY <1>1, GangSizeIs, CollectivesAssumption
  <1>4. IsVec(value, numLanes, width) /\ IsVec(other, numLanes, width)
    BY <1>2, OperandIs
  <1>5. GangVec(numLanes, value) /\ WidthOf(value) = width
    BY <1>3, <1>4, IsGangVec
  <1>6. IsSequence(calls) /\ Len(calls) = 0
    BY <1>1 DEF IsSequence
  <1>7. UnzipUndoesZip
    BY <1>6 DEF UnzipUndoesZip
  <1> QED
    BY <1>1, <1>4, <1>5, <1>6, <1>7 DEF CallsInv

LEMMA ZipKeeps ==
    ASSUME CallsInv, NEW width \in Widths, CallZip(width)
    PROVE  CallsInv'
  <1> DEFINE with == [width |-> width]
             ret == ZipSync(value, width)
             c == [api |-> "zip", a |-> value, b |-> other, with |-> with, ret |-> ret]
  <1>1. numLanes \in Nat \ {0} /\ width \in Nat \ {0}
    BY GangSizeIs, CollectivesAssumption DEF CallsInv
  <1>2. MayZip(numLanes, value, width)
    BY <1>1 DEF CallsInv, CallZip, MayZip
  <1>3. IsVec(ret, numLanes, width)
    BY <1>1, <1>2, ZipIs
  <1>4. MayCall /\ Called("zip", with, ret)
    BY DEF CallZip
  <1>5. with.width = width
    OBVIOUS
  <1>8. ret = ZipSync(value, width)
    OBVIOUS
  <1> HIDE DEF with, ret
  <1>6. c.api = "zip" /\ c.a = value /\ c.with = with /\ c.ret = ret
    OBVIOUS
  <1>9. c = [api |-> "zip", a |-> value, b |-> other, with |-> with, ret |-> ret]
    OBVIOUS
  <1> HIDE DEF c
  <1>7. CallRight(numLanes, c)
    BY <1>2, <1>5, <1>6, <1>8 DEF CallRight, ZipRight
  <1> QED
    BY <1>1, <1>3, <1>4, <1>7, <1>9, CalledKeeps

LEMMA UnzipKeeps ==
    ASSUME CallsInv, NEW width \in Widths, NEW index \in 0..3, CallUnzip(width, index)
    PROVE  CallsInv'
  <1> DEFINE with == [width |-> width, index |-> index]
             ret == UnzipSync(value, width, index)
             c == [api |-> "unzip", a |-> value, b |-> other, with |-> with, ret |-> ret]
             last == calls[Len(calls)]
             f == WidthOf(value) \div width
             first == (index * numLanes) \div f
  <1>1. numLanes \in Nat \ {0} /\ width \in Nat \ {0}
    BY GangSizeIs, CollectivesAssumption DEF CallsInv
  <1>2. MayUnzip(value, width, index)
    BY <1>1 DEF CallsInv, CallUnzip, MayUnzip
  <1>3. /\ IsVec(ret, numLanes, width)
        /\ \A lane \in 0..(numLanes - 1) :
              ret[lane + 1] = Pieces(value[first + (lane \div f) + 1], width)[(lane % f) + 1]
    BY <1>1, <1>2, UnzipTakes
  <1>4. MayCall /\ Called("unzip", with, ret)
    BY DEF CallUnzip
  <1>5. with.width = width /\ with.index = index
    OBVIOUS
  <1>8. ret = UnzipSync(value, width, index)
    OBVIOUS
  <1> HIDE DEF with, ret
  <1>6. c.api = "unzip" /\ c.a = value /\ c.with = with /\ c.ret = ret
    OBVIOUS
  <1>9. c = [api |-> "unzip", a |-> value, b |-> other, with |-> with, ret |-> ret]
    OBVIOUS
  <1> HIDE DEF c
  <1>7. CallRight(numLanes, c)
    <2>1. f \in Nat \ {0} /\ numLanes % f = 0
      BY <1>1, <1>2, Divides DEF MayUnzip, GangVec
    <2>2. UnzipRight(numLanes, c)
      BY <1>3, <1>5, <1>6, <2>1, Zenon DEF UnzipRight
    <2> QED
      BY <1>6, <2>2 DEF CallRight
  <1>10. calls # << >> /\ last.api = "zip" /\ with.width = WidthOf(last.a) => ret = last.a
    <2> SUFFICES ASSUME calls # << >>, last.api = "zip", width = WidthOf(last.a)
                 PROVE  ret = last.a
      BY <1>5
    <2>1. Len(calls) \in 1..Len(calls)
      <3>1. Len(calls) \in Nat /\ calls = [k \in 1..Len(calls) |-> calls[k]]
        BY DEF CallsInv, IsSequence
      <3>2. Len(calls) # 0
        BY <3>1
      <3> QED
        BY <3>1, <3>2
    <2>2. ZipRight(numLanes, last)
      BY <2>1 DEF CallsInv, CallRight
    <2>3. value = last.ret
      BY <1>4 DEF CallsInv, MayCall
    <2> DEFINE wide == last.with.width
               v == last.a
    <2>4. MayZip(numLanes, v, wide) /\ value = ZipSync(v, wide)
      BY <2>2, <2>3 DEF ZipRight
    <2>5. MayUnzip(value, WidthOf(v), index)
      BY <1>2
    <2> HIDE DEF wide, v, last
    <2>6. UnzipSync(value, WidthOf(v), index) = v
      BY <1>1, <2>4, <2>5, UnzipOfZip
    <2> QED
      BY <1>8, <2>6 DEF v
  <1> QED
    BY <1>1, <1>3, <1>4, <1>7, <1>9, <1>10, CalledKeeps

LEMMA PatternIs ==
    ASSUME numLanes \in GangSizes, NEW pattern \in Patterns[numLanes]
    PROVE  PatternIsInt(pattern)
  <1>1. pattern \in [1..numLanes -> Int]
    BY CollectivesAssumption
  <1>2. \A lane \in 1..numLanes : -IndexWrap <= 2 * pattern[lane] /\ 2 * pattern[lane] < IndexWrap
    BY CollectivesAssumption
  <1> QED
    BY <1>1, <1>2 DEF PatternIsInt

LEMMA ShuffleKeeps ==
    ASSUME CallsInv, NEW pattern \in Patterns[numLanes], NEW type \in Types,
           CallShuffle(pattern, type)
    PROVE  CallsInv'
  <1> DEFINE w == WidthOf(value)
             zeroes == ZeroVector(numLanes, w)
             with == [pattern |-> pattern, type |-> type]
             ret == ShuffleSync(value, zeroes, pattern, 1, type)
             c == [api |-> "shuffle", a |-> value, b |-> other, with |-> with, ret |-> ret]
  <1>1. /\ numLanes \in Nat \ {0} /\ IndicesFit /\ PatternIsInt(pattern)
        /\ type.width \in Nat \ {0}
    BY GangSizeIs, PatternIs, CollectivesAssumption DEF CallsInv
  <1>2. w \in Nat \ {0} /\ IsVec(value, numLanes, w) /\ IsVec(other, numLanes, w)
    BY DEF CallsInv, GangVec
  <1>3. IsVec(zeroes, numLanes, w) /\ \A e \in 1..numLanes : zeroes[e] = Repeat(Zero, w)
    BY <1>1, ZeroVectorIs
  <1>11. Joined(value \o other, numLanes, value, other)
    BY <1>1, <1>2, ConcatIs
  <1>4. MayCall /\ Called("shuffle", with, ret)
    BY DEF CallShuffle
  <1>5. with.pattern = pattern /\ with.type = type
    OBVIOUS
  <1>8. ret = ShuffleSync(value, zeroes, pattern, 1, type)
    OBVIOUS
  <1> HIDE DEF with, ret, zeroes, w
  <1>6. c.api = "shuffle" /\ c.a = value /\ c.b = other /\ c.with = with /\ c.ret = ret
    OBVIOUS
  <1>9. c = [api |-> "shuffle", a |-> value, b |-> other, with |-> with, ret |-> ret]
    OBVIOUS
  <1> HIDE DEF c
  <1> DEFINE named(lane) == IF pattern[lane] \in 0..(numLanes - 1)
                            THEN Resize(<<value[pattern[lane] + 1]>>, type)[1]
                            ELSE Repeat(Zero, type.width)
  <1>10. ret # Abort =>
            /\ IsVec(ret, numLanes, type.width)
            /\ \A lane \in 1..numLanes : ret[lane] = named(lane)
    <2> HAVE ret # Abort
    <2>1. CASE WidensByShuffle(value, type)
      <3>1. ret = Widen(value, pattern, type)
        BY <1>8, <2>1 DEF ShuffleSync
      <3> QED
        BY <1>1, <1>2, <2>1, <3>1, WidenIs
    <2>2. CASE ~WidensByShuffle(value, type)
      <3>1. 1 \in {1, 2}
        OBVIOUS
      <3>2. /\ IsVec(ret, numLanes, type.width)
            /\ \A lane \in 1..numLanes :
                  ret[lane] =
                     Resize(<<Named2(value, zeroes, MaskIndex(pattern, lane, 1))>>, type)[1]
        BY <1>1, <1>2, <1>3, <1>8, <2>2, <3>1, ShuffleResizes
      <3>3. ASSUME NEW lane \in 1..numLanes
            PROVE  ret[lane] = named(lane)
        <4> DEFINE k == MaskIndex(pattern, lane, 1)
                   p == pattern[lane]
        <4>1. /\ k \in 0..(2 * numLanes - 1)
              /\ p \in 0..(numLanes * 1 - 1) => k = p
              /\ ~(p \in 0..(numLanes - 1)) => k >= numLanes
          BY <1>1, <3>1, MaskIndexIs
        <4>2. ret[lane] = Resize(<<Named2(value, zeroes, k)>>, type)[1]
          BY <3>2
        <4> HIDE DEF k
        <4>3. CASE p \in 0..(numLanes - 1)
          <5>1. k = p /\ k < numLanes
            BY <1>1, <4>1, <4>3
          <5>2. Named2(value, zeroes, k) = value[p + 1]
            BY <5>1 DEF Named2
          <5> QED
            BY <4>2, <4>3, <5>2
        <4>4. CASE ~(p \in 0..(numLanes - 1))
          <5>1. k >= numLanes /\ k - numLanes + 1 \in 1..numLanes
            BY <1>1, <4>1, <4>4
          <5>2. ~(k < numLanes)
            BY <1>1, <4>1, <5>1
          <5>3. Named2(value, zeroes, k) = zeroes[k - numLanes + 1]
            BY <5>2 DEF Named2
          <5>4. Named2(value, zeroes, k) = Repeat(Zero, w)
            BY <1>3, <5>1, <5>3
          <5>5. Resize(<<Repeat(Zero, w)>>, type)[1] = Repeat(Zero, type.width)
            BY <1>1, <1>2, ResizeZero
          <5> QED
            BY <4>2, <4>4, <5>4, <5>5
        <4> QED
          BY <4>3, <4>4
      <3> QED
        BY <3>2, <3>3
    <2> QED
      BY <2>1, <2>2
  <1>7. CallRight(numLanes, c)
    <2>1. \A lane \in 1..numLanes : named(lane) = ElementNamed(numLanes, c, lane, 1)
      <3> TAKE lane \in 1..numLanes
      <3> DEFINE p == pattern[lane]
      <3>1. numLanes * 1 = numLanes
        BY <1>1
      <3>2. ElementNamed(numLanes, c, lane, 1) =
               IF p \in 0..(numLanes - 1)
               THEN Resize(<<(value \o other)[p + 1]>>, type)[1]
               ELSE Repeat(Zero, type.width)
        BY <1>5, <1>6, <3>1, Zenon DEF ElementNamed
      <3>3. CASE p \in 0..(numLanes - 1)
        <4>1. p + 1 \in 1..numLanes
          BY <1>1, <3>3
        <4>2. (value \o other)[p + 1] = value[p + 1]
          BY <1>11, <4>1, Zenon DEF Joined
        <4> QED
          BY <3>2, <3>3, <4>2
      <3>4. CASE ~(p \in 0..(numLanes - 1))
        BY <3>2, <3>4
      <3> QED
        BY <3>3, <3>4
    <2>2. ShuffleRight(numLanes, c)
      <3> HIDE DEF named
      <3> QED
        BY <1>6, <1>10, <2>1, Zenon DEF ShuffleRight
    <2> QED
      BY <1>6, <2>2 DEF CallRight
  <1> QED
    BY <1>1, <1>4, <1>7, <1>9, <1>10, CalledKeeps

LEMMA Shuffle2Keeps ==
    ASSUME CallsInv, NEW pattern \in Patterns[numLanes], NEW type \in Types,
           CallShuffle2(pattern, type)
    PROVE  CallsInv'
  <1> DEFINE w == WidthOf(value)
             with == [pattern |-> pattern, type |-> type]
             ret == ShuffleSync(value, other, pattern, 2, type)
             c == [api |-> "shuffle2", a |-> value, b |-> other, with |-> with, ret |-> ret]
  <1>1. /\ numLanes \in Nat \ {0} /\ IndicesFit /\ PatternIsInt(pattern)
        /\ type.width \in Nat \ {0}
    BY GangSizeIs, PatternIs, CollectivesAssumption DEF CallsInv
  <1>2. w \in Nat \ {0} /\ IsVec(value, numLanes, w) /\ IsVec(other, numLanes, w)
    BY DEF CallsInv, GangVec
  <1>11. Joined(value \o other, numLanes, value, other)
    BY <1>1, <1>2, ConcatIs
  <1>4. MayCall /\ Called("shuffle2", with, ret)
    BY DEF CallShuffle2
  <1>5. with.pattern = pattern /\ with.type = type
    OBVIOUS
  <1>8. ret = ShuffleSync(value, other, pattern, 2, type)
    OBVIOUS
  <1> HIDE DEF with, ret, w
  <1>6. c.api = "shuffle2" /\ c.a = value /\ c.b = other /\ c.with = with /\ c.ret = ret
    OBVIOUS
  <1>9. c = [api |-> "shuffle2", a |-> value, b |-> other, with |-> with, ret |-> ret]
    OBVIOUS
  <1> HIDE DEF c
  <1>3. CASE WidensByShuffle(value, type)
    <2>1. ret = Widen(value, pattern, type)
      BY <1>3, <1>8 DEF ShuffleSync
    <2>2. ret # Abort => IsVec(ret, numLanes, type.width)
      BY <1>1, <1>2, <1>3, <2>1, WidenIs
    <2>3. CallRight(numLanes, c)
      <3>1. Shuffle2Right(numLanes, c)
        BY <1>3, <1>5, <1>6, Zenon DEF Shuffle2Right
      <3> QED
        BY <1>6, <3>1 DEF CallRight
    <2> QED
      BY <1>1, <1>4, <1>9, <2>2, <2>3, CalledKeeps
  <1>7. CASE ~WidensByShuffle(value, type)
    <2>1. 2 \in {1, 2}
      OBVIOUS
    <2>2. /\ IsVec(ret, numLanes, type.width)
          /\ \A lane \in 1..numLanes :
                ret[lane] =
                   Resize(<<Named2(value, other, MaskIndex(pattern, lane, 2))>>, type)[1]
      BY <1>1, <1>2, <1>7, <1>8, <2>1, ShuffleResizes
    <2>3. ASSUME NEW lane \in 1..numLanes, pattern[lane] \in 0..(numLanes * 2 - 1)
          PROVE  ret[lane] = Resize(<<(value \o other)[pattern[lane] + 1]>>, type)[1]
      <3> DEFINE k == MaskIndex(pattern, lane, 2)
                 p == pattern[lane]
      <3>1. k = p
        BY <1>1, <2>1, <2>3, MaskIndexIs
      <3>2. ret[lane] = Resize(<<Named2(value, other, k)>>, type)[1]
        BY <2>2
      <3>3. p \in 0..(2 * numLanes - 1)
        BY <1>1, <2>3
      <3> HIDE DEF k, p
      <3>4. Named2(value, other, p) = (value \o other)[p + 1]
        <4>1. CASE p < numLanes
          <5>1. p + 1 \in 1..numLanes
            BY <1>1, <3>3, <4>1
          <5>2. (value \o other)[p + 1] = value[p + 1]
            BY <1>11, <5>1, Zenon DEF Joined
          <5> QED
            BY <4>1, <5>2 DEF Named2
        <4>2. CASE ~(p < numLanes)
          <5>1. p + 1 \in (numLanes + 1)..(2 * numLanes)
            BY <1>1, <3>3, <4>2
          <5>2. (value \o other)[p + 1] = other[(p + 1) - numLanes]
            BY <1>11, <5>1, Zenon DEF Joined
          <5>3. (p + 1) - numLanes = p - numLanes + 1
            BY <1>1, <3>3
          <5> QED
            BY <4>2, <5>2, <5>3 DEF Named2
        <4> QED
          BY <4>1, <4>2
      <3> QED
        BY <3>1, <3>2, <3>4 DEF p
    <2>4. CallRight(numLanes, c)
      <3>1. Shuffle2Right(numLanes, c)
        BY <1>5, <1>6, <2>3, Zenon DEF Shuffle2Right, ElementNamed
      <3> QED
        BY <1>6, <3>1 DEF CallRight
    <2> QED
      BY <1>1, <1>4, <1>9, <2>2, <2>4, CalledKeeps
  <1> QED
    BY <1>3, <1>7

LEMMA StutterKeepsCalls ==
    ASSUME CallsInv, UNCHANGED callVars
    PROVE  CallsInv'
  BY DEF CallsInv, callVars, UnzipUndoesZip

\* The calls that were made are right, in every state.
THEOREM CallsInvariant == CallsSpec => []CallsInv
  <1>1. NoCalls => CallsInv
    BY NoCallsKeeps
  <1>2. CallsInv /\ [Call]_callVars => CallsInv'
    <2> SUFFICES ASSUME CallsInv, [Call]_callVars
                 PROVE  CallsInv'
      OBVIOUS
    <2>1. CASE \E width \in Widths : CallZip(width)
      BY <2>1, ZipKeeps
    <2>2. CASE \E width \in Widths, index \in 0..3 : CallUnzip(width, index)
      BY <2>2, UnzipKeeps
    <2>3. CASE \E p \in Patterns[numLanes], t \in Types : CallShuffle(p, t)
      BY <2>3, ShuffleKeeps
    <2>4. CASE \E p \in Patterns[numLanes], t \in Types : CallShuffle2(p, t)
      BY <2>4, Shuffle2Keeps
    <2>5. CASE UNCHANGED callVars
      BY <2>5, StutterKeepsCalls
    <2> QED
      BY <2>1, <2>2, <2>3, <2>4, <2>5 DEF Call, NoMoreCalls
  <1> QED
    BY <1>1, <1>2, PTL DEF CallsSpec

\* The pieces of each element of the set go to as many consecutive lanes, for
\* every gang size, width and index.
THEOREM UnzipTakesItsSetHolds == CallsSpec => []UnzipTakesItsSet
  <1>1. CallsInv => UnzipTakesItsSet
    <2> SUFFICES ASSUME CallsInv, NEW c \in CallsOf("unzip")
                 PROVE  LET f == WidthOf(c.a) \div c.with.width
                        IN \A j \in 0..((numLanes \div f) - 1) :
                              {c.ret[f * j + k] : k \in 1..f} =
                              {Pieces(c.a[FirstOfSet(c) + j + 1], c.with.width)[k] : k \in 1..f}
      BY Zenon DEF UnzipTakesItsSet
    <2>1. UnzipRight(numLanes, c)
      BY DEF CallsOf, CallsInv, CallRight
    <2> DEFINE f == WidthOf(c.a) \div c.with.width
               first == FirstOfSet(c)
               piece(i, k) == Pieces(c.a[first + i + 1], c.with.width)[k]
    <2>2. /\ f \in Nat \ {0} /\ numLanes % f = 0
          /\ \A lane \in 0..(numLanes - 1) :
                c.ret[lane + 1] = piece(lane \div f, (lane % f) + 1)
      BY <2>1 DEF UnzipRight, FirstOfSet
    <2>3. numLanes \in Nat \ {0}
      BY GangSizeIs DEF CallsInv
    <2> HIDE DEF piece, f
    <2>4. ASSUME NEW j \in 0..((numLanes \div f) - 1), NEW k \in 1..f
          PROVE  c.ret[f * j + k] = piece(j, k)
      <3> DEFINE lane == f * j + (k - 1)
                 m == numLanes \div f
      <3>1. m \in Nat \ {0} /\ numLanes = f * m
        BY <2>2, <2>3, Divides, Zenon
      <3>2. j \in Nat /\ j <= m - 1 /\ k - 1 \in 0..(f - 1)
        BY <3>1, <2>2
      <3> HIDE DEF m
      <3>3. lane \in 0..(numLanes - 1)
        <4> DEFINE d == m - 1 - j
        <4>1. d \in Nat /\ m = j + d + 1
          BY <3>1, <3>2
        <4> HIDE DEF d
        <4>2. f * m = f * j + f * d + f /\ f * j \in Nat /\ f * d \in Nat
          BY <2>2, <3>2, <4>1
        <4> QED
          BY <2>2, <3>1, <3>2, <4>2
      <3>4. lane \div f = j /\ lane % f = k - 1
        <4> DEFINE r == k - 1
        <4>1. f \in Nat /\ f > 0 /\ j \in Int /\ r \in Int /\ 0 <= r /\ r < f
          BY <2>2, <3>2
        <4> HIDE DEF r
        <4>2. (f * j + r) \div f = j /\ (f * j + r) % f = r
          BY <4>1, QuotientIs
        <4> QED
          BY <4>2 DEF r
      <3>5. lane + 1 = f * j + k /\ (k - 1) + 1 = k
        BY <2>2, <3>2
      <3> HIDE DEF lane
      <3>6. c.ret[lane + 1] = piece(lane \div f, (lane % f) + 1)
        BY <2>2, <3>3
      <3> QED
        BY <3>4, <3>5, <3>6
    <2>5. \A j \in 0..((numLanes \div f) - 1), k \in 1..f :
             c.ret[f * j + k] = Pieces(c.a[first + j + 1], c.with.width)[k]
      BY <2>4, Zenon DEF piece
    <2> DEFINE got(j) == {c.ret[f * j + k] : k \in 1..f}
               asked(j) == {Pieces(c.a[first + j + 1], c.with.width)[k] : k \in 1..f}
    <2>6. ASSUME NEW j \in 0..((numLanes \div f) - 1)
          PROVE  got(j) = asked(j)
      BY <2>5, Zenon
    <2> QED
      BY <2>6, Zenon DEF f
  <1> QED
    BY <1>1, CallsInvariant, PTL

\* Unzipping what was zipped gives the operand back, for every gang size,
\* width and index.
THEOREM UnzipUndoesZipHolds == CallsSpec => []UnzipUndoesZip
  <1>1. CallsInv => UnzipUndoesZip
    BY DEF CallsInv
  <1> QED
    BY <1>1, CallsInvariant, PTL

\* A shuffle that compiles gives each lane the element it names or zero, for
\* every gang size, pattern and type.
THEOREM OneOperandShuffleHolds == CallsSpec => []OneOperandShuffle
  <1>1. CallsInv => OneOperandShuffle
    <2> SUFFICES ASSUME CallsInv, NEW c \in CallsOf("shuffle")
                 PROVE  ShuffleRight(numLanes, c)
      BY Zenon DEF OneOperandShuffle, ShuffleRight, AskedFor, InRange, ElementNamed
    <2> QED
      BY DEF CallsOf, CallsInv, CallRight
  <1> QED
    BY <1>1, CallsInvariant, PTL

\* A shuffle of two operands reads their concatenation, for every gang size,
\* pattern and type it does not widen to.
THEOREM TwoOperandShuffleHolds == CallsSpec => []TwoOperandShuffle
  <1>1. CallsInv => TwoOperandShuffle
    <2> SUFFICES ASSUME CallsInv, NEW c \in CallsOf("shuffle2")
                 PROVE  Shuffle2Right(numLanes, c)
      BY Zenon DEF TwoOperandShuffle, Shuffle2Right, AskedFor, InRange, ElementNamed
    <2> QED
      BY DEF CallsOf, CallsInv, CallRight
  <1> QED
    BY <1>1, CallsInvariant, PTL

-----------------------------------------------------------------------------
(* Sums over finite sets *)

\* Of some subsets of a finite set, one has no smaller one among them.
LEMMA SmallestSet ==
    ASSUME NEW D, IsFiniteSet(D), NEW Fam \in SUBSET (SUBSET D), Fam # {}
    PROVE  \E S \in Fam : \A x \in S : S \ {x} \notin Fam
  <1> DEFINE N == {n \in Nat : \E S \in Fam : Cardinality(S) = n}
  <1>1. \A S \in Fam : IsFiniteSet(S) /\ Cardinality(S) \in Nat
    BY FS_Subset, FS_CardinalityType
  <1>2. N # {} /\ N \in SUBSET Nat
    BY <1>1
  <1>3. PICK m \in N : \A n \in N : m <= n
    <2> HIDE DEF N
    <2> QED
      BY <1>2, LeastNat
  <1>4. PICK S \in Fam : Cardinality(S) = m
    OBVIOUS
  <1>5. ASSUME NEW x \in S, S \ {x} \in Fam
        PROVE  FALSE
    <2>1. Cardinality(S \ {x}) = Cardinality(S) - 1
      BY <1>1, FS_RemoveElement
    <2>2. Cardinality(S \ {x}) \in N
      BY <1>1, <1>5
    <2>3. m <= m - 1 /\ m \in Nat
      BY <1>3, <1>4, <2>1, <2>2
    <2> QED
      BY <2>3
  <1> QED
    BY <1>5

\* The sums of f over sets of subsets, as SumFunction builds them.
BuiltSums(s, f, Sets) ==
    s = [S \in Sets |->
            IF S = {} THEN 0 ELSE LET x == CHOOSE x \in S : TRUE IN f[x] + s[S \ {x}]]

SubsetsUpTo(D, n) == {S \in SUBSET D : Cardinality(S) <= n}

\* The sums exist, over sets of ever more elements.
LEMMA BuiltSumsExist ==
    ASSUME NEW D, IsFiniteSet(D), NEW f
    PROVE  \E s : BuiltSums(s, f, SUBSET D)
  <1> DEFINE Fam == {n \in Nat : ~\E s : BuiltSums(s, f, SubsetsUpTo(D, n))}
             Step(s, S) ==
                IF S = {} THEN 0 ELSE LET x == CHOOSE x \in S : TRUE IN f[x] + s[S \ {x}]
  <1>1. ASSUME NEW S \in SUBSET D
        PROVE  /\ IsFiniteSet(S) /\ Cardinality(S) \in Nat
               /\ Cardinality(S) <= Cardinality(D)
               /\ Cardinality(S) = 0 => S = {}
               /\ \A x \in S : Cardinality(S \ {x}) = Cardinality(S) - 1
    <2>1. IsFiniteSet(S) /\ Cardinality(S) <= Cardinality(D)
      BY FS_Subset
    <2>2. Cardinality(S) \in Nat /\ (Cardinality(S) = 0 => S = {})
      BY <2>1, FS_CardinalityType, FS_EmptySet
    <2>3. \A x \in S : Cardinality(S \ {x}) = Cardinality(S) - 1
      BY <2>1, FS_RemoveElement
    <2> QED
      BY <2>1, <2>2, <2>3
  <1>2. ASSUME Fam # {}
        PROVE  FALSE
    <2>1. PICK m \in Fam : \A n \in Fam : m <= n
      <3>1. Fam \in SUBSET Nat
        OBVIOUS
      <3> HIDE DEF Fam
      <3> QED
        BY <1>2, <3>1, LeastNat
    <2>2. CASE m = 0
      <3> DEFINE s == [S \in SubsetsUpTo(D, 0) |-> 0]
      <3>1. \A S \in SubsetsUpTo(D, 0) : S = {}
        BY <1>1 DEF SubsetsUpTo
      <3>2. BuiltSums(s, f, SubsetsUpTo(D, 0))
        BY <3>1 DEF BuiltSums
      <3> QED
        BY <2>1, <2>2, <3>2
    <2>3. CASE m # 0
      <3>1. m - 1 \in Nat /\ m - 1 \notin Fam
        BY <2>1, <2>3
      <3> DEFINE Old == SubsetsUpTo(D, m - 1)
                 New == SubsetsUpTo(D, m)
      <3>2. PICK s : BuiltSums(s, f, Old)
        BY <3>1
      <3> DEFINE t == [S \in New |-> Step(s, S)]
      <3>3. \A S \in Old : s[S] = Step(s, S)
        <4> HIDE DEF Old
        <4> QED
          BY <3>2, Zenon DEF BuiltSums
      <3>4. Old \subseteq New /\ \A S \in New : \A x \in S : S \ {x} \in Old
        BY <1>1, <3>1 DEF SubsetsUpTo
      <3> HIDE DEF Old, New
      <3>5. \A S \in New : Step(s, S) = Step(t, S)
        <4> TAKE S \in New
        <4>1. CASE S = {}
          BY <4>1
        <4>2. CASE S # {}
          <5> DEFINE x == CHOOSE x \in S : TRUE
          <5>1. x \in S
            BY <4>2
          <5> HIDE DEF x
          <5>2. S \ {x} \in Old /\ S \ {x} \in New
            BY <3>4, <5>1
          <5>3. t[S \ {x}] = Step(s, S \ {x})
            BY <5>2
          <5>4. t[S \ {x}] = s[S \ {x}]
            BY <3>3, <5>2, <5>3
          <5> QED
            BY <4>2, <5>4 DEF x
        <4> QED
          BY <4>1, <4>2
      <3>6. t = [S \in New |-> Step(t, S)]
        <4>1. t = [S \in New |-> Step(s, S)]
          OBVIOUS
        <4> HIDE DEF t, Step
        <4> QED
          BY <3>5, <4>1
      <3>7. BuiltSums(t, f, New)
        <4> HIDE DEF t
        <4> QED
          BY <3>6, Zenon DEF BuiltSums
      <3> QED
        BY <2>1, <3>7 DEF New
    <2> QED
      BY <2>2, <2>3
  <1>3. Cardinality(D) \in Nat
    BY FS_CardinalityType
  <1>4. \E s : BuiltSums(s, f, SubsetsUpTo(D, Cardinality(D)))
    BY <1>2, <1>3
  <1>5. SubsetsUpTo(D, Cardinality(D)) = SUBSET D
    BY <1>1 DEF SubsetsUpTo
  <1> QED
    BY <1>4, <1>5

\* s gives the sum of f over every subset of D.
IsSum(s, f, D) ==
    /\ s \in [SUBSET D -> Int]
    /\ s[{}] = 0
    /\ \A S \in SUBSET D : \A x \in S : s[S] = f[x] + s[S \ {x}]

\* What SumFunction builds does not depend on the order it takes elements in.
LEMMA BuiltSumsAreSums ==
    ASSUME NEW D, IsFiniteSet(D), NEW f \in [D -> Int], NEW s, BuiltSums(s, f, SUBSET D)
    PROVE  IsSum(s, f, D)
  <1>1. \A S \in SUBSET D :
            s[S] = IF S = {} THEN 0 ELSE LET x == CHOOSE x \in S : TRUE IN f[x] + s[S \ {x}]
    BY Zenon DEF BuiltSums
  <1>2. s[{}] = 0
    BY <1>1
  <1>3. \A S \in SUBSET D : S # {} => \E c \in S : s[S] = f[c] + s[S \ {c}]
    BY <1>1
  <1>4. \A S \in SUBSET D : s[S] \in Int
    <2> DEFINE Fam == {S \in SUBSET D : s[S] \notin Int}
    <2>1. ASSUME Fam # {}
          PROVE  FALSE
      <3>1. PICK S \in Fam : \A x \in S : S \ {x} \notin Fam
        <4>1. Fam \in SUBSET (SUBSET D)
          OBVIOUS
        <4> HIDE DEF Fam
        <4> QED
          BY <2>1, <4>1, SmallestSet
      <3>5. s[S] \notin Int
        OBVIOUS
      <3>2. S # {}
        <4>1. 0 \in Int
          OBVIOUS
        <4> QED
          BY <1>2, <3>5, <4>1, Zenon
      <3>3. PICK c \in S : s[S] = f[c] + s[S \ {c}]
        BY <1>3, <3>2
      <3>4. f[c] \in Int /\ s[S \ {c}] \in Int
        BY <3>1
      <3> QED
        BY <3>3, <3>4
    <2> QED
      BY <2>1
  <1>5. \A S \in SUBSET D : \A x \in S : s[S] = f[x] + s[S \ {x}]
    <2> DEFINE Good(S) == \A x \in S : s[S] = f[x] + s[S \ {x}]
               Fam == {S \in SUBSET D : ~Good(S)}
    <2>1. ASSUME Fam # {}
          PROVE  FALSE
      <3>1. PICK S \in Fam : \A x \in S : S \ {x} \notin Fam
        <4>1. Fam \in SUBSET (SUBSET D)
          OBVIOUS
        <4> HIDE DEF Fam
        <4> QED
          BY <2>1, <4>1, SmallestSet
      <3>2. S \in SUBSET D /\ S # {}
        OBVIOUS
      <3>3. PICK c \in S : s[S] = f[c] + s[S \ {c}]
        BY <1>3, <3>2
      <3>4. ASSUME NEW x \in S
            PROVE  s[S] = f[x] + s[S \ {x}]
        <4>1. CASE x = c
          BY <3>3, <4>1
        <4>2. CASE x # c
          <5> DEFINE T == (S \ {c}) \ {x}
          <5>1. x \in S \ {c} /\ c \in S \ {x} /\ T = (S \ {x}) \ {c} /\ T \in SUBSET D
            BY <3>2, <4>2
          <5>2. Good(S \ {c}) /\ Good(S \ {x})
            BY <3>1, <3>2
          <5> HIDE DEF T
          <5>3. s[S \ {c}] = f[x] + s[T]
            BY <5>1, <5>2 DEF T
          <5>4. s[S \ {x}] = f[c] + s[T]
            BY <5>1, <5>2
          <5>5. s[T] \in Int /\ f[x] \in Int /\ f[c] \in Int
            BY <1>4, <3>2, <5>1
          <5> QED
            BY <3>3, <5>3, <5>4, <5>5
        <4> QED
          BY <4>1, <4>2
      <3> QED
        BY <3>1, <3>4
    <2> QED
      BY <2>1
  <1>6. s \in [SUBSET D -> Int]
    <2>1. s = [S \in SUBSET D |-> s[S]]
      BY Zenon DEF BuiltSums
    <2> QED
      BY <1>4, <2>1
  <1> QED
    BY <1>2, <1>5, <1>6 DEF IsSum

\* SumFunction gives the sum over the domain.
LEMMA SumIs ==
    ASSUME NEW D, IsFiniteSet(D), NEW f \in [D -> Int]
    PROVE  \E s : IsSum(s, f, D) /\ SumFunction(f) = s[D]
  <1> DEFINE s == CHOOSE s : BuiltSums(s, f, SUBSET D)
  <1>1. BuiltSums(s, f, SUBSET D)
    <2>1. \E t : BuiltSums(t, f, SUBSET D)
      BY BuiltSumsExist
    <2> QED
      BY <2>1, Zenon
  <1>2. SumFunction(f) = s[D]
    <2>1. DOMAIN f = D
      OBVIOUS
    <2> QED
      BY <2>1 DEF SumFunction, SumFunctionOnSet, FoldFunctionOnSet, MapThenFoldSet, BuiltSums
  <1> HIDE DEF s
  <1>3. IsSum(s, f, D)
    BY <1>1, BuiltSumsAreSums
  <1> QED
    BY <1>2, <1>3

\* A property of the empty set that one more element keeps holds of every
\* subset: the sets without it have no smallest one.
LEMMA EverySubset ==
    ASSUME NEW D, IsFiniteSet(D), NEW G \in SUBSET (SUBSET D), {} \in G,
           \A S \in SUBSET D : \A x \in S : S \ {x} \in G => S \in G
    PROVE  G = SUBSET D
  <1> DEFINE Fam == (SUBSET D) \ G
  <1>1. ASSUME Fam # {}
        PROVE  FALSE
    <2>1. PICK S \in Fam : \A x \in S : S \ {x} \notin Fam
      <3>1. Fam \in SUBSET (SUBSET D)
        OBVIOUS
      <3> HIDE DEF Fam
      <3> QED
        BY <1>1, <3>1, SmallestSet
    <2>2. PICK x \in S : TRUE
      BY <2>1
    <2>3. S \ {x} \in G
      BY <2>1
    <2> QED
      BY <2>1, <2>3
  <1> QED
    BY <1>1

\* Two functions that agree have the same sums.
LEMMA SumsAgree ==
    ASSUME NEW D, IsFiniteSet(D), NEW E \in SUBSET D,
           NEW f, NEW s, IsSum(s, f, D), NEW g, NEW t, IsSum(t, g, E),
           \A x \in E : f[x] = g[x]
    PROVE  \A S \in SUBSET E : t[S] = s[S]
  <1> DEFINE G == {S \in SUBSET E : t[S] = s[S]}
  <1>1. IsFiniteSet(E)
    BY FS_Subset
  <1>2. {} \in G
    BY DEF IsSum
  <1>3. \A S \in SUBSET E : \A x \in S : S \ {x} \in G => S \in G
    <2> TAKE S \in SUBSET E
    <2> TAKE x \in S
    <2> HAVE S \ {x} \in G
    <2>1. t[S] = g[x] + t[S \ {x}] /\ s[S] = f[x] + s[S \ {x}]
      BY DEF IsSum
    <2> QED
      BY <2>1
  <1>4. G = SUBSET E
    <2>1. G \in SUBSET (SUBSET E)
      OBVIOUS
    <2> HIDE DEF G
    <2> QED
      BY <1>1, <1>2, <1>3, <2>1, EverySubset
  <1> QED
    BY <1>4

\* The sum of f over the subset S of its domain.
LEMMA SumOver ==
    ASSUME NEW D, IsFiniteSet(D), NEW f, NEW s, IsSum(s, f, D), NEW S \in SUBSET D,
           NEW g \in [S -> Int], \A x \in S : f[x] = g[x]
    PROVE  SumFunction(g) = s[S]
  <1>1. IsFiniteSet(S)
    BY FS_Subset
  <1>2. PICK t : IsSum(t, g, S) /\ SumFunction(g) = t[S]
    BY <1>1, SumIs
  <1> QED
    BY <1>2, SumsAgree

\* Disjoint sets add up.
LEMMA SumUnion ==
    ASSUME NEW D, IsFiniteSet(D), NEW f \in [D -> Int], NEW s, IsSum(s, f, D),
           NEW S \in SUBSET D, NEW T \in SUBSET D, S \cap T = {}
    PROVE  s[S \cup T] = s[S] + s[T]
  <1> DEFINE G == {U \in SUBSET T : s[S \cup U] = s[S] + s[U]}
  <1>1. IsFiniteSet(T)
    BY FS_Subset
  <1>2. {} \in G
    <2>1. s[S] \in Int /\ s[{}] = 0 /\ S \cup {} = S
      BY DEF IsSum
    <2> QED
      BY <2>1
  <1>3. \A U \in SUBSET T : \A x \in U : U \ {x} \in G => U \in G
    <2> TAKE U \in SUBSET T
    <2> TAKE x \in U
    <2> HAVE U \ {x} \in G
    <2>1. (S \cup U) \ {x} = S \cup (U \ {x}) /\ x \in S \cup U /\ S \cup U \in SUBSET D
          /\ U \in SUBSET D /\ U \ {x} \in SUBSET D
      OBVIOUS
    <2>2. s[S \cup U] = f[x] + s[S \cup (U \ {x})]
      <3> DEFINE V == S \cup U
      <3>1. V \in SUBSET D /\ x \in V /\ V \ {x} = S \cup (U \ {x})
        BY <2>1
      <3> HIDE DEF V
      <3>2. s[V] = f[x] + s[V \ {x}]
        BY <3>1 DEF IsSum
      <3> QED
        BY <3>1, <3>2, Zenon DEF V
    <2>3. s[U] = f[x] + s[U \ {x}]
      BY <2>1 DEF IsSum
    <2>4. s[S] \in Int /\ s[U \ {x}] \in Int /\ f[x] \in Int
      BY <2>1 DEF IsSum
    <2>5. s[S \cup (U \ {x})] = s[S] + s[U \ {x}]
      OBVIOUS
    <2>6. s[S \cup U] = s[S] + s[U]
      BY <2>2, <2>3, <2>4, <2>5
    <2> QED
      BY <2>6
  <1>4. G = SUBSET T
    <2>1. G \in SUBSET (SUBSET T)
      OBVIOUS
    <2> HIDE DEF G
    <2> QED
      BY <1>1, <1>2, <1>3, <2>1, EverySubset
  <1> QED
    BY <1>4

\* Zeroes add nothing.
LEMMA SumOfZeroes ==
    ASSUME NEW D, IsFiniteSet(D), NEW f, NEW s, IsSum(s, f, D),
           NEW S \in SUBSET D, \A x \in S : f[x] = 0
    PROVE  s[S] = 0
  <1> DEFINE G == {U \in SUBSET S : s[U] = 0}
  <1>1. IsFiniteSet(S)
    BY FS_Subset
  <1>2. {} \in G
    BY DEF IsSum
  <1>3. \A U \in SUBSET S : \A x \in U : U \ {x} \in G => U \in G
    <2> TAKE U \in SUBSET S
    <2> TAKE x \in U
    <2> HAVE U \ {x} \in G
    <2>1. s[U] = f[x] + s[U \ {x}]
      BY DEF IsSum
    <2>2. s[U] = 0
      BY <2>1
    <2> QED
      BY <2>2
  <1>4. G = SUBSET S
    <2>1. G \in SUBSET (SUBSET S)
      OBVIOUS
    <2> HIDE DEF G
    <2> QED
      BY <1>1, <1>2, <1>3, <2>1, EverySubset
  <1> QED
    BY <1>4

LEMMA SumWithoutZeroes ==
    ASSUME NEW D, IsFiniteSet(D), NEW f \in [D -> Int], NEW s, IsSum(s, f, D),
           NEW T \in SUBSET D, \A x \in D \ T : f[x] = 0
    PROVE  s[D] = s[T]
  <1>1. s[D \ T] = 0
    <2>1. D \ T \in SUBSET D
      OBVIOUS
    <2> QED
      BY <2>1, SumOfZeroes
  <1>2. T \cup (D \ T) = D /\ T \cap (D \ T) = {} /\ D \ T \in SUBSET D
    OBVIOUS
  <1>3. s[T \cup (D \ T)] = s[T] + s[D \ T]
    BY <1>2, SumUnion
  <1>4. s[T] \in Int
    BY DEF IsSum
  <1>5. s[D] = s[T] + 0
    BY <1>1, <1>2, <1>3, Zenon
  <1> QED
    BY <1>4, <1>5

\* Sums of sums.
Adds(h, f, g, D) == \A x \in D : h[x] = f[x] + g[x]

\* The family f is one of integers, over D.
IntFamily(f, D) == f \in [D -> Int]

LEMMA SumOfSums ==
    ASSUME NEW D, IsFiniteSet(D), NEW f, NEW g, NEW h,
           IntFamily(f, D), IntFamily(g, D), IntFamily(h, D), Adds(h, f, g, D)
    PROVE  SumFunction(h) = SumFunction(f) + SumFunction(g)
  <1>f. f \in [D -> Int] /\ g \in [D -> Int] /\ h \in [D -> Int]
    BY DEF IntFamily
  <1>s. PICK s : IsSum(s, f, D) /\ SumFunction(f) = s[D]
    BY <1>f, SumIs
  <1>t. PICK t : IsSum(t, g, D) /\ SumFunction(g) = t[D]
    BY <1>f, SumIs
  <1>u. PICK u : IsSum(u, h, D) /\ SumFunction(h) = u[D]
    BY <1>f, SumIs
  <1> DEFINE G == {S \in SUBSET D : u[S] = s[S] + t[S]}
  <1>2. {} \in G
    BY <1>s, <1>t, <1>u DEF IsSum
  <1>3. \A S \in SUBSET D : \A x \in S : S \ {x} \in G => S \in G
    <2> TAKE S \in SUBSET D
    <2> TAKE x \in S
    <2> HAVE S \ {x} \in G
    <2>1. /\ u[S] = h[x] + u[S \ {x}] /\ s[S] = f[x] + s[S \ {x}]
          /\ t[S] = g[x] + t[S \ {x}]
      BY <1>s, <1>t, <1>u DEF IsSum
    <2>2. s[S \ {x}] \in Int /\ t[S \ {x}] \in Int /\ f[x] \in Int /\ g[x] \in Int
      BY <1>f, <1>s, <1>t DEF IsSum
    <2>4. h[x] = f[x] + g[x]
      BY DEF Adds
    <2>3. u[S] = s[S] + t[S]
      BY <2>1, <2>2, <2>4
    <2> QED
      BY <2>3
  <1> D \in SUBSET D
    OBVIOUS
  <1>4. G = SUBSET D
    <2>1. G \in SUBSET (SUBSET D)
      OBVIOUS
    <2> HIDE DEF G
    <2> QED
      BY <1>2, <1>3, <2>1, EverySubset
  <1>5. u[D] = s[D] + t[D]
    BY <1>4
  <1> QED
    BY <1>5, <1>s, <1>t, <1>u

\* The sum of the parts of a set.
LEMMA SumOfParts ==
    ASSUME NEW D, IsFiniteSet(D), NEW f \in [D -> Int], NEW s, IsSum(s, f, D),
           NEW K, IsFiniteSet(K), NEW P \in [K -> SUBSET D],
           \A j, k \in K : j # k => P[j] \cap P[k] = {},
           NEW h, NEW u, IsSum(u, h, K), \A k \in K : h[k] = s[P[k]]
    PROVE  u[K] = s[UNION {P[k] : k \in K}]
  <1> DEFINE Whole(J) == UNION {P[k] : k \in J}
             G == {J \in SUBSET K : u[J] = s[Whole(J)]}
  <1>2. {} \in G
    <2>1. Whole({}) = {}
      OBVIOUS
    <2> HIDE DEF Whole
    <2>2. u[{}] = s[Whole({})]
      BY <2>1 DEF IsSum
    <2> QED
      BY <2>2
  <1>3. \A J \in SUBSET K : \A x \in J : J \ {x} \in G => J \in G
    <2> TAKE J \in SUBSET K
    <2> TAKE x \in J
    <2> HAVE J \ {x} \in G
    <2>1. Whole(J) = P[x] \cup Whole(J \ {x}) /\ P[x] \cap Whole(J \ {x}) = {}
      OBVIOUS
    <2>2. Whole(J \ {x}) \in SUBSET D /\ P[x] \in SUBSET D
      OBVIOUS
    <2> HIDE DEF Whole
    <2>3. s[Whole(J)] = s[P[x]] + s[Whole(J \ {x})]
      <3> DEFINE V == P[x]
                 W == Whole(J \ {x})
      <3>1. V \in SUBSET D /\ W \in SUBSET D /\ V \cap W = {} /\ Whole(J) = V \cup W
        BY <2>1, <2>2
      <3> HIDE DEF V, W
      <3>2. s[V \cup W] = s[V] + s[W]
        BY <3>1, SumUnion
      <3> QED
        BY <3>1, <3>2, Zenon DEF V, W
    <2>4. u[J] = h[x] + u[J \ {x}]
      BY DEF IsSum
    <2>5. u[J] = s[Whole(J)]
      BY <2>3, <2>4
    <2> QED
      BY <2>5
  <1>4. G = SUBSET K
    <2>1. G \in SUBSET (SUBSET K)
      OBVIOUS
    <2> HIDE DEF G
    <2> QED
      BY <1>2, <1>3, <2>1, EverySubset
  <1> QED
    BY <1>4

-----------------------------------------------------------------------------
(* What a call adds *)

LEMMA LanesFinite == IsFiniteSet(Lanes)
  BY FS_Interval, LanesAssumption DEF Lanes

LEMMA NArchIs == NArch \in Nat \ {0} /\ NElem = Group * NArch /\ Group \in Nat \ {0}
  BY Divides, ReductionsAssumption DEF NArch

\* The greater number less the smaller one.
LEMMA DistanceIs ==
    ASSUME NEW x \in Int, NEW y \in Int
    PROVE  Distance(x, y) \in Int /\ Max({x, y}) - Min({x, y}) = Distance(x, y)
  <1>1. CASE x < y
    <2>1. Max({x, y}) = y
      BY <1>1 DEF Max
    <2>2. Min({x, y}) = x
      BY <1>1 DEF Min
    <2> QED
      BY <1>1, <2>1, <2>2 DEF Distance
  <1>2. CASE ~(x < y)
    <2>1. Max({x, y}) = x
      BY <1>2 DEF Max
    <2>2. Min({x, y}) = y
      BY <1>2 DEF Min
    <2> QED
      BY <1>2, <2>1, <2>2 DEF Distance
  <1> QED
    BY <1>1, <1>2

\* The calls and their active lanes.
ActiveIs == active \in [Gangs -> [1..Passes -> Masks]]

LEMMA ActiveLanes ==
    ASSUME ActiveIs, NEW g \in Gangs, NEW p \in 1..Passes
    PROVE  active[g][p] \in SUBSET Lanes
  BY ReductionsAssumption DEF ActiveIs

\* The values an active lane has, and their distance.
LEMMA SelectedIs ==
    ASSUME ActiveIs, NEW g \in Gangs, NEW p \in 1..Passes, NEW l \in Lanes
    PROVE  /\ A(g, l) \in Int /\ B(g, l) \in Int
           /\ Select(A(g, l), g, p, l) = IF l \in active[g][p] THEN A(g, l) ELSE 0
           /\ SelectedDistance(g, p, l) =
                 IF l \in active[g][p] THEN Distance(A(g, l), B(g, l)) ELSE 0
           /\ SelectedDistance(g, p, l) \in Int
  <1>1. A(g, l) \in Int /\ B(g, l) \in Int
    BY ReductionsAssumption
  <1>2. \A x : Select(x, g, p, l) = IF l \in active[g][p] THEN x ELSE 0
    BY DEF Select, Register
  <1>3. Distance(0, 0) = 0
    BY DEF Distance
  <1>4. SelectedDistance(g, p, l) =
            IF l \in active[g][p] THEN Distance(A(g, l), B(g, l)) ELSE 0
    <2>1. CASE l \in active[g][p]
      <3>1. Select(A(g, l), g, p, l) = A(g, l) /\ Select(B(g, l), g, p, l) = B(g, l)
        BY <1>2, <2>1
      <3> QED
        BY <2>1, <3>1 DEF SelectedDistance
    <2>2. CASE l \notin active[g][p]
      <3>1. Select(A(g, l), g, p, l) = 0 /\ Select(B(g, l), g, p, l) = 0
        BY <1>2, <2>2
      <3> QED
        BY <1>3, <2>2, <3>1 DEF SelectedDistance
    <2> QED
      BY <2>1, <2>2
  <1>5. Distance(A(g, l), B(g, l)) \in Int
    BY <1>1, DistanceIs
  <1> QED
    BY <1>1, <1>2, <1>4, <1>5

\* A sum over the lanes that leaves out the inactive ones.
LEMMA SumOfActive ==
    ASSUME ActiveIs, NEW g \in Gangs, NEW p \in 1..Passes,
           NEW f \in [Lanes -> Int], NEW h \in [active[g][p] -> Int],
           \A l \in Lanes : f[l] = IF l \in active[g][p] THEN h[l] ELSE 0
    PROVE  SumFunction(f) = SumFunction(h) /\ SumFunction(h) \in Int
  <1>1. PICK s : IsSum(s, f, Lanes) /\ SumFunction(f) = s[Lanes]
    BY LanesFinite, SumIs
  <1> DEFINE T == active[g][p]
  <1>2. T \in SUBSET Lanes
    BY ActiveLanes
  <1>3. \A l \in Lanes \ T : f[l] = 0
    OBVIOUS
  <1>4. \A l \in T : f[l] = h[l]
    BY <1>2
  <1>7. h \in [T -> Int]
    OBVIOUS
  <1> HIDE DEF T
  <1>5. s[Lanes] = s[T]
    BY <1>1, <1>2, <1>3, LanesFinite, SumWithoutZeroes
  <1>6. SumFunction(h) = s[T]
    BY <1>1, <1>2, <1>4, <1>7, LanesFinite, SumOver
  <1>8. s[T] \in Int
    BY <1>1, <1>2 DEF IsSum
  <1> QED
    BY <1>1, <1>5, <1>6, <1>8

\* psim_atomic_add_local sums the values of the active lanes.
LEMMA AddReduceIs ==
    ASSUME ActiveIs, api = "atomic_add", NEW g \in Gangs, NEW p \in 1..Passes
    PROVE  AddReduce(g, p) = Contribution(<<g, p>>) /\ AddReduce(g, p) \in Int
  <1> DEFINE f == [l \in Lanes |-> Select(A(g, l), g, p, l)]
             h == [l \in active[g][p] |-> LaneAdds(A(g, l), B(g, l))]
  <1>1. AddReduce(g, p) = SumFunction(f)
    BY DEF AddReduce
  <1>2. Contribution(<<g, p>>) = SumFunction(h)
    BY DEF Contribution
  <1>3. f \in [Lanes -> Int]
    BY SelectedIs
  <1>4. \A l \in active[g][p] : h[l] = A(g, l)
    BY DEF LaneAdds
  <1>5. h \in [active[g][p] -> Int]
    <2>1. \A l \in active[g][p] : h[l] \in Int
      BY <1>4, ActiveLanes, SelectedIs
    <2> QED
      BY <2>1
  <1>6. \A l \in Lanes : f[l] = IF l \in active[g][p] THEN h[l] ELSE 0
    BY <1>4, SelectedIs
  <1> HIDE DEF f, h
  <1> QED
    BY <1>1, <1>2, <1>3, <1>5, <1>6, SumOfActive

\* The chunks share no lane.
LEMMA ChunksApart ==
    ASSUME NEW j \in Starts, NEW k \in Starts, NEW l \in Lanes,
           l \in Chunk(j), l \in Chunk(k)
    PROVE  j = k
  <1> DEFINE a == j \div NElem
             b == k \div NElem
  <1>1. NElem \in Nat /\ NElem > 0
    BY ReductionsAssumption
  <1>2. j \in Int /\ k \in Int /\ l \in Int /\ j % NElem = 0 /\ k % NElem = 0
    BY LanesAssumption DEF Starts, Lanes
  <1>3. j <= l /\ l < j + NElem /\ k <= l /\ l < k + NElem
    BY DEF Chunk
  <1>4. a \in Int /\ b \in Int /\ j = NElem * a + (j % NElem) /\ k = NElem * b + (k % NElem)
    BY <1>1, <1>2, DivMod
  <1> HIDE DEF a, b
  <1>5. NElem * a \in Int /\ NElem * b \in Int /\ NElem * (a - b) = NElem * a - NElem * b
    BY <1>1, <1>4
  <1>6. j = NElem * a /\ k = NElem * b
    BY <1>2, <1>4, <1>5
  <1>7. -NElem < NElem * (a - b) /\ NElem * (a - b) < NElem
    BY <1>1, <1>2, <1>3, <1>5, <1>6
  <1>8. a - b = 0
    BY <1>1, <1>4, <1>7, NoMultiple
  <1>9. a = b
    BY <1>4, <1>8
  <1> QED
    BY <1>6, <1>9

\* Every lane is in a chunk, and there in the bytes of an accumulator.
LEMMA ChunkOf ==
    ASSUME NEW l \in Lanes
    PROVE  \E j \in Starts, i \in 1..NArch : l \in BytesOf(j, i)
  <1> DEFINE a == l \div NElem
             r == l % NElem
             j == NElem * a
             q == r \div Group
             m == r % Group
  <1>1. NElem \in Nat /\ NElem > 0
    BY ReductionsAssumption
  <1>2. l \in Nat /\ l \in Int /\ l < NumLanes /\ NumLanes \in Nat
    BY LanesAssumption DEF Lanes
  <1>3. a \in Int /\ r \in Int /\ l = NElem * a + r /\ 0 <= r /\ r < NElem
    BY <1>1, <1>2, DivMod
  <1> HIDE DEF a, r
  <1>4. q \in Int /\ m \in Int /\ r = Group * q + m /\ 0 <= m /\ m < Group
    BY <1>3, NArchIs, DivMod
  <1> HIDE DEF q, m
  <1>5. 0 <= q /\ q < NArch
    <2>1. 0 <= Group * q + m /\ Group * q + m < Group * NArch
      BY <1>3, <1>4, NArchIs
    <2> QED
      BY <1>4, <2>1, NArchIs, QuotientBounds
  <1>6. 0 <= a
    <2>1. 0 <= NElem * a + r /\ NElem * a + r < NElem * (l + 1)
      <3>1. NElem * (l + 1) = NElem * l + NElem /\ NElem * l >= l
        <4> DEFINE d == NElem - 1
        <4>1. d \in Nat /\ NElem = d + 1
          BY <1>1
        <4> HIDE DEF d
        <4>2. (d + 1) * l = d * l + l /\ d * l \in Nat /\ (d + 1) * (l + 1) = (d + 1) * l + (d + 1)
          BY <1>2, <4>1
        <4> QED
          BY <1>2, <4>1, <4>2
      <3> QED
        BY <1>1, <1>2, <1>3, <3>1
    <2> QED
      BY <1>1, <1>2, <1>3, <2>1, QuotientBounds
  <1>7. j \in Nat /\ j <= l /\ l - j = r
    <2>1. NElem * a \in Nat
      BY <1>1, <1>3, <1>6
    <2> QED
      BY <1>2, <1>3, <2>1
  <1>8. j % NElem = 0
    <2>1. (NElem * a + 0) % NElem = 0
      BY <1>1, <1>3, QuotientIs
    <2>2. NElem * a + 0 = NElem * a
      BY <1>1, <1>3
    <2> QED
      BY <2>1, <2>2
  <1> HIDE DEF j
  <1>9. j \in Starts
    BY <1>2, <1>7, <1>8 DEF Starts, Lanes
  <1>10. l \in Chunk(j)
    BY <1>1, <1>2, <1>3, <1>7 DEF Chunk
  <1>11. q + 1 \in 1..NArch /\ (q + 1) - 1 = q
    BY <1>4, <1>5, NArchIs
  <1>12. l \in BytesOf(j, q + 1)
    BY <1>7, <1>10, <1>11 DEF BytesOf, q
  <1> QED
    BY <1>9, <1>11, <1>12

\* Accumulator i of AddAbsDiff takes the lanes of its bytes in every chunk.
LanesOf(i) == UNION {BytesOf(j, i) : j \in Starts}

LEMMA AccumulatorAdds ==
    ASSUME ActiveIs, NEW g \in Gangs, NEW p \in 1..Passes,
           NEW f, f = [l \in Lanes |-> SelectedDistance(g, p, l)],
           NEW s, IsSum(s, f, Lanes), NEW i \in 1..NArch
    PROVE  SumFunction([j \in Starts |-> SumAbsDiff(g, p, j, i)]) = s[LanesOf(i)]
  <1>1. f \in [Lanes -> Int]
    BY SelectedIs
  <1>2. IsFiniteSet(Starts)
    <2>1. Starts \subseteq Lanes
      BY DEF Starts
    <2> QED
      BY <2>1, LanesFinite, FS_Subset
  <1> DEFINE P == [j \in Starts |-> BytesOf(j, i)]
             h == [j \in Starts |-> SumAbsDiff(g, p, j, i)]
  <1>3. P \in [Starts -> SUBSET Lanes]
    BY DEF BytesOf, Chunk
  <1>4. \A j \in Starts : h[j] = s[P[j]]
    <2> TAKE j \in Starts
    <2> DEFINE S == BytesOf(j, i)
               e == [l \in S |-> SelectedDistance(g, p, l)]
    <2>1. S \in SUBSET Lanes
      BY DEF BytesOf, Chunk
    <2>2. SumAbsDiff(g, p, j, i) = SumFunction(e)
      BY DEF SumAbsDiff
    <2> HIDE DEF S
    <2>3. e \in [S -> Int]
      BY <2>1, SelectedIs
    <2>4. \A l \in S : f[l] = e[l]
      BY <2>1
    <2> HIDE DEF e
    <2>5. SumFunction(e) = s[S]
      BY <2>1, <2>3, <2>4, LanesFinite, SumOver
    <2> QED
      BY <2>2, <2>5 DEF S
  <1>5. h \in [Starts -> Int]
    <2>1. \A j \in Starts : h[j] \in Int
      BY <1>3, <1>4 DEF IsSum
    <2> QED
      BY <2>1
  <1>6. \A j, k \in Starts : j # k => P[j] \cap P[k] = {}
    <2> SUFFICES ASSUME NEW j \in Starts, NEW k \in Starts,
                        NEW l \in BytesOf(j, i), l \in BytesOf(k, i)
                 PROVE  j = k
      OBVIOUS
    <2>1. l \in Lanes /\ l \in Chunk(j) /\ l \in Chunk(k)
      BY DEF BytesOf, Chunk
    <2> QED
      BY <2>1, ChunksApart
  <1>7. UNION {P[j] : j \in Starts} = LanesOf(i)
    BY DEF LanesOf
  <1> HIDE DEF P, h
  <1>8. PICK u : IsSum(u, h, Starts) /\ SumFunction(h) = u[Starts]
    BY <1>2, <1>5, SumIs
  <1>9. u[Starts] = s[UNION {P[j] : j \in Starts}]
    BY <1>1, <1>2, <1>3, <1>4, <1>6, <1>8, LanesFinite, SumOfParts
  <1> QED
    BY <1>7, <1>8, <1>9 DEF h

\* What the accumulators of a call gain.
Gains(g, p) ==
    [i \in 1..NArch |-> SumFunction([j \in Starts |-> SumAbsDiff(g, p, j, i)])]

\* The accumulators share no lane and leave none out: together they gain the
\* distances of the active lanes.
LEMMA GainsAre ==
    ASSUME ActiveIs, api = "abs_diff", NEW g \in Gangs, NEW p \in 1..Passes
    PROVE  /\ Gains(g, p) \in [1..NArch -> Int]
           /\ SumFunction(Gains(g, p)) = Contribution(<<g, p>>)
           /\ Contribution(<<g, p>>) \in Int
  <1> DEFINE f == [l \in Lanes |-> SelectedDistance(g, p, l)]
             h == [l \in active[g][p] |-> LaneAdds(A(g, l), B(g, l))]
             K == 1..NArch
             gain == Gains(g, p)
             Q == [i \in K |-> LanesOf(i)]
  <1>1. f \in [Lanes -> Int]
    BY SelectedIs
  <1>2. Contribution(<<g, p>>) = SumFunction(h)
    BY DEF Contribution
  <1>3. \A l \in active[g][p] : h[l] = Distance(A(g, l), B(g, l)) /\ h[l] \in Int
    <2> TAKE l \in active[g][p]
    <2>1. l \in Lanes
      BY ActiveLanes
    <2>2. A(g, l) \in Int /\ B(g, l) \in Int
      BY <2>1, SelectedIs
    <2>3. h[l] = Max({A(g, l), B(g, l)}) - Min({A(g, l), B(g, l)})
      BY DEF LaneAdds
    <2> QED
      BY <2>2, <2>3, DistanceIs
  <1>4. h \in [active[g][p] -> Int]
    BY <1>3
  <1>5. \A l \in Lanes : f[l] = IF l \in active[g][p] THEN h[l] ELSE 0
    BY <1>3, SelectedIs
  <1>6. f = [l \in Lanes |-> SelectedDistance(g, p, l)]
    OBVIOUS
  <1> HIDE DEF f, h
  <1>7. SumFunction(f) = SumFunction(h) /\ SumFunction(h) \in Int
    BY <1>1, <1>4, <1>5, SumOfActive
  <1>8. PICK s : IsSum(s, f, Lanes) /\ SumFunction(f) = s[Lanes]
    BY <1>1, LanesFinite, SumIs
  <1>9. \A i \in K : LanesOf(i) \in SUBSET Lanes
    BY DEF LanesOf, BytesOf, Chunk
  <1>10. \A i \in K : gain[i] = s[LanesOf(i)]
    <2> TAKE i \in K
    <2>1. gain[i] = SumFunction([j \in Starts |-> SumAbsDiff(g, p, j, i)])
      BY DEF Gains
    <2> QED
      BY <1>6, <1>8, <2>1, AccumulatorAdds
  <1>11. gain \in [K -> Int]
    <2>1. \A i \in K : gain[i] \in Int
      BY <1>8, <1>9, <1>10 DEF IsSum
    <2>2. gain = [i \in K |-> gain[i]]
      BY DEF Gains
    <2> HIDE DEF gain
    <2> QED
      BY <2>1, <2>2
  <1>12. IsFiniteSet(K)
    BY NArchIs, FS_Interval
  <1>13. Q \in [K -> SUBSET Lanes] /\ \A i \in K : Q[i] = LanesOf(i)
    BY <1>9
  <1>14. \A i, k \in K : i # k => Q[i] \cap Q[k] = {}
    <2> SUFFICES ASSUME NEW i \in K, NEW k \in K,
                        NEW l \in LanesOf(i), l \in LanesOf(k)
                 PROVE  i = k
      BY <1>13
    <2>1. PICK j \in Starts : l \in BytesOf(j, i)
      BY DEF LanesOf
    <2>2. PICK m \in Starts : l \in BytesOf(m, k)
      BY DEF LanesOf
    <2>3. l \in Lanes /\ l \in Chunk(j) /\ l \in Chunk(m)
      BY <2>1, <2>2 DEF BytesOf, Chunk
    <2>4. j = m
      BY <2>3, ChunksApart
    <2>5. (l - j) \div Group = i - 1 /\ (l - m) \div Group = k - 1
      BY <2>1, <2>2 DEF BytesOf
    <2>6. i - 1 = k - 1 /\ i \in Int /\ k \in Int
      BY <2>4, <2>5
    <2> QED
      BY <2>6
  <1>15. UNION {Q[i] : i \in K} = Lanes
    <2>1. \A l \in Lanes : \E i \in K : l \in LanesOf(i)
      BY ChunkOf DEF LanesOf
    <2> QED
      BY <1>9, <1>13, <2>1
  <1>16. \A i \in K : gain[i] = s[Q[i]]
    BY <1>10, <1>13
  <1> HIDE DEF Q, K, gain
  <1>17. PICK u : IsSum(u, gain, K) /\ SumFunction(gain) = u[K]
    BY <1>11, <1>12, SumIs
  <1>18. u[K] = s[UNION {Q[i] : i \in K}]
    BY <1>1, <1>8, <1>12, <1>13, <1>14, <1>16, <1>17, LanesFinite, SumOfParts
  <1>19. SumFunction(gain) = Contribution(<<g, p>>) /\ Contribution(<<g, p>>) \in Int
    BY <1>2, <1>7, <1>8, <1>15, <1>17, <1>18
  <1> QED
    BY <1>11, <1>19 DEF gain, K

\* The sum of one number, and of zeroes.
LEMMA ReduceSumOne ==
    ASSUME NEW acc \in [1..1 -> Int]
    PROVE  ReduceSum(acc) = acc[1]
  <1>1. IsFiniteSet(1..1)
    BY FS_Interval, 1 \in Int
  <1>2. PICK s : IsSum(s, acc, 1..1) /\ SumFunction(acc) = s[1..1]
    BY <1>1, SumIs
  <1>3. 1..1 = {1} /\ {1} \ {1} = {}
    OBVIOUS
  <1>4. s[{1}] = acc[1] + s[{1} \ {1}]
    BY <1>2, <1>3 DEF IsSum
  <1>5. s[{1} \ {1}] = 0
    BY <1>2, <1>3 DEF IsSum
  <1> QED
    BY <1>2, <1>3, <1>4, <1>5 DEF ReduceSum

LEMMA ReduceSumType ==
    ASSUME NEW n \in Nat, NEW acc \in [1..n -> Int]
    PROVE  ReduceSum(acc) \in Int
  <1>1. IsFiniteSet(1..n)
    BY FS_Interval
  <1>2. PICK s : IsSum(s, acc, 1..n) /\ SumFunction(acc) = s[1..n]
    BY <1>1, SumIs
  <1> QED
    BY <1>2 DEF ReduceSum, IsSum

LEMMA ReduceSumZero ==
    ASSUME NEW n \in Nat
    PROVE  ReduceSum([i \in 1..n |-> 0]) = 0
  <1> DEFINE acc == [i \in 1..n |-> 0]
  <1>1. IsFiniteSet(1..n)
    BY FS_Interval
  <1>2. acc \in [1..n -> Int] /\ \A i \in 1..n : acc[i] = 0
    OBVIOUS
  <1> HIDE DEF acc
  <1>3. PICK s : IsSum(s, acc, 1..n) /\ SumFunction(acc) = s[1..n]
    BY <1>1, <1>2, SumIs
  <1> DEFINE D == 1..n
  <1>4. D \in SUBSET D
    OBVIOUS
  <1> HIDE DEF D
  <1>5. s[D] = 0
    BY <1>1, <1>2, <1>3, <1>4, SumOfZeroes DEF D
  <1> QED
    BY <1>3, <1>5 DEF ReduceSum, D, acc

\* A call adds its contribution to what it loaded.
LEMMA ResultAdds ==
    ASSUME ActiveIs, api \in {"atomic_add", "abs_diff"},
           NEW acc \in [1..Accumulators -> Int], NEW g \in Gangs, NEW p \in 1..Passes
    PROVE  /\ Result(acc, g, p) \in [1..Accumulators -> Int]
           /\ ReduceSum(Result(acc, g, p)) = ReduceSum(acc) + Contribution(<<g, p>>)
           /\ Contribution(<<g, p>>) \in Int
  <1>1. CASE api = "atomic_add"
    <2> DEFINE x == acc[1] + AddReduce(g, p)
               res == <<x>>
    <2>1. Accumulators = 1 /\ Result(acc, g, p) = res
      BY <1>1 DEF Accumulators, Result
    <2>2. AddReduce(g, p) = Contribution(<<g, p>>) /\ AddReduce(g, p) \in Int
      BY <1>1, AddReduceIs
    <2>3. acc \in [1..1 -> Int] /\ acc[1] \in Int
      BY <2>1
    <2>4. x \in Int
      BY <2>2, <2>3
    <2> HIDE DEF x
    <2>5. res \in [1..1 -> Int] /\ res[1] = x
      BY <2>4
    <2> HIDE DEF res
    <2>6. ReduceSum(res) = x /\ ReduceSum(acc) = acc[1]
      BY <2>3, <2>5, ReduceSumOne
    <2> QED
      BY <2>1, <2>2, <2>5, <2>6 DEF x
  <1>2. CASE api = "abs_diff"
    <2>1. Accumulators = NArch /\ NArch \in Nat
      BY <1>2, NArchIs DEF Accumulators
    <2> DEFINE gain == Gains(g, p)
               res == Result(acc, g, p)
    <2>2. /\ gain \in [1..NArch -> Int]
          /\ SumFunction(gain) = Contribution(<<g, p>>)
          /\ Contribution(<<g, p>>) \in Int
      BY <1>2, GainsAre
    <2>3. res = [i \in 1..NArch |-> acc[i] + gain[i]]
      BY <1>2 DEF Result, Gains
    <2>4. acc \in [1..NArch -> Int]
      BY <2>1
    <2> HIDE DEF gain, res
    <2>5. res \in [1..NArch -> Int] /\ Adds(res, acc, gain, 1..NArch)
      <3>1. \A i \in 1..NArch : res[i] = acc[i] + gain[i]
        BY <2>3, Zenon
      <3>2. \A i \in 1..NArch : acc[i] \in Int /\ gain[i] \in Int
        BY <2>2, <2>4
      <3>3. \A i \in 1..NArch : res[i] \in Int
        BY <3>1, <3>2
      <3>4. res = [i \in 1..NArch |-> res[i]]
        BY <2>3, Zenon
      <3> QED
        BY <3>1, <3>3, <3>4 DEF Adds
    <2>6. ReduceSum(res) = ReduceSum(acc) + SumFunction(gain)
      <3> DEFINE D == 1..NArch
      <3>1. IsFiniteSet(D)
        BY <2>1, FS_Interval
      <3>2. IntFamily(res, D) /\ IntFamily(acc, D) /\ IntFamily(gain, D) /\ Adds(res, acc, gain, D)
        BY <2>2, <2>4, <2>5 DEF IntFamily
      <3> HIDE DEF D
      <3> QED
        BY <3>1, <3>2, SumOfSums, Zenon DEF ReduceSum
    <2> QED
      BY <2>1, <2>2, <2>5, <2>6 DEF res
  <1> QED
    BY <1>1, <1>2
-----------------------------------------------------------------------------
(* The calls that are through *)

\* The sum of f over S.
SumAt(f, S) == SumFunction([x \in S |-> f[x]])

LEMMA SumAtOneMore ==
    ASSUME NEW D, IsFiniteSet(D), NEW f \in [D -> Int], NEW S \in SUBSET D,
           NEW c \in D, c \notin S
    PROVE  SumAt(f, S \cup {c}) = SumAt(f, S) + f[c]
  <1>1. PICK s : IsSum(s, f, D) /\ SumFunction(f) = s[D]
    BY SumIs
  <1>2. \A T \in SUBSET D : SumAt(f, T) = s[T]
    <2> TAKE T \in SUBSET D
    <2> DEFINE h == [x \in T |-> f[x]]
    <2>1. h \in [T -> Int] /\ \A x \in T : f[x] = h[x]
      OBVIOUS
    <2> HIDE DEF h
    <2>2. SumFunction(h) = s[T]
      BY <1>1, <2>1, SumOver
    <2> QED
      BY <2>2 DEF SumAt, h
  <1> DEFINE T == S \cup {c}
  <1>3. T \in SUBSET D /\ c \in T /\ T \ {c} = S
    OBVIOUS
  <1> HIDE DEF T
  <1>4. s[T] = f[c] + s[S]
    BY <1>1, <1>3 DEF IsSum
  <1>5. s[S] \in Int /\ f[c] \in Int
    BY <1>1 DEF IsSum
  <1>6. SumAt(f, T) = s[T] /\ SumAt(f, S) = s[S]
    BY <1>2, <1>3
  <1> QED
    BY <1>4, <1>5, <1>6 DEF T

LEMMA SumAtNone ==
    ASSUME NEW D, IsFiniteSet(D), NEW f \in [D -> Int]
    PROVE  SumAt(f, {}) = 0
  <1>1. PICK s : IsSum(s, f, D) /\ SumFunction(f) = s[D]
    BY SumIs
  <1> DEFINE h == [x \in {} |-> f[x]]
             N == {}
  <1>2. h \in [N -> Int] /\ N \in SUBSET D /\ \A x \in N : f[x] = h[x]
    OBVIOUS
  <1>3. s[N] = 0
    BY <1>1 DEF IsSum
  <1>5. SumAt(f, {}) = SumFunction(h)
    BY DEF SumAt
  <1> HIDE DEF h, N
  <1>4. SumFunction(h) = s[N]
    BY <1>1, <1>2, SumOver
  <1> QED
    BY <1>3, <1>4, <1>5

LEMMA CallsFinite == IsFiniteSet(Calls)
  <1>1. IsFiniteSet(Gangs) /\ IsFiniteSet(1..Passes)
    BY FS_Interval, ReductionsAssumption
  <1> QED
    BY <1>1, FS_Product DEF Calls

\* A call goes on from memory nobody else writes: the gangs run on one thread.
\* (Two threads lose an update: MCReductionsParallel.)
OneThread == \A v, w \in Workers : v = w

CallIsThrough(call) ==
    /\ call[1] \notin todo
    /\ \A w \in Workers : running[w] = call[1] => call[2] < pass[w]

\* The types.
SumTypes ==
    /\ api \in {"atomic_add", "abs_diff"}
    /\ ActiveIs
    /\ memory \in [1..Accumulators -> Int]
    /\ todo \subseteq Gangs
    /\ running \in [Workers -> Gangs \cup {Idle}]
    /\ pass \in [Workers -> 1..Passes]
    /\ loaded = [w \in Workers |-> loaded[w]]

\* A worker that runs a gang has taken it, and what it has read is what the
\* memory still holds.
ReadsAreFresh ==
    \A w \in Workers :
        /\ running[w] # Idle => running[w] \notin todo
        /\ loaded[w] # << >> => loaded[w] = memory /\ running[w] # Idle

\* The calls that are through are those the workers have left behind.
StoredAre == stored = {call \in Calls : CallIsThrough(call)}

\* The memory holds their sum.
MemoryIs == ReduceSum(memory) = SumAt(Amount, stored)

SumInvariant == SumTypes /\ ReadsAreFresh /\ StoredAre /\ MemoryIs

LEMMA AmountType ==
    ASSUME SumTypes
    PROVE  Amount \in [Calls -> Int]
  <1>1. \A g \in Gangs, p \in 1..Passes : Contribution(<<g, p>>) \in Int
    BY ResultAdds DEF SumTypes
  <1>2. \A call \in Calls : \E g \in Gangs, p \in 1..Passes : call = <<g, p>>
    BY DEF Calls
  <1>3. \A call \in Calls : Contribution(call) \in Int
    BY <1>1, <1>2
  <1> QED
    BY <1>3 DEF Amount

LEMMA AmountStays ==
    ASSUME api' = api, active' = active
    PROVE  Amount' = Amount /\ Accumulators' = Accumulators /\ (ActiveIs => ActiveIs')
  BY DEF Amount, Contribution, LaneAdds, Accumulators, ActiveIs

LEMMA AccumulatorsAre ==
    ASSUME SumTypes
    PROVE  Accumulators \in Nat \ {0} /\ memory # << >>
  <1>1. Accumulators \in Nat \ {0}
    BY NArchIs DEF Accumulators
  <1>2. 1 \in DOMAIN memory
    BY <1>1 DEF SumTypes
  <1> QED
    BY <1>1, <1>2

-----------------------------------------------------------------------------
(* The steps *)

LEMMA SumInitHolds ==
    ASSUME SumInit
    PROVE  SumInvariant
  <1>1. SumTypes
    <2>1. memory \in [1..Accumulators -> Int]
      BY DEF SumInit
    <2>2. 1 \in 1..Passes
      BY ReductionsAssumption
    <2> QED
      BY <2>1, <2>2 DEF SumInit, SumTypes, ActiveIs
  <1>2. ReadsAreFresh
    BY DEF SumInit, ReadsAreFresh
  <1>3. stored = {} /\ StoredAre
    BY DEF SumInit, StoredAre, CallIsThrough, Calls
  <1>4. MemoryIs
    <2>1. ReduceSum(memory) = 0
      <3>1. Accumulators \in Nat
        BY <1>1, AccumulatorsAre
      <3> QED
        BY <3>1, ReduceSumZero DEF SumInit
    <2>2. SumAt(Amount, {}) = 0
      BY <1>1, AmountType, CallsFinite, SumAtNone
    <2> QED
      BY <1>3, <2>1, <2>2 DEF MemoryIs
  <1> QED
    BY <1>1, <1>2, <1>3, <1>4 DEF SumInvariant

LEMMA TakeKeeps ==
    ASSUME OneThread, SumInvariant, NEW w \in Workers, NEW g \in todo, Take(w, g)
    PROVE  SumInvariant'
  <1>1. /\ api' = api /\ active' = active /\ memory' = memory
        /\ loaded' = loaded /\ stored' = stored
    BY DEF Take
  <1>2. Amount' = Amount /\ Accumulators' = Accumulators /\ ActiveIs'
    BY <1>1, AmountStays DEF SumInvariant, SumTypes
  <1>3. g \in Gangs /\ g # Idle
    BY ReductionsAssumption DEF SumInvariant, SumTypes
  <1>4. \A v \in Workers : v = w
    BY DEF OneThread
  <1>5. running'[w] = g /\ pass'[w] = 1 /\ todo' = todo \ {g} /\ running[w] = Idle
    BY DEF Take, SumInvariant, SumTypes
  <1>6. SumTypes'
    <2>1. 1 \in 1..Passes
      BY ReductionsAssumption
    <2> QED
      BY <1>1, <1>2, <1>3, <2>1 DEF SumInvariant, SumTypes, Take
  <1>7. ReadsAreFresh'
    BY <1>1, <1>4, <1>5 DEF SumInvariant, ReadsAreFresh
  <1>8. StoredAre'
    <2>1. ASSUME NEW call \in Calls
          PROVE  CallIsThrough(call)' <=> CallIsThrough(call)
      <3>1. call[1] \in Gangs /\ call[1] # Idle /\ ~(call[2] < 1)
        BY ReductionsAssumption DEF Calls
      <3>2. CallIsThrough(call)' <=> call[1] \notin todo' /\ (g = call[1] => call[2] < 1)
        BY <1>4, <1>5 DEF CallIsThrough
      <3>3. CallIsThrough(call) <=> call[1] \notin todo
        BY <1>4, <1>5, <3>1 DEF CallIsThrough
      <3> QED
        BY <1>5, <3>1, <3>2, <3>3
    <2>2. stored = {call \in Calls : CallIsThrough(call)}
      BY DEF SumInvariant, StoredAre
    <2>3. stored' = {call \in Calls : CallIsThrough(call)'}
      BY <1>1, <2>1, <2>2
    <2> QED
      BY <2>3 DEF StoredAre
  <1>9. MemoryIs'
    BY <1>1, <1>2 DEF SumInvariant, MemoryIs, ReduceSum
  <1> QED
    BY <1>6, <1>7, <1>8, <1>9 DEF SumInvariant

LEMMA LoadKeeps ==
    ASSUME OneThread, SumInvariant, NEW w \in Workers, Load(w)
    PROVE  SumInvariant'
  <1>1. /\ api' = api /\ active' = active /\ memory' = memory /\ stored' = stored
        /\ todo' = todo /\ running' = running /\ pass' = pass
    BY DEF Load
  <1>2. Amount' = Amount /\ Accumulators' = Accumulators /\ ActiveIs'
    BY <1>1, AmountStays DEF SumInvariant, SumTypes
  <1>3. loaded'[w] = memory /\ running[w] # Idle
    BY DEF Load, SumInvariant, SumTypes
  <1>4. \A v \in Workers : v = w
    BY DEF OneThread
  <1>5. SumTypes'
    <2>1. loaded' = [v \in Workers |-> loaded'[v]]
      <3>1. loaded' = [loaded EXCEPT ![w] = memory]
        BY DEF Load
      <3> QED
        BY <3>1 DEF SumInvariant, SumTypes
    <2> QED
      BY <1>1, <1>2, <2>1 DEF SumInvariant, SumTypes
  <1>6. ReadsAreFresh'
    BY <1>1, <1>3, <1>4 DEF SumInvariant, ReadsAreFresh
  <1>7. StoredAre'
    BY <1>1 DEF SumInvariant, StoredAre, CallIsThrough
  <1>8. MemoryIs'
    BY <1>1, <1>2 DEF SumInvariant, MemoryIs, ReduceSum
  <1> QED
    BY <1>5, <1>6, <1>7, <1>8 DEF SumInvariant

\* A call that stores was not through yet, and adds its contribution.
LEMMA StoreAdds ==
    ASSUME SumInvariant, NEW w \in Workers, Store(w)
    PROVE  LET call == <<running[w], pass[w]>> IN
           /\ call \in Calls /\ call \notin stored
           /\ memory' \in [1..Accumulators -> Int]
           /\ ReduceSum(memory') = ReduceSum(memory) + Amount[call]
           /\ stored' = stored \cup {call}
  <1> DEFINE g == running[w]
             p == pass[w]
  <1>1. g \in Gangs /\ p \in 1..Passes
    BY DEF Store, SumInvariant, SumTypes
  <1>2. <<g, p>> \in Calls
    BY <1>1 DEF Calls
  <1>3. <<g, p>> \notin stored
    <2>1. ~CallIsThrough(<<g, p>>)
      BY <1>1 DEF CallIsThrough
    <2> QED
      BY <2>1 DEF SumInvariant, StoredAre
  <1>4. loaded[w] = memory
    BY DEF Store, SumInvariant, ReadsAreFresh
  <1>5. memory' = Result(memory, g, p)
    BY <1>4 DEF Store, StoredValue
  <1>6. Amount[<<g, p>>] = Contribution(<<g, p>>)
    BY <1>2 DEF Amount
  <1>7. /\ Result(memory, g, p) \in [1..Accumulators -> Int]
        /\ ReduceSum(Result(memory, g, p)) = ReduceSum(memory) + Contribution(<<g, p>>)
    <2>1. ActiveIs /\ api \in {"atomic_add", "abs_diff"} /\ memory \in [1..Accumulators -> Int]
      BY DEF SumInvariant, SumTypes
    <2> HIDE DEF g, p
    <2> QED
      BY <1>1, <2>1, ResultAdds
  <1>8. stored' = stored \cup {<<g, p>>}
    BY DEF Store
  <1> QED
    BY <1>2, <1>3, <1>5, <1>6, <1>7, <1>8

LEMMA StoreKeeps ==
    ASSUME OneThread, SumInvariant, NEW w \in Workers, Store(w)
    PROVE  SumInvariant'
  <1> DEFINE g == running[w]
             p == pass[w]
             done == <<g, p>>
  <1>1. api' = api /\ active' = active /\ todo' = todo
    BY DEF Store
  <1>2. Amount' = Amount /\ Accumulators' = Accumulators /\ ActiveIs'
    BY <1>1, AmountStays DEF SumInvariant, SumTypes
  <1>3. g \in Gangs /\ g # Idle /\ p \in 1..Passes /\ g \notin todo
    BY DEF Store, SumInvariant, SumTypes, ReadsAreFresh
  <1>4. \A v \in Workers : v = w
    BY DEF OneThread
  <1>5. /\ done \in Calls /\ done \notin stored
        /\ memory' \in [1..Accumulators -> Int]
        /\ ReduceSum(memory') = ReduceSum(memory) + Amount[done]
        /\ stored' = stored \cup {done}
    BY StoreAdds
  <1>6. /\ p < Passes => running' = running /\ pass' = [pass EXCEPT ![w] = p + 1]
        /\ ~(p < Passes) => running' = [running EXCEPT ![w] = Idle] /\ pass' = pass
    BY DEF Store
  <1>7. loaded' = [loaded EXCEPT ![w] = << >>]
    BY DEF Store
  <1>8. SumTypes'
    <2>1. loaded' = [v \in Workers |-> loaded'[v]]
      BY <1>7 DEF SumInvariant, SumTypes
    <2>2. pass' \in [Workers -> 1..Passes]
      <3>1. p < Passes => p + 1 \in 1..Passes
        BY <1>3, ReductionsAssumption
      <3> HIDE DEF p
      <3> QED
        BY <1>6, <3>1 DEF SumInvariant, SumTypes
    <2>3. running' \in [Workers -> Gangs \cup {Idle}]
      BY <1>6 DEF SumInvariant, SumTypes
    <2> QED
      BY <1>1, <1>2, <1>5, <2>1, <2>2, <2>3 DEF SumInvariant, SumTypes
  <1>9. ReadsAreFresh'
    <2>1. loaded'[w] = << >>
      BY <1>7 DEF SumInvariant, SumTypes
    <2>2. running'[w] = g \/ running'[w] = Idle
      BY <1>6 DEF SumInvariant, SumTypes
    <2> QED
      BY <1>1, <1>3, <1>4, <2>1, <2>2 DEF ReadsAreFresh
  <1>10. StoredAre'
    <2>1. ASSUME NEW call \in Calls
          PROVE  CallIsThrough(call)' <=> CallIsThrough(call) \/ call = done
      <3>1. /\ call[1] \in Gangs /\ call[1] # Idle /\ call[2] \in Int
            /\ call[2] <= Passes /\ call = <<call[1], call[2]>>
        BY ReductionsAssumption DEF Calls
      <3>2. CallIsThrough(call) <=> call[1] \notin todo /\ (g = call[1] => call[2] < p)
        BY <1>4 DEF CallIsThrough
      <3>3. call = done <=> call[1] = g /\ call[2] = p
        BY <3>1
      <3>4. CASE p < Passes
        <4>1. running'[w] = g /\ pass'[w] = p + 1
          BY <1>6, <3>4 DEF SumInvariant, SumTypes
        <4>2. CallIsThrough(call)' <=>
                  call[1] \notin todo /\ (g = call[1] => call[2] < p + 1)
          BY <1>1, <1>4, <4>1 DEF CallIsThrough
        <4> HIDE DEF g, p, done
        <4> QED
          BY <1>3, <3>1, <3>2, <3>3, <4>2
      <3>5. CASE ~(p < Passes)
        <4>1. running'[w] = Idle
          BY <1>6, <3>5 DEF SumInvariant, SumTypes
        <4>2. CallIsThrough(call)' <=> call[1] \notin todo
          BY <1>1, <1>4, <3>1, <4>1 DEF CallIsThrough
        <4>3. p = Passes
          BY <1>3, <3>5, ReductionsAssumption
        <4> HIDE DEF g, p, done
        <4> QED
          BY <1>3, <3>1, <3>2, <3>3, <4>2, <4>3
      <3> QED
        BY <3>4, <3>5
    <2>2. stored = {call \in Calls : CallIsThrough(call)}
      BY DEF SumInvariant, StoredAre
    <2> HIDE DEF done
    <2>3. stored' = {call \in Calls : CallIsThrough(call)'}
      BY <1>5, <2>1, <2>2
    <2> QED
      BY <2>3 DEF StoredAre
  <1>11. MemoryIs'
    <2>1. stored \in SUBSET Calls
      BY DEF SumInvariant, StoredAre
    <2>2. Amount \in [Calls -> Int]
      BY AmountType DEF SumInvariant
    <2> HIDE DEF done
    <2>3. SumAt(Amount, stored \cup {done}) = SumAt(Amount, stored) + Amount[done]
      BY <1>5, <2>1, <2>2, CallsFinite, SumAtOneMore
    <2>4. ReduceSum(memory') = SumAt(Amount, stored')
      BY <1>5, <2>3 DEF SumInvariant, MemoryIs
    <2> QED
      BY <1>2, <2>4 DEF MemoryIs, ReduceSum
  <1> QED
    BY <1>8, <1>9, <1>10, <1>11 DEF SumInvariant

LEMMA SumStutterKeeps ==
    ASSUME SumInvariant, UNCHANGED sumVars
    PROVE  SumInvariant'
  <1>1. /\ api' = api /\ active' = active /\ memory' = memory /\ stored' = stored
        /\ todo' = todo /\ running' = running /\ pass' = pass /\ loaded' = loaded
    BY DEF sumVars
  <1>2. Amount' = Amount /\ Accumulators' = Accumulators /\ ActiveIs'
    BY <1>1, AmountStays DEF SumInvariant, SumTypes
  <1>3. SumTypes'
    BY <1>1, <1>2 DEF SumInvariant, SumTypes
  <1>4. ReadsAreFresh' /\ StoredAre'
    BY <1>1 DEF SumInvariant, ReadsAreFresh, StoredAre, CallIsThrough
  <1>5. MemoryIs'
    BY <1>1, <1>2 DEF SumInvariant, MemoryIs, ReduceSum
  <1> QED
    BY <1>3, <1>4, <1>5 DEF SumInvariant

\* The inductive invariant of the reductions, run by one thread: what a call
\* has loaded is what the location holds, and the location holds the sum of
\* the calls that are through.
THEOREM SumsInvariant == OneThread => (SumSpec => []SumInvariant)
  <1> SUFFICES ASSUME OneThread
               PROVE  SumSpec => []SumInvariant
    OBVIOUS
  <1>1. SumInit => SumInvariant
    BY SumInitHolds
  <1>2. SumInvariant /\ [SumNext]_sumVars => SumInvariant'
    BY TakeKeeps, LoadKeeps, StoreKeeps, SumStutterKeeps DEF SumNext, SumDone
  <1> QED
    BY <1>1, <1>2, PTL DEF SumSpec

\* When the last gang has ended, the location holds what the active lanes of
\* every call add up to, by psim_atomic_add_local and by AddAbsDiff, whatever
\* the gang size, the masks and the values, as long as one thread runs the
\* gangs: several lose updates, for the load and the store are separate.
THEOREM SumIsRightHolds == OneThread => (SumSpec => []SumIsRight)
  <1>1. ASSUME SumInvariant
        PROVE  SumIsRight
    <2> SUFFICES ASSUME Completed
                 PROVE  ReduceSum(memory) = SumFunction(Amount)
      BY DEF SumIsRight
    <2>1. \A call \in Calls : call[1] # Idle
      BY ReductionsAssumption DEF Calls
    <2>2. stored = Calls
      BY <1>1, <2>1 DEF Completed, SumInvariant, StoredAre, CallIsThrough
    <2>3. [call \in Calls |-> Amount[call]] = Amount
      BY DEF Amount
    <2> QED
      BY <1>1, <2>2, <2>3 DEF SumInvariant, MemoryIs, SumAt
  <1> QED
    BY <1>1, SumsInvariant, PTL

\* Each store of a call is one atomic addition of its contribution, and no
\* other step touches the sum: the reductions of one thread implement the
\* promise of README.md:152.
THEOREM ImplementsAtomicSumHolds == OneThread => (SumSpec => ImplementsAtomicSum)
  <1> SUFFICES ASSUME OneThread
               PROVE  SumSpec => ImplementsAtomicSum
    OBVIOUS
  <1>1. SumInit => Atomically!Init
    <2> SUFFICES ASSUME SumInit
                 PROVE  Atomically!Init
      OBVIOUS
    <2>1. SumInvariant
      BY SumInitHolds
    <2>2. Amount \in [Calls -> Int]
      BY <2>1, AmountType DEF SumInvariant
    <2>3. ReduceSum(memory) = 0
      <3>1. Accumulators \in Nat
        BY <2>1, AccumulatorsAre DEF SumInvariant
      <3> QED
        BY <3>1, ReduceSumZero DEF SumInit
    <2>4. Calls \ stored = Calls
      BY DEF SumInit
    <2> QED
      BY <2>2, <2>3, <2>4 DEF Atomically!Init
  <1>2. SumInvariant /\ [SumNext]_sumVars =>
            [Atomically!Next]_<<Amount, ReduceSum(memory), Calls \ stored>>
    <2> SUFFICES ASSUME SumInvariant, [SumNext]_sumVars
                 PROVE  \/ Atomically!Next
                        \/ UNCHANGED <<Amount, ReduceSum(memory), Calls \ stored>>
      OBVIOUS
    <2>1. ASSUME api' = api, active' = active, memory' = memory, stored' = stored
          PROVE  UNCHANGED <<Amount, ReduceSum(memory), Calls \ stored>>
      BY <2>1, AmountStays DEF ReduceSum
    <2>2. ASSUME NEW w \in Workers, Store(w)
          PROVE  Atomically!Next
      <3> DEFINE call == <<running[w], pass[w]>>
      <3>1. /\ call \in Calls /\ call \notin stored
            /\ ReduceSum(memory') = ReduceSum(memory) + Amount[call]
            /\ stored' = stored \cup {call}
        BY <2>2, StoreAdds
      <3>2. Amount' = Amount
        BY <2>2, AmountStays DEF Store
      <3> HIDE DEF call
      <3>3. Calls \ stored' = (Calls \ stored) \ {call}
        BY <3>1
      <3>4. (ReduceSum(memory))' = ReduceSum(memory) + Amount[call]
        BY <3>1 DEF ReduceSum
      <3>5. Atomically!Add(call)
        BY <3>1, <3>2, <3>3, <3>4 DEF Atomically!Add
      <3> QED
        BY <3>1, <3>5 DEF Atomically!Next
    <2>3. CASE \E w \in Workers, g \in todo : Take(w, g)
      BY <2>1, <2>3 DEF Take
    <2>4. CASE \E w \in Workers : Load(w)
      BY <2>1, <2>4 DEF Load
    <2>5. CASE \E w \in Workers : Store(w)
      BY <2>2, <2>5
    <2>6. CASE UNCHANGED sumVars
      BY <2>1, <2>6 DEF sumVars
    <2> QED
      BY <2>3, <2>4, <2>5, <2>6 DEF SumNext, SumDone
  <1> QED
    BY <1>1, <1>2, SumsInvariant, PTL DEF SumSpec, ImplementsAtomicSum, Atomically!Spec

-----------------------------------------------------------------------------
(* Words *)

\* One more bit doubles the number of words.
LEMMA Power ==
    ASSUME NEW n \in Nat
    PROVE  /\ 2^n \in Nat /\ 2^n > 0
           /\ 2^(n + 1) = 2 * 2^n
  <1> DEFINE S == 1..n
             T == 1..(n + 1)
             Old == SUBSET S
             New == {X \in SUBSET T : n + 1 \in X}
  <1>1. IsFiniteSet(S) /\ Cardinality(S) = n /\ IsFiniteSet(T) /\ Cardinality(T) = n + 1
    BY FS_Interval
  <1>2. T = S \cup {n + 1} /\ n + 1 \notin S
    OBVIOUS
  <1> HIDE DEF S, T
  <1>3. IsFiniteSet(Old) /\ Cardinality(Old) = 2^n
    BY <1>1, FS_SUBSET
  <1>4. Cardinality(SUBSET T) = 2^(n + 1)
    BY <1>1, FS_SUBSET
  <1>5. Cardinality(Old) \in Nat /\ Cardinality(Old) # 0
    BY <1>3, FS_CardinalityType, FS_EmptySet
  <1>6. SUBSET T = Old \cup New /\ Old \cap New = {}
    BY <1>2
  <1> DEFINE f == [X \in Old |-> X \cup {n + 1}]
  <1>7. f \in Surjection(Old, New) /\ f \in Injection(Old, New)
    <2>1. \A X \in Old : f[X] \in New
      BY <1>2
    <2>2. f \in [Old -> New]
      BY <2>1
    <2>3. \A Y \in New : \E X \in Old : f[X] = Y
      <3> TAKE Y \in New
      <3>1. Y \ {n + 1} \in Old /\ (Y \ {n + 1}) \cup {n + 1} = Y
        BY <1>2
      <3> QED
        BY <3>1
    <2>4. \A X, Y \in Old : f[X] = f[Y] => X = Y
      <3> TAKE X \in Old, Y \in Old
      <3> HAVE f[X] = f[Y]
      <3>1. X \cup {n + 1} = Y \cup {n + 1} /\ n + 1 \notin X /\ n + 1 \notin Y
        BY <1>2
      <3> QED
        BY <3>1
    <2> HIDE DEF f, Old, New
    <2> QED
      BY <2>2, <2>3, <2>4 DEF Surjection, Injection, IsInjective
  <1> HIDE DEF Old, New, f
  <1>8. IsFiniteSet(New) /\ Cardinality(New) = Cardinality(Old)
    BY <1>3, <1>7, FS_Surjection
  <1>9. Cardinality(Old \cup New) = Cardinality(Old) + Cardinality(New) - Cardinality(Old \cap New)
    BY <1>3, <1>8, FS_Union
  <1>10. Cardinality({}) = 0
    BY FS_EmptySet
  <1> DEFINE p == 2^n
             q == 2^(n + 1)
             c == Cardinality(Old)
  <1>11. q = c + c - 0 /\ p = c /\ c \in Nat /\ c # 0
    BY <1>3, <1>4, <1>5, <1>6, <1>8, <1>9, <1>10
  <1> HIDE DEF p, q, c
  <1>12. p \in Nat /\ p > 0 /\ q = 2 * p
    BY <1>11
  <1> QED
    BY <1>12 DEF p, q

\* No bits, one word.
LEMMA PowerZero == 2^0 = 1
  OBVIOUS

\* A smaller power divides a larger one.
LEMMA PowerDivides ==
    ASSUME NEW m \in Nat, NEW n \in Nat, m <= n
    PROVE  \E q \in Nat \ {0} : 2^n = 2^m * q
  <1> DEFINE Bad == {d \in Nat : ~\E q \in Nat \ {0} : 2^(m + d) = 2^m * q}
  <1>1. ASSUME Bad # {}
        PROVE  FALSE
    <2>1. PICK d \in Bad : \A e \in Bad : d <= e
      <3>1. Bad \in SUBSET Nat
        OBVIOUS
      <3> HIDE DEF Bad
      <3> QED
        BY <1>1, <3>1, LeastNat
    <2>2. CASE d = 0
      <3>1. m + d = m /\ 2^m \in Nat
        BY <2>2, Power
      <3>2. 2^(m + d) = 2^m * 1
        BY <3>1
      <3> QED
        BY <2>1, <3>2
    <2>3. CASE d # 0
      <3> DEFINE e == d - 1
      <3>1. e \in Nat /\ e \notin Bad /\ m + d = (m + e) + 1 /\ m + e \in Nat
        BY <2>1, <2>3
      <3> HIDE DEF e
      <3>2. PICK q \in Nat \ {0} : 2^(m + e) = 2^m * q
        BY <3>1
      <3>3. 2^(m + d) = 2 * 2^(m + e)
        BY <3>1, Power
      <3>4. 2^m \in Nat
        BY Power
      <3> DEFINE p == 2^m
                 r == 2^(m + d)
      <3>5. r = 2 * (p * q) /\ p \in Nat
        BY <3>2, <3>3, <3>4
      <3> HIDE DEF p, r
      <3>6. r = p * (2 * q) /\ 2 * q \in Nat \ {0}
        BY <3>5
      <3> QED
        BY <2>1, <3>6 DEF p, r
    <2> QED
      BY <2>2, <2>3
  <1>2. n - m \in Nat /\ m + (n - m) = n
    OBVIOUS
  <1>3. n - m \notin Bad
    BY <1>1
  <1> QED
    BY <1>2, <1>3
\* Words are the numbers below 2^n.
LEMMA WordIs ==
    ASSUME NEW n \in Nat
    PROVE  \A z : z \in Words(n) <=> z \in Nat /\ z < 2^n
  <1>1. 2^n \in Nat
    BY Power
  <1> DEFINE p == 2^n
  <1>2. p \in Nat
    BY <1>1
  <1> HIDE DEF p
  <1>3. \A z : z \in 0..(p - 1) <=> z \in Nat /\ z < p
    BY <1>2
  <1> QED
    BY <1>3 DEF Words, p

\* x and y are the same word of n bits.
Same(x, y, n) == x \in Int /\ y \in Int /\ \E k \in Int : x = y + 2^n * k

\* Equality modulo 2^n is symmetric,
LEMMA SameWord ==
    ASSUME NEW n \in Nat, NEW x, NEW y, Same(x, y, n)
    PROVE  Same(y, x, n)
  <1> DEFINE p == 2^n
  <1>1. p \in Nat
    BY Power
  <1>2. PICK k \in Int : x = y + p * k
    BY DEF Same
  <1> HIDE DEF p
  <1>3. -k \in Int /\ p * (-k) = -(p * k) /\ p * k \in Int
    BY <1>1
  <1>4. y = x + p * (-k)
    BY <1>2, <1>3 DEF Same
  <1> QED
    BY <1>3, <1>4 DEF Same, p

\* transitive
LEMMA SameSame ==
    ASSUME NEW n \in Nat, NEW x, NEW y, NEW z, Same(x, y, n), Same(y, z, n)
    PROVE  Same(x, z, n)
  <1> DEFINE p == 2^n
  <1>1. p \in Nat
    BY Power
  <1>2. PICK k \in Int : x = y + p * k
    BY DEF Same
  <1>3. PICK j \in Int : y = z + p * j
    BY DEF Same
  <1> HIDE DEF p
  <1>4. j + k \in Int /\ p * (j + k) = p * j + p * k /\ p * j \in Int /\ p * k \in Int
    BY <1>1
  <1>5. x = z + p * (j + k)
    BY <1>2, <1>3, <1>4 DEF Same
  <1> QED
    BY <1>4, <1>5 DEF Same, p

\* and reflexive.
LEMMA SameSelf ==
    ASSUME NEW n \in Nat, NEW x \in Int
    PROVE  Same(x, x, n)
  <1> DEFINE p == 2^n
  <1>1. p \in Nat
    BY Power
  <1> HIDE DEF p
  <1>2. x = x + p * 0
    BY <1>1
  <1> QED
    BY <1>2 DEF Same, p

\* Sums and differences modulo 2^n.
LEMMA SameSums ==
    ASSUME NEW n \in Nat, NEW x, NEW y, NEW u, NEW v, Same(x, y, n), Same(u, v, n)
    PROVE  Same(x + u, y + v, n) /\ Same(x - u, y - v, n)
  <1> DEFINE p == 2^n
  <1>1. p \in Nat
    BY Power
  <1>2. PICK k \in Int : x = y + p * k
    BY DEF Same
  <1>3. PICK j \in Int : u = v + p * j
    BY DEF Same
  <1> HIDE DEF p
  <1>4. /\ k + j \in Int /\ k - j \in Int /\ p * j \in Int /\ p * k \in Int
        /\ p * (k + j) = p * k + p * j /\ p * (k - j) = p * k - p * j
    BY <1>1
  <1>5. x \in Int /\ y \in Int /\ u \in Int /\ v \in Int
    BY DEF Same
  <1>6. x + u = (y + v) + p * (k + j) /\ x - u = (y - v) + p * (k - j)
    BY <1>2, <1>3, <1>4, <1>5
  <1>7. x + u \in Int /\ y + v \in Int /\ x - u \in Int /\ y - v \in Int
    BY <1>5
  <1>8. /\ \E i \in Int : x + u = (y + v) + p * i
        /\ \E i \in Int : x - u = (y - v) + p * i
    BY <1>4, <1>6, Zenon
  <1> QED
    BY <1>7, <1>8, Zenon DEF Same, p

\* Products modulo 2^n.
LEMMA SameProducts ==
    ASSUME NEW n \in Nat, NEW x, NEW y, NEW m \in Int, Same(x, y, n)
    PROVE  Same(x * m, y * m, n)
  <1> DEFINE p == 2^n
  <1>1. p \in Nat
    BY Power
  <1>2. PICK k \in Int : x = y + p * k
    BY DEF Same
  <1> HIDE DEF p
  <1> DEFINE d == p * k
  <1>3. d \in Int /\ d * m = p * (k * m) /\ k * m \in Int
    BY <1>1
  <1> HIDE DEF d
  <1>4. x \in Int /\ y \in Int /\ x = y + d
    BY <1>2 DEF Same, d
  <1>5. (y + d) * m = y * m + d * m /\ x * m \in Int /\ y * m \in Int
    BY <1>3, <1>4
  <1>6. x * m = y * m + p * (k * m)
    BY <1>3, <1>4, <1>5
  <1> QED
    BY <1>3, <1>5, <1>6 DEF Same, p

\* Cut is the word that a number equals modulo 2^n.
LEMMA CutIs ==
    ASSUME NEW n \in Nat, NEW x \in Int
    PROVE  Cut(x, n) \in Words(n) /\ Cut(x, n) \in Int /\ Same(Cut(x, n), x, n)
  <1> DEFINE p == 2^n
             q == x \div p
             r == x % p
  <1>1. p \in Nat /\ p > 0
    BY Power
  <1> HIDE DEF p
  <1>2. q \in Int /\ r \in Int /\ x = p * q + r /\ 0 <= r /\ r < p
    BY <1>1, DivMod
  <1> HIDE DEF q, r
  <1>3. p * (-q) = -(p * q) /\ p * q \in Int /\ -q \in Int
    BY <1>1, <1>2
  <1>4. r = x + p * (-q)
    BY <1>2, <1>3
  <1>5. r \in Nat /\ r < p
    BY <1>2
  <1> QED
    BY <1>2, <1>3, <1>4, <1>5, WordIs DEF Cut, Same, p, r

\* There is one such word.
LEMMA SameCut ==
    ASSUME NEW n \in Nat, NEW x, NEW z \in Words(n), Same(x, z, n)
    PROVE  Cut(x, n) = z
  <1> DEFINE p == 2^n
  <1>1. p \in Nat /\ p > 0 /\ z \in Nat /\ z < p
    BY Power, WordIs
  <1>2. PICK k \in Int : x = z + p * k
    BY DEF Same
  <1>3. x % p = Cut(x, n)
    BY DEF Cut
  <1> HIDE DEF p
  <1>4. x = p * k + z
    <2>1. p * k \in Int
      BY <1>1
    <2> QED
      BY <1>1, <1>2, <2>1
  <1>5. (p * k + z) % p = z
    BY <1>1, QuotientIs
  <1> QED
    BY <1>3, <1>4, <1>5

\* The same word, cut.
LEMMA CutSame ==
    ASSUME NEW n \in Nat, NEW x, NEW y, Same(x, y, n)
    PROVE  Cut(x, n) = Cut(y, n)
  <1>1. Cut(y, n) \in Words(n) /\ Same(Cut(y, n), y, n)
    BY CutIs DEF Same
  <1>2. Same(y, Cut(y, n), n)
    BY <1>1, SameWord
  <1>3. Same(x, Cut(y, n), n)
    BY <1>2, SameSame
  <1> QED
    BY <1>1, <1>3, SameCut

\* A word is cut to itself.
LEMMA CutWord ==
    ASSUME NEW n \in Nat, NEW z \in Words(n)
    PROVE  Cut(z, n) = z
  <1>1. z \in Int
    BY WordIs
  <1> QED
    BY <1>1, SameSelf, SameCut
-----------------------------------------------------------------------------
(* The value of a shape *)

\* A shape of words of n bits.
IndexedShape(s, n) ==
    /\ s.type = "indexed" /\ s.width = n /\ n \in Nat \ {0}
    /\ s.base \subseteq Words(n) /\ s.idx \in [Lanes -> Words(n)]

\* What the lanes have in v is what the shape promises (ShapesHold).
Describes(s, v) == \E x \in s.base : \A l \in Lanes : v[l] = AtLane(s, x, l)

\* What a lane has is its index behind the base, modulo 2^n.
LEMMA AtLaneIs ==
    ASSUME NEW n, NEW s, IndexedShape(s, n), NEW x \in s.base, NEW l \in Lanes
    PROVE  /\ n \in Nat /\ x \in Words(n) /\ s.idx[l] \in Words(n)
           /\ x \in Int /\ s.idx[l] \in Int
           /\ AtLane(s, x, l) = Cut(x + s.idx[l], n)
           /\ AtLane(s, x, l) \in Words(n) /\ AtLane(s, x, l) \in Int
           /\ Same(AtLane(s, x, l), x + s.idx[l], n)
  <1>1. n \in Nat /\ x \in Words(n) /\ s.idx[l] \in Words(n)
    BY DEF IndexedShape
  <1>2. x \in Int /\ s.idx[l] \in Int
    BY <1>1, WordIs
  <1>3. x + s.idx[l] \in Int
    BY <1>2
  <1>4. AtLane(s, x, l) = Cut(x + s.idx[l], n)
    BY DEF AtLane, IndexedShape
  <1> QED
    BY <1>1, <1>2, <1>3, <1>4, CutIs

\* An index that makes up for the rounding of base and index describes v.
LEMMA IndexedIs ==
    ASSUME NEW n \in Nat \ {0}, NEW B0 \in SUBSET Words(n), NEW base \in B0,
           NEW idx \in [Lanes -> Words(n)], NEW v,
           \A l \in Lanes : v[l] \in Words(n) /\ Same(base + idx[l], v[l], n)
    PROVE  /\ IndexedShape(Indexed(B0, idx, n), n)
           /\ Describes(Indexed(B0, idx, n), v)
  <1> DEFINE s == Indexed(B0, idx, n)
  <1>1. /\ s.type = "indexed" /\ s.width = n /\ s.base = B0 /\ s.idx = idx
    BY DEF Indexed
  <1> HIDE DEF s
  <1>2. \A l \in Lanes : v[l] = AtLane(s, base, l)
    <2> TAKE l \in Lanes
    <2>1. AtLane(s, base, l) = Cut(base + idx[l], n)
      BY <1>1 DEF AtLane
    <2>2. Cut(base + idx[l], n) = v[l]
      BY SameCut
    <2> QED
      BY <2>1, <2>2
  <1>3. IndexedShape(s, n) /\ Describes(s, v)
    BY <1>1, <1>2 DEF IndexedShape, Describes
  <1> QED
    BY <1>3 DEF s

\* Bases known: the indices are the differences from the base.
LEMMA KnownIs ==
    ASSUME NEW n \in Nat \ {0}, NEW base \in Words(n), NEW v \in [Lanes -> Words(n)]
    PROVE  /\ IndexedShape(Known(base, v, n), n)
           /\ Describes(Known(base, v, n), v)
  <1> DEFINE B0 == {base}
             idx == [l \in Lanes |-> Cut(v[l] - base, n)]
  <1>1. \A l \in Lanes : v[l] \in Int /\ base \in Int /\ v[l] - base \in Int
    BY WordIs
  <1>2. idx \in [Lanes -> Words(n)]
    BY <1>1, CutIs
  <1>3. \A l \in Lanes : Same(base + idx[l], v[l], n)
    <2> TAKE l \in Lanes
    <2>1. Same(Cut(v[l] - base, n), v[l] - base, n)
      BY <1>1, CutIs
    <2>2. Same(base, base, n)
      BY <1>1, SameSelf
    <2>3. Same(base + Cut(v[l] - base, n), base + (v[l] - base), n)
      BY <2>1, <2>2, SameSums
    <2>4. base + (v[l] - base) = v[l]
      BY <1>1
    <2> QED
      BY <2>3, <2>4
  <1>4. B0 \in SUBSET Words(n) /\ base \in B0
    OBVIOUS
  <1>5. Known(base, v, n) = Indexed(B0, idx, n)
    BY DEF Known
  <1> HIDE DEF B0, idx
  <1> QED
    BY <1>2, <1>3, <1>4, <1>5, IndexedIs
-----------------------------------------------------------------------------
(* Bits *)

\* One level of the recursion of AndOf.
AndStep(f, x, y) ==
    IF x = 0 THEN 0 ELSE 2 * f[x \div 2][y \div 2] + (x % 2) * (y % 2)

\* f is AndOf for words x below m.
AndUpTo(f, m) ==
    \A x, y \in Words(MaxWidth) : x < m => f[x][y] = AndStep(f, x, y)

\* Halves of natural numbers.
LEMMA Half ==
    ASSUME NEW x \in Nat
    PROVE  /\ x \div 2 \in Nat /\ x % 2 \in {0, 1} /\ x = 2 * (x \div 2) + (x % 2)
           /\ x # 0 => x \div 2 < x
           /\ x \div 2 <= x
  OBVIOUS

\* Half a word is a word.
LEMMA HalfWord ==
    ASSUME NEW n \in Nat, NEW x \in Words(n)
    PROVE  x \in Nat /\ x \div 2 \in Words(n)
  <1>1. x \in Nat /\ x < 2^n /\ 2^n \in Nat
    BY WordIs, Power
  <1> DEFINE p == 2^n
             h == x \div 2
  <1>2. h \in Nat /\ h <= x
    BY <1>1, Half
  <1>3. p \in Nat /\ x < p
    BY <1>1
  <1> HIDE DEF p, h
  <1>4. h < p
    BY <1>1, <1>2, <1>3
  <1> QED
    BY <1>1, <1>2, <1>4, WordIs DEF p, h

\* The recursion of AndOf has a solution for the words below any bound.
LEMMA AndUpToEach ==
    ASSUME MaxWidth \in Nat, NEW m \in Nat
    PROVE  \E f : AndUpTo(f, m)
  <1> DEFINE W == Words(MaxWidth)
             Bad == {k \in Nat : ~\E f : AndUpTo(f, k)}
  <1>w. \A x \in W : x \in Nat /\ x \div 2 \in W /\ x \div 2 <= x /\ (x # 0 => x \div 2 < x)
    BY HalfWord, Half
  <1>1. ASSUME Bad # {}
        PROVE  FALSE
    <2>1. PICK k \in Bad : \A j \in Bad : k <= j
      <3>1. Bad \in SUBSET Nat
        OBVIOUS
      <3> HIDE DEF Bad
      <3> QED
        BY <1>1, <3>1, LeastNat
    <2>2. CASE k = 0
      <3> DEFINE f == {}
      <3>1. AndUpTo(f, k)
        BY <1>w, <2>2 DEF AndUpTo
      <3> QED
        BY <2>1, <3>1
    <2>3. CASE k # 0
      <3> DEFINE j == k - 1
      <3>1. j \in Nat /\ j \notin Bad
        BY <2>1, <2>3
      <3>2. PICK f : AndUpTo(f, j)
        BY <3>1
      <3> DEFINE g == [x \in W |-> [y \in W |-> IF x < j THEN f[x][y] ELSE AndStep(f, x, y)]]
      <3>3. \A x, y \in W : g[x][y] = IF x < j THEN f[x][y] ELSE AndStep(f, x, y)
        OBVIOUS
      <3> HIDE DEF g, W
      <3>4. \A x, y \in W : x < j => f[x][y] = AndStep(f, x, y)
        BY <3>2 DEF AndUpTo, W
      <3>5. ASSUME NEW x \in W, NEW y \in W, x < k
            PROVE  g[x][y] = AndStep(g, x, y)
        <4>1. g[x][y] = AndStep(f, x, y)
          BY <3>3, <3>4
        <4>2. CASE x = 0
          BY <4>1, <4>2 DEF AndStep
        <4>3. CASE x # 0
          <5>1. x \div 2 \in W /\ y \div 2 \in W /\ x \div 2 < j
            BY <1>w, <3>1, <3>5, <4>3
          <5>2. g[x \div 2][y \div 2] = f[x \div 2][y \div 2]
            BY <3>3, <5>1
          <5> QED
            BY <4>1, <5>2 DEF AndStep
        <4> QED
          BY <4>2, <4>3
      <3>6. AndUpTo(g, k)
        BY <3>5 DEF AndUpTo, W
      <3> QED
        BY <2>1, <3>6
    <2> QED
      BY <2>2, <2>3
  <1> QED
    BY <1>1

\* AndOf is what its recursion says.
LEMMA AndOfIs ==
    ASSUME MaxWidth \in Nat
    PROVE  \A x, y \in Words(MaxWidth) : And(x, y) = AndStep(AndOf, x, y)
  <1> DEFINE W == Words(MaxWidth)
             p == 2^MaxWidth
             Of(f) == [x \in W |-> [y \in W |-> AndStep(f, x, y)]]
             R(f) == f = Of(f)
  <1>1. p \in Nat
    BY Power
  <1>2. PICK f : AndUpTo(f, p)
    BY <1>1, AndUpToEach
  <1>3. \A x, y \in W : f[x][y] = AndStep(f, x, y)
    BY <1>2, WordIs DEF AndUpTo
  <1>w. \A x \in W : x \div 2 \in W
    BY HalfWord
  <1> DEFINE g == [x \in W |-> [y \in W |-> f[x][y]]]
  <1>4. \A x, y \in W : g[x][y] = f[x][y]
    OBVIOUS
  <1>5. \A x, y \in W : AndStep(g, x, y) = AndStep(f, x, y)
    <2> HIDE DEF g, W
    <2> QED
      BY <1>4, <1>w DEF AndStep
  <1>6. R(g)
    <2>1. \A x, y \in W : f[x][y] = AndStep(g, x, y)
      BY <1>3, <1>5
    <2>2. \A x \in W : [y \in W |-> f[x][y]] = [y \in W |-> AndStep(g, x, y)]
      <3> HIDE DEF g, W
      <3> QED
        BY <2>1
    <2>3. [x \in W |-> [y \in W |-> f[x][y]]] = Of(g)
      <3> DEFINE h == g
                 s == [x \in W |-> [y \in W |-> f[x][y]]]
      <3>1. \A x \in W : [y \in W |-> f[x][y]] = [y \in W |-> AndStep(h, x, y)]
        BY <2>2
      <3> HIDE DEF h, W
      <3>2. s = [x \in W |-> [y \in W |-> AndStep(h, x, y)]]
        BY <3>1
      <3> QED
        BY <3>2 DEF h, W
    <2> QED
      BY <2>3
  <1>7. AndOf = CHOOSE r : R(r)
    BY DEF AndOf, AndStep
  <1>8. R(AndOf)
    <2> HIDE DEF R
    <2> QED
      BY <1>6, <1>7
  <1> HIDE DEF W
  <1>9. AndOf = Of(AndOf)
    BY <1>8
  <1>10. \A x, y \in W : Of(AndOf)[x][y] = AndStep(AndOf, x, y)
    OBVIOUS
  <1>11. \A x, y \in W : AndOf[x][y] = AndStep(AndOf, x, y)
    <2> HIDE DEF Of
    <2> QED
      BY <1>9, <1>10
  <1> QED
    BY <1>11 DEF And, W
\* The word of no bits.
LEMMA NoBits == \A z \in Words(0) : z = 0
  <1> DEFINE p == 2^0
  <1>1. p = 1 /\ \A z \in Words(0) : z \in Nat /\ z < p
    BY WordIs, PowerZero
  <1> HIDE DEF p
  <1> QED
    BY <1>1

\* Counting up to the whole of Nat.
LEMMA CountUp ==
    ASSUME NEW S, 0 \in S, \A k \in Nat : k \in S => k + 1 \in S
    PROVE  \A k \in Nat : k \in S
  <1> DEFINE Bad == {k \in Nat : k \notin S}
  <1>1. ASSUME Bad # {}
        PROVE  FALSE
    <2>1. PICK k \in Bad : \A j \in Bad : k <= j
      <3>1. Bad \in SUBSET Nat
        OBVIOUS
      <3> HIDE DEF Bad
      <3> QED
        BY <1>1, <3>1, LeastNat
    <2>2. k \in Nat /\ k # 0
      OBVIOUS
    <2>3. k - 1 \in Nat /\ k - 1 \notin Bad
      BY <2>1, <2>2
    <2>4. (k - 1) + 1 = k /\ k - 1 \in S
      BY <2>2, <2>3
    <2> QED
      BY <2>3, <2>4
  <1> QED
    BY <1>1

\* Words of fewer bits are words of more.
LEMMA FewerBits ==
    ASSUME NEW m \in Nat, NEW n \in Nat, m <= n
    PROVE  2^m <= 2^n /\ Words(m) \subseteq Words(n)
  <1> DEFINE p == 2^m
             q == 2^n
  <1>1. p \in Nat /\ q \in Nat /\ p > 0
    BY Power
  <1>2. PICK k \in Nat \ {0} : q = p * k
    BY PowerDivides
  <1> HIDE DEF p, q
  <1>3. p <= p * k
    <2>1. k - 1 \in Nat /\ p * k = p * (k - 1) + p /\ p * (k - 1) \in Nat
      BY <1>1
    <2> QED
      BY <1>1, <2>1
  <1>4. p <= q
    BY <1>2, <1>3
  <1>5. \A z : z \in Nat /\ z < p => z < q
    BY <1>1, <1>4
  <1> QED
    BY <1>4, <1>5, WordIs DEF p, q

\* The upper bits of a word, and its last bit.
LEMMA Halves ==
    ASSUME NEW n \in Nat, NEW x \in Words(n + 1)
    PROVE  /\ x \in Nat /\ x \div 2 \in Words(n) /\ x \div 2 \in Nat
           /\ x % 2 \in {0, 1} /\ x = 2 * (x \div 2) + (x % 2)
  <1>1. x \in Nat /\ x < 2 * 2^n /\ 2^n \in Nat
    BY WordIs, Power
  <1> DEFINE p == 2^n
             h == x \div 2
  <1>2. h \in Nat /\ x % 2 \in {0, 1} /\ x = 2 * h + (x % 2)
    BY <1>1, Half
  <1>3. p \in Nat /\ x < 2 * p
    BY <1>1
  <1> HIDE DEF p, h
  <1>4. h < p
    BY <1>1, <1>2, <1>3
  <1> QED
    BY <1>1, <1>2, <1>4, WordIs DEF p, h

\* Halves of sums.
LEMMA Doubled ==
    ASSUME NEW h \in Nat, NEW c \in {0, 1}
    PROVE  2 * h + c \in Nat /\ (2 * h + c) \div 2 = h /\ (2 * h + c) % 2 = c
  OBVIOUS

\* And of words of n bits, from the And of words of one bit less.
LEMMA AndHalves ==
    ASSUME MaxWidth \in Nat, NEW x \in Words(MaxWidth), NEW y \in Words(MaxWidth)
    PROVE  /\ x = 0 => And(x, y) = 0
           /\ And(x, y) = IF x = 0 THEN 0
                          ELSE 2 * And(x \div 2, y \div 2) + (x % 2) * (y % 2)
  <1>1. And(x, y) = AndStep(AndOf, x, y)
    BY AndOfIs
  <1> QED
    BY <1>1 DEF AndStep, And

\* The And of two words is no larger than either.
AndBounds(n) ==
    \A x, y \in Words(n) :
        /\ And(x, y) \in Nat /\ And(x, y) <= x /\ And(x, y) <= y
        /\ x + y - And(x, y) < 2^n

\* What two words have in common is no more than each, what they have together
\* a word.
LEMMA AndBounded ==
    ASSUME MaxWidth \in Nat, NEW n \in Nat, n <= MaxWidth
    PROVE  AndBounds(n)
  <1> DEFINE S == {k \in Nat : k <= MaxWidth => AndBounds(k)}
  <1>1. 0 \in S
    <2>1. \A x, y \in Words(0) : x = 0 /\ y = 0
      BY NoBits
    <2>2. 0 \in Words(MaxWidth)
      BY WordIs, Power
    <2>3. And(0, 0) = 0
      BY <2>2, AndHalves
    <2> QED
      BY <2>1, <2>3, PowerZero DEF AndBounds
  <1>2. ASSUME NEW k \in Nat, k \in S
        PROVE  k + 1 \in S
    <2> SUFFICES ASSUME k + 1 <= MaxWidth
                 PROVE  AndBounds(k + 1)
      OBVIOUS
    <2>1. AndBounds(k) /\ Words(k) \subseteq Words(MaxWidth) /\ Words(k + 1) \subseteq Words(MaxWidth)
      BY <1>2, FewerBits
    <2>p. 2^(k + 1) = 2 * 2^k /\ 2^k \in Nat /\ 2^k > 0
      BY Power
    <2>2. ASSUME NEW x \in Words(k + 1), NEW y \in Words(k + 1)
          PROVE  /\ And(x, y) \in Nat /\ And(x, y) <= x /\ And(x, y) <= y
                 /\ x + y - And(x, y) < 2^(k + 1)
      <3> DEFINE h == x \div 2
                 g == y \div 2
                 c == x % 2
                 d == y % 2
                 r == And(h, g)
                 p == 2^k
      <3>1. /\ x \in Nat /\ h \in Words(k) /\ h \in Nat /\ c \in {0, 1} /\ x = 2 * h + c
            /\ y \in Nat /\ g \in Words(k) /\ g \in Nat /\ d \in {0, 1} /\ y = 2 * g + d
        BY Halves
      <3>2. And(x, y) = IF x = 0 THEN 0 ELSE 2 * r + c * d
        BY <2>1, AndHalves
      <3>3. r \in Nat /\ r <= h /\ r <= g /\ h + g - r < p
        BY <2>1, <3>1 DEF AndBounds
      <3>4. p \in Nat /\ 2^(k + 1) = 2 * p
        BY <2>p
      <3>5. y < 2 * p
        BY <3>4, WordIs
      <3> HIDE DEF h, g, c, d, r, p
      <3>6. c * d \in {0, 1} /\ c * d <= c /\ c * d <= d /\ c + d - c * d <= 1
        BY <3>1
      <3> DEFINE e == c * d
                 s == And(x, y)
      <3>7. s = IF x = 0 THEN 0 ELSE 2 * r + e
        BY <3>2
      <3>8. e \in {0, 1} /\ e <= c /\ e <= d /\ c + d - e <= 1
        BY <3>6
      <3> HIDE DEF e, s
      <3>9. s \in Nat /\ s <= x /\ s <= y /\ x + y - s < 2 * p
        BY <3>1, <3>3, <3>4, <3>5, <3>7, <3>8
      <3> QED
        BY <3>4, <3>9 DEF s
    <2> QED
      BY <2>2 DEF AndBounds
  <1> HIDE DEF S
  <1>3. n \in S
    BY <1>1, <1>2, CountUp
  <1> QED
    BY <1>3 DEF S

\* The bits of a word and not those of another: what is left of it.
AndOfRest(n) ==
    \A x, y \in Words(n) : And(x, (2^n - 1) - y) = x - And(x, y)

\* The bits of one word are those in another and the rest.
LEMMA AndNot ==
    ASSUME MaxWidth \in Nat, NEW n \in Nat, n <= MaxWidth
    PROVE  AndOfRest(n)
  <1> DEFINE S == {k \in Nat : k <= MaxWidth => AndOfRest(k)}
  <1>1. 0 \in S
    <2>1. \A x, y \in Words(0) : x = 0 /\ y = 0
      BY NoBits
    <2>2. 0 \in Words(MaxWidth)
      BY WordIs, Power
    <2>3. And(0, 0) = 0
      BY <2>2, AndHalves
    <2> QED
      BY <2>1, <2>3, PowerZero DEF AndOfRest
  <1>2. ASSUME NEW k \in Nat, k \in S
        PROVE  k + 1 \in S
    <2> SUFFICES ASSUME k + 1 <= MaxWidth
                 PROVE  AndOfRest(k + 1)
      OBVIOUS
    <2>1. /\ AndOfRest(k) /\ Words(k + 1) \subseteq Words(MaxWidth)
          /\ Words(k) \subseteq Words(MaxWidth)
      BY <1>2, FewerBits
    <2>b. AndBounds(k)
      BY AndBounded
    <2>p. 2^(k + 1) = 2 * 2^k /\ 2^k \in Nat /\ 2^k > 0
      BY Power
    <2>2. ASSUME NEW x \in Words(k + 1), NEW y \in Words(k + 1)
          PROVE  And(x, (2^(k + 1) - 1) - y) = x - And(x, y)
      <3> DEFINE h == x \div 2
                 g == y \div 2
                 c == x % 2
                 d == y % 2
                 r == And(h, g)
                 p == 2^k
                 z == (2^(k + 1) - 1) - y
                 f == (p - 1) - g
      <3>1. /\ x \in Nat /\ h \in Words(k) /\ h \in Nat /\ c \in {0, 1} /\ x = 2 * h + c
            /\ y \in Nat /\ g \in Words(k) /\ g \in Nat /\ d \in {0, 1} /\ y = 2 * g + d
        BY Halves
      <3>2. And(x, y) = IF x = 0 THEN 0 ELSE 2 * r + c * d
        BY <2>1, AndHalves
      <3>3. And(h, f) = h - r
        BY <2>1, <3>1 DEF AndOfRest
      <3>4. p \in Nat /\ 2^(k + 1) = 2 * p /\ g < p
        BY <2>p, <3>1, WordIs
      <3>5. r \in Nat /\ r <= h
        BY <2>b, <3>1 DEF AndBounds
      <3> HIDE DEF h, g, c, d, r, p
      <3>6. z = 2 * f + (1 - d) /\ f \in Nat /\ 1 - d \in {0, 1}
        BY <3>1, <3>4
      <3>7. z \in Nat /\ z < 2 * p
        BY <3>1, <3>4
      <3>8. z \in Words(MaxWidth)
        BY <2>1, <3>4, <3>7, WordIs
      <3> HIDE DEF z, f
      <3>9. z \div 2 = f /\ z % 2 = 1 - d
        BY <3>6, Doubled
      <3>10. And(x, z) = IF x = 0 THEN 0 ELSE 2 * And(h, f) + c * (1 - d)
        BY <2>1, <3>8, <3>9, AndHalves DEF h, c
      <3>11. c * (1 - d) = c - c * d /\ c * d \in {0, 1}
        BY <3>1
      <3> DEFINE e == c * d
                 w == c * (1 - d)
                 s == And(x, y)
                 t == And(x, z)
      <3>12. /\ t = IF x = 0 THEN 0 ELSE 2 * (h - r) + w
             /\ s = IF x = 0 THEN 0 ELSE 2 * r + e
             /\ w = c - e /\ e \in {0, 1}
        BY <3>2, <3>3, <3>10, <3>11
      <3> HIDE DEF e, w, s, t
      <3>13. t = x - s
        BY <3>1, <3>5, <3>12
      <3> QED
        BY <3>13 DEF s, t, z
    <2> QED
      BY <2>2 DEF AndOfRest
  <1> HIDE DEF S
  <1>3. n \in S
    BY <1>1, <1>2, CountUp
  <1> QED
    BY <1>3 DEF S
\* Bits taken twice.
LEMMA AndTwice ==
    ASSUME MaxWidth \in Nat, NEW x \in Words(MaxWidth), NEW y \in Words(MaxWidth)
    PROVE  And(x, y) = 2 * And(x \div 2, y \div 2) + (x % 2) * (y % 2)
  <1>1. CASE x # 0
    BY <1>1, AndHalves
  <1>2. CASE x = 0
    <2>1. x \div 2 = 0 /\ x % 2 = 0
      BY <1>2
    <2>2. y \div 2 \in Words(MaxWidth) /\ y \in Nat
      BY HalfWord
    <2>3. And(x, y) = 0 /\ And(0, y \div 2) = 0
      BY <1>2, <2>2, AndHalves
    <2>4. y % 2 \in Nat
      BY <2>2, Half
    <2>5. (x % 2) * (y % 2) = 0
      <3> DEFINE d == y % 2
      <3>1. d \in Nat
        BY <2>4
      <3> HIDE DEF d
      <3>2. 0 * d = 0
        BY <3>1
      <3> QED
        BY <2>1, <3>2 DEF d
    <2> QED
      BY <2>1, <2>3, <2>5
  <1> QED
    BY <1>1, <1>2

AndSelf(n) == \A x \in Words(n) : And(x, x) = x

\* All bits of a word are bits of it.
LEMMA AndOfOne ==
    ASSUME MaxWidth \in Nat, NEW n \in Nat, n <= MaxWidth
    PROVE  AndSelf(n)
  <1> DEFINE S == {k \in Nat : k <= MaxWidth => AndSelf(k)}
  <1>1. 0 \in S
    <2>1. \A x \in Words(0) : x = 0
      BY NoBits
    <2>2. 0 \in Words(MaxWidth)
      BY WordIs, Power
    <2>3. And(0, 0) = 0
      BY <2>2, AndHalves
    <2> QED
      BY <2>1, <2>3 DEF AndSelf
  <1>2. ASSUME NEW k \in Nat, k \in S
        PROVE  k + 1 \in S
    <2> SUFFICES ASSUME k + 1 <= MaxWidth
                 PROVE  AndSelf(k + 1)
      OBVIOUS
    <2>1. AndSelf(k) /\ Words(k + 1) \subseteq Words(MaxWidth)
      BY <1>2, FewerBits
    <2>2. ASSUME NEW x \in Words(k + 1)
          PROVE  And(x, x) = x
      <3> DEFINE h == x \div 2
                 c == x % 2
      <3>1. x \in Nat /\ h \in Words(k) /\ h \in Nat /\ c \in {0, 1} /\ x = 2 * h + c
        BY Halves
      <3>2. And(x, x) = 2 * And(h, h) + c * c
        BY <2>1, AndTwice
      <3>3. And(h, h) = h
        BY <2>1, <3>1 DEF AndSelf
      <3> HIDE DEF h, c
      <3>4. c * c = c
        BY <3>1
      <3> QED
        BY <3>1, <3>2, <3>3, <3>4
    <2> QED
      BY <2>2 DEF AndSelf
  <1> HIDE DEF S
  <1>3. n \in S
    BY <1>1, <1>2, CountUp
  <1> QED
    BY <1>3 DEF S

\* The lower bits of a word: its remainder.
AndLow(k) ==
    \A z \in Words(MaxWidth) : And(z, 2^k - 1) = z % 2^k

\* The low bits of a word are its remainder.
LEMMA AndRemainder ==
    ASSUME MaxWidth \in Nat, NEW n \in Nat, n <= MaxWidth
    PROVE  AndLow(n)
  <1> DEFINE S == {k \in Nat : k <= MaxWidth => AndLow(k)}
  <1>1. 0 \in S
    <2> SUFFICES ASSUME NEW z \in Words(MaxWidth)
                 PROVE  And(z, 2^0 - 1) = z % 2^0
      BY DEF AndLow
    <2>1. z \in Nat /\ 0 \in Words(MaxWidth)
      BY WordIs, Power
    <2>2. And(z, 0) = 0
      <3>1. AndBounds(MaxWidth)
        BY AndBounded
      <3>2. And(z, 0) \in Nat /\ And(z, 0) <= 0
        BY <2>1, <3>1 DEF AndBounds
      <3> QED
        BY <3>2
    <2> DEFINE p == 2^0
    <2>3. p = 1
      BY PowerZero
    <2> HIDE DEF p
    <2>4. p - 1 = 0 /\ z % p = 0
      BY <2>1, <2>3
    <2> QED
      BY <2>2, <2>4 DEF p
  <1>2. ASSUME NEW k \in Nat, k \in S
        PROVE  k + 1 \in S
    <2> SUFFICES ASSUME k + 1 <= MaxWidth, NEW z \in Words(MaxWidth)
                 PROVE  And(z, 2^(k + 1) - 1) = z % 2^(k + 1)
      BY DEF AndLow
    <2>1. AndLow(k)
      BY <1>2
    <2> DEFINE p == 2^k
               q == 2^(k + 1)
               h == z \div 2
               c == z % 2
               y == q - 1
               r == h % p
               d == h \div p
    <2>2. p \in Nat /\ p > 0 /\ q = 2 * p /\ q <= 2^MaxWidth
      BY Power, FewerBits
    <2>3. z \in Nat /\ h \in Words(MaxWidth) /\ h \in Nat /\ c \in {0, 1} /\ z = 2 * h + c
      BY HalfWord, Half, WordIs
    <2>4. And(h, p - 1) = r
      BY <2>1, <2>3 DEF AndLow
    <2>5. q - 1 \in Nat /\ q - 1 < 2^MaxWidth
      <3> DEFINE w == 2^MaxWidth
      <3>1. w \in Nat /\ q <= w
        BY <2>2, Power
      <3> HIDE DEF w, p, q
      <3>2. q - 1 \in Nat /\ q - 1 < w
        BY <2>2, <3>1
      <3> QED
        BY <3>2 DEF w
    <2>6. q - 1 \in Words(MaxWidth)
      BY <2>5, WordIs
    <2>7. And(z, y) = 2 * And(h, y \div 2) + c * (y % 2)
      BY <2>6, AndTwice
    <2> HIDE DEF p, q, h, c
    <2>8. q - 1 = 2 * (p - 1) + 1 /\ p - 1 \in Nat
      BY <2>2
    <2>9. y \div 2 = p - 1 /\ y % 2 = 1
      BY <2>8, Doubled
    <2>10. d \in Nat /\ r \in Nat /\ h = p * d + r /\ r < p
      BY <2>2, <2>3, DivMod
    <2> HIDE DEF d, r
    <2>11. z = q * d + (2 * r + c)
      <3>1. (2 * p) * d = 2 * (p * d) /\ p * d \in Nat
        BY <2>2, <2>10
      <3> QED
        BY <2>2, <2>3, <2>10, <3>1
    <2>12. 2 * r + c \in Nat /\ 2 * r + c < q
      BY <2>2, <2>3, <2>10
    <2>13. z % q = 2 * r + c
      BY <2>2, <2>10, <2>11, <2>12, QuotientIs
    <2>14. c * 1 = c
      BY <2>3
    <2>15. And(z, y) = 2 * r + c
      BY <2>4, <2>7, <2>9, <2>14
    <2> QED
      BY <2>13, <2>15 DEF q
  <1> HIDE DEF S
  <1>3. n \in S
    BY <1>1, <1>2, CountUp
  <1> QED
    BY <1>3 DEF S

\* A word that shares no bit with its predecessor is a power of two.
PowersOfTwo(n) ==
    \A e \in Words(n) : e # 0 /\ And(e, e - 1) = 0 => \E k \in Nat : k < n /\ e = 2^k

\* A word that has no bit in common with its predecessor is 0 or a power of two.
LEMMA PowerOfTwoIs ==
    ASSUME MaxWidth \in Nat, NEW n \in Nat, n <= MaxWidth
    PROVE  PowersOfTwo(n)
  <1> DEFINE S == {k \in Nat : k <= MaxWidth => PowersOfTwo(k)}
  <1>1. 0 \in S
    BY NoBits DEF PowersOfTwo
  <1>2. ASSUME NEW k \in Nat, k \in S
        PROVE  k + 1 \in S
    <2> SUFFICES ASSUME k + 1 <= MaxWidth, NEW x \in Words(k + 1), x # 0, And(x, x - 1) = 0
                 PROVE  \E j \in Nat : j < k + 1 /\ x = 2^j
      BY DEF PowersOfTwo
    <2>1. /\ PowersOfTwo(k) /\ Words(k + 1) \subseteq Words(MaxWidth)
          /\ Words(k) \subseteq Words(MaxWidth)
      BY <1>2, FewerBits
    <2> DEFINE h == x \div 2
               c == x % 2
               y == x - 1
    <2>2. x \in Nat /\ h \in Words(k) /\ h \in Nat /\ c \in {0, 1} /\ x = 2 * h + c
      BY Halves
    <2>b. AndBounds(MaxWidth)
      BY AndBounded
    <2>3. y \in Nat /\ y \in Words(k + 1)
      <3> DEFINE p == 2^(k + 1)
      <3>1. p \in Nat /\ x < p
        BY Power, WordIs
      <3> HIDE DEF p
      <3>2. y \in Nat /\ y < p
        BY <2>2, <3>1
      <3> QED
        BY <3>2, WordIs DEF p
    <2>4. And(x, y) = 2 * And(h, y \div 2) + c * (y % 2)
      BY <2>1, <2>3, AndTwice
    <2>5. h \in Words(MaxWidth) /\ y \div 2 \in Words(MaxWidth)
      BY <2>1, <2>2, <2>3, HalfWord
    <2>6. And(h, y \div 2) \in Nat
      BY <2>b, <2>5 DEF AndBounds
    <2>7. CASE c = 0
      <3>1. h # 0 /\ y = 2 * (h - 1) + 1 /\ h - 1 \in Nat
        <4> HIDE DEF h, c
        <4> QED
          BY <2>2, <2>7
      <3>2. y \div 2 = h - 1
        <4> HIDE DEF h, y
        <4> QED
          BY <3>1, Doubled
      <3>3. And(h, h - 1) = 0
        <4> DEFINE r == And(h, h - 1)
                   e == y % 2
        <4>1. r \in Nat /\ And(x, y) = 2 * r + c * e /\ And(x, y) = 0 /\ e \in Nat
          BY <2>3, <2>4, <2>6, <3>2, Half
        <4> HIDE DEF r, e, c
        <4>2. c * e = 0
          BY <2>7, <4>1
        <4>3. r = 0
          BY <4>1, <4>2
        <4> QED
          BY <4>3 DEF r
      <3>4. PICK j \in Nat : j < k /\ h = 2^j
        BY <2>1, <2>2, <3>1, <3>3 DEF PowersOfTwo
      <3>5. 2^(j + 1) = 2 * 2^j
        BY Power
      <3>6. x = 2 * h
        <4> HIDE DEF h, c
        <4> QED
          BY <2>2, <2>7
      <3>7. x = 2^(j + 1)
        BY <3>4, <3>5, <3>6
      <3>8. j + 1 \in Nat /\ j + 1 < k + 1
        BY <3>4
      <3> QED
        BY <3>7, <3>8
    <2>8. CASE c = 1
      <3>1. y = 2 * h + 0
        <4> HIDE DEF h, c
        <4> QED
          BY <2>2, <2>8
      <3>2. y \div 2 = h /\ y % 2 = 0
        <4> HIDE DEF h, y
        <4> QED
          BY <2>2, <3>1, Doubled
      <3>3. And(h, h) = h
        BY <2>5, AndOfOne DEF AndSelf
      <3>4. And(x, y) = 2 * h + c * 0
        BY <2>4, <3>2, <3>3
      <3>5. x = 1
        <4> HIDE DEF h, c
        <4> QED
          BY <2>2, <2>8, <3>4
      <3>6. x = 2^0
        BY <3>5, PowerZero
      <3>7. 0 \in Nat /\ 0 < k + 1
        OBVIOUS
      <3> QED
        BY <3>6, <3>7, Zenon
    <2> QED
      BY <2>2, <2>7, <2>8
  <1> HIDE DEF S
  <1>3. n \in S
    BY <1>1, <1>2, CountUp
  <1> QED
    BY <1>3 DEF S

\* And of a sum of two words that share no bits.
DisjointSums(n) ==
    \A x, i, y \in Words(n) :
        And(x, i) = 0 => x + i \in Words(n) /\ And(x + i, y) = And(x, y) + And(i, y)

\* Bits of words that have none in common add up.
LEMMA AndDisjoint ==
    ASSUME MaxWidth \in Nat, NEW n \in Nat, n <= MaxWidth
    PROVE  DisjointSums(n)
  <1> DEFINE S == {k \in Nat : k <= MaxWidth => DisjointSums(k)}
  <1>1. 0 \in S
    <2>1. \A x \in Words(0) : x = 0
      BY NoBits
    <2>2. 0 \in Words(MaxWidth) /\ 0 \in Words(0)
      BY WordIs, Power
    <2>3. And(0, 0) = 0
      BY <2>2, AndHalves
    <2> QED
      BY <2>1, <2>2, <2>3 DEF DisjointSums
  <1>2. ASSUME NEW k \in Nat, k \in S
        PROVE  k + 1 \in S
    <2> SUFFICES ASSUME k + 1 <= MaxWidth, NEW x \in Words(k + 1), NEW i \in Words(k + 1),
                        NEW y \in Words(k + 1), And(x, i) = 0
                 PROVE  x + i \in Words(k + 1) /\ And(x + i, y) = And(x, y) + And(i, y)
      BY DEF DisjointSums
    <2>1. /\ DisjointSums(k) /\ Words(k + 1) \subseteq Words(MaxWidth)
          /\ Words(k) \subseteq Words(MaxWidth)
      BY <1>2, FewerBits
    <2>b. AndBounds(k + 1) /\ AndBounds(k)
      BY AndBounded
    <2> DEFINE h == x \div 2
               g == i \div 2
               f == y \div 2
               c == x % 2
               d == i % 2
               e == y % 2
               z == x + i
    <2>2. /\ x \in Nat /\ h \in Words(k) /\ h \in Nat /\ c \in {0, 1} /\ x = 2 * h + c
          /\ i \in Nat /\ g \in Words(k) /\ g \in Nat /\ d \in {0, 1} /\ i = 2 * g + d
          /\ y \in Nat /\ f \in Words(k) /\ f \in Nat /\ e \in {0, 1} /\ y = 2 * f + e
      BY Halves
    <2>3. z \in Words(k + 1)
      <3> DEFINE p == 2^(k + 1)
      <3>1. x + i - And(x, i) < p
        BY <2>b DEF AndBounds
      <3>2. p \in Nat
        BY Power
      <3> HIDE DEF p
      <3>3. z \in Nat /\ z < p
        BY <2>2, <3>1, <3>2
      <3> QED
        BY <3>3, WordIs DEF p
    <2>4. /\ And(x, i) = 2 * And(h, g) + c * d
          /\ And(x, y) = 2 * And(h, f) + c * e
          /\ And(i, y) = 2 * And(g, f) + d * e
          /\ And(z, y) = 2 * And(z \div 2, f) + (z % 2) * e
      BY <2>1, <2>3, AndTwice
    <2>5. And(h, g) \in Nat /\ And(h, f) \in Nat /\ And(g, f) \in Nat
      BY <2>b, <2>2 DEF AndBounds
    <2> HIDE DEF h, g, f, c, d, e
    <2>6. And(h, g) = 0 /\ c * d = 0
      <3>1. c * d \in Nat
        BY <2>2
      <3> DEFINE r == And(h, g)
                 s == c * d
      <3>2. 2 * r + s = 0 /\ r \in Nat /\ s \in Nat
        BY <2>4, <2>5, <3>1
      <3> HIDE DEF r, s
      <3>3. r = 0 /\ s = 0
        BY <3>2
      <3> QED
        BY <3>3 DEF r, s
    <2>7. c + d \in {0, 1}
      BY <2>2, <2>6
    <2>8. z = 2 * (h + g) + (c + d) /\ h + g \in Nat
      BY <2>2
    <2> HIDE DEF z
    <2>9. z \div 2 = h + g /\ z % 2 = c + d
      BY <2>7, <2>8, Doubled
    <2>10. And(h + g, f) = And(h, f) + And(g, f)
      BY <2>1, <2>2, <2>6 DEF DisjointSums
    <2>11. (c + d) * e = c * e + d * e /\ c * e \in Nat /\ d * e \in Nat
      BY <2>2
    <2> DEFINE r == And(h, f)
               s == And(g, f)
               u == c * e
               v == d * e
    <2>12. /\ And(x, y) = 2 * r + u /\ And(i, y) = 2 * s + v
           /\ And(z, y) = 2 * (r + s) + (u + v)
           /\ r \in Nat /\ s \in Nat /\ u \in Nat /\ v \in Nat
      BY <2>4, <2>5, <2>9, <2>10, <2>11
    <2> HIDE DEF r, s, u, v
    <2>13. And(z, y) = And(x, y) + And(i, y)
      BY <2>12
    <2> QED
      BY <2>3, <2>13 DEF z
  <1> HIDE DEF S
  <1>3. n \in S
    BY <1>1, <1>2, CountUp
  <1> QED
    BY <1>3 DEF S
-----------------------------------------------------------------------------
(* Operations on words *)

\* Quotients and remainders of words are words.
LEMMA QuotientWord ==
    ASSUME NEW n \in Nat, NEW x \in Words(n), NEW d \in Nat \ {0}
    PROVE  x \div d \in Words(n) /\ x % d \in Words(n)
  <1> DEFINE p == 2^n
             q == x \div d
             r == x % d
  <1>1. x \in Nat /\ x < p /\ p \in Nat
    BY WordIs, Power
  <1>2. q \in Int /\ r \in Int /\ x = d * q + r /\ 0 <= r /\ r < d
    BY <1>1, DivMod
  <1> HIDE DEF p, q, r
  <1>3. q \in Nat /\ r \in Nat
    <2>1. CASE q < 0
      <3>1. d * q <= -d
        <4>1. -q - 1 \in Nat /\ d * (-q - 1) = -(d * q) - d /\ d * (-q - 1) \in Nat
          BY <1>2, <2>1
        <4>2. d * q \in Int
          BY <1>2
        <4> QED
          BY <4>1, <4>2
      <3> QED
        BY <1>1, <1>2, <3>1
    <2> QED
      BY <1>2, <2>1
  <1>4. q <= d * q /\ d * q \in Nat
    <2>1. (d - 1) * q \in Nat /\ (d - 1) * q = d * q - q /\ d * q \in Nat
      BY <1>3
    <2> QED
      BY <1>3, <2>1
  <1>5. q < p /\ r < p
    BY <1>1, <1>2, <1>3, <1>4
  <1> QED
    BY <1>3, <1>5, WordIs DEF p, q, r

\* A signed word is its word modulo 2^n, and negative in the upper half.
LEMMA SignedWordIs ==
    ASSUME NEW n \in Nat \ {0}, NEW x \in Words(n)
    PROVE  /\ SignedWord(x, n) \in Int
           /\ SignedWord(x, n) > 0 => x # 0 /\ 2 * x < 2^n
           /\ SignedWord(x, n) < 0 => x # 0 /\ 2 * x >= 2^n
           /\ Same(SignedWord(x, n), x, n)
  <1> DEFINE p == 2^n
             s == SignedWord(x, n)
  <1>1. x \in Nat /\ x < p /\ p \in Nat
    BY WordIs, Power
  <1>2. s = IF 2 * x < p THEN x ELSE x - p
    BY DEF SignedWord
  <1> HIDE DEF p, s
  <1>3. s \in Int /\ (s > 0 => x # 0 /\ 2 * x < p) /\ (s < 0 => x # 0 /\ 2 * x >= p)
    BY <1>1, <1>2
  <1>4. \E k \in Int : s = x + p * k
    <2>1. s = x + p * 0 \/ s = x + p * (-1)
      BY <1>1, <1>2
    <2> QED
      BY <2>1
  <1>5. s > 0 => x # 0 /\ 2 * x < 2^n
    BY <1>3 DEF p
  <1>6. s < 0 => x # 0 /\ 2 * x >= 2^n
    BY <1>3 DEF p
  <1>7. Same(s, x, n)
    BY <1>1, <1>3, <1>4 DEF p, Same
  <1>8. s \in Int
    BY <1>3
  <1> QED
    BY <1>5, <1>6, <1>7, <1>8, Zenon DEF s

\* Signed words are integers.
LEMMA SignedWordInt ==
    ASSUME NEW n \in Nat \ {0}, NEW x \in Words(n)
    PROVE  SignedWord(x, n) \in Int
  BY SignedWordIs, Zenon

\* So are signed quotients and remainders.
LEMMA SignedOps ==
    ASSUME NEW x \in Int, NEW y \in Int
    PROVE  SDiv(x, y) \in Int /\ SRem(x, y) \in Int
  <1>1. Magnitude(x) \in Nat /\ Magnitude(y) \in Nat /\ (y # 0 => Magnitude(y) # 0)
    BY DEF Magnitude
  <1> DEFINE q == Magnitude(x) \div Magnitude(y)
             d == SDiv(x, y)
  <1>2. y # 0 => q \in Int
    <2>1. ASSUME NEW a \in Nat, NEW b \in Nat, b # 0
          PROVE  a \div b \in Int
      BY <2>1, DivMod
    <2> QED
      BY <1>1, <2>1
  <1>3. d = IF y = 0 THEN IF x < 0 THEN 1 ELSE -1
            ELSE IF (x < 0) = (y < 0) THEN q ELSE -q
    BY DEF SDiv
  <1> HIDE DEF q
  <1>4. d \in Int
    <2> HIDE DEF d
    <2> QED
      BY <1>2, <1>3
  <1>5. SRem(x, y) = IF y = 0 THEN x ELSE x - y * d
    BY DEF SRem
  <1> HIDE DEF d
  <1>6. y * d \in Int
    BY <1>4
  <1>7. SRem(x, y) \in Int
    BY <1>5, <1>6
  <1> QED
    BY <1>4, <1>7 DEF d

\* Bitwise operations make words of words.
LEMMA BitwiseWords ==
    ASSUME MaxWidth \in Nat, NEW n \in Nat, n <= MaxWidth, NEW x \in Words(n), NEW y \in Words(n)
    PROVE  /\ And(x, y) \in Words(n) /\ And(x, y) \in Nat /\ And(x, y) <= x /\ And(x, y) <= y
           /\ Or(x, y) \in Words(n) /\ Xor(x, y) \in Words(n)
  <1> DEFINE p == 2^n
             r == And(x, y)
  <1>1. AndBounds(n)
    BY AndBounded
  <1>2. r \in Nat /\ r <= x /\ r <= y /\ x + y - r < p
    BY <1>1 DEF AndBounds
  <1>3. x \in Nat /\ y \in Nat /\ x < p /\ y < p /\ p \in Nat
    BY WordIs, Power
  <1>4. Or(x, y) = x + y - r /\ Xor(x, y) = x + y - 2 * r
    BY DEF Or, Xor
  <1> HIDE DEF p, r
  <1>5. /\ r < p
        /\ x + y - r \in Nat
        /\ x + y - 2 * r \in Nat /\ x + y - 2 * r < p
    BY <1>2, <1>3
  <1> QED
    BY <1>2, <1>4, <1>5, WordIs DEF p, r

\* Every operation returns a word of the width of its operands.
LEMMA ApplyWord ==
    ASSUME MaxWidth \in Nat, NEW n \in Nat \ {0}, n <= MaxWidth,
           NEW x \in Words(n), NEW y \in Words(n), NEW op \in BinaryOps
    PROVE  Apply(op, x, y, n) \in Words(n)
  <1>1. x \in Nat /\ y \in Nat /\ x + y \in Int /\ x - y \in Int /\ x * y \in Int
    <2>1. x \in Nat /\ y \in Nat
      BY WordIs
    <2> QED
      BY <2>1
  <1>2. 2^y \in Nat \ {0}
    BY <1>1, Power
  <1>3. CASE op \in {"add", "sub", "mul"}
    BY <1>1, <1>3, CutIs DEF Apply
  <1>4. CASE op \in {"and", "or", "xor"}
    BY <1>4, BitwiseWords DEF Apply
  <1>5. CASE op = "shl"
    <2> DEFINE p == 2^y
    <2>1. x * p \in Int
      <3> HIDE DEF p
      <3>1. p \in Nat
        BY <1>2 DEF p
      <3> QED
        BY <1>1, <3>1
    <2>2. Apply(op, x, y, n) = Cut(x * p, n)
      BY <1>5 DEF Apply
    <2> HIDE DEF p
    <2> QED
      BY <2>1, <2>2, CutIs
  <1>6. CASE op = "lshr"
    <2>1. Apply(op, x, y, n) = x \div 2^y
      BY <1>6 DEF Apply
    <2> QED
      BY <1>2, <2>1, QuotientWord
  <1>7. CASE op = "ashr"
    <2> DEFINE p == 2^y
               s == SignedWord(x, n)
    <2>1. Apply(op, x, y, n) = Cut(s \div p, n)
      BY <1>7 DEF Apply
    <2>2. s \in Int /\ p \in Nat /\ p > 0
      BY <1>2, SignedWordInt
    <2> HIDE DEF p, s
    <2>3. s \div p \in Int
      BY <2>2, DivMod
    <2> QED
      BY <2>1, <2>3, CutIs
  <1>8. CASE op = "udiv"
    <2>1. Apply(op, x, y, n) = IF y = 0 THEN 2^n - 1 ELSE x \div y
      BY <1>8 DEF Apply
    <2> DEFINE p == 2^n
    <2>2. p \in Nat /\ p > 0
      BY Power
    <2>3. p - 1 \in Words(n)
      <3> HIDE DEF p
      <3>1. p - 1 \in Nat /\ p - 1 < p
        BY <2>2
      <3> QED
        BY <3>1, WordIs DEF p
    <2>4. y # 0 => x \div y \in Words(n)
      BY <1>1, QuotientWord
    <2> QED
      BY <2>1, <2>3, <2>4
  <1>9. CASE op = "urem"
    <2>1. Apply(op, x, y, n) = IF y = 0 THEN x ELSE x % y
      BY <1>9 DEF Apply
    <2>2. y # 0 => x % y \in Words(n)
      BY <1>1, QuotientWord
    <2> QED
      BY <2>1, <2>2
  <1>10. CASE op \in {"sdiv", "srem"}
    <2>1. SignedWord(x, n) \in Int /\ SignedWord(y, n) \in Int
      BY SignedWordInt
    <2>2. /\ SDiv(SignedWord(x, n), SignedWord(y, n)) \in Int
          /\ SRem(SignedWord(x, n), SignedWord(y, n)) \in Int
      BY <2>1, SignedOps
    <2>3. \/ Apply(op, x, y, n) = Cut(SDiv(SignedWord(x, n), SignedWord(y, n)), n)
          \/ Apply(op, x, y, n) = Cut(SRem(SignedWord(x, n), SignedWord(y, n)), n)
      BY <1>10 DEF Apply
    <2> QED
      BY <2>2, <2>3, CutIs
  <1> QED
    BY <1>3, <1>4, <1>5, <1>6, <1>7, <1>8, <1>9, <1>10 DEF BinaryOps
-----------------------------------------------------------------------------
(* The rules, on words.  x and y are the bases, i the index of a lane in the  *)
(* first operand, u what the lane has there.                                  *)

\* mul: the index is multiplied, modulo 2^n.
LEMMA ProductRule ==
    ASSUME NEW n \in Nat, NEW x \in Int, NEW i \in Int, NEW u, Same(x + i, u, n), NEW m \in Int
    PROVE  Same(Cut(x * m, n) + Cut(i * m, n), Cut(u * m, n), n)
  <1>1. u \in Int
    BY DEF Same
  <1>2. x * m \in Int /\ i * m \in Int /\ u * m \in Int /\ (x + i) * m = x * m + i * m
    BY <1>1
  <1> DEFINE v == x * m
             j == i * m
             w == u * m
  <1>3. v \in Int /\ j \in Int /\ w \in Int
    BY <1>2
  <1>4. Same(v + j, w, n)
    BY <1>2, SameProducts
  <1> HIDE DEF v, j, w
  <1>5. Same(Cut(v, n), v, n) /\ Same(Cut(j, n), j, n) /\ Same(Cut(w, n), w, n)
    BY <1>3, CutIs
  <1>6. Same(Cut(v, n) + Cut(j, n), v + j, n)
    BY <1>5, SameSums
  <1>7. Same(Cut(v, n) + Cut(j, n), w, n)
    BY <1>4, <1>6, SameSame
  <1>8. Same(w, Cut(w, n), n)
    BY <1>5, SameWord
  <1>9. Same(Cut(v, n) + Cut(j, n), Cut(w, n), n)
    BY <1>7, <1>8, SameSame
  <1> QED
    BY <1>9 DEF v, j, w

\* or of words without a common bit is their sum.
LEMMA SumRule ==
    ASSUME NEW n \in Nat, NEW x \in Int, NEW i \in Int, NEW y \in Int, NEW j \in Int,
           NEW u, NEW v, Same(x + i, u, n), Same(y + j, v, n)
    PROVE  /\ Same(Cut(x + y, n) + Cut(i + j, n), Cut(u + v, n), n)
           /\ Same(Cut(x - y, n) + Cut(i - j, n), Cut(u - v, n), n)
  <1>1. u \in Int /\ v \in Int
    BY DEF Same
  <1>2. /\ x + y \in Int /\ i + j \in Int /\ u + v \in Int
        /\ x - y \in Int /\ i - j \in Int /\ u - v \in Int
    BY <1>1
  <1>3. /\ (x + y) + (i + j) = (x + i) + (y + j)
        /\ (x - y) + (i - j) = (x + i) - (y + j)
    OBVIOUS
  <1>4. Same((x + i) + (y + j), u + v, n) /\ Same((x + i) - (y + j), u - v, n)
    BY SameSums
  <1>5. ASSUME NEW p \in Int, NEW q \in Int, NEW r \in Int, Same(p + q, r, n)
        PROVE  Same(Cut(p, n) + Cut(q, n), Cut(r, n), n)
    <2>1. Same(Cut(p, n), p, n) /\ Same(Cut(q, n), q, n) /\ Same(Cut(r, n), r, n)
      BY CutIs
    <2>2. Same(Cut(p, n) + Cut(q, n), p + q, n)
      BY <2>1, SameSums
    <2>3. Same(Cut(p, n) + Cut(q, n), r, n)
      BY <1>5, <2>2, SameSame
    <2>4. Same(r, Cut(r, n), n)
      BY <2>1, SameWord
    <2> QED
      BY <2>3, <2>4, SameSame
  <1> QED
    BY <1>2, <1>3, <1>4, <1>5

\* Division by a divisor of the base.
LEMMA DivisionRule ==
    ASSUME NEW x \in Nat, NEW i \in Nat, NEW d \in Nat \ {0}, x % d = 0
    PROVE  (x + i) \div d = (x \div d) + (i \div d) /\ (x + i) % d = i % d
  <1> DEFINE q == x \div d
             r == i \div d
             s == i % d
  <1>1. q \in Int /\ x = d * q + 0
    <2>1. q \in Int /\ x = d * q + (x % d)
      BY DivMod
    <2> QED
      BY <2>1
  <1>2. r \in Int /\ s \in Int /\ i = d * r + s /\ 0 <= s /\ s < d
    BY DivMod
  <1> HIDE DEF q, r, s
  <1>3. d * (q + r) = d * q + d * r /\ d * q \in Int /\ d * r \in Int /\ q + r \in Int
    BY <1>1, <1>2
  <1> DEFINE t == q + r
             z == x + i
  <1>4. z = d * t + s /\ t \in Int
    BY <1>1, <1>2, <1>3
  <1>t. t = q + r
    OBVIOUS
  <1> HIDE DEF t, z
  <1>5. (d * t + s) \div d = t /\ (d * t + s) % d = s
    BY <1>2, <1>4, QuotientIs
  <1>6. z \div d = q + r /\ z % d = s
    BY <1>4, <1>5, <1>t
  <1> QED
    BY <1>6 DEF q, r, s, z

\* A divisor of 2^n that divides the base.
LEMMA RemainderKept ==
    ASSUME NEW n \in Nat, NEW x \in Nat, NEW i \in Nat, NEW u, Same(x + i, u, n),
           NEW k \in Nat, k <= n, x % 2^k = 0
    PROVE  u % 2^k = i % 2^k
  <1> DEFINE d == 2^k
             p == 2^n
             q == x \div d
             r == i \div d
             s == i % d
  <1>1. d \in Nat /\ d > 0
    BY Power
  <1>2. PICK m \in Nat \ {0} : p = d * m
    BY PowerDivides
  <1>3. u \in Int
    BY DEF Same
  <1>4. PICK t \in Int : x + i = u + p * t
    BY DEF Same
  <1>5. x % d = 0
    OBVIOUS
  <1> HIDE DEF d, p
  <1>6. q \in Int /\ x = d * q
    <2>1. q \in Int /\ x = d * q + (x % d)
      BY <1>1, DivMod
    <2> HIDE DEF q
    <2>2. d * q \in Int
      BY <1>1, <2>1
    <2> QED
      BY <1>5, <2>1, <2>2
  <1>7. r \in Int /\ s \in Int /\ i = d * r + s /\ 0 <= s /\ s < d
    BY <1>1, DivMod
  <1> HIDE DEF q, r, s
  <1> DEFINE w == m * t
  <1>8. p * t = d * w /\ w \in Int
    BY <1>1, <1>2
  <1> HIDE DEF w
  <1> DEFINE f == q + r
             g == f - w
  <1>9. d * g = d * q + d * r - d * w /\ d * q \in Int /\ d * r \in Int /\ d * w \in Int /\ g \in Int
    BY <1>1, <1>6, <1>7, <1>8
  <1> HIDE DEF f, g
  <1> DEFINE a1 == d * q
             a2 == d * r
             a3 == d * w
             a4 == d * g
  <1>e. /\ x + i = u + a3 /\ x = a1 /\ i = a2 + s /\ a4 = a1 + a2 - a3
        /\ a1 \in Int /\ a2 \in Int /\ a3 \in Int /\ a4 \in Int
    BY <1>1, <1>4, <1>6, <1>7, <1>8, <1>9
  <1>10. u = d * g + s
    <2> HIDE DEF a1, a2, a3, a4
    <2>1. u = a4 + s
      BY <1>3, <1>7, <1>e
    <2> QED
      BY <2>1 DEF a4
  <1>11. u % d = s
    BY <1>1, <1>7, <1>9, <1>10, QuotientIs
  <1> QED
    BY <1>11 DEF s, d
\* Clearing the low bits of a word takes its remainder away.
LEMMA LowCleared ==
    ASSUME MaxWidth \in Nat, NEW n \in Nat, n <= MaxWidth, NEW k \in Nat, k <= n,
           NEW z \in Words(n)
    PROVE  And(z, 2^n - 2^k) = z - (z % 2^k) /\ And(z, 2^k - 1) = z % 2^k
  <1> DEFINE p == 2^n
             d == 2^k
  <1>1. p \in Nat /\ d \in Nat /\ d > 0 /\ d <= p
    BY Power, FewerBits
  <1>2. k <= MaxWidth /\ z \in Words(MaxWidth)
    BY FewerBits
  <1>3. And(z, d - 1) = z % d
    BY <1>2, AndRemainder DEF AndLow
  <1>4. d - 1 \in Words(n)
    <2> HIDE DEF d, p
    <2>1. d - 1 \in Nat /\ d - 1 < p
      BY <1>1
    <2> QED
      BY <2>1, WordIs DEF p
  <1>5. And(z, (p - 1) - (d - 1)) = z - And(z, d - 1)
    BY <1>4, AndNot DEF AndOfRest
  <1> HIDE DEF d, p
  <1>6. (p - 1) - (d - 1) = p - d
    BY <1>1
  <1>7. And(z, p - d) = z - (z % d)
    BY <1>3, <1>5, <1>6
  <1> QED
    BY <1>3, <1>7 DEF d, p

\* What IsPowerOfTwo accepts.
LEMMA PowerFrom ==
    ASSUME MaxWidth \in Nat, NEW n \in Nat, n <= MaxWidth, NEW e \in Words(n), e # 0,
           IsPowerOfTwo(e, n)
    PROVE  \E k \in Nat : k < n /\ e = 2^k
  <1> DEFINE p == 2^n
  <1>1. e \in Nat /\ e < p /\ p \in Nat
    BY WordIs, Power
  <1>2. e - 1 \in Words(n)
    <2> HIDE DEF p
    <2>1. e - 1 \in Nat /\ e - 1 < p
      BY <1>1
    <2> QED
      BY <2>1, WordIs DEF p
  <1>3. Cut(e - 1, n) = e - 1
    BY <1>2, CutWord
  <1>4. And(e, e - 1) = 0
    BY <1>3 DEF IsPowerOfTwo
  <1> QED
    BY <1>4, PowerOfTwoIs DEF PowersOfTwo

\* The assumption of and1 and and2: the divisor, a power of two, divides the word.
LEMMA MultipleIs ==
    ASSUME NEW n \in Nat \ {0}, NEW k \in Nat, k < n, NEW x \in Words(n), IsMultiple(x, 2^k, n)
    PROVE  x % 2^k = 0
  <1> DEFINE d == 2^k
             p == 2^n
             s == SignedWord(x, n)
  <1>1. d \in Nat /\ d > 0 /\ p \in Nat /\ 2^(k + 1) = 2 * d /\ 2^(k + 1) <= p
    BY Power, FewerBits
  <1>2. x \in Nat /\ x < p
    BY WordIs
  <1>3. SignedWord(d, n) = IF 2 * d < p THEN d ELSE d - p
    BY DEF SignedWord
  <1>4. s = IF 2 * x < p THEN x ELSE x - p
    BY DEF SignedWord
  <1>5. IF d = 0 THEN x = 0 ELSE s % Magnitude(SignedWord(d, n)) = 0
    BY DEF IsMultiple
  <1>6. PICK m \in Nat \ {0} : p = d * m
    BY PowerDivides
  <1> HIDE DEF d, p, s
  <1>7. Magnitude(SignedWord(d, n)) = d
    BY <1>1, <1>3 DEF Magnitude
  <1>8. s % d = 0 /\ s \in Int
    BY <1>1, <1>2, <1>4, <1>5, <1>7
  <1> DEFINE q == s \div d
             r == s % d
  <1>9. q \in Int /\ s = d * q + r
    BY <1>1, <1>8, DivMod
  <1>10. r = 0
    BY <1>8
  <1> HIDE DEF q, r
  <1>11. d * (q + m) = d * q + d * m /\ d * q \in Int /\ d * m \in Int /\ q + m \in Int
    BY <1>1, <1>6, <1>9
  <1>12. PICK w \in Int : x = d * w + 0
    <2>1. x = d * q + 0 \/ x = d * (q + m) + 0
      <3> DEFINE a1 == d * q
                 a2 == d * m
                 a3 == d * (q + m)
      <3>1. a1 \in Int /\ a2 \in Int /\ a3 = a1 + a2 /\ s = a1 + r /\ p = a2
        BY <1>6, <1>9, <1>11
      <3> HIDE DEF a1, a2, a3
      <3>2. x = a1 + 0 \/ x = a3 + 0
        BY <1>1, <1>2, <1>4, <1>10, <3>1
      <3> QED
        BY <3>2 DEF a1, a3
    <2> QED
      BY <1>9, <1>11, <2>1
  <1>13. x % d = 0
    BY <1>1, <1>12, QuotientIs
  <1> QED
    BY <1>13 DEF d

\* and1: a mask of upper bits.
LEMMA UpperBitsRule ==
    ASSUME MaxWidth \in Nat, NEW n \in Nat \ {0}, n <= MaxWidth,
           NEW x \in Words(n), NEW i \in Words(n), NEW y \in Words(n), NEW u \in Words(n),
           Same(x + i, u, n), SignedWord(y, n) < 0,
           IsPowerOfTwo(Cut(-y, n), n), IsMultiple(x, Cut(-y, n), n)
    PROVE  Same(And(x, y) + And(i, y), And(u, y), n)
  <1> DEFINE p == 2^n
             e == p - y
  <1>1. x \in Nat /\ i \in Nat /\ u \in Nat /\ y \in Nat /\ y < p /\ p \in Nat
    BY WordIs, Power
  <1>2. y # 0
    BY SignedWordIs
  <1>3. e \in Words(n) /\ e # 0 /\ e \in Nat /\ -y \in Int
    <2> HIDE DEF p
    <2>1. e \in Nat /\ e < p /\ e # 0 /\ -y \in Int
      BY <1>1, <1>2
    <2> HIDE DEF e
    <2>2. e \in Words(n)
      BY <2>1, WordIs DEF p
    <2> QED
      BY <2>1, <2>2
  <1>4. Same(-y, e, n)
    <2> HIDE DEF p
    <2>1. -y = e + p * (-1)
      BY <1>1
    <2> HIDE DEF e
    <2> QED
      BY <1>3, <2>1 DEF Same, p
  <1> HIDE DEF e
  <1>5. Cut(-y, n) = e
    BY <1>3, <1>4, SameCut
  <1>6. PICK k \in Nat : k < n /\ e = 2^k
    BY <1>3, <1>5, PowerFrom
  <1>7. x % 2^k = 0
    BY <1>5, <1>6, MultipleIs
  <1>8. u % 2^k = i % 2^k
    BY <1>1, <1>6, <1>7, RemainderKept
  <1>9. y = p - e
    <2> HIDE DEF p
    <2> QED
      BY <1>1 DEF e
  <1>10. \A z \in Words(n) : And(z, y) = z - (z % 2^k)
    BY <1>6, <1>9, LowCleared
  <1> DEFINE r == i % 2^k
  <1>11. r \in Int
    BY <1>1, Power, DivMod
  <1>12. And(x, y) = x - 0 /\ And(i, y) = i - r /\ And(u, y) = u - r
    BY <1>7, <1>8, <1>10
  <1> HIDE DEF r
  <1>13. Same((x + i) - r, u - r, n)
    BY <1>11, SameSelf, SameSums
  <1>14. (x - 0) + (i - r) = (x + i) - r
    BY <1>1, <1>11
  <1> QED
    BY <1>12, <1>13, <1>14

\* and2: a mask of lower bits.
LEMMA LowerBitsRule ==
    ASSUME MaxWidth \in Nat, NEW n \in Nat \ {0}, n <= MaxWidth,
           NEW x \in Words(n), NEW i \in Words(n), NEW y \in Words(n), NEW u \in Words(n),
           Same(x + i, u, n), SignedWord(y, n) > 0,
           IsPowerOfTwo(Cut(y + 1, n), n), IsMultiple(x, Cut(y + 1, n), n)
    PROVE  Same(And(x, y) + And(i, y), And(u, y), n)
  <1> DEFINE p == 2^n
             e == y + 1
  <1>1. x \in Nat /\ i \in Nat /\ u \in Nat /\ y \in Nat /\ y < p /\ p \in Nat
    BY WordIs, Power
  <1>2. 2 * y < p /\ y # 0
    BY SignedWordIs
  <1>3. e \in Words(n) /\ e # 0 /\ e \in Nat
    <2> HIDE DEF p
    <2>1. e \in Nat /\ e < p /\ e # 0
      BY <1>1, <1>2
    <2> HIDE DEF e
    <2> QED
      BY <2>1, WordIs DEF p
  <1>4. y = e - 1
    BY <1>1
  <1>5. Cut(y + 1, n) = e
    BY <1>3, CutWord
  <1> HIDE DEF e
  <1>6. PICK k \in Nat : k < n /\ e = 2^k
    BY <1>3, <1>5, PowerFrom
  <1>7. x % 2^k = 0
    BY <1>5, <1>6, MultipleIs
  <1>8. u % 2^k = i % 2^k
    BY <1>1, <1>6, <1>7, RemainderKept
  <1>10. \A z \in Words(n) : And(z, y) = z % 2^k
    BY <1>4, <1>6, LowCleared
  <1> DEFINE r == i % 2^k
  <1>11. r \in Int
    BY <1>1, Power, DivMod
  <1>12. And(x, y) = 0 /\ And(i, y) = r /\ And(u, y) = r
    BY <1>7, <1>8, <1>10
  <1> HIDE DEF r
  <1>13. Same(r, r, n) /\ 0 + r = r
    BY <1>11, SameSelf
  <1> QED
    BY <1>12, <1>13
-----------------------------------------------------------------------------
(* The rules, on shapes *)

RuleOf(rule, op) ==
    \/ op = "and" /\ rule \in {"and1", "and2", "and3", "and4"}
    \/ op = "mul" /\ rule \in {"mul1", "mul2"}
    \/ op = "or" /\ rule \in {"or1", "or2"}
    \/ op \in {"add", "sub", "xor", "shl", "lshr", "ashr", "udiv", "urem"} /\ rule = op

\* The index that the rule proposes makes up for computing with the bases.
IndexIsRight(rule, op, a, b, x, y, l, n) ==
    /\ ProposedIndex(rule, a, b, y, l) \in Words(n)
    /\ Same(Apply(op, x, y, n) + ProposedIndex(rule, a, b, y, l),
            Apply(op, AtLane(a, x, l), AtLane(b, y, l), n), n)

\* No index in the second operand: all lanes have its base.
LEMMA LaneOfBase ==
    ASSUME NEW n, NEW b, IndexedShape(b, n), AllIndicesZero(b), NEW y \in b.base, NEW l \in Lanes
    PROVE  AtLane(b, y, l) = y
  <1>1. /\ n \in Nat /\ y \in Words(n) /\ y \in Int
        /\ AtLane(b, y, l) = Cut(y + b.idx[l], n)
    BY AtLaneIs
  <1>2. b.idx[l] = 0
    BY DEF AllIndicesZero
  <1>3. y + 0 = y
    BY <1>1
  <1> QED
    BY <1>1, <1>2, <1>3, CutWord

\* No overflow in a lane: it has the sum of base and index.
LEMMA LaneOfSum ==
    ASSUME NEW n, NEW a, IndexedShape(a, n), NEW x \in a.base, NEW l \in Lanes,
           x + a.idx[l] < 2^n
    PROVE  AtLane(a, x, l) = x + a.idx[l]
  <1>1. /\ n \in Nat /\ x \in Words(n) /\ a.idx[l] \in Words(n)
        /\ AtLane(a, x, l) = Cut(x + a.idx[l], n)
    BY AtLaneIs
  <1>2. x + a.idx[l] \in Nat
    <2>1. x \in Nat /\ a.idx[l] \in Nat
      BY <1>1, WordIs
    <2> QED
      BY <2>1
  <1>3. x + a.idx[l] \in Words(n)
    BY <1>1, <1>2, WordIs
  <1> QED
    BY <1>1, <1>3, CutWord

\* Whatever rule of KnownTransforms is proved for the bases of its operands,
\* the index it proposes for a lane is the distance of the lane's result from
\* the result on the bases, for every width and every gang size
\* (shape_calc.cpp).
THEOREM RuleIsRight ==
    ASSUME MaxWidth \in Nat, NEW n \in Nat, n <= MaxWidth,
           NEW a, NEW b, IndexedShape(a, n), IndexedShape(b, n),
           NEW x \in a.base, NEW y \in b.base, NEW l \in Lanes,
           NEW op, NEW rule, RuleOf(rule, op), Assumption(rule, a, b, x, y)
    PROVE  IndexIsRight(rule, op, a, b, x, y, l, n)
  <1> DEFINE i == a.idx[l]
             j == b.idx[l]
             u == AtLane(a, x, l)
             v == AtLane(b, y, l)
             k == ProposedIndex(rule, a, b, y, l)
  <1>n. n \in Nat \ {0} /\ a.width = n
    BY DEF IndexedShape
  <1>a. /\ x \in Words(n) /\ i \in Words(n) /\ x \in Int /\ i \in Int
        /\ u \in Words(n) /\ u \in Int /\ Same(u, x + i, n)
    BY AtLaneIs
  <1>b. /\ y \in Words(n) /\ j \in Words(n) /\ y \in Int /\ j \in Int
        /\ v \in Words(n) /\ v \in Int /\ Same(v, y + j, n)
    BY AtLaneIs
  <1>c. Same(x + i, u, n) /\ Same(y + j, v, n)
    BY <1>a, <1>b, SameWord
  <1>d. x \in Nat /\ i \in Nat /\ y \in Nat /\ j \in Nat /\ u \in Nat
    BY <1>a, <1>b, WordIs
  <1>z. AllIndicesZero(b) => v = y
    BY LaneOfBase
  <1>y. AllIndicesZero(a) => u = x
    BY LaneOfBase
  <1>o. NoUnsignedOverflow(a, x) => u = x + i
    <2> HAVE NoUnsignedOverflow(a, x)
    <2>1. x + a.idx[l] < 2^n
      BY <1>n DEF NoUnsignedOverflow
    <2> QED
      BY <2>1, LaneOfSum
  <1>p. SignedWord(y, n) > 0 => y # 0
    BY <1>n, <1>b, SignedWordIs
  <1>s. k \in Words(n) /\ Same(Apply(op, x, y, n) + k, Apply(op, u, v, n), n)
        => IndexIsRight(rule, op, a, b, x, y, l, n)
    BY DEF IndexIsRight
  <1> HIDE DEF u, v
  <1>1. CASE op = "add" /\ rule = "add"
    <2>1. k = Cut(i + j, n) /\ Apply(op, x, y, n) = Cut(x + y, n) /\ Apply(op, u, v, n) = Cut(u + v, n)
      BY <1>1, <1>n DEF ProposedIndex, Apply
    <2> HIDE DEF i, j, k
    <2>2. i + j \in Int
      BY <1>d
    <2>3. Same(Cut(x + y, n) + Cut(i + j, n), Cut(u + v, n), n)
      BY <1>a, <1>b, <1>c, SumRule
    <2> QED
      BY <1>s, <2>1, <2>2, <2>3, CutIs
  <1>2. CASE op = "sub" /\ rule = "sub"
    <2>1. k = Cut(i - j, n) /\ Apply(op, x, y, n) = Cut(x - y, n) /\ Apply(op, u, v, n) = Cut(u - v, n)
      BY <1>2, <1>n DEF ProposedIndex, Apply
    <2> HIDE DEF i, j, k
    <2>2. i - j \in Int
      BY <1>d
    <2>3. Same(Cut(x - y, n) + Cut(i - j, n), Cut(u - v, n), n)
      BY <1>a, <1>b, <1>c, SumRule
    <2> QED
      BY <1>s, <2>1, <2>2, <2>3, CutIs
  <1>3. CASE op = "mul" /\ rule \in {"mul1", "mul2"}
    <2>1. k = Cut(i * y, n) /\ Apply(op, x, y, n) = Cut(x * y, n) /\ Apply(op, u, v, n) = Cut(u * v, n)
      BY <1>3, <1>n DEF ProposedIndex, Apply
    <2>2. v = y
      BY <1>3, <1>z DEF Assumption
    <2> HIDE DEF i, j, k
    <2>3. i * y \in Int
      BY <1>d
    <2>4. Same(Cut(x * y, n) + Cut(i * y, n), Cut(u * y, n), n)
      BY <1>a, <1>b, <1>c, ProductRule
    <2> QED
      BY <1>s, <2>1, <2>2, <2>3, <2>4, CutIs
  <1>4. CASE op = "shl" /\ rule = "shl"
    <2> DEFINE q == 2^y
    <2>1. k = Cut(i * q, n) /\ Apply(op, x, y, n) = Cut(x * q, n) /\ Apply(op, u, v, n) = Cut(u * 2^v, n)
      BY <1>4, <1>n DEF ProposedIndex, Apply
    <2>2. v = y
      BY <1>4, <1>z DEF Assumption
    <2>5. q \in Int
      BY <1>d, Power
    <2> HIDE DEF i, j, k, q
    <2>3. i * q \in Int
      BY <1>d, <2>5
    <2>4. Same(Cut(x * q, n) + Cut(i * q, n), Cut(u * q, n), n)
      BY <1>a, <1>b, <1>c, <2>5, ProductRule
    <2>6. Apply(op, u, v, n) = Cut(u * q, n)
      BY <2>1, <2>2 DEF q
    <2> QED
      BY <1>s, <2>1, <2>3, <2>4, <2>6, CutIs
  <1>5. CASE op = "lshr" /\ rule = "lshr"
    <2> DEFINE q == 2^y
    <2>1. k = i \div q /\ Apply(op, x, y, n) = x \div q /\ Apply(op, u, v, n) = u \div 2^v
      BY <1>5, <1>n DEF ProposedIndex, Apply
    <2>2. /\ AllIndicesZero(b) /\ NoUnsignedOverflow(a, x)
          /\ Apply("urem", x, Cut(q, n), n) = 0
      BY <1>5, <1>n DEF Assumption
    <2>3. v = y /\ u = x + i
      BY <1>o, <1>z, <2>2
    <2>4. q \in Nat \ {0} /\ q \in Int
      BY <1>d, Power
    <2>5. Apply("urem", x, Cut(q, n), n) = IF Cut(q, n) = 0 THEN x ELSE x % Cut(q, n)
      BY DEF Apply
    <2>6. x % q = 0
      <3>1. CASE y < n
        <4>1. q \in Words(n)
          <5>1. 2^(y + 1) = 2 * q /\ 2^(y + 1) <= 2^n /\ 2^n \in Nat
            BY <1>d, <3>1, Power, FewerBits
          <5> DEFINE p == 2^n
                     r == 2^(y + 1)
          <5>2. r = 2 * q /\ r <= p /\ p \in Nat
            BY <5>1
          <5> HIDE DEF p, q, r
          <5>3. q \in Nat /\ q < p
            BY <2>4, <5>2
          <5> QED
            BY <5>3, WordIs DEF p
        <4>2. Cut(q, n) = q
          BY <4>1, CutWord
        <4> HIDE DEF q
        <4> QED
          BY <2>2, <2>4, <2>5, <4>2
      <3>2. CASE n <= y
        <4>1. PICK m \in Nat \ {0} : q = 2^n * m
          BY <1>d, <3>2, PowerDivides
        <4> DEFINE p == 2^n
        <4>2. p \in Nat /\ p > 0 /\ q = p * m + 0
          BY <4>1, <2>4, Power
        <4>3. Cut(q, n) = q % p
          BY DEF Cut
        <4> HIDE DEF p, q
        <4>4. (p * m + 0) % p = 0
          BY <4>2, QuotientIs
        <4>5. x = 0
          BY <2>2, <2>5, <4>2, <4>3, <4>4
        <4> QED
          BY <2>4, <4>5
      <3> QED
        BY <1>d, <3>1, <3>2
    <2> HIDE DEF q
    <2>7. (x + i) \div q = (x \div q) + (i \div q)
      BY <1>d, <2>4, <2>6, DivisionRule, ZenonT(30)
    <2>8. x \div q \in Int /\ i \div q \in Words(n) /\ u \div q \in Int
      <3>1. i \div q \in Words(n) /\ x \div q \in Words(n) /\ u \div q \in Words(n)
        BY <1>a, <2>4, QuotientWord
      <3> QED
        BY <3>1, WordIs
    <2>9. Same(u \div q, u \div q, n)
      BY <2>8, SameSelf
    <2>10. Same((x \div q) + (i \div q), u \div q, n)
      BY <2>3, <2>7, <2>9
    <2>11. Apply(op, u, v, n) = u \div q
      BY <2>1, <2>3 DEF q
    <2> QED
      BY <1>s, <2>1, <2>8, <2>10, <2>11
  <1>6. CASE op = "udiv" /\ rule = "udiv"
    <2>1. /\ AllIndicesZero(b) /\ NoUnsignedOverflow(a, x) /\ SignedWord(y, n) > 0
          /\ Apply("urem", x, y, n) = 0
      BY <1>6, <1>n DEF Assumption
    <2>2. v = y /\ u = x + i /\ y \in Nat \ {0}
      BY <1>d, <1>o, <1>p, <1>z, <2>1
    <2>3. x % y = 0
      BY <2>1, <2>2 DEF Apply
    <2>4. k = i \div y /\ Apply(op, x, y, n) = x \div y /\ Apply(op, u, v, n) = u \div y
      BY <1>6, <1>n, <2>2 DEF ProposedIndex, Apply
    <2>5. (x + i) \div y = (x \div y) + (i \div y)
      BY <1>d, <2>2, <2>3, DivisionRule, ZenonT(30)
    <2>6. i \div y \in Words(n) /\ u \div y \in Int
      <3>1. i \div y \in Words(n) /\ u \div y \in Words(n)
        BY <1>a, <2>2, QuotientWord
      <3> QED
        BY <3>1, WordIs
    <2>7. Same(u \div y, u \div y, n)
      BY <2>6, SameSelf
    <2>8. Same((x \div y) + (i \div y), u \div y, n)
      BY <2>2, <2>5, <2>7
    <2> QED
      BY <1>s, <2>4, <2>6, <2>8
  <1>7. CASE op = "urem" /\ rule = "urem"
    <2>1. /\ AllIndicesZero(b) /\ NoUnsignedOverflow(a, x) /\ SignedWord(y, n) > 0
          /\ Apply("urem", x, y, n) = 0
      BY <1>7, <1>n DEF Assumption
    <2>2. v = y /\ u = x + i /\ y \in Nat \ {0}
      BY <1>d, <1>o, <1>p, <1>z, <2>1
    <2>3. x % y = 0
      BY <2>1, <2>2 DEF Apply
    <2>4. k = i % y /\ Apply(op, x, y, n) = x % y /\ Apply(op, u, v, n) = u % y
      BY <1>7, <1>n, <2>2 DEF ProposedIndex, Apply
    <2>5. (x + i) % y = i % y
      BY <1>d, <2>2, <2>3, DivisionRule, ZenonT(30)
    <2>6. i % y \in Words(n) /\ i % y \in Int
      <3>1. i % y \in Words(n)
        BY <1>a, <2>2, QuotientWord
      <3> QED
        BY <3>1, WordIs
    <2>7. Same(i % y, i % y, n)
      BY <2>6, SameSelf
    <2>8. (x % y) + (i % y) = i % y
      BY <2>3, <2>6
    <2> QED
      BY <1>s, <2>2, <2>3, <2>4, <2>5, <2>6, <2>7, <2>8
  <1>8. CASE (op = "xor" /\ rule = "xor") \/ (op = "or" /\ rule = "or2")
    <2>1. AllIndicesZero(a) /\ AllIndicesZero(b)
      BY <1>8 DEF Assumption
    <2>2. u = x /\ v = y
      BY <1>y, <1>z, <2>1
    <2>3. k = 0
      BY <1>8 DEF ProposedIndex
    <2>4. Apply(op, x, y, n) \in Words(n)
      BY <1>8, <1>n, <1>a, <1>b, ApplyWord DEF BinaryOps
    <2> DEFINE r == Apply(op, x, y, n)
    <2>5. r \in Int
      BY <2>4, WordIs
    <2> HIDE DEF r
    <2>6. Same(r, r, n) /\ r + 0 = r
      BY <2>5, SameSelf
    <2>7. 0 \in Words(n)
      BY WordIs, Power
    <2> QED
      BY <1>s, <2>2, <2>3, <2>6, <2>7 DEF r
  <1>9. CASE op = "or" /\ rule = "or1"
    <2>1. AllIndicesZero(b) /\ x = 0
      BY <1>9 DEF Assumption
    <2>2. v = y
      BY <1>z, <2>1
    <2>3. u = i
      <3>1. u = Cut(x + i, n)
        BY AtLaneIs DEF u
      <3>2. x + i = i
        BY <1>d, <2>1
      <3> QED
        BY <1>a, <3>1, <3>2, CutWord
    <2>4. k = Cut(Or(i, y) - y, n) /\ Apply(op, x, y, n) = Or(0, y) /\ Apply(op, u, v, n) = Or(i, y)
      BY <1>9, <1>n, <2>1, <2>2, <2>3 DEF ProposedIndex, Apply
    <2>5. Or(0, y) = y
      <3>1. 0 \in Words(MaxWidth) /\ y \in Words(MaxWidth)
        BY <1>b, FewerBits, WordIs, Power
      <3>2. And(0, y) = 0
        BY <3>1, AndHalves
      <3>3. Or(0, y) = 0 + y - 0
        BY <3>2 DEF Or
      <3> QED
        BY <1>d, <3>3
    <2> DEFINE r == Or(i, y)
    <2>6. r \in Int
      <3>1. r \in Words(n)
        BY <1>a, <1>b, BitwiseWords
      <3> QED
        BY <3>1, WordIs
    <2> HIDE DEF i, j, k, r
    <2>7. r - y \in Int /\ y + (r - y) = r
      BY <1>d, <2>6
    <2>8. Cut(r - y, n) \in Words(n) /\ Same(Cut(r - y, n), r - y, n)
      BY <2>7, CutIs
    <2>9. Same(y + Cut(r - y, n), y + (r - y), n)
      BY <1>b, <2>8, SameSelf, SameSums
    <2> QED
      BY <1>s, <2>4, <2>5, <2>7, <2>8, <2>9 DEF r
  <1>10. CASE op = "and" /\ rule \in {"and1", "and2", "and3", "and4"}
    <2>1. AllIndicesZero(b)
      BY <1>10 DEF Assumption
    <2>2. v = y
      BY <1>z, <2>1
    <2>3. b.idx[l] = 0
      BY <2>1 DEF AllIndicesZero
    <2>4. Cut(y + b.idx[l], n) = y
      <3>1. y + 0 = y
        BY <1>b
      <3> QED
        BY <1>b, <2>3, <3>1, CutWord
    <2>5. k = And(i, y)
      BY <1>10, <1>n, <2>4 DEF ProposedIndex
    <2>6. Apply(op, x, y, n) = And(x, y) /\ Apply(op, u, v, n) = And(u, y)
      BY <1>10, <2>2 DEF Apply
    <2>7. And(i, y) \in Words(n)
      BY <1>a, <1>b, BitwiseWords
    <2>8. And(x, y) \in Int /\ And(i, y) \in Int /\ And(u, y) \in Int
      <3>1. And(x, y) \in Nat /\ And(i, y) \in Nat /\ And(u, y) \in Nat
        BY <1>a, <1>b, BitwiseWords
      <3> QED
        BY <3>1
    <2> SUFFICES Same(And(x, y) + And(i, y), And(u, y), n)
      BY <1>s, <2>5, <2>6, <2>7
    <2>9. CASE rule = "and1"
      <3>1. /\ SignedWord(y, n) < 0 /\ IsPowerOfTwo(Cut(-y, n), n)
            /\ IsMultiple(x, Cut(-y, n), n)
        BY <1>n, <2>9 DEF Assumption
      <3> QED
        BY <1>n, <1>a, <1>b, <1>c, <3>1, UpperBitsRule
    <2>10. CASE rule = "and2"
      <3>1. /\ SignedWord(y, n) > 0 /\ IsPowerOfTwo(Cut(y + 1, n), n)
            /\ IsMultiple(x, Cut(y + 1, n), n)
        BY <1>n, <2>10 DEF Assumption
      <3> QED
        BY <1>n, <1>a, <1>b, <1>c, <3>1, LowerBitsRule
    <2>11. CASE rule = "and3"
      <3>1. x = 0
        BY <2>11 DEF Assumption
      <3>2. u = i
        <4>1. u = Cut(x + i, n)
          BY AtLaneIs DEF u
        <4>2. x + i = i
          BY <1>d, <3>1
        <4> QED
          BY <1>a, <4>1, <4>2, CutWord
      <3>3. And(0, y) = 0
        <4>1. 0 \in Words(MaxWidth) /\ y \in Words(MaxWidth)
          BY <1>b, FewerBits, WordIs, Power
        <4> QED
          BY <4>1, AndHalves
      <3>4. And(x, y) + And(i, y) = And(u, y)
        <4> HIDE DEF i
        <4> QED
          BY <2>8, <3>1, <3>2, <3>3
      <3> QED
        BY <2>8, <3>4, SameSelf
    <2>12. CASE rule = "and4"
      <3>1. And(x, i) = 0
        BY <2>12 DEF Assumption
      <3>2. x + i \in Words(n) /\ And(x + i, y) = And(x, y) + And(i, y)
        BY <1>a, <1>b, <3>1, AndDisjoint DEF DisjointSums
      <3>3. u = x + i
        <4>1. u = Cut(x + i, n)
          BY AtLaneIs DEF u
        <4> QED
          BY <3>2, <4>1, CutWord
      <3>4. Same(And(u, y), And(u, y), n)
        BY <2>8, SameSelf
      <3> QED
        BY <3>2, <3>3, <3>4
    <2> QED
      BY <1>10, <2>9, <2>10, <2>11, <2>12
  <1>11. CASE op = "ashr" /\ rule = "ashr"
    BY <1>11 DEF Assumption
  <1>q. \/ op = "add" /\ rule = "add"
        \/ op = "sub" /\ rule = "sub"
        \/ op = "mul" /\ rule \in {"mul1", "mul2"}
        \/ op = "shl" /\ rule = "shl"
        \/ op = "lshr" /\ rule = "lshr"
        \/ op = "udiv" /\ rule = "udiv"
        \/ op = "urem" /\ rule = "urem"
        \/ op = "xor" /\ rule = "xor"
        \/ op = "or" /\ rule = "or2"
        \/ op = "or" /\ rule = "or1"
        \/ op = "and" /\ rule \in {"and1", "and2", "and3", "and4"}
        \/ op = "ashr" /\ rule = "ashr"
    BY DEF RuleOf
  <1> QED
    BY <1>1, <1>2, <1>3, <1>4, <1>5, <1>6, <1>7, <1>8, <1>9, <1>10, <1>11, <1>q, Zenon
-----------------------------------------------------------------------------
(* Transfer functions *)

\* The shapes that there are, without tables of constants: some base, and no
\* index in the first lane.
GoodShape(s, n) == IndexedShape(s, n) /\ s.base # {} /\ s.idx[0] = 0

\* A shape that promises anything about values v promises the truth.
ResultIs(s, v, n) == IsIndexed(s) => GoodShape(s, n) /\ Describes(s, v)

\* A varying shape promises nothing.
LEMMA NothingPromised ==
    ASSUME NEW v, NEW n
    PROVE  ResultIs(Varying, v, n) /\ ResultIs(Unknown, v, n) /\ ResultIs(NoShape, v, n)
  BY DEF ResultIs, IsIndexed, Varying, Unknown, NoShape

\* There is a first lane.
LEMMA FirstLane == 0 \in Lanes
  BY LanesAssumption DEF Lanes

\* A set of one element at most.
LEMMA OneOfFew ==
    ASSUME NEW S, IsFiniteSet(S), S # {}, ~(Cardinality(S) > 1)
    PROVE  \E x : S = {x}
  <1>1. Cardinality(S) \in Nat
    BY FS_CardinalityType
  <1>2. Cardinality(S) # 0
    BY FS_EmptySet
  <1>3. Cardinality(S) = 1
    BY <1>1, <1>2
  <1> QED
    BY <1>3, FS_Singleton

\* The first rule that is proved.
LEMMA FirstProved ==
    ASSUME NEW P, P \subseteq Nat, P # {}
    PROVE  Min(P) \in P
  <1>1. P \in SUBSET Int /\ \A k \in P : 0 <= k
    OBVIOUS
  <1> QED
    BY <1>1, MinOf

\* The image of a finite set is finite.
LEMMA ImagesFinite ==
    ASSUME NEW S, NEW T, NEW f, f \in [S -> T], \A t \in T : \E x \in S : f[x] = t,
           IsFiniteSet(S)
    PROVE  IsFiniteSet(T)
  <1>1. f \in Surjection(S, T)
    BY DEF Surjection
  <1> QED
    BY <1>1, FS_Surjection

\* Bases are finite.
LEMMA BaseFinite ==
    ASSUME NEW n, NEW s, IndexedShape(s, n)
    PROVE  IsFiniteSet(s.base)
  <1>1. n \in Nat /\ s.base \subseteq Words(n)
    BY DEF IndexedShape
  <1>2. Words(n) = 0..(2^n - 1) /\ 2^n - 1 \in Int
    BY <1>1, Power DEF Words
  <1>3. IsFiniteSet(Words(n))
    BY <1>2, FS_Interval
  <1> QED
    BY <1>1, <1>3, FS_Subset

\* A constant base is one word.
LEMMA ConstantBaseIs ==
    ASSUME NEW n, NEW s, IndexedShape(s, n), HasConstantBase(s)
    PROVE  ConstantBase(s) \in s.base /\ s.base = {ConstantBase(s)}
  <1>1. IsFiniteSet(s.base) /\ Cardinality(s.base) = 1
    BY BaseFinite DEF HasConstantBase
  <1>2. PICK x : s.base = {x}
    BY <1>1, FS_Singleton
  <1> QED
    BY <1>2 DEF ConstantBase

\* The first lane has the base.
LEMMA FirstLaneIs ==
    ASSUME NEW n, NEW s, GoodShape(s, n), NEW x \in s.base
    PROVE  AtLane(s, x, 0) = x
  <1>1. IndexedShape(s, n) /\ s.idx[0] = 0
    BY DEF GoodShape
  <1>2. /\ n \in Nat /\ x \in Words(n) /\ x \in Int
        /\ AtLane(s, x, 0) = Cut(x + s.idx[0], n)
    BY <1>1, FirstLane, AtLaneIs
  <1>3. x + 0 = x
    BY <1>2
  <1> QED
    BY <1>1, <1>2, <1>3, CutWord

\* transformKnownBases.
LEMMA KnownResult ==
    ASSUME NEW n \in Nat \ {0}, NEW base \in Words(n), NEW v \in [Lanes -> Words(n)],
           v[0] = base
    PROVE  ResultIs(Known(base, v, n), v, n)
  <1>1. IndexedShape(Known(base, v, n), n) /\ Describes(Known(base, v, n), v)
    BY KnownIs
  <1>2. base \in Int
    BY WordIs
  <1>3. base - base = 0 /\ 0 \in Words(n)
    BY <1>2, WordIs, Power
  <1>4. Cut(v[0] - base, n) = 0
    BY <1>3, CutWord
  <1>5. Known(base, v, n).base = {base} /\ Known(base, v, n).idx[0] = Cut(v[0] - base, n)
    BY FirstLane DEF Known, Indexed
  <1> QED
    BY <1>1, <1>4, <1>5 DEF ResultIs, GoodShape

\* Nothing is proposed for the first lane.
LEMMA NoFirstIndex ==
    ASSUME MaxWidth \in Nat, NEW n \in Nat, n <= MaxWidth,
           NEW a, NEW b, GoodShape(a, n), GoodShape(b, n),
           NEW x \in a.base, NEW y \in b.base,
           NEW op, NEW rule, RuleOf(rule, op), Assumption(rule, a, b, x, y)
    PROVE  ProposedIndex(rule, a, b, y, 0) = 0
  <1> DEFINE k == ProposedIndex(rule, a, b, y, 0)
  <1>1. IndexedShape(a, n) /\ IndexedShape(b, n) /\ a.idx[0] = 0 /\ b.idx[0] = 0
    BY DEF GoodShape
  <1>2. n \in Nat \ {0} /\ a.width = n /\ y \in Words(n)
    BY <1>1 DEF IndexedShape
  <1>3. y \in Nat
    BY <1>2, WordIs
  <1>z. 0 \in Words(n)
    BY WordIs, Power
  <1>4. Cut(0, n) = 0
    BY <1>z, CutWord
  <1>5. CASE rule \in {"add", "sub"}
    <2>1. k = Cut(0 + 0, n) \/ k = Cut(0 - 0, n)
      BY <1>1, <1>2, <1>5 DEF ProposedIndex, Apply
    <2> QED
      BY <1>4, <2>1
  <1>6. CASE rule \in {"mul1", "mul2"}
    <2>1. k = Cut(0 * y, n) /\ 0 * y = 0
      BY <1>1, <1>2, <1>3, <1>6 DEF ProposedIndex
    <2> QED
      BY <1>4, <2>1
  <1>7. CASE rule = "shl"
    <2> DEFINE q == 2^y
    <2>1. k = Cut(0 * q, n) /\ q \in Nat
      BY <1>1, <1>2, <1>3, <1>7, Power DEF ProposedIndex, Apply
    <2> HIDE DEF q
    <2>2. 0 * q = 0
      BY <2>1
    <2> QED
      BY <1>4, <2>1, <2>2
  <1>8. CASE rule = "lshr"
    <2> DEFINE q == 2^y
    <2>1. k = 0 \div q /\ q \in Nat /\ q > 0
      BY <1>1, <1>2, <1>3, <1>8, Power DEF ProposedIndex, Apply
    <2> HIDE DEF q
    <2>2. (q * 0 + 0) \div q = 0
      BY <2>1, QuotientIs
    <2>3. q * 0 + 0 = 0
      BY <2>1
    <2> QED
      BY <2>1, <2>2, <2>3
  <1>9. CASE rule \in {"udiv", "urem"}
    <2>1. SignedWord(y, n) > 0
      BY <1>2, <1>9 DEF Assumption
    <2>2. y # 0
      BY <1>2, <2>1, SignedWordIs
    <2>3. k = 0 \div y \/ k = 0 % y
      BY <1>1, <1>2, <1>9, <2>2 DEF ProposedIndex, Apply
    <2>4. (y * 0 + 0) \div y = 0 /\ (y * 0 + 0) % y = 0
      BY <1>3, <2>2, QuotientIs
    <2>5. y * 0 + 0 = 0
      BY <1>3
    <2> QED
      BY <2>3, <2>4, <2>5
  <1>10. CASE rule \in {"and1", "and2", "and3", "and4", "or1"}
    <2>1. 0 \in Words(MaxWidth) /\ \A z \in Words(n) : z \in Words(MaxWidth)
      BY <1>z, FewerBits
    <2>2. \A z \in Words(n) : And(0, z) = 0
      BY <2>1, AndHalves
    <2>3. CASE rule \in {"and1", "and2", "and4"}
      <3>1. k = And(0, y)
        BY <1>1, <2>3 DEF ProposedIndex
      <3> QED
        BY <1>2, <2>2, <3>1
    <2>4. CASE rule = "and3"
      <3>1. k = And(0, Cut(y + 0, n)) /\ y + 0 = y
        BY <1>1, <1>2, <1>3, <2>4 DEF ProposedIndex
      <3> QED
        BY <1>2, <2>2, <3>1, CutWord
    <2>5. CASE rule = "or1"
      <3>1. k = Cut(Or(0, y) - y, n) /\ Or(0, y) = 0 + y - 0
        BY <1>1, <1>2, <2>2, <2>5 DEF ProposedIndex, Or
      <3>2. Or(0, y) - y = 0
        BY <1>3, <3>1
      <3> QED
        BY <1>4, <3>1, <3>2
    <2> QED
      BY <1>10, <2>3, <2>4, <2>5
  <1>11. CASE rule \in {"or2", "xor"}
    BY <1>11 DEF ProposedIndex
  <1>12. CASE rule = "ashr"
    BY <1>12 DEF Assumption
  <1> QED
    BY <1>5, <1>6, <1>7, <1>8, <1>9, <1>10, <1>11, <1>12 DEF RuleOf

\* tryTransform (shape_calc.cpp): the shape that a proved rule gives is right.
LEMMA TransformShapeIs ==
    ASSUME MaxWidth \in Nat, NEW n \in Nat, n <= MaxWidth,
           NEW a, NEW b, GoodShape(a, n), GoodShape(b, n),
           NEW x \in a.base, NEW y \in b.base, NEW op \in BinaryOps \ {"sdiv", "srem"}
    PROVE  ResultIs(TryTransform(op, a, b),
                    [l \in Lanes |-> Apply(op, AtLane(a, x, l), AtLane(b, y, l), n)], n)
  <1> DEFINE v == [l \in Lanes |-> Apply(op, AtLane(a, x, l), AtLane(b, y, l), n)]
             rules == Rules(op)
             proved == {k \in DOMAIN rules : Proved(rules[k], a, b)}
             rule == rules[Min(proved)]
             of(z) == [l \in Lanes |-> ProposedIndex(rule, a, b, z, l)]
             idx == {of(z) : z \in b.base}
             results == {Apply(op, w, z, n) : w \in a.base, z \in b.base}
             s == TryTransform(op, a, b)
  <1>1. IndexedShape(a, n) /\ IndexedShape(b, n)
    BY DEF GoodShape
  <1>n. n \in Nat \ {0} /\ a.width = n /\ b.width = n
    BY <1>1 DEF IndexedShape
  <1>2. s = IF proved = {} THEN Varying
            ELSE IF Cardinality(idx) > 1 THEN NoShape
            ELSE Indexed(results, CHOOSE i \in idx : TRUE, n)
    BY <1>n DEF TryTransform
  <1> SUFFICES ASSUME IsIndexed(s)
               PROVE  GoodShape(s, n) /\ Describes(s, v)
    BY DEF ResultIs
  <1>3. proved # {} /\ ~(Cardinality(idx) > 1)
    <2>1. s # Varying /\ s # NoShape
      BY DEF IsIndexed, Varying, NoShape
    <2> HIDE DEF proved, idx, results, s
    <2> QED
      BY <1>2, <2>1
  <1>4. Min(proved) \in DOMAIN rules /\ Proved(rule, a, b) /\ RuleOf(rule, op)
    <2>1. DOMAIN rules \subseteq Int /\ \A k \in DOMAIN rules : 0 <= k /\ RuleOf(rules[k], op)
      BY DEF Rules, RuleOf, BinaryOps
    <2>2. proved \subseteq Nat
      BY <2>1
    <2>3. Min(proved) \in proved
      <3>1. proved # {}
        BY <1>3
      <3> HIDE DEF proved
      <3> QED
        BY ONLY <2>2, <3>1, FirstProved
    <2> HIDE DEF rules
    <2> QED
      BY <2>1, <2>3
  <1> HIDE DEF rule, proved, rules
  <1>5. IsFiniteSet(idx) /\ idx # {} /\ of(y) \in idx
    <2> DEFINE f == [z \in b.base |-> of(z)]
    <2>1. f \in [b.base -> idx]
      OBVIOUS
    <2>2. IsFiniteSet(b.base)
      BY <1>1, BaseFinite
    <2>3. \A i \in idx : \E z \in b.base : f[z] = i
      OBVIOUS
    <2>4. of(y) \in idx
      OBVIOUS
    <2> HIDE DEF f, idx
    <2>5. IsFiniteSet(idx)
      BY ONLY <2>1, <2>2, <2>3, ImagesFinite
    <2> QED
      BY <2>4, <2>5
  <1>6. (CHOOSE i \in idx : TRUE) = of(y)
    <2>0. of(y) \in idx
      BY <1>5
    <2> HIDE DEF idx, of
    <2>1. PICK i : idx = {i}
      BY <1>3, <1>5, OneOfFew
    <2> QED
      BY <2>0, <2>1
  <1>7. s = Indexed(results, of(y), n)
    <2> HIDE DEF idx, of, results, s
    <2> QED
      BY <1>2, <1>3, <1>6
  <1>8. Assumption(rule, a, b, x, y)
    BY <1>4 DEF Proved
  <1>9. \A l \in Lanes : IndexIsRight(rule, op, a, b, x, y, l, n)
    BY <1>1, <1>4, <1>8, RuleIsRight
  <1>10. ProposedIndex(rule, a, b, y, 0) = 0
    BY <1>4, <1>8, NoFirstIndex
  <1>11. Apply(op, x, y, n) \in results
    OBVIOUS
  <1>12. results \in SUBSET Words(n)
    <2>1. \A w \in a.base, z \in b.base : w \in Words(n) /\ z \in Words(n)
      BY <1>1 DEF IndexedShape
    <2>2. \A w \in a.base, z \in b.base : Apply(op, w, z, n) \in Words(n)
      BY <1>n, <2>1, ApplyWord
    <2> QED
      BY <2>2
  <1>13. of(y) \in [Lanes -> Words(n)]
    BY <1>9 DEF IndexIsRight
  <1>14. \A l \in Lanes : v[l] \in Words(n) /\ Same(Apply(op, x, y, n) + of(y)[l], v[l], n)
    <2> TAKE l \in Lanes
    <2>1. AtLane(a, x, l) \in Words(n) /\ AtLane(b, y, l) \in Words(n)
      BY <1>1, AtLaneIs
    <2>2. v[l] = Apply(op, AtLane(a, x, l), AtLane(b, y, l), n)
      OBVIOUS
    <2>3. v[l] \in Words(n)
      BY <1>n, <2>1, <2>2, ApplyWord
    <2>4. of(y)[l] = ProposedIndex(rule, a, b, y, l)
      OBVIOUS
    <2>5. IndexIsRight(rule, op, a, b, x, y, l, n)
      BY <1>9
    <2> HIDE DEF of, v
    <2>6. Same(Apply(op, x, y, n) + of(y)[l], v[l], n)
      BY <2>2, <2>4, <2>5 DEF IndexIsRight
    <2> QED
      BY <2>3, <2>6
  <1>15. of(y)[0] = 0
    BY <1>10, FirstLane
  <1> HIDE DEF of, v, results, s
  <1>16. IndexedShape(s, n) /\ Describes(s, v)
    BY <1>n, <1>7, <1>11, <1>12, <1>13, <1>14, IndexedIs
  <1>17. s.base = results /\ s.idx = of(y)
    BY <1>7 DEF Indexed
  <1>18. s.base # {} /\ s.idx[0] = 0
    BY <1>11, <1>15, <1>17
  <1>19. GoodShape(s, n)
    BY <1>16, <1>18 DEF GoodShape
  <1> QED
    BY <1>16, <1>19

\* calculateShapeBinaryOp (shapes.cpp): if the operands are what their shapes
\* say, whatever the words of their bases, and the result has a base, every
\* lane's result is the base plus the lane's index.
THEOREM BinaryShapeIs ==
    ASSUME MaxWidth \in Nat, NEW n \in Nat, n <= MaxWidth,
           NEW a, NEW b, GoodShape(a, n), GoodShape(b, n),
           NEW x \in a.base, NEW y \in b.base, NEW op \in BinaryOps
    PROVE  ResultIs(BinaryOpShape(op, a, b),
                    [l \in Lanes |-> Apply(op, AtLane(a, x, l), AtLane(b, y, l), n)], n)
  <1> DEFINE v == [l \in Lanes |-> Apply(op, AtLane(a, x, l), AtLane(b, y, l), n)]
             x0 == ConstantBase(a)
             y0 == ConstantBase(b)
             actual == [l \in Lanes |-> Apply(op, AtLane(a, x0, l), AtLane(b, y0, l), n)]
  <1>1. IndexedShape(a, n) /\ IndexedShape(b, n)
    BY DEF GoodShape
  <1>2. n \in Nat \ {0} /\ a.width = n /\ b.width = n /\ a.type = "indexed" /\ b.type = "indexed"
    BY <1>1 DEF IndexedShape
  <1>3. BinaryOpShape(op, a, b) =
            IF AllConstant({a, b}) /\ op # "shl"
            THEN Known(Apply(op, x0, y0, n), actual, n)
            ELSE IF op \in {"sdiv", "srem"} THEN Unknown
            ELSE TryTransform(op, a, b)
    BY <1>2 DEF BinaryOpShape, Checked, IsVarying
  <1>4. CASE AllConstant({a, b}) /\ op # "shl"
    <2>1. a.base = {x0} /\ b.base = {y0} /\ x0 \in a.base /\ y0 \in b.base
      BY <1>1, <1>4, ConstantBaseIs DEF AllConstant
    <2>2. x = x0 /\ y = y0
      BY <2>1
    <2> HIDE DEF x0, y0
    <2>3. v = actual
      BY <2>2
    <2>4. \A l \in Lanes : v[l] \in Words(n)
      <3> TAKE l \in Lanes
      <3>1. AtLane(a, x, l) \in Words(n) /\ AtLane(b, y, l) \in Words(n)
        BY <1>1, AtLaneIs
      <3> QED
        BY <1>2, <3>1, ApplyWord
    <2>5. v \in [Lanes -> Words(n)]
      BY <2>4
    <2>6. v[0] = Apply(op, x, y, n)
      BY FirstLane, FirstLaneIs
    <2>7. Apply(op, x, y, n) \in Words(n)
      BY <2>4, <2>6, FirstLane
    <2>8. BinaryOpShape(op, a, b) = Known(Apply(op, x, y, n), v, n)
      BY <1>3, <1>4, <2>2, <2>3
    <2> HIDE DEF v, actual
    <2>9. ResultIs(Known(Apply(op, x, y, n), v, n), v, n)
      BY <1>2, <2>5, <2>6, <2>7, KnownResult
    <2> QED
      BY <2>8, <2>9 DEF v
  <1>5. CASE ~(AllConstant({a, b}) /\ op # "shl") /\ op \in {"sdiv", "srem"}
    <2>1. BinaryOpShape(op, a, b) = Unknown
      BY <1>3, <1>5
    <2> QED
      BY <2>1 DEF ResultIs, IsIndexed, Unknown
  <1>6. CASE ~(AllConstant({a, b}) /\ op # "shl") /\ op \notin {"sdiv", "srem"}
    <2>1. BinaryOpShape(op, a, b) = TryTransform(op, a, b)
      BY <1>3, <1>6
    <2> QED
      BY <1>6, <2>1, TransformShapeIs
  <1> QED
    BY <1>4, <1>5, <1>6
\* All lanes of a uniform shape have the base.
LEMMA UniformLane ==
    ASSUME NEW n, NEW s, GoodShape(s, n), IsUniform(s), NEW x \in s.base, NEW l \in Lanes
    PROVE  AtLane(s, x, l) = x
  <1>1. s.idx[l] = s.idx[0]
    <2>1. CASE l = 0
      BY <2>1
    <2>2. CASE l # 0
      BY <2>2 DEF IsUniform
    <2> QED
      BY <2>1, <2>2
  <1>2. IndexedShape(s, n) /\ s.idx[0] = 0
    BY DEF GoodShape
  <1>3. /\ n \in Nat /\ x \in Words(n) /\ x \in Int
        /\ AtLane(s, x, l) = Cut(x + s.idx[l], n)
    BY <1>2, AtLaneIs
  <1>4. x + 0 = x
    BY <1>3
  <1> QED
    BY <1>1, <1>2, <1>3, <1>4, CutWord

\* A shape whose indices are right modulo 2^n.
LEMMA IndexedResult ==
    ASSUME NEW n \in Nat \ {0}, NEW B0 \in SUBSET Words(n), NEW base \in B0,
           NEW idx \in [Lanes -> Words(n)], idx[0] = 0, NEW v,
           \A l \in Lanes : v[l] \in Words(n) /\ Same(base + idx[l], v[l], n)
    PROVE  ResultIs(Indexed(B0, idx, n), v, n)
  <1>1. IndexedShape(Indexed(B0, idx, n), n) /\ Describes(Indexed(B0, idx, n), v)
    BY IndexedIs
  <1>2. Indexed(B0, idx, n).base = B0 /\ Indexed(B0, idx, n).idx = idx
    BY DEF Indexed
  <1> QED
    BY <1>1, <1>2 DEF ResultIs, GoodShape

\* A stride of 0 is no index.
LEMMA StrideZero ==
    ASSUME NEW n \in Nat, NEW B0
    PROVE  Uniform(B0, n) = Indexed(B0, [l \in Lanes |-> 0], n)
  <1>1. \A l \in Lanes : l * 0 = 0
    BY LanesAssumption DEF Lanes
  <1>2. 0 \in Words(n)
    BY WordIs, Power
  <1>3. Cut(0, n) = 0
    BY <1>2, CutWord
  <1>4. [l \in Lanes |-> Cut(l * 0, n)] = [l \in Lanes |-> 0]
    BY <1>1, <1>3
  <1> QED
    BY <1>4 DEF Uniform, Strided

\* One word for all lanes.
LEMMA UniformResult ==
    ASSUME NEW n \in Nat \ {0}, NEW B0 \in SUBSET Words(n), NEW base \in B0, NEW v,
           \A l \in Lanes : v[l] = base
    PROVE  ResultIs(Uniform(B0, n), v, n)
  <1> DEFINE idx == [l \in Lanes |-> 0]
  <1>1. 0 \in Words(n) /\ base \in Words(n) /\ base \in Int
    BY WordIs, Power
  <1>2. idx \in [Lanes -> Words(n)] /\ idx[0] = 0
    BY <1>1, FirstLane
  <1>3. base + 0 = base /\ Same(base, base, n)
    BY <1>1, SameSelf
  <1>4. \A l \in Lanes : v[l] \in Words(n) /\ Same(base + idx[l], v[l], n)
    <2> TAKE l \in Lanes
    <2>1. idx[l] = 0 /\ v[l] = base
      OBVIOUS
    <2> HIDE DEF idx
    <2> QED
      BY <1>1, <1>3, <2>1
  <1>5. Uniform(B0, n) = Indexed(B0, idx, n)
    BY StrideZero
  <1> HIDE DEF idx
  <1> QED
    BY <1>2, <1>4, <1>5, IndexedResult

\* calculateShapeCmp (shapes.cpp): the same for comparisons, which are
\* folded for the bases of uniform operands alone.
THEOREM CmpShapeIs ==
    ASSUME NEW n \in Nat, NEW a, NEW b, GoodShape(a, n), GoodShape(b, n),
           NEW x \in a.base, NEW y \in b.base, NEW op \in Comparisons
    PROVE  ResultIs(CmpShape(op, a, b),
                    [l \in Lanes |-> Compare(op, AtLane(a, x, l), AtLane(b, y, l), n)], 1)
  <1> DEFINE v == [l \in Lanes |-> Compare(op, AtLane(a, x, l), AtLane(b, y, l), n)]
             x0 == ConstantBase(a)
             y0 == ConstantBase(b)
             actual == [l \in Lanes |-> Compare(op, AtLane(a, x0, l), AtLane(b, y0, l), n)]
             results == {Compare(op, w, z, n) : w \in a.base, z \in b.base}
  <1>1. IndexedShape(a, n) /\ IndexedShape(b, n)
    BY DEF GoodShape
  <1>2. n \in Nat \ {0} /\ a.width = n /\ a.type = "indexed" /\ b.type = "indexed"
    BY <1>1 DEF IndexedShape
  <1>3. CmpShape(op, a, b) =
            IF op = "ule" THEN Varying
            ELSE IF AllConstant({a, b})
            THEN Known(Compare(op, x0, y0, n), actual, 1)
            ELSE IF IsUniform(a) /\ IsUniform(b) THEN Uniform(results, 1) ELSE Varying
    BY <1>2 DEF CmpShape, Checked, IsVarying
  <1>4. \A w, z : Compare(op, w, z, n) \in Words(1)
    <2>1. 2^1 = 2
      OBVIOUS
    <2>2. 0 \in Words(1) /\ 1 \in Words(1)
      <3> DEFINE p == 2^1
      <3>1. p = 2 /\ \A z : z \in Words(1) <=> z \in Nat /\ z < p
        BY <2>1, WordIs
      <3> HIDE DEF p
      <3> QED
        BY <3>1
    <2>3. \A p : Bool(p) \in Words(1)
      BY <2>2 DEF Bool
    <2> QED
      BY <2>3 DEF Compare, Comparisons
  <1>5. CASE op # "ule" /\ AllConstant({a, b})
    <2>1. a.base = {x0} /\ b.base = {y0} /\ x0 \in a.base /\ y0 \in b.base
      BY <1>1, <1>5, ConstantBaseIs DEF AllConstant
    <2>2. x = x0 /\ y = y0
      BY <2>1
    <2> HIDE DEF x0, y0
    <2>3. v = actual
      BY <2>2
    <2>5. v \in [Lanes -> Words(1)]
      BY <1>4
    <2>6. v[0] = Compare(op, x, y, n)
      BY FirstLane, FirstLaneIs
    <2>8. CmpShape(op, a, b) = Known(Compare(op, x, y, n), v, 1)
      BY <1>3, <1>5, <2>2, <2>3
    <2> HIDE DEF v, actual
    <2>9. ResultIs(Known(Compare(op, x, y, n), v, 1), v, 1)
      BY <1>4, <2>5, <2>6, KnownResult
    <2> QED
      BY <2>8, <2>9 DEF v
  <1>6. CASE op # "ule" /\ ~AllConstant({a, b}) /\ IsUniform(a) /\ IsUniform(b)
    <2>1. CmpShape(op, a, b) = Uniform(results, 1)
      BY <1>3, <1>6
    <2>2. \A l \in Lanes : v[l] = Compare(op, x, y, n)
      BY <1>6, UniformLane
    <2>3. results \in SUBSET Words(1) /\ Compare(op, x, y, n) \in results
      BY <1>4
    <2> HIDE DEF results, v
    <2>4. ResultIs(Uniform(results, 1), v, 1)
      BY <2>2, <2>3, UniformResult
    <2> QED
      BY <2>1, <2>4 DEF v
  <1>7. CASE op = "ule" \/ (~AllConstant({a, b}) /\ ~(IsUniform(a) /\ IsUniform(b)))
    <2>1. CmpShape(op, a, b) = Varying
      <3> HIDE DEF results, actual
      <3> QED
        BY <1>3, <1>7
    <2> QED
      BY <2>1 DEF ResultIs, IsIndexed, Varying
  <1> QED
    BY <1>5, <1>6, <1>7

\* A GEP adds the indices as it adds the bases.
LEMMA GEPShapeIs ==
    ASSUME NEW n \in Nat, NEW a, NEW b, GoodShape(a, n), GoodShape(b, n),
           NEW x \in a.base, NEW y \in b.base, NEW size \in Nat
    PROVE  ResultIs(GEPShape(a, b, size),
                    [l \in Lanes |-> Cut(AtLane(a, x, l) + AtLane(b, y, l) * size, n)], n)
  <1> DEFINE v == [l \in Lanes |-> Cut(AtLane(a, x, l) + AtLane(b, y, l) * size, n)]
             results == {Cut(w + z * size, n) : w \in a.base, z \in b.base}
             idx == [l \in Lanes |-> Cut(a.idx[l] + b.idx[l] * size, n)]
             base == Cut(x + y * size, n)
  <1>1. IndexedShape(a, n) /\ IndexedShape(b, n) /\ a.idx[0] = 0 /\ b.idx[0] = 0
    BY DEF GoodShape
  <1>2. n \in Nat \ {0} /\ a.width = n /\ a.type = "indexed" /\ b.type = "indexed"
    BY <1>1 DEF IndexedShape
  <1>3. GEPShape(a, b, size) = Indexed(results, idx, n)
    BY <1>2 DEF GEPShape, Checked, IsVarying
  <1>4. \A w, z \in Int : w + z * size \in Int
    <2> TAKE w, z \in Int
    <2>1. z * size \in Int
      OBVIOUS
    <2> QED
      BY <2>1
  <1>5. \A w \in a.base, z \in b.base : w \in Int /\ z \in Int
    BY <1>1, FirstLane, AtLaneIs
  <1>6. results \in SUBSET Words(n) /\ base \in results
    <2>1. \A w \in a.base, z \in b.base : Cut(w + z * size, n) \in Words(n)
      BY <1>4, <1>5, CutIs
    <2> QED
      BY <2>1
  <1>7. \A l \in Lanes : a.idx[l] \in Int /\ b.idx[l] \in Int
    BY <1>1, AtLaneIs
  <1>8. idx \in [Lanes -> Words(n)]
    BY <1>4, <1>7, CutIs
  <1>9. idx[0] = 0
    <2>1. 0 + 0 * size = 0 /\ 0 \in Words(n)
      BY WordIs, Power
    <2>2. idx[0] = Cut(0 + 0 * size, n)
      BY <1>1, FirstLane
    <2> QED
      BY <2>1, <2>2, CutWord
  <1>10. \A l \in Lanes : v[l] \in Words(n) /\ Same(base + idx[l], v[l], n)
    <2> TAKE l \in Lanes
    <2> DEFINE i == a.idx[l]
               j == b.idx[l]
               u == AtLane(a, x, l)
               w == AtLane(b, y, l)
    <2>1. /\ u \in Int /\ w \in Int /\ Same(u, x + i, n) /\ Same(w, y + j, n)
          /\ x \in Int /\ y \in Int /\ i \in Int /\ j \in Int
      BY <1>1, AtLaneIs
    <2>2. idx[l] = Cut(i + j * size, n) /\ v[l] = Cut(u + w * size, n)
      OBVIOUS
    <2> HIDE DEF i, j, u, w, idx, v, base
    <2>3. Same(x + i, u, n) /\ Same(y + j, w, n)
      BY <2>1, SameWord
    <2>s. size \in Int
      OBVIOUS
    <2>4. Same((y + j) * size, w * size, n)
      BY <2>3, <2>s, SameProducts, Zenon
    <2>5. (y + j) * size = y * size + j * size /\ y * size \in Int /\ j * size \in Int /\ w * size \in Int
      BY <2>1
    <2> DEFINE p == y * size
               q == j * size
               r == w * size
    <2>6. p \in Int /\ q \in Int /\ r \in Int /\ Same(p + q, r, n)
      BY <2>4, <2>5
    <2>7. base = Cut(x + p, n)
      BY DEF base
    <2> HIDE DEF p, q, r
    <2>8. Same(Cut(x + p, n) + Cut(i + q, n), Cut(u + r, n), n)
      BY <2>1, <2>3, <2>6, SumRule
    <2>9. u + r \in Int
      BY <2>1, <2>6
    <2>10. Cut(u + r, n) \in Words(n)
      BY <2>9, CutIs
    <2> QED
      BY <2>2, <2>7, <2>8, <2>10 DEF q, r
  <1> HIDE DEF results, idx, base, v
  <1>11. ResultIs(Indexed(results, idx, n), v, n)
    BY <1>2, <1>6, <1>8, <1>9, <1>10, IndexedResult
  <1> QED
    BY <1>3, <1>11 DEF v

\* A load from memory; table is what the memory has.
LEMMA LoadShapeIs ==
    ASSUME NEW m \in Nat, NEW n \in Nat \ {0}, NEW a, GoodShape(a, m), NEW x \in a.base,
           NEW table, \A w \in Words(m) : table[w] \in Words(n)
    PROVE  ResultIs(LoadShape(a, FALSE, table, n), [l \in Lanes |-> table[AtLane(a, x, l)]], n)
  <1> DEFINE v == [l \in Lanes |-> table[AtLane(a, x, l)]]
  <1>1. LoadShape(a, FALSE, table, n) = IF IsUniform(a) THEN Symbolic(n) ELSE Varying
    BY DEF LoadShape
  <1>2. CASE IsUniform(a)
    <2>1. \A l \in Lanes : v[l] = table[x]
      BY <1>2, UniformLane
    <2>2. x \in Words(m)
      BY DEF GoodShape, IndexedShape
    <2>3. table[x] \in Words(n)
      BY <2>2
    <2> HIDE DEF v
    <2>4. ResultIs(Uniform(Words(n), n), v, n)
      BY <2>1, <2>3, UniformResult
    <2> QED
      BY <1>1, <1>2, <2>4 DEF v, Symbolic
  <1>3. CASE ~IsUniform(a)
    <2>1. LoadShape(a, FALSE, table, n) = Varying
      BY <1>1, <1>3
    <2> QED
      BY <2>1, NothingPromised
  <1> QED
    BY <1>2, <1>3, Zenon
\* calculateShapeSelect (shapes.cpp): the same for selects, which take one of
\* two bases, or fold the lanes of constants.
THEOREM SelectShapeIs ==
    ASSUME NEW n \in Nat, NEW a, NEW b, NEW c,
           GoodShape(a, n), GoodShape(b, n), GoodShape(c, 1),
           NEW x \in a.base, NEW y \in b.base, NEW z \in c.base
    PROVE  ResultIs(SelectShape(c, a, b),
                    [l \in Lanes |-> SelectWord(AtLane(c, z, l), AtLane(a, x, l), AtLane(b, y, l))],
                    n)
  <1> DEFINE v == [l \in Lanes |-> SelectWord(AtLane(c, z, l), AtLane(a, x, l), AtLane(b, y, l))]
             x0 == ConstantBase(a)
             y0 == ConstantBase(b)
             z0 == ConstantBase(c)
             actual == [l \in Lanes |-> SelectWord(AtLane(c, z0, l), AtLane(a, x0, l), AtLane(b, y0, l))]
             results == {SelectWord(r, p, q) : r \in c.base, p \in a.base, q \in b.base}
             all == AllConstant({a, b, c})
             s == SelectShape(c, a, b)
  <1>1. IndexedShape(a, n) /\ IndexedShape(b, n) /\ IndexedShape(c, 1)
    BY DEF GoodShape
  <1>2. /\ n \in Nat \ {0} /\ a.width = n /\ b.width = n
        /\ a.type = "indexed" /\ b.type = "indexed" /\ c.type = "indexed"
    BY <1>1 DEF IndexedShape
  <1>3. s = IF all THEN Known(SelectWord(z0, x0, y0), actual, n)
            ELSE IF ~IsUniform(c) THEN Varying
            ELSE IF IsUniform(a) /\ IsUniform(b) THEN Symbolic(n)
            ELSE IF a.idx = b.idx THEN Indexed(results, a.idx, n)
            ELSE Varying
    BY <1>2 DEF SelectShape, IsIndexed
  <1>4. \A p, q, r : p \in Words(n) /\ q \in Words(n) => SelectWord(r, p, q) \in Words(n)
    BY DEF SelectWord
  <1>5. \A l \in Lanes : AtLane(a, x, l) \in Words(n) /\ AtLane(b, y, l) \in Words(n)
    BY <1>1, AtLaneIs
  <1>6. \A l \in Lanes : v[l] \in Words(n)
    BY <1>4, <1>5
  <1>7. x \in Words(n) /\ y \in Words(n)
    BY <1>1 DEF IndexedShape
  <1>8. CASE all
    <2>1. /\ a.base = {x0} /\ b.base = {y0} /\ c.base = {z0}
          /\ x0 \in a.base /\ y0 \in b.base /\ z0 \in c.base
      BY <1>1, <1>8, ConstantBaseIs DEF AllConstant
    <2>2. x = x0 /\ y = y0 /\ z = z0
      BY <2>1
    <2> HIDE DEF x0, y0, z0, all
    <2>3. v = actual
      BY <2>2
    <2>5. v \in [Lanes -> Words(n)]
      BY <1>6
    <2>6. v[0] = SelectWord(z, x, y)
      BY FirstLane, FirstLaneIs
    <2>7. s = Known(SelectWord(z, x, y), v, n)
      BY <1>3, <1>8, <2>2, <2>3
    <2> HIDE DEF v, actual, s
    <2>8. ResultIs(Known(SelectWord(z, x, y), v, n), v, n)
      BY <1>2, <1>4, <1>7, <2>5, <2>6, KnownResult
    <2> QED
      BY <2>7, <2>8 DEF v, s
  <1>9. CASE ~all /\ IsUniform(c) /\ IsUniform(a) /\ IsUniform(b)
    <2>1. \A l \in Lanes : v[l] = SelectWord(z, x, y)
      BY <1>1, <1>9, UniformLane
    <2>2. s = Uniform(Words(n), n)
      <3> HIDE DEF all, actual, results, s
      <3> QED
        BY <1>3, <1>9 DEF Symbolic
    <2>3. SelectWord(z, x, y) \in Words(n)
      BY <1>4, <1>7
    <2> HIDE DEF v, s
    <2>4. ResultIs(Uniform(Words(n), n), v, n)
      BY <1>2, <2>1, <2>3, UniformResult
    <2> QED
      BY <2>2, <2>4 DEF v, s
  <1>10. CASE ~all /\ IsUniform(c) /\ ~(IsUniform(a) /\ IsUniform(b)) /\ a.idx = b.idx
    <2>1. s = Indexed(results, a.idx, n)
      <3> HIDE DEF all, actual, results, s
      <3> QED
        BY <1>3, <1>10
    <2>2. results \in SUBSET Words(n) /\ SelectWord(z, x, y) \in results
      <3>1. \A p \in a.base, q \in b.base : p \in Words(n) /\ q \in Words(n)
        BY <1>1 DEF IndexedShape
      <3> QED
        BY <1>4, <3>1
    <2>3. a.idx \in [Lanes -> Words(n)] /\ a.idx[0] = 0
      BY <1>1 DEF IndexedShape, GoodShape
    <2>4. \A l \in Lanes : v[l] \in Words(n) /\ Same(SelectWord(z, x, y) + a.idx[l], v[l], n)
      <3> TAKE l \in Lanes
      <3>1. v[l] = SelectWord(z, AtLane(a, x, l), AtLane(b, y, l))
        BY <1>10, UniformLane
      <3>2. /\ Same(AtLane(a, x, l), x + a.idx[l], n)
            /\ Same(AtLane(b, y, l), y + a.idx[l], n)
        BY <1>1, <1>10, AtLaneIs
      <3>3. /\ Same(x + a.idx[l], AtLane(a, x, l), n)
            /\ Same(y + a.idx[l], AtLane(b, y, l), n)
        BY <3>2, SameWord
      <3>4. Same(SelectWord(z, x, y) + a.idx[l], SelectWord(z, AtLane(a, x, l), AtLane(b, y, l)), n)
        BY <3>3 DEF SelectWord
      <3> HIDE DEF v
      <3> QED
        BY <1>6, <3>1, <3>4
    <2> HIDE DEF v, s, results
    <2>5. ResultIs(Indexed(results, a.idx, n), v, n)
      BY <1>2, <2>2, <2>3, <2>4, IndexedResult
    <2> QED
      BY <2>1, <2>5 DEF v, s
  <1>11. CASE ~all /\ (~IsUniform(c) \/ (~(IsUniform(a) /\ IsUniform(b)) /\ a.idx # b.idx))
    <2>1. s = Varying
      <3> HIDE DEF all, actual, results, s
      <3> QED
        BY <1>3, <1>11
    <2> QED
      BY <2>1, NothingPromised
  <1> QED
    BY <1>8, <1>9, <1>10, <1>11, Zenon

\* Without a carry out of the lower bits, the sign of a sum is the sum of the signs.
LEMMA SignedSums ==
    ASSUME NEW h \in Nat, h > 0, NEW x \in Nat, NEW i \in Nat, x + i < 2 * h,
           (x % h) + (i % h) < h
    PROVE  LET signed(z) == IF 2 * z < 2 * h THEN z ELSE z - 2 * h
           IN  signed(x) + signed(i) = signed(x + i)
  <1> DEFINE q == x \div h
             r == x % h
             s == i \div h
             t == i % h
  <1>1. /\ q \in Int /\ r \in Int /\ x = h * q + r /\ 0 <= r /\ r < h
        /\ s \in Int /\ t \in Int /\ i = h * s + t /\ 0 <= t /\ t < h /\ r + t < h
    BY DivMod
  <1> HIDE DEF q, r, s, t
  <1>2. \A z \in Int, w \in Int : 0 <= z /\ z < 2 * h /\ 0 <= w /\ w < h =>
            \A p \in Int : z = h * p + w => p = 0 \/ p = 1
    <2> TAKE z \in Int, w \in Int
    <2> HAVE 0 <= z /\ z < 2 * h /\ 0 <= w /\ w < h
    <2> TAKE p \in Int
    <2> HAVE z = h * p + w
    <2>1. CASE p >= 2
      <3>1. p - 2 \in Nat /\ h * p = h * (p - 2) + 2 * h /\ h * (p - 2) \in Nat
        BY <2>1
      <3> QED
        BY <3>1
    <2>2. CASE p < 0
      <3>1. -p - 1 \in Nat /\ h * p = -(h * (-p - 1)) - h /\ h * (-p - 1) \in Nat
        BY <2>2
      <3> QED
        BY <3>1
    <2> QED
      BY <2>1, <2>2
  <1>3. (q = 0 \/ q = 1) /\ (s = 0 \/ s = 1)
    <2>1. x < 2 * h /\ i < 2 * h
      OBVIOUS
    <2> QED
      BY <1>1, <1>2, <2>1
  <1>4. (x = r \/ x = h + r) /\ (i = t \/ i = h + t)
    BY <1>1, <1>3
  <1> QED
    BY <1>1, <1>4
\* A conversion to n bits makes words of n bits.
LEMMA ConvertWord ==
    ASSUME NEW m \in Nat \ {0}, NEW n \in Nat, NEW op, NEW z \in Words(m)
    PROVE  Convert(op, z, m, n) \in Words(n)
  <1>1. SignedWord(z, m) \in Int /\ z \in Int
    BY SignedWordInt, WordIs
  <1> QED
    BY <1>1, CutIs DEF Convert

\* Words of the wider type that are the same are so in the narrower one.
LEMMA SameLower ==
    ASSUME NEW m \in Nat, NEW n \in Nat, n <= m, NEW x, NEW y, Same(x, y, m)
    PROVE  Same(x, y, n)
  <1> DEFINE p == 2^m
             q == 2^n
  <1>1. q \in Nat
    BY Power
  <1>2. PICK f \in Nat \ {0} : p = q * f
    BY PowerDivides
  <1>3. PICK k \in Int : x = y + p * k
    BY DEF Same
  <1> HIDE DEF p, q
  <1> DEFINE g == f * k
  <1>4. g \in Int /\ p * k = q * g
    BY <1>1, <1>2
  <1> HIDE DEF g
  <1>5. x = y + q * g
    BY <1>3, <1>4
  <1> QED
    BY <1>4, <1>5 DEF Same, q

\* What the conversion makes of base and index makes up for its value in a lane.
LEMMA ConvertRule ==
    ASSUME NEW m \in Nat \ {0}, NEW n \in Nat, NEW op \in {"sext", "zext", "trunc"},
           op = "trunc" => n <= m,
           NEW a, a.width = m, NEW l \in Lanes, NEW x \in Words(m), a.idx[l] \in Words(m),
           op # "trunc" => ~ExtOverflows(op, a, x, l)
    PROVE  Same(Convert(op, x, m, n) + Convert(op, a.idx[l], m, n),
                Convert(op, AtLane(a, x, l), m, n), n)
  <1> DEFINE i == a.idx[l]
             u == AtLane(a, x, l)
             p == 2^m
  <1>1. x \in Nat /\ i \in Nat /\ p \in Nat
    BY WordIs, Power
  <1>2. x + i \in Int
    BY <1>1
  <1>3. u = Cut(x + i, m)
    BY DEF AtLane
  <1>4. u \in Words(m) /\ u \in Int /\ Same(u, x + i, m)
    BY <1>2, <1>3, CutIs
  <1>5. CASE op = "trunc"
    <2>1. Same(x + i, u, m)
      BY <1>4, SameWord
    <2>2. Same(x + i, u, n)
      BY <1>5, <2>1, SameLower
    <2>3. Same(Cut(x, n), x, n) /\ Same(Cut(i, n), i, n) /\ Same(Cut(u, n), u, n)
      BY <1>1, <1>4, CutIs
    <2>4. Same(Cut(x, n) + Cut(i, n), x + i, n)
      BY <2>3, SameSums
    <2>5. Same(Cut(x, n) + Cut(i, n), u, n)
      BY <2>2, <2>4, SameSame
    <2>6. Same(u, Cut(u, n), n)
      BY <2>3, SameWord
    <2>7. Same(Cut(x, n) + Cut(i, n), Cut(u, n), n)
      BY <2>5, <2>6, SameSame
    <2> QED
      BY <1>5, <2>7 DEF Convert
  <1>6. CASE op # "trunc"
    <2>1. x + i < p
      <3>1. ~(x + a.idx[l] >= 2^m)
        BY <1>6 DEF ExtOverflows
      <3>2. ~(x + i >= p)
        BY <3>1
      <3> HIDE DEF p, i
      <3> QED
        BY <1>1, <3>2
    <2>2. x + i \in Words(m)
      <3>1. x + i \in Nat
        BY <1>1
      <3> QED
        BY <2>1, <3>1, WordIs
    <2>3. u = x + i
      BY <1>3, <2>2, CutWord
    <2>4. ASSUME NEW f, NEW g, NEW e, f \in Int, g \in Int, f + g = e
          PROVE  Same(Cut(f, n) + Cut(g, n), Cut(e, n), n)
      <3>1. e \in Int
        BY <2>4
      <3>2. Same(Cut(f, n), f, n) /\ Same(Cut(g, n), g, n) /\ Same(Cut(e, n), e, n)
        BY <2>4, <3>1, CutIs
      <3>3. Same(Cut(f, n) + Cut(g, n), e, n)
        BY <2>4, <3>2, SameSums
      <3>4. Same(e, Cut(e, n), n)
        BY <3>2, SameWord
      <3> QED
        BY <3>3, <3>4, SameSame
    <2>5. CASE op = "zext"
      <3>1. Same(Cut(x, n) + Cut(i, n), Cut(u, n), n)
        BY <1>1, <2>3, <2>4
      <3> QED
        BY <2>5, <3>1 DEF Convert
    <2>6. CASE op = "sext"
      <3> DEFINE h == 2^(m - 1)
      <3>1. m - 1 \in Nat /\ (m - 1) + 1 = m
        OBVIOUS
      <3>2. h \in Nat /\ h > 0 /\ p = 2 * h
        BY <3>1, Power
      <3>3. (x % h) + (i % h) < h
        <4>1. ~((x % 2^(m - 1)) + (a.idx[l] % 2^(m - 1)) >= 2^(m - 1))
          BY <1>6, <2>6 DEF ExtOverflows
        <4>2. ~((x % h) + (i % h) >= h)
          BY <4>1
        <4>3. x % h \in Int /\ i % h \in Int
          BY <1>1, <3>2, DivMod
        <4> HIDE DEF h, i
        <4> QED
          BY <3>2, <4>2, <4>3
      <3> DEFINE signed(z) == IF 2 * z < 2 * h THEN z ELSE z - 2 * h
      <3>4. \A z : SignedWord(z, m) = signed(z)
        BY <3>2 DEF SignedWord
      <3>5. x + i < 2 * h
        BY <2>1, <3>2
      <3> HIDE DEF h, p, i, u
      <3>6. signed(x) + signed(i) = signed(x + i)
        BY <1>1, <3>2, <3>3, <3>5, SignedSums
      <3> HIDE DEF signed
      <3>7. SignedWord(x, m) + SignedWord(i, m) = SignedWord(u, m)
        BY <2>3, <3>4, <3>6
      <3>8. SignedWord(x, m) \in Int /\ SignedWord(i, m) \in Int
        BY SignedWordInt DEF i
      <3>9. Same(Cut(SignedWord(x, m), n) + Cut(SignedWord(i, m), n), Cut(SignedWord(u, m), n), n)
        BY <2>4, <3>7, <3>8
      <3> QED
        BY <2>6, <3>9 DEF Convert, i, u
    <2> QED
      BY <1>6, <2>5, <2>6
  <1> QED
    BY <1>5, <1>6

\* calculateShapeExt and calculateShapeTrunc (shapes.cpp): the same for
\* sext, zext and trunc; an index is converted on its own, if it does not carry
\* out of the old width.
THEOREM ConvertShapeIs ==
    ASSUME NEW m \in Nat, NEW n \in Nat \ {0}, NEW op \in {"sext", "zext", "trunc"},
           op = "trunc" => n <= m, NEW a, GoodShape(a, m), NEW x \in a.base
    PROVE  ResultIs(ConvertShape(op, a, n),
                    [l \in Lanes |-> Convert(op, AtLane(a, x, l), m, n)], n)
  <1> DEFINE v == [l \in Lanes |-> Convert(op, AtLane(a, x, l), m, n)]
             x0 == ConstantBase(a)
             actual == [l \in Lanes |-> Convert(op, AtLane(a, x0, l), m, n)]
             results == {Convert(op, w, m, n) : w \in a.base}
             idx == [l \in Lanes |-> Convert(op, a.idx[l], m, n)]
             over == \E w \in a.base, l \in Lanes : ExtOverflows(op, a, w, l)
             s == ConvertShape(op, a, n)
  <1>1. IndexedShape(a, m) /\ a.idx[0] = 0
    BY DEF GoodShape
  <1>2. m \in Nat \ {0} /\ a.width = m /\ a.type = "indexed"
    BY <1>1 DEF IndexedShape
  <1>3. s = IF op # "trunc" /\ HasConstantBase(a)
            THEN Known(Convert(op, x0, m, n), actual, n)
            ELSE IF op = "sext" /\ m = 1 THEN NoShape
            ELSE IF op # "trunc" /\ over THEN Varying
            ELSE Indexed(results, idx, n)
    BY <1>2 DEF ConvertShape, Checked, IsVarying
  <1>4. x \in Words(m) /\ \A w \in a.base : w \in Words(m)
    BY <1>1 DEF IndexedShape
  <1>5. \A l \in Lanes : AtLane(a, x, l) \in Words(m) /\ a.idx[l] \in Words(m)
    BY <1>1, AtLaneIs
  <1>6. \A z \in Words(m) : Convert(op, z, m, n) \in Words(n)
    BY <1>2, ConvertWord
  <1>7. CASE op # "trunc" /\ HasConstantBase(a)
    <2>1. x0 \in a.base /\ a.base = {x0}
      BY <1>1, <1>7, ConstantBaseIs
    <2>2. x = x0
      BY <2>1
    <2> HIDE DEF x0, over
    <2>3. v = actual
      BY <2>2
    <2>4. v \in [Lanes -> Words(n)]
      BY <1>5, <1>6
    <2>5. v[0] = Convert(op, x, m, n)
      BY FirstLane, FirstLaneIs
    <2>6. s = Known(Convert(op, x, m, n), v, n)
      BY <1>3, <1>7, <2>2, <2>3
    <2> HIDE DEF v, actual, s
    <2>7. ResultIs(Known(Convert(op, x, m, n), v, n), v, n)
      BY <1>4, <1>6, <2>4, <2>5, KnownResult
    <2> QED
      BY <2>6, <2>7 DEF v, s
  <1>8. CASE ~(op # "trunc" /\ HasConstantBase(a)) /\ ((op = "sext" /\ m = 1) \/ (op # "trunc" /\ over))
    <2>1. s = Varying \/ s = NoShape
      <3> HIDE DEF over, results, idx, actual, s
      <3> QED
        BY <1>3, <1>8
    <2> QED
      BY <2>1, NothingPromised
  <1>9. CASE /\ ~(op # "trunc" /\ HasConstantBase(a))
             /\ ~(op = "sext" /\ m = 1) /\ ~(op # "trunc" /\ over)
    <2>1. s = Indexed(results, idx, n)
      <3> HIDE DEF over, results, idx, actual, s
      <3> QED
        BY <1>3, <1>9
    <2>2. \A l \in Lanes : op # "trunc" => ~ExtOverflows(op, a, x, l)
      BY <1>9
    <2>3. results \in SUBSET Words(n) /\ Convert(op, x, m, n) \in results
      BY <1>4, <1>6
    <2>4. idx \in [Lanes -> Words(n)]
      BY <1>5, <1>6
    <2>5. idx[0] = 0
      <3> DEFINE p == 2^m
      <3>1. 0 \in Words(n) /\ p \in Nat /\ p > 0
        BY WordIs, Power
      <3>2. SignedWord(0, m) = IF 2 * 0 < p THEN 0 ELSE 0 - p
        BY DEF SignedWord
      <3> HIDE DEF p
      <3>3. SignedWord(0, m) = 0
        BY <3>1, <3>2
      <3>4. Cut(0, n) = 0
        BY <3>1, CutWord
      <3>5. idx[0] = Convert(op, 0, m, n)
        BY <1>1, FirstLane
      <3> QED
        BY <3>3, <3>4, <3>5 DEF Convert
    <2>6. \A l \in Lanes : v[l] \in Words(n) /\ Same(Convert(op, x, m, n) + idx[l], v[l], n)
      <3> TAKE l \in Lanes
      <3>1. v[l] = Convert(op, AtLane(a, x, l), m, n) /\ idx[l] = Convert(op, a.idx[l], m, n)
        OBVIOUS
      <3>2. v[l] \in Words(n)
        BY <1>5, <1>6, <3>1
      <3> HIDE DEF v, idx
      <3>3. Same(Convert(op, x, m, n) + Convert(op, a.idx[l], m, n),
                 Convert(op, AtLane(a, x, l), m, n), n)
        BY <1>2, <1>4, <1>5, <2>2, ConvertRule
      <3> QED
        BY <3>1, <3>2, <3>3
    <2> HIDE DEF v, idx, results, s
    <2>7. ResultIs(Indexed(results, idx, n), v, n)
      BY <2>3, <2>4, <2>5, <2>6, IndexedResult
    <2> QED
      BY <2>1, <2>7 DEF v, s
  <1> QED
    BY <1>7, <1>8, <1>9, Zenon

-----------------------------------------------------------------------------
(* Straight-line code *)

\* The instructions whose shapes are calculated from those of their operands
\* alone; not loads from tables of constants, whose first lane may have an
\* index.
StraightOps ==
    BinaryOps \cup Comparisons \cup CallOps
    \cup {"sext", "zext", "trunc", "select", "gep", "load", "freeze", "insert", "fneg"}

WidthIn(p, v) == IF v \in DOMAIN p.ops THEN p.ops[v].width ELSE MaxWidth

\* v has n bits: an instruction, or an argument of any shape.
Typed(p, v, n) ==
    IF v \in DOMAIN p.ops THEN p.ops[v].width = n
    ELSE v \in DOMAIN p.args /\ (IsIndexed(p.args[v]) => GoodShape(p.args[v], n))

\* An instruction that LLVM accepts.
WellTyped(p, i) ==
    LET o == p.ops[i]
        n == o.width
        w == WidthIn(p, o.args[1])
    IN  /\ o.op \in StraightOps
        /\ n \in 1..MaxWidth
        /\ Range(o.args) \subseteq DOMAIN p.args \cup DOMAIN p.ops
        /\ o.op \in BinaryOps \cup {"sadd_sat", "gep"} =>
               /\ DOMAIN o.args = {1, 2}
               /\ Typed(p, o.args[1], n) /\ Typed(p, o.args[2], n)
        /\ o.op \in Comparisons =>
               /\ DOMAIN o.args = {1, 2} /\ n = 1
               /\ Typed(p, o.args[1], w) /\ Typed(p, o.args[2], w)
        /\ o.op \in {"sext", "zext", "trunc"} =>
               /\ DOMAIN o.args = {1} /\ Typed(p, o.args[1], w)
               /\ o.op = "trunc" => n <= w
        /\ o.op = "select" =>
               /\ DOMAIN o.args = {1, 2, 3} /\ Typed(p, o.args[1], 1)
               /\ Typed(p, o.args[2], n) /\ Typed(p, o.args[3], n)
        /\ o.op = "load" =>
               /\ DOMAIN o.args = {1} /\ Typed(p, o.args[1], MaxWidth)
               /\ \A x \in Words(MaxWidth) : Memory[x] \in Words(n)
        /\ o.op = "freeze" => DOMAIN o.args = {1} /\ Typed(p, o.args[1], n)
        /\ o.op = "gang_size" => NumLanes < 2^n
        /\ o.op = "gang_num" => Samples \subseteq Words(n)
        \* numbers of threads fit
        /\ o.op = "lane_num" => NumLanes <= 2^n
        /\ o.op = "thread_num" =>
               /\ n = MaxWidth /\ Samples \subseteq Nat
               /\ NumLanes + 2 <= 2^(n - 1)

\* A function of one block, whose arguments have words of some width.
StraightLine(p) ==
    /\ DOMAIN p.blocks = {"E"}
    /\ Len(p.blocks["E"]) \in Nat
    /\ \A k \in 1..Len(p.blocks["E"]) : p.blocks["E"][k] \in DOMAIN p.ops
    /\ DOMAIN p.args \cap DOMAIN p.ops = {}
    /\ \A v \in DOMAIN p.args :
           p.args[v] \in {Varying, Unknown} \/ \E n \in 1..MaxWidth : GoodShape(p.args[v], n)
    /\ \A i \in DOMAIN p.ops : WellTyped(p, i)

-----------------------------------------------------------------------------
(* Why the shapes of straight-line code hold *)

\* CalculateShape from the shapes sh of the operands.
ShapeGiven(p, i, sh) ==
    LET o == p.ops[i]
        S(k) == sh[o.args[k]]
    IN  CASE o.op \in BinaryOps   -> BinaryOpShape(o.op, S(1), S(2))
          [] o.op \in Comparisons -> CmpShape(o.op, S(1), S(2))
          [] o.op = "lane_num"    -> Strided({0}, 1, o.width)
          [] o.op = "gang_size"   -> Uniform({NumLanes}, o.width)
          [] o.op = "gang_num"    -> Symbolic(o.width)
          [] o.op = "thread_num"  ->
                 Strided({x \in 0..(2^(o.width - 1) - NumLanes - 2) : x % NumLanes = 0}, 1, o.width)
          [] o.op = "sadd_sat"    ->
                 IF \A v \in Range(o.args) : IsUniform(sh[v]) THEN Symbolic(o.width) ELSE Varying
          [] o.op \in {"shuffle", "insert"} -> Varying
          [] o.op \in {"indirect", "fneg"}  -> Unknown
          [] o.op \in {"sext", "zext", "trunc"} -> ConvertShape(o.op, S(1), o.width)
          [] o.op = "select" -> SelectShape(S(1), S(2), S(3))
          [] o.op = "gep"    -> GEPShape(S(1), S(2), 2)
          [] o.op = "load"   -> LoadShape(S(1), FALSE, Memory, o.width)
          [] o.op = "freeze" -> S(1)

\* Lane values that a shape allows.
Shaped(s, f) == \E x \in s.base : \A l \in Lanes : f[l] \in {Poison, AtLane(s, x, l)}

\* The lane values e are those the shapes sh allow.
AllShaped(sh, e) == \A v \in DOMAIN sh : IsIndexed(sh[v]) => Shaped(sh[v], e[v])

ShapeOf(s, n) == s \in {Varying, Unknown} \/ GoodShape(s, n)

NoValue == [l \in Lanes |-> Poison]

\* Nothing is ever visited again, and every shape is the one its operands
\* give.
StraightShapes ==
    /\ stage \in {"order", "queue", "done", "abort"}
    /\ work_queue = {}
    /\ DOMAIN shape \subseteq DOMAIN program.args \cup Instrs
    /\ \A v \in DOMAIN program.args : v \in DOMAIN shape /\ shape[v] = program.args[v]
    /\ \A i \in Instrs \cap DOMAIN shape :
           /\ Range(program.ops[i].args) \subseteq DOMAIN shape
           /\ shape[i] = ShapeGiven(program, i, shape)
           /\ ShapeOf(shape[i], program.ops[i].width)
    /\ stage \in {"queue", "done"} => Instrs \subseteq DOMAIN shape

StraightValues ==
    /\ DOMAIN env = DOMAIN program.args \cup Instrs \cup {"undef"}
    /\ stage = "order" => \A i \in Instrs : env[i] = NoValue
    /\ AllShaped(shape, env)
    /\ DOMAIN at = {"E"} /\ at["E"] \subseteq Lanes

StraightInv == StraightLine(program) => StraightShapes /\ StraightValues

\* The kinds of operations are distinct.
LEMMA OtherOps ==
    /\ \A op \in {"phi", "sadd_sat", "sext", "zext", "trunc", "select", "gep", "load", "lookup",
                "freeze", "insert", "fneg"} :
           op \notin BinaryOps /\ op \notin Comparisons /\ op \notin CallOps \ {"sadd_sat"}
    /\ \A op \in CallOps : op \notin BinaryOps /\ op \notin Comparisons
    /\ \A op \in BinaryOps : op \notin Comparisons
  BY DEF BinaryOps, CallOps, Comparisons

\* The shape of an operation of two operands.
LEMMA GivenBinary ==
    ASSUME NEW p, NEW i, NEW sh, p.ops[i].op \in BinaryOps
    PROVE  ShapeGiven(p, i, sh)
               = BinaryOpShape(p.ops[i].op, sh[p.ops[i].args[1]], sh[p.ops[i].args[2]])
  BY DEF ShapeGiven, BinaryOps, Comparisons

\* The same for comparisons.
LEMMA GivenComparison ==
    ASSUME NEW p, NEW i, NEW sh, p.ops[i].op \in Comparisons
    PROVE  ShapeGiven(p, i, sh)
               = CmpShape(p.ops[i].op, sh[p.ops[i].args[1]], sh[p.ops[i].args[2]])
  BY DEF ShapeGiven, BinaryOps, Comparisons

\* An operation that tells nothing of one operand tells nothing.
LEMMA CheckedTwo ==
    ASSUME NEW a, NEW b, NEW m, NEW n, ShapeOf(a, m), ShapeOf(b, n), NEW s,
           IsIndexed(Checked({a, b}, s))
    PROVE  GoodShape(a, m) /\ GoodShape(b, n)
  <1>1. a.type \notin {"varying", "unknown"} /\ b.type \notin {"varying", "unknown"}
    BY DEF Checked, IsIndexed, IsVarying, Varying, Unknown
  <1> QED
    BY <1>1 DEF ShapeOf, Varying, Unknown

\* The same for one operand.
LEMMA CheckedOne ==
    ASSUME NEW a, NEW m, ShapeOf(a, m), NEW s, IsIndexed(Checked({a}, s))
    PROVE  GoodShape(a, m)
  <1>1. a.type \notin {"varying", "unknown"}
    BY DEF Checked, IsIndexed, IsVarying, Varying, Unknown
  <1> QED
    BY <1>1 DEF ShapeOf, Varying, Unknown

\* The shape calculated for an instruction is the one its operands give.
LEMMA CalculateIs ==
    ASSUME NEW i, Op(i) \in StraightOps
    PROVE  CalculateShape(i) = ShapeGiven(program, i, shape)
  <1>1. CASE Op(i) \in BinaryOps
    BY <1>1 DEF CalculateShape, ShapeGiven, Op, Arg, BinaryOps, Comparisons, CallOps
  <1>2. CASE Op(i) \in Comparisons
    BY <1>2 DEF CalculateShape, ShapeGiven, Op, Arg, BinaryOps, Comparisons
  <1>3. CASE Op(i) \in CallOps
    <2>1. CalculateShape(i) = CallShape(i)
      BY <1>3 DEF CalculateShape, BinaryOps, Comparisons, CallOps
    <2>2. CallShape(i) = ShapeGiven(program, i, shape)
      BY <1>3 DEF CallShape, ShapeGiven, BinaryOps, Comparisons, CallOps, Op
    <2> QED
      BY <2>1, <2>2
  <1>4. CASE Op(i) \in {"sext", "zext", "trunc", "select", "gep", "load", "freeze", "insert", "fneg"}
    BY <1>4 DEF CalculateShape, ShapeGiven, Op, Arg, BinaryOps, Comparisons, CallOps
  <1> QED
    BY <1>1, <1>2, <1>3, <1>4 DEF StraightOps

\* What the shapes of the operations can be.
LEMMA ResultKinds ==
    ASSUME NEW a, NEW b, NEW c, NEW op, NEW n, NEW table, NEW size
    PROVE  \A s \in {BinaryOpShape(op, a, b), CmpShape(op, a, b), GEPShape(a, b, size),
                     LoadShape(a, FALSE, table, n), SelectShape(c, a, b), ConvertShape(op, a, n)} :
               s \in {Varying, Unknown, NoShape} \/ IsIndexed(s)
  <1> DEFINE Kind(s) == s \in {Varying, Unknown, NoShape} \/ IsIndexed(s)
  <1>1. \A B0, idx, m : Kind(Indexed(B0, idx, m))
    BY DEF Indexed, IsIndexed
  <1>2. /\ Kind(Varying) /\ Kind(Unknown) /\ Kind(NoShape)
        /\ \A B0, m : Kind(Uniform(B0, m)) /\ Kind(Symbolic(m))
        /\ \A x, v, m : Kind(Known(x, v, m))
    BY <1>1 DEF Uniform, Strided, Symbolic, Known
  <1>3. Kind(TryTransform(op, a, b))
    <2> HIDE DEF Kind
    <2> QED
      BY <1>1, <1>2 DEF TryTransform
  <1>4. \A S, s : Kind(s) => Kind(Checked(S, s))
    <2> HIDE DEF Kind
    <2> QED
      BY <1>2 DEF Checked
  <1> HIDE DEF Kind
  <1>5. Kind(BinaryOpShape(op, a, b))
    BY <1>2, <1>3, <1>4 DEF BinaryOpShape
  <1>6. Kind(CmpShape(op, a, b))
    BY <1>2, <1>4 DEF CmpShape
  <1>7. Kind(GEPShape(a, b, size))
    BY <1>1, <1>4 DEF GEPShape
  <1>8. Kind(LoadShape(a, FALSE, table, n))
    BY <1>1, <1>2 DEF LoadShape
  <1>9. Kind(SelectShape(c, a, b))
    BY <1>1, <1>2 DEF SelectShape
  <1>10. Kind(ConvertShape(op, a, n))
    BY <1>1, <1>2, <1>4 DEF ConvertShape
  <1> QED
    BY <1>5, <1>6, <1>7, <1>8, <1>9, <1>10 DEF Kind

\* Varying and unknown shapes are not indexed.
LEMMA NoPromise == ~IsIndexed(Varying) /\ ~IsIndexed(Unknown)
  BY DEF Varying, Unknown, IsIndexed

\* A result is good if it is indexed.
LEMMA GoodOrNot ==
    ASSUME NEW s, NEW n, s \in {Varying, Unknown, NoShape} \/ IsIndexed(s),
           IsIndexed(s) => GoodShape(s, n)
    PROVE  s = NoShape \/ ShapeOf(s, n)
  BY DEF ShapeOf

\* A shape of no index promises nothing.
LEMMA IndexedOrNot ==
    ASSUME NEW s, NEW n, ShapeOf(s, n)
    PROVE  IsIndexed(s) <=> GoodShape(s, n)
  BY DEF ShapeOf, Varying, Unknown, IsIndexed, GoodShape, IndexedShape

\* Lanes may have poison instead of their value.
LEMMA PoisonAllowed ==
    ASSUME NEW s, NEW v, NEW n, ResultIs(s, v, n), IsIndexed(s), NEW f,
           \A l \in Lanes : f[l] \in {Poison, v[l]}
    PROVE  Shaped(s, f)
  <1>1. PICK x \in s.base : \A l \in Lanes : v[l] = AtLane(s, x, l)
    BY DEF ResultIs, Describes
  <1> QED
    BY <1>1 DEF Shaped

\* The lanes calculate h from f and g.
CalculatedFrom(op, n, f, g, h) ==
    \A l \in Lanes :
        h[l] = Poison \/ (f[l] # Poison /\ g[l] # Poison /\ h[l] = Apply(op, f[l], g[l], n))

\* Arithmetic of good operands.
LEMMA BinaryGiven ==
    ASSUME MaxWidth \in Nat, NEW n \in Nat, n <= MaxWidth, NEW op \in BinaryOps,
           NEW a, NEW b, ShapeOf(a, n), ShapeOf(b, n)
    PROVE  LET s == BinaryOpShape(op, a, b)
           IN  /\ s = NoShape \/ ShapeOf(s, n)
               /\ IsIndexed(s) => GoodShape(a, n) /\ GoodShape(b, n)
  <1> DEFINE s == BinaryOpShape(op, a, b)
             v(x, y) == [l \in Lanes |-> Apply(op, AtLane(a, x, l), AtLane(b, y, l), n)]
  <1>1. IsIndexed(s) => GoodShape(a, n) /\ GoodShape(b, n)
    <2> HAVE IsIndexed(s)
    <2> QED
      BY CheckedTwo DEF BinaryOpShape
  <1>2. GoodShape(a, n) /\ GoodShape(b, n)
            => \A x \in a.base, y \in b.base : ResultIs(s, v(x, y), n)
    BY BinaryShapeIs
  <1>3. IsIndexed(s) => GoodShape(s, n)
    <2> HAVE IsIndexed(s)
    <2>1. PICK x \in a.base, y \in b.base : TRUE
      BY <1>1 DEF GoodShape
    <2>2. ResultIs(s, v(x, y), n)
      BY <1>1, <1>2
    <2> QED
      BY <2>2 DEF ResultIs
  <1>4. s = NoShape \/ ShapeOf(s, n)
    BY <1>3, ResultKinds, GoodOrNot
  <1> QED
    BY <1>1, <1>4

\* Arithmetic on values that the shapes of the operands allow.
LEMMA BinaryShaped ==
    ASSUME MaxWidth \in Nat, NEW n \in Nat, n <= MaxWidth, NEW op \in BinaryOps,
           NEW a, NEW b, ShapeOf(a, n), ShapeOf(b, n),
           IsIndexed(BinaryOpShape(op, a, b)),
           NEW f, NEW g, NEW h, Shaped(a, f), Shaped(b, g),
           CalculatedFrom(op, n, f, g, h)
    PROVE  Shaped(BinaryOpShape(op, a, b), h)
  <1> DEFINE s == BinaryOpShape(op, a, b)
             v(x, y) == [l \in Lanes |-> Apply(op, AtLane(a, x, l), AtLane(b, y, l), n)]
  <1>1. GoodShape(a, n) /\ GoodShape(b, n)
    BY BinaryGiven
  <1>2. PICK x \in a.base : \A l \in Lanes : f[l] \in {Poison, AtLane(a, x, l)}
    BY DEF Shaped
  <1>3. PICK y \in b.base : \A l \in Lanes : g[l] \in {Poison, AtLane(b, y, l)}
    BY DEF Shaped
  <1>4. ResultIs(s, v(x, y), n)
    BY <1>1, BinaryShapeIs
  <1>5. \A l \in Lanes : h[l] \in {Poison, v(x, y)[l]}
    <2> TAKE l \in Lanes
    <2>1. CASE h[l] = Poison
      BY <2>1
    <2>2. CASE f[l] # Poison /\ g[l] # Poison /\ h[l] = Apply(op, f[l], g[l], n)
      BY <2>2, <1>2, <1>3
    <2> QED
      BY <2>1, <2>2 DEF CalculatedFrom
  <1>6. IsIndexed(s)
    OBVIOUS
  <1>7. Shaped(s, h)
    <2> HIDE DEF s, v
    <2> QED
      BY <1>4, <1>5, <1>6, PoisonAllowed
  <1> QED
    BY <1>7

\* The lanes compare f and g.
ComparedFrom(op, n, f, g, h) ==
    \A l \in Lanes :
        h[l] = Poison \/ (f[l] # Poison /\ g[l] # Poison /\ h[l] = Compare(op, f[l], g[l], n))

\* Comparisons of good operands.
LEMMA ComparisonGiven ==
    ASSUME NEW n \in Nat, NEW op \in Comparisons,
           NEW a, NEW b, ShapeOf(a, n), ShapeOf(b, n)
    PROVE  LET s == CmpShape(op, a, b)
           IN  /\ s = NoShape \/ ShapeOf(s, 1)
               /\ IsIndexed(s) => GoodShape(a, n) /\ GoodShape(b, n)
  <1> DEFINE s == CmpShape(op, a, b)
             v(x, y) == [l \in Lanes |-> Compare(op, AtLane(a, x, l), AtLane(b, y, l), n)]
  <1>1. IsIndexed(s) => GoodShape(a, n) /\ GoodShape(b, n)
    <2> HAVE IsIndexed(s)
    <2> QED
      BY CheckedTwo DEF CmpShape
  <1>2. GoodShape(a, n) /\ GoodShape(b, n)
            => \A x \in a.base, y \in b.base : ResultIs(s, v(x, y), 1)
    BY CmpShapeIs
  <1>3. IsIndexed(s) => GoodShape(s, 1)
    <2> HAVE IsIndexed(s)
    <2>1. PICK x \in a.base, y \in b.base : TRUE
      BY <1>1 DEF GoodShape
    <2>2. ResultIs(s, v(x, y), 1)
      BY <1>1, <1>2
    <2> QED
      BY <2>2 DEF ResultIs
  <1>4. s = NoShape \/ ShapeOf(s, 1)
    BY <1>3, ResultKinds, GoodOrNot
  <1> QED
    BY <1>1, <1>4

\* Comparisons of values that the shapes of the operands allow.
LEMMA ComparisonShaped ==
    ASSUME NEW n \in Nat, NEW op \in Comparisons,
           NEW a, NEW b, ShapeOf(a, n), ShapeOf(b, n),
           IsIndexed(CmpShape(op, a, b)),
           NEW f, NEW g, NEW h, Shaped(a, f), Shaped(b, g),
           ComparedFrom(op, n, f, g, h)
    PROVE  Shaped(CmpShape(op, a, b), h)
  <1> DEFINE s == CmpShape(op, a, b)
             v(x, y) == [l \in Lanes |-> Compare(op, AtLane(a, x, l), AtLane(b, y, l), n)]
  <1>1. GoodShape(a, n) /\ GoodShape(b, n)
    BY ComparisonGiven
  <1>2. PICK x \in a.base : \A l \in Lanes : f[l] \in {Poison, AtLane(a, x, l)}
    BY DEF Shaped
  <1>3. PICK y \in b.base : \A l \in Lanes : g[l] \in {Poison, AtLane(b, y, l)}
    BY DEF Shaped
  <1>4. ResultIs(s, v(x, y), 1)
    BY <1>1, CmpShapeIs
  <1>5. \A l \in Lanes : h[l] \in {Poison, v(x, y)[l]}
    <2> TAKE l \in Lanes
    <2>1. CASE h[l] = Poison
      BY <2>1
    <2>2. CASE f[l] # Poison /\ g[l] # Poison /\ h[l] = Compare(op, f[l], g[l], n)
      BY <2>2, <1>2, <1>3
    <2> QED
      BY <2>1, <2>2 DEF ComparedFrom
  <1>6. IsIndexed(s)
    OBVIOUS
  <1>7. Shaped(s, h)
    <2> HIDE DEF s, v
    <2> QED
      BY <1>4, <1>5, <1>6, PoisonAllowed
  <1> QED
    BY <1>7

\* The lanes address the elements g of the arrays f.
AddressedFrom(size, n, f, g, h) ==
    \A l \in Lanes :
        h[l] = Poison \/ (f[l] # Poison /\ g[l] # Poison /\ h[l] = Cut(f[l] + g[l] * size, n))

\* Addresses of good operands.
LEMMA GEPGiven ==
    ASSUME NEW n \in Nat, NEW size \in Nat,
           NEW a, NEW b, ShapeOf(a, n), ShapeOf(b, n)
    PROVE  LET s == GEPShape(a, b, size)
           IN  /\ s = NoShape \/ ShapeOf(s, n)
               /\ IsIndexed(s) => GoodShape(a, n) /\ GoodShape(b, n)
  <1> DEFINE s == GEPShape(a, b, size)
             v(x, y) == [l \in Lanes |-> Cut(AtLane(a, x, l) + AtLane(b, y, l) * size, n)]
  <1>1. IsIndexed(s) => GoodShape(a, n) /\ GoodShape(b, n)
    <2> HAVE IsIndexed(s)
    <2> QED
      BY CheckedTwo DEF GEPShape
  <1>2. GoodShape(a, n) /\ GoodShape(b, n)
            => \A x \in a.base, y \in b.base : ResultIs(s, v(x, y), n)
    BY GEPShapeIs
  <1>3. IsIndexed(s) => GoodShape(s, n)
    <2> HAVE IsIndexed(s)
    <2>1. PICK x \in a.base, y \in b.base : TRUE
      BY <1>1 DEF GoodShape
    <2>2. ResultIs(s, v(x, y), n)
      BY <1>1, <1>2
    <2> QED
      BY <2>2 DEF ResultIs
  <1>4. s = NoShape \/ ShapeOf(s, n)
    BY <1>3, ResultKinds, GoodOrNot
  <1> QED
    BY <1>1, <1>4

\* Addresses from values that the shapes of the operands allow.
LEMMA GEPShaped ==
    ASSUME NEW n \in Nat, NEW size \in Nat,
           NEW a, NEW b, ShapeOf(a, n), ShapeOf(b, n),
           IsIndexed(GEPShape(a, b, size)),
           NEW f, NEW g, NEW h, Shaped(a, f), Shaped(b, g),
           AddressedFrom(size, n, f, g, h)
    PROVE  Shaped(GEPShape(a, b, size), h)
  <1> DEFINE s == GEPShape(a, b, size)
             v(x, y) == [l \in Lanes |-> Cut(AtLane(a, x, l) + AtLane(b, y, l) * size, n)]
  <1>1. GoodShape(a, n) /\ GoodShape(b, n)
    BY GEPGiven
  <1>2. PICK x \in a.base : \A l \in Lanes : f[l] \in {Poison, AtLane(a, x, l)}
    BY DEF Shaped
  <1>3. PICK y \in b.base : \A l \in Lanes : g[l] \in {Poison, AtLane(b, y, l)}
    BY DEF Shaped
  <1>4. ResultIs(s, v(x, y), n)
    BY <1>1, GEPShapeIs
  <1>5. \A l \in Lanes : h[l] \in {Poison, v(x, y)[l]}
    <2> TAKE l \in Lanes
    <2>1. CASE h[l] = Poison
      BY <2>1
    <2>2. CASE f[l] # Poison /\ g[l] # Poison /\ h[l] = Cut(f[l] + g[l] * size, n)
      BY <2>2, <1>2, <1>3
    <2> QED
      BY <2>1, <2>2 DEF AddressedFrom
  <1>6. IsIndexed(s)
    OBVIOUS
  <1>7. Shaped(s, h)
    <2> HIDE DEF s, v
    <2> QED
      BY <1>4, <1>5, <1>6, PoisonAllowed
  <1> QED
    BY <1>7

\* The lanes convert f.
ConvertedFrom(op, m, n, f, h) ==
    \A l \in Lanes :
        h[l] = Poison \/ (f[l] # Poison /\ h[l] = Convert(op, f[l], m, n))

\* Conversions of good operands.
LEMMA ConvertGiven ==
    ASSUME NEW m \in Nat, NEW n \in Nat \ {0}, NEW op \in {"sext", "zext", "trunc"},
           op = "trunc" => n <= m,
           NEW a, ShapeOf(a, m)
    PROVE  LET s == ConvertShape(op, a, n)
           IN  /\ s = NoShape \/ ShapeOf(s, n)
               /\ IsIndexed(s) => GoodShape(a, m)
  <1> DEFINE s == ConvertShape(op, a, n)
             v(x) == [l \in Lanes |-> Convert(op, AtLane(a, x, l), m, n)]
  <1>1. IsIndexed(s) => GoodShape(a, m)
    <2> HAVE IsIndexed(s)
    <2> QED
      BY CheckedOne DEF ConvertShape
  <1>2. GoodShape(a, m)
            => \A x \in a.base : ResultIs(s, v(x), n)
    BY ConvertShapeIs
  <1>3. IsIndexed(s) => GoodShape(s, n)
    <2> HAVE IsIndexed(s)
    <2>1. PICK x \in a.base : TRUE
      BY <1>1 DEF GoodShape
    <2>2. ResultIs(s, v(x), n)
      BY <1>1, <1>2
    <2> QED
      BY <2>2 DEF ResultIs
  <1>4. s = NoShape \/ ShapeOf(s, n)
    BY <1>3, ResultKinds, GoodOrNot
  <1> QED
    BY <1>1, <1>4

\* Conversions of values that the shape of the operand allows.
LEMMA ConvertShaped ==
    ASSUME NEW m \in Nat, NEW n \in Nat \ {0}, NEW op \in {"sext", "zext", "trunc"},
           op = "trunc" => n <= m,
           NEW a, ShapeOf(a, m),
           IsIndexed(ConvertShape(op, a, n)),
           NEW f, NEW h, Shaped(a, f),
           ConvertedFrom(op, m, n, f, h)
    PROVE  Shaped(ConvertShape(op, a, n), h)
  <1> DEFINE s == ConvertShape(op, a, n)
             v(x) == [l \in Lanes |-> Convert(op, AtLane(a, x, l), m, n)]
  <1>1. GoodShape(a, m)
    BY ConvertGiven
  <1>2. PICK x \in a.base : \A l \in Lanes : f[l] \in {Poison, AtLane(a, x, l)}
    BY DEF Shaped
  <1>3. ResultIs(s, v(x), n)
    BY <1>1, ConvertShapeIs
  <1>4. \A l \in Lanes : h[l] \in {Poison, v(x)[l]}
    <2> TAKE l \in Lanes
    <2>1. CASE h[l] = Poison
      BY <2>1
    <2>2. CASE f[l] # Poison /\ h[l] = Convert(op, f[l], m, n)
      BY <2>2, <1>2
    <2> QED
      BY <2>1, <2>2 DEF ConvertedFrom
  <1>5. IsIndexed(s)
    OBVIOUS
  <1>6. Shaped(s, h)
    <2> HIDE DEF s, v
    <2> QED
      BY <1>3, <1>4, <1>5, PoisonAllowed
  <1> QED
    BY <1>6

\* The lanes load from the addresses f.
LoadedFrom(table, f, h) ==
    \A l \in Lanes :
        h[l] = Poison \/ (f[l] # Poison /\ h[l] = table[f[l]])

WordTable(table, m, n) == \A w \in Words(m) : table[w] \in Words(n)

\* Loads from good addresses.
LEMMA LoadGiven ==
    ASSUME NEW m \in Nat, NEW n \in Nat \ {0}, NEW table, WordTable(table, m, n),
           NEW a, ShapeOf(a, m)
    PROVE  LET s == LoadShape(a, FALSE, table, n)
           IN  /\ s = NoShape \/ ShapeOf(s, n)
               /\ IsIndexed(s) => GoodShape(a, m)
  <1> DEFINE s == LoadShape(a, FALSE, table, n)
             v(x) == [l \in Lanes |-> table[AtLane(a, x, l)]]
  <1>1. IsIndexed(s) => GoodShape(a, m)
    <2> HAVE IsIndexed(s)
    <2>1. IsIndexed(a)
      BY DEF LoadShape, IsUniform, IsIndexed, Varying
    <2> QED
      BY <2>1, IndexedOrNot
  <1>2. GoodShape(a, m)
            => \A x \in a.base : ResultIs(s, v(x), n)
    BY LoadShapeIs DEF WordTable
  <1>3. IsIndexed(s) => GoodShape(s, n)
    <2> HAVE IsIndexed(s)
    <2>1. PICK x \in a.base : TRUE
      BY <1>1 DEF GoodShape
    <2>2. ResultIs(s, v(x), n)
      BY <1>1, <1>2
    <2> QED
      BY <2>2 DEF ResultIs
  <1>4. s = NoShape \/ ShapeOf(s, n)
    BY <1>3, ResultKinds, GoodOrNot
  <1> QED
    BY <1>1, <1>4

\* Loads from addresses that their shape allows.
LEMMA LoadShaped ==
    ASSUME NEW m \in Nat, NEW n \in Nat \ {0}, NEW table, WordTable(table, m, n),
           NEW a, ShapeOf(a, m),
           IsIndexed(LoadShape(a, FALSE, table, n)),
           NEW f, NEW h, Shaped(a, f),
           LoadedFrom(table, f, h)
    PROVE  Shaped(LoadShape(a, FALSE, table, n), h)
  <1> DEFINE s == LoadShape(a, FALSE, table, n)
             v(x) == [l \in Lanes |-> table[AtLane(a, x, l)]]
  <1>1. GoodShape(a, m)
    BY LoadGiven
  <1>2. PICK x \in a.base : \A l \in Lanes : f[l] \in {Poison, AtLane(a, x, l)}
    BY DEF Shaped
  <1>3. ResultIs(s, v(x), n)
    BY <1>1, LoadShapeIs DEF WordTable
  <1>4. \A l \in Lanes : h[l] \in {Poison, v(x)[l]}
    <2> TAKE l \in Lanes
    <2>1. CASE h[l] = Poison
      BY <2>1
    <2>2. CASE f[l] # Poison /\ h[l] = table[f[l]]
      BY <2>2, <1>2
    <2> QED
      BY <2>1, <2>2 DEF LoadedFrom
  <1>5. IsIndexed(s)
    OBVIOUS
  <1>6. Shaped(s, h)
    <2> HIDE DEF s, v
    <2> QED
      BY <1>3, <1>4, <1>5, PoisonAllowed
  <1> QED
    BY <1>6

\* The lanes select from f and g.
SelectedFrom(d, f, g, h) ==
    \A l \in Lanes :
        h[l] = Poison \/ (d[l] # Poison /\ h[l] = SelectWord(d[l], f[l], g[l]))

\* Selects of good operands.
LEMMA SelectGiven ==
    ASSUME NEW n \in Nat,
           NEW a, NEW b, NEW c, ShapeOf(a, n), ShapeOf(b, n), ShapeOf(c, 1)
    PROVE  LET s == SelectShape(c, a, b)
           IN  /\ s = NoShape \/ ShapeOf(s, n)
               /\ IsIndexed(s) => GoodShape(a, n) /\ GoodShape(b, n) /\ GoodShape(c, 1)
  <1> DEFINE s == SelectShape(c, a, b)
             v(x, y, z) == [l \in Lanes |-> SelectWord(AtLane(c, z, l), AtLane(a, x, l), AtLane(b, y, l))]
  <1>1. IsIndexed(s) => GoodShape(a, n) /\ GoodShape(b, n) /\ GoodShape(c, 1)
    <2> HAVE IsIndexed(s)
    <2>1. IsIndexed(a) /\ IsIndexed(b) /\ IsIndexed(c)
      BY DEF SelectShape, IsIndexed, Varying, Unknown
    <2> QED
      BY <2>1, IndexedOrNot
  <1>2. GoodShape(a, n) /\ GoodShape(b, n) /\ GoodShape(c, 1)
            => \A x \in a.base, y \in b.base, z \in c.base : ResultIs(s, v(x, y, z), n)
    BY SelectShapeIs
  <1>3. IsIndexed(s) => GoodShape(s, n)
    <2> HAVE IsIndexed(s)
    <2>1. PICK x \in a.base, y \in b.base, z \in c.base : TRUE
      BY <1>1 DEF GoodShape
    <2>2. ResultIs(s, v(x, y, z), n)
      BY <1>1, <1>2
    <2> QED
      BY <2>2 DEF ResultIs
  <1>4. s = NoShape \/ ShapeOf(s, n)
    BY <1>3, ResultKinds, GoodOrNot
  <1> QED
    BY <1>1, <1>4

\* Selects of values that the shapes of the operands allow.
LEMMA SelectShaped ==
    ASSUME NEW n \in Nat,
           NEW a, NEW b, NEW c, ShapeOf(a, n), ShapeOf(b, n), ShapeOf(c, 1),
           IsIndexed(SelectShape(c, a, b)),
           NEW f, NEW g, NEW d, NEW h, Shaped(a, f), Shaped(b, g), Shaped(c, d),
           SelectedFrom(d, f, g, h)
    PROVE  Shaped(SelectShape(c, a, b), h)
  <1> DEFINE s == SelectShape(c, a, b)
             v(x, y, z) == [l \in Lanes |-> SelectWord(AtLane(c, z, l), AtLane(a, x, l), AtLane(b, y, l))]
  <1>1. GoodShape(a, n) /\ GoodShape(b, n) /\ GoodShape(c, 1)
    BY SelectGiven
  <1>2. PICK x \in a.base : \A l \in Lanes : f[l] \in {Poison, AtLane(a, x, l)}
    BY DEF Shaped
  <1>3. PICK y \in b.base : \A l \in Lanes : g[l] \in {Poison, AtLane(b, y, l)}
    BY DEF Shaped
  <1>4. PICK z \in c.base : \A l \in Lanes : d[l] \in {Poison, AtLane(c, z, l)}
    BY DEF Shaped
  <1>5. ResultIs(s, v(x, y, z), n)
    BY <1>1, SelectShapeIs
  <1>6. \A l \in Lanes : h[l] \in {Poison, v(x, y, z)[l]}
    <2> TAKE l \in Lanes
    <2>1. CASE h[l] = Poison
      BY <2>1
    <2>2. CASE d[l] # Poison /\ h[l] = SelectWord(d[l], f[l], g[l])
      BY <2>2, <1>2, <1>3, <1>4 DEF SelectWord
    <2> QED
      BY <2>1, <2>2 DEF SelectedFrom
  <1>7. IsIndexed(s)
    OBVIOUS
  <1>8. Shaped(s, h)
    <2> HIDE DEF s, v
    <2> QED
      BY <1>5, <1>6, <1>7, PoisonAllowed
  <1> QED
    BY <1>8

\* Lane l has the word l places behind the base.
LEMMA StridedResult ==
    ASSUME NEW n \in Nat \ {0}, NEW B0 \in SUBSET Words(n), NEW x \in B0,
           \A l \in Lanes : x + l < 2^n
    PROVE  ResultIs(Strided(B0, 1, n), [l \in Lanes |-> x + l], n)
  <1> DEFINE idx == [l \in Lanes |-> Cut(l * 1, n)]
             v == [l \in Lanes |-> x + l]
  <1>1. x \in Nat
    BY WordIs
  <1>2. \A l \in Lanes : l \in Nat /\ l * 1 = l
    BY LanesAssumption DEF Lanes
  <1>3. \A l \in Lanes : x + l \in Nat /\ x + l < 2^n
    BY <1>1, <1>2
  <1>4. \A l \in Lanes : v[l] \in Words(n)
    <2> TAKE l \in Lanes
    <2>1. x + l \in Words(n)
      BY <1>3, WordIs
    <2> QED
      BY <2>1
  <1>5. \A l \in Lanes : l \in Words(n)
    <2> TAKE l \in Lanes
    <2> DEFINE q == 2^n
    <2>1. q \in Nat
      BY Power
    <2>2. l \in Nat /\ x + l < q
      BY <1>2, <1>3
    <2>3. l < q
      <3> HIDE DEF q
      <3> QED
        BY <1>1, <2>1, <2>2
    <2> QED
      BY <2>2, <2>3, WordIs
  <1>6. \A l \in Lanes : idx[l] = l
    <2> TAKE l \in Lanes
    <2>1. Cut(l, n) = l
      BY <1>5, CutWord
    <2> QED
      BY <1>2, <2>1
  <1>7. idx \in [Lanes -> Words(n)] /\ idx[0] = 0
    <2>1. \A l \in Lanes : idx[l] \in Words(n)
      BY <1>5, <1>6
    <2>2. idx = [l \in Lanes |-> idx[l]]
      OBVIOUS
    <2>3. idx[0] = 0
      BY <1>6, FirstLane
    <2> HIDE DEF idx
    <2> QED
      BY <2>1, <2>2, <2>3
  <1>8. \A l \in Lanes : Same(x + idx[l], v[l], n)
    <2> TAKE l \in Lanes
    <2>1. Same(x + l, x + l, n)
      BY <1>3, SameSelf
    <2> QED
      BY <1>6, <2>1
  <1> HIDE DEF idx, v
  <1>9. ResultIs(Indexed(B0, idx, n), v, n)
    BY <1>4, <1>7, <1>8, IndexedResult
  <1> QED
    BY <1>9 DEF idx, v, Strided

\* Any word, the same for all lanes.
LEMMA SymbolicResult ==
    ASSUME NEW n \in Nat \ {0}, NEW x \in Words(n), NEW v, \A l \in Lanes : v[l] = x
    PROVE  ResultIs(Symbolic(n), v, n)
  <1>1. ResultIs(Uniform(Words(n), n), v, n)
    BY UniformResult
  <1> QED
    BY <1>1 DEF Symbolic

\* 0 is a word.
LEMMA ZeroWord ==
    ASSUME NEW n \in Nat
    PROVE  0 \in Words(n)
  BY Power, WordIs

\* The shapes that calls can have are indexed.
LEMMA CallShapesIndexed ==
    \A B0, stride, n : /\ IsIndexed(Strided(B0, stride, n))
                       /\ IsIndexed(Uniform(B0, n)) /\ IsIndexed(Symbolic(n))
  BY DEF Strided, Uniform, Symbolic, Indexed, IsIndexed

\* A symbolic base is good.
LEMMA SymbolicGood ==
    ASSUME NEW n \in Nat \ {0}
    PROVE  GoodShape(Symbolic(n), n)
  <1>1. ResultIs(Symbolic(n), [l \in Lanes |-> 0], n)
    BY ZeroWord, SymbolicResult
  <1> QED
    BY <1>1, CallShapesIndexed DEF ResultIs

\* Saturated sums.
LEMMA SaturatedWord ==
    ASSUME NEW n \in Nat \ {0}, NEW z \in Int
    PROVE  Saturated(z, n) \in Words(n)
  <1> DEFINE h == 2^(n - 1)
             q == 2^n
  <1>1. n - 1 \in Nat /\ (n - 1) + 1 = n
    OBVIOUS
  <1>2. h \in Nat /\ h > 0 /\ 2^((n - 1) + 1) = 2 * h
    BY <1>1, Power
  <1>3. q = 2 * h
    BY <1>1, <1>2
  <1>4. Cut(z, n) \in Words(n)
    BY CutIs
  <1>5. h - 1 \in Nat /\ h - 1 < q /\ h < q
    <2> HIDE DEF h, q
    <2> QED
      BY <1>2, <1>3
  <1>6. h - 1 \in Words(n) /\ h \in Words(n)
    BY <1>2, <1>5, WordIs
  <1> QED
    BY <1>4, <1>6 DEF Saturated

\* Saturated sums of uniform values are uniform.
LEMMA SaturatedGiven ==
    ASSUME NEW n \in Nat \ {0}, NEW a, NEW b, GoodShape(a, n), GoodShape(b, n),
           IsUniform(a), IsUniform(b), NEW f, NEW g, NEW h, Shaped(a, f), Shaped(b, g),
           \A l \in Lanes :
               \/ h[l] = Poison
               \/ /\ f[l] # Poison /\ g[l] # Poison
                  /\ h[l] = Saturated(SignedWord(f[l], n) + SignedWord(g[l], n), n)
    PROVE  Shaped(Symbolic(n), h)
  <1>1. PICK x \in a.base : \A l \in Lanes : f[l] \in {Poison, AtLane(a, x, l)}
    BY DEF Shaped
  <1>2. PICK y \in b.base : \A l \in Lanes : g[l] \in {Poison, AtLane(b, y, l)}
    BY DEF Shaped
  <1>3. \A l \in Lanes : AtLane(a, x, l) = x /\ AtLane(b, y, l) = y
    BY UniformLane
  <1>4. x \in Words(n) /\ y \in Words(n)
    BY DEF GoodShape, IndexedShape
  <1> DEFINE z == SignedWord(x, n) + SignedWord(y, n)
             w == Saturated(z, n)
             v == [l \in Lanes |-> w]
  <1>5. SignedWord(x, n) \in Int /\ SignedWord(y, n) \in Int
    BY <1>4, SignedWordInt
  <1>6. z \in Int
    BY <1>5
  <1>7. w \in Words(n)
    <2> HIDE DEF z
    <2> QED
      BY <1>6, SaturatedWord
  <1>8. \A l \in Lanes : h[l] \in {Poison, v[l]}
    BY <1>1, <1>2, <1>3
  <1>9. ResultIs(Symbolic(n), v, n)
    <2> HIDE DEF w
    <2> QED
      BY <1>7, SymbolicResult
  <1> HIDE DEF v
  <1> QED
    BY <1>8, <1>9, CallShapesIndexed, PoisonAllowed

\* The first threads of the gangs of a grid.
ThreadBases(n) == {x \in 0..(2^(n - 1) - NumLanes - 2) : x % NumLanes = 0}

\* They are words, and the threads of a gang do not wrap around.
LEMMA ThreadBasesAre ==
    ASSUME NEW n \in Nat \ {0}, NumLanes + 2 <= 2^(n - 1)
    PROVE  /\ ThreadBases(n) \in SUBSET Words(n) /\ 0 \in ThreadBases(n)
           /\ \A x \in ThreadBases(n), l \in Lanes : x + l < 2^n
  <1> DEFINE h == 2^(n - 1)
             q == 2^n
  <1>1. n - 1 \in Nat /\ (n - 1) + 1 = n
    OBVIOUS
  <1>2. h \in Nat /\ h > 0 /\ 2^((n - 1) + 1) = 2 * h
    BY <1>1, Power
  <1>3. q = 2 * h
    BY <1>1, <1>2
  <1>4. NumLanes \in Nat \ {0} /\ Lanes = 0..(NumLanes - 1) /\ 0 % NumLanes = 0
    BY LanesAssumption DEF Lanes
  <1>5. NumLanes + 2 <= h
    OBVIOUS
  <1>6. ThreadBases(n) = {x \in 0..(h - NumLanes - 2) : x % NumLanes = 0}
    BY DEF ThreadBases
  <1>7. \A x : x \in Words(n) <=> x \in Nat /\ x < q
    BY WordIs
  <1> HIDE DEF h, q
  <1>8. 0 \in ThreadBases(n)
    BY <1>2, <1>4, <1>5, <1>6
  <1>9. \A x \in ThreadBases(n) : x \in Nat /\ x < q
    BY <1>2, <1>3, <1>4, <1>5, <1>6
  <1>10. \A x \in ThreadBases(n), l \in Lanes : x + l < q
    BY <1>2, <1>3, <1>4, <1>5, <1>6
  <1> QED
    BY <1>7, <1>8, <1>9, <1>10 DEF q

\* The values of the calls that a promise is made about are as promised.
LEMMA CallResults ==
    ASSUME NEW n \in Nat \ {0}
    PROVE  /\ NumLanes <= 2^n => ResultIs(Strided({0}, 1, n), [l \in Lanes |-> l], n)
           /\ NumLanes < 2^n => ResultIs(Uniform({NumLanes}, n), [l \in Lanes |-> NumLanes], n)
           /\ \A x \in Words(n) : ResultIs(Symbolic(n), [l \in Lanes |-> x], n)
           /\ NumLanes + 2 <= 2^(n - 1)
                  => \A x \in ThreadBases(n) :
                        ResultIs(Strided(ThreadBases(n), 1, n), [l \in Lanes |-> x + l], n)
  <1>1. ASSUME NumLanes <= 2^n
        PROVE  ResultIs(Strided({0}, 1, n), [l \in Lanes |-> l], n)
    <2> DEFINE q == 2^n
    <2>1. \A l \in Lanes : 0 + l = l /\ (NumLanes <= q => l < q)
      <3>1. q \in Nat
        BY Power
      <3> HIDE DEF q
      <3> QED
        BY <3>1, LanesAssumption DEF Lanes
    <2>2. \A l \in Lanes : 0 + l < 2^n
      BY <1>1, <2>1
    <2>3. {0} \in SUBSET Words(n) /\ 0 \in {0}
      BY ZeroWord
    <2>4. ResultIs(Strided({0}, 1, n), [l \in Lanes |-> 0 + l], n)
      BY <2>2, <2>3, StridedResult
    <2>5. [l \in Lanes |-> 0 + l] = [l \in Lanes |-> l]
      BY <2>1
    <2> QED
      BY <2>4, <2>5
  <1>2. ASSUME NumLanes < 2^n
        PROVE  ResultIs(Uniform({NumLanes}, n), [l \in Lanes |-> NumLanes], n)
    <2>1. {NumLanes} \in SUBSET Words(n) /\ NumLanes \in {NumLanes}
      BY <1>2, LanesAssumption, WordIs
    <2> DEFINE v == [l \in Lanes |-> NumLanes]
    <2>2. \A l \in Lanes : v[l] = NumLanes
      OBVIOUS
    <2> HIDE DEF v
    <2>3. ResultIs(Uniform({NumLanes}, n), v, n)
      BY <2>1, <2>2, UniformResult
    <2> QED
      BY <2>3 DEF v
  <1>3. ASSUME NEW x \in Words(n)
        PROVE  ResultIs(Symbolic(n), [l \in Lanes |-> x], n)
    BY SymbolicResult
  <1>4. ASSUME NumLanes + 2 <= 2^(n - 1), NEW x \in ThreadBases(n)
        PROVE  ResultIs(Strided(ThreadBases(n), 1, n), [l \in Lanes |-> x + l], n)
    BY <1>4, ThreadBasesAre, StridedResult
  <1> QED
    BY <1>1, <1>2, <1>3, <1>4

\* The shapes of calls are good.
LEMMA CallGiven ==
    ASSUME NEW p, NEW i, NEW sh, WellTyped(p, i), p.ops[i].op \in CallOps
    PROVE  ShapeOf(ShapeGiven(p, i, sh), p.ops[i].width)
  <1> DEFINE n == p.ops[i].width
             s == ShapeGiven(p, i, sh)
  <1>1. n \in Nat \ {0}
    BY ShapeRulesAssumption DEF WellTyped
  <1>2. CASE p.ops[i].op = "lane_num"
    <2>1. s = Strided({0}, 1, n)
      BY <1>2 DEF ShapeGiven, BinaryOps, Comparisons
    <2>2. NumLanes <= 2^n
      BY <1>2 DEF WellTyped
    <2>3. GoodShape(s, n)
      <3> HIDE DEF n
      <3> QED
        BY <1>1, <2>1, <2>2, CallResults, CallShapesIndexed DEF ResultIs
    <2> QED
      BY <2>3 DEF ShapeOf
  <1>3. CASE p.ops[i].op = "gang_size"
    <2>1. s = Uniform({NumLanes}, n)
      BY <1>3 DEF ShapeGiven, BinaryOps, Comparisons
    <2>2. NumLanes < 2^n
      BY <1>3 DEF WellTyped
    <2>3. GoodShape(s, n)
      <3> HIDE DEF n
      <3> QED
        BY <1>1, <2>1, <2>2, CallResults, CallShapesIndexed DEF ResultIs
    <2> QED
      BY <2>3 DEF ShapeOf
  <1>4. CASE p.ops[i].op = "gang_num"
    <2>1. s = Symbolic(n)
      BY <1>4 DEF ShapeGiven, BinaryOps, Comparisons
    <2> QED
      BY <1>1, <2>1, SymbolicGood DEF ShapeOf
  <1>5. CASE p.ops[i].op = "thread_num"
    <2>1. s = Strided(ThreadBases(n), 1, n)
      BY <1>5 DEF ShapeGiven, BinaryOps, Comparisons, ThreadBases
    <2>2. NumLanes + 2 <= 2^(n - 1)
      BY <1>5 DEF WellTyped
    <2>3. GoodShape(s, n)
      <3> HIDE DEF n
      <3> QED
        BY <1>1, <2>1, <2>2, ThreadBasesAre, CallResults, CallShapesIndexed DEF ResultIs
    <2> QED
      BY <2>3 DEF ShapeOf
  <1>6. CASE p.ops[i].op = "sadd_sat"
    <2>1. s \in {Symbolic(n), Varying}
      BY <1>6 DEF ShapeGiven, BinaryOps, Comparisons
    <2> QED
      BY <1>1, <2>1, SymbolicGood DEF ShapeOf
  <1>7. CASE p.ops[i].op \in {"shuffle", "indirect"}
    <2>1. s \in {Varying, Unknown}
      BY <1>7 DEF ShapeGiven, BinaryOps, Comparisons
    <2> QED
      BY <2>1, Zenon DEF ShapeOf
  <1> QED
    BY <1>2, <1>3, <1>4, <1>5, <1>6, <1>7 DEF CallOps

\* What a call can return is what its shape allows.
LEMMA InputGiven ==
    ASSUME NEW i \in Instrs, WellTyped(program, i), Op(i) \in CallOps \ {"sadd_sat"},
           NEW f \in InputValues(i), IsIndexed(ShapeGiven(program, i, shape))
    PROVE  Shaped(ShapeGiven(program, i, shape), f)
  <1> DEFINE n == program.ops[i].width
             s == ShapeGiven(program, i, shape)
  <1>1. n \in Nat \ {0}
    BY ShapeRulesAssumption DEF WellTyped
  <1>2. ASSUME NEW v, ResultIs(s, v, n), \A l \in Lanes : f[l] = v[l]
        PROVE  Shaped(s, f)
    BY <1>2, PoisonAllowed
  <1>3. CASE Op(i) = "lane_num"
    <2>1. s = Strided({0}, 1, n) /\ f = [l \in Lanes |-> l]
      BY <1>3 DEF ShapeGiven, InputValues, BinaryOps, Comparisons, Op
    <2>2. NumLanes <= 2^n
      BY <1>3 DEF WellTyped, Op
    <2> HIDE DEF n, s
    <2>3. ResultIs(s, f, n)
      BY <1>1, <2>1, <2>2, CallResults
    <2> QED
      BY <1>2, <2>3 DEF s
  <1>4. CASE Op(i) = "gang_size"
    <2>1. s = Uniform({NumLanes}, n) /\ f = [l \in Lanes |-> NumLanes]
      BY <1>4 DEF ShapeGiven, InputValues, BinaryOps, Comparisons, Op
    <2>2. NumLanes < 2^n
      BY <1>4 DEF WellTyped, Op
    <2> HIDE DEF n, s
    <2>3. ResultIs(s, f, n)
      BY <1>1, <2>1, <2>2, CallResults
    <2> QED
      BY <1>2, <2>3 DEF s
  <1>5. CASE Op(i) = "gang_num"
    <2>1. s = Symbolic(n)
      BY <1>5 DEF ShapeGiven, BinaryOps, Comparisons, Op
    <2>2. PICK x \in Samples : f = [l \in Lanes |-> x]
      BY <1>5 DEF InputValues
    <2>3. x \in Words(n)
      BY <1>5 DEF WellTyped, Op
    <2> HIDE DEF n, s
    <2>4. ResultIs(s, f, n)
      BY <1>1, <2>1, <2>2, <2>3, CallResults
    <2> QED
      BY <1>2, <2>4 DEF s
  <1>6. CASE Op(i) = "thread_num"
    <2>1. s = Strided(ThreadBases(n), 1, n)
      BY <1>6 DEF ShapeGiven, BinaryOps, Comparisons, ThreadBases, Op
    <2>2. n = MaxWidth /\ Samples \subseteq Nat /\ NumLanes + 2 <= 2^(n - 1)
      BY <1>6 DEF WellTyped, Op
    <2>3. PICK x \in Samples : /\ (x + 1) * NumLanes + 1 < 2^(n - 1)
                               /\ f = [l \in Lanes |-> x * NumLanes + l]
      BY <1>6, <2>2 DEF InputValues
    <2>4. x * NumLanes \in ThreadBases(n)
      <3> DEFINE h == 2^(n - 1)
                 z == x * NumLanes
      <3>1. n - 1 \in Nat
        BY <1>1
      <3>2. h \in Nat
        BY <3>1, Power
      <3>3. x \in Nat /\ NumLanes \in Nat \ {0}
        BY <2>2, LanesAssumption
      <3>4. z \in Nat /\ (x + 1) * NumLanes = z + NumLanes /\ z % NumLanes = 0
        <4>1. (x + 1) * NumLanes = z + NumLanes
          BY <3>3
        <4>2. z \in Nat
          BY <3>3
        <4>3. z % NumLanes = 0
          BY <3>3
        <4> QED
          BY <4>1, <4>2, <4>3
      <3>5. z + NumLanes + 1 < h
        BY <2>3, <3>4
      <3>6. ThreadBases(n) = {y \in 0..(h - NumLanes - 2) : y % NumLanes = 0}
        BY DEF ThreadBases
      <3> HIDE DEF h, z
      <3>7. z <= h - NumLanes - 2
        BY <3>2, <3>3, <3>4, <3>5
      <3>8. z \in 0..(h - NumLanes - 2)
        BY <3>2, <3>3, <3>4, <3>7
      <3>9. z \in ThreadBases(n)
        BY <3>4, <3>6, <3>8
      <3> QED
        BY <3>9 DEF z
    <2> HIDE DEF n, s
    <2>5. ResultIs(s, f, n)
      BY <1>1, <2>1, <2>2, <2>3, <2>4, CallResults
    <2> QED
      BY <1>2, <2>5 DEF s
  <1>7. CASE Op(i) \in {"shuffle", "indirect"}
    <2>1. s \in {Varying, Unknown}
      BY <1>7, OtherOps, Zenon DEF ShapeGiven, Op
    <2> QED
      BY <2>1 DEF Varying, Unknown, IsIndexed
  <1> QED
    BY <1>3, <1>4, <1>5, <1>6, <1>7 DEF CallOps

\* The operands of an instruction that is visited have shapes of their widths.
LEMMA OperandShape ==
    ASSUME StraightLine(program), StraightShapes, NEW v \in DOMAIN shape, NEW n,
           Typed(program, v, n)
    PROVE  ShapeOf(shape[v], n)
  <1>1. CASE v \in Instrs
    BY <1>1 DEF StraightShapes, Typed, Instrs
  <1>2. CASE v \notin Instrs
    <2>1. v \in DOMAIN program.args /\ shape[v] = program.args[v]
      BY <1>2 DEF StraightShapes
    <2>2. IsIndexed(shape[v]) => GoodShape(shape[v], n)
      BY <1>2, <2>1 DEF Typed, Instrs
    <2>3. shape[v] \in {Varying, Unknown} \/ \E m \in 1..MaxWidth : GoodShape(shape[v], m)
      BY <2>1 DEF StraightLine
    <2>4. \A m : GoodShape(shape[v], m) => IsIndexed(shape[v])
      BY DEF GoodShape, IndexedShape, IsIndexed
    <2> QED
      BY <2>2, <2>3, <2>4 DEF ShapeOf
  <1> QED
    BY <1>1, <1>2

\* Every name has a width.
LEMMA WidthIs ==
    ASSUME NEW p, StraightLine(p)
    PROVE  \A v : WidthIn(p, v) \in 1..MaxWidth
  <1> TAKE v
  <1>1. CASE v \in DOMAIN p.ops
    <2>1. WellTyped(p, v)
      BY <1>1 DEF StraightLine
    <2> QED
      BY <1>1, <2>1 DEF WellTyped, WidthIn
  <1>2. CASE v \notin DOMAIN p.ops
    BY <1>2, ShapeRulesAssumption DEF WidthIn
  <1> QED
    BY <1>1, <1>2

\* What the operands of instruction i have.
OperandsGood(i) ==
    LET o == program.ops[i]
        n == o.width
        w == WidthIn(program, o.args[1])
        S(k) == shape[o.args[k]]
    IN  /\ n \in Nat \ {0} /\ n <= MaxWidth /\ w \in Nat /\ w <= MaxWidth
        /\ o.op \in BinaryOps \cup {"sadd_sat", "gep"} =>
               DOMAIN o.args = {1, 2} /\ ShapeOf(S(1), n) /\ ShapeOf(S(2), n)
        /\ o.op \in Comparisons =>
               DOMAIN o.args = {1, 2} /\ n = 1 /\ ShapeOf(S(1), w) /\ ShapeOf(S(2), w)
        /\ o.op \in {"sext", "zext", "trunc"} =>
               DOMAIN o.args = {1} /\ ShapeOf(S(1), w) /\ (o.op = "trunc" => n <= w)
        /\ o.op = "select" =>
               DOMAIN o.args = {1, 2, 3} /\ ShapeOf(S(1), 1) /\ ShapeOf(S(2), n) /\ ShapeOf(S(3), n)
        /\ o.op = "load" =>
               /\ DOMAIN o.args = {1} /\ ShapeOf(S(1), MaxWidth)
               /\ \A x \in Words(MaxWidth) : Memory[x] \in Words(n)
        /\ o.op = "freeze" => DOMAIN o.args = {1} /\ ShapeOf(S(1), n)

\* The operands of an instruction whose turn it is.
LEMMA OperandsAreGood ==
    ASSUME StraightLine(program), StraightShapes, NEW i \in Instrs,
           Range(program.ops[i].args) \subseteq DOMAIN shape
    PROVE  OperandsGood(i)
  <1> DEFINE o == program.ops[i]
             n == o.width
             w == WidthIn(program, o.args[1])
             S(k) == shape[o.args[k]]
  <1>1. WellTyped(program, i)
    BY DEF StraightLine, Instrs
  <1>2. n \in Nat \ {0} /\ n <= MaxWidth
    BY <1>1, ShapeRulesAssumption DEF WellTyped
  <1>3. w \in Nat /\ w <= MaxWidth
    BY WidthIs, ShapeRulesAssumption
  <1>4. ASSUME NEW k \in DOMAIN o.args, NEW m, Typed(program, o.args[k], m)
        PROVE  ShapeOf(S(k), m)
    <2>1. o.args[k] \in DOMAIN shape
      BY DEF Range
    <2> QED
      BY <1>4, <2>1, OperandShape
  <1>5. \A k, m : k \in DOMAIN o.args /\ Typed(program, o.args[k], m) => ShapeOf(S(k), m)
    BY <1>4
  <1> HIDE DEF S
  <1>6. ASSUME o.op \in BinaryOps \cup {"sadd_sat", "gep"}
        PROVE  DOMAIN o.args = {1, 2} /\ ShapeOf(S(1), n) /\ ShapeOf(S(2), n)
    <2>1. DOMAIN o.args = {1, 2} /\ Typed(program, o.args[1], n) /\ Typed(program, o.args[2], n)
      BY <1>1, <1>6 DEF WellTyped
    <2> QED
      BY <1>5, <2>1
  <1>7. ASSUME o.op \in Comparisons
        PROVE  DOMAIN o.args = {1, 2} /\ n = 1 /\ ShapeOf(S(1), w) /\ ShapeOf(S(2), w)
    <2>1. DOMAIN o.args = {1, 2} /\ n = 1 /\ Typed(program, o.args[1], w) /\ Typed(program, o.args[2], w)
      BY <1>1, <1>7 DEF WellTyped
    <2> QED
      BY <1>5, <2>1
  <1>8. ASSUME o.op \in {"sext", "zext", "trunc"}
        PROVE  DOMAIN o.args = {1} /\ ShapeOf(S(1), w) /\ (o.op = "trunc" => n <= w)
    <2>1. DOMAIN o.args = {1} /\ Typed(program, o.args[1], w) /\ (o.op = "trunc" => n <= w)
      BY <1>1, <1>8 DEF WellTyped
    <2> QED
      BY <1>5, <2>1
  <1>9. ASSUME o.op = "select"
        PROVE  DOMAIN o.args = {1, 2, 3} /\ ShapeOf(S(1), 1) /\ ShapeOf(S(2), n) /\ ShapeOf(S(3), n)
    <2>1. /\ DOMAIN o.args = {1, 2, 3} /\ Typed(program, o.args[1], 1)
          /\ Typed(program, o.args[2], n) /\ Typed(program, o.args[3], n)
      BY <1>1, <1>9 DEF WellTyped
    <2> QED
      BY <1>5, <2>1
  <1>10. ASSUME o.op = "load"
         PROVE  /\ DOMAIN o.args = {1} /\ ShapeOf(S(1), MaxWidth)
                /\ \A x \in Words(MaxWidth) : Memory[x] \in Words(n)
    <2>1. /\ DOMAIN o.args = {1} /\ Typed(program, o.args[1], MaxWidth)
          /\ \A x \in Words(MaxWidth) : Memory[x] \in Words(n)
      BY <1>1, <1>10 DEF WellTyped
    <2> QED
      BY <1>5, <2>1
  <1>11. ASSUME o.op = "freeze"
         PROVE  DOMAIN o.args = {1} /\ ShapeOf(S(1), n)
    <2>1. DOMAIN o.args = {1} /\ Typed(program, o.args[1], n)
      BY <1>1, <1>11 DEF WellTyped
    <2> QED
      BY <1>5, <2>1
  <1> QED
    BY <1>2, <1>3, <1>6, <1>7, <1>8, <1>9, <1>10, <1>11 DEF OperandsGood, S

\* The shape of an instruction, from those of its operands.
LEMMA GivenGood ==
    ASSUME StraightLine(program), NEW i \in Instrs, OperandsGood(i)
    PROVE  LET s == ShapeGiven(program, i, shape)
           IN  s = NoShape \/ ShapeOf(s, program.ops[i].width)
  <1> DEFINE o == program.ops[i]
             n == o.width
             w == WidthIn(program, o.args[1])
             S(k) == shape[o.args[k]]
             s == ShapeGiven(program, i, shape)
  <1>1. n \in Nat \ {0} /\ n <= MaxWidth /\ w \in Nat /\ MaxWidth \in Nat
    BY ShapeRulesAssumption DEF OperandsGood
  <1>2. WellTyped(program, i)
    BY DEF StraightLine, Instrs
  <1>3. CASE o.op \in BinaryOps
    <2>1. s = BinaryOpShape(o.op, S(1), S(2))
      BY <1>3, GivenBinary
    <2>2. ShapeOf(S(1), n) /\ ShapeOf(S(2), n)
      BY <1>3 DEF OperandsGood
    <2> HIDE DEF s, n, S
    <2> QED
      BY <1>1, <1>3, <2>1, <2>2, BinaryGiven DEF s, n
  <1>4. CASE o.op \in Comparisons
    <2>1. s = CmpShape(o.op, S(1), S(2))
      BY <1>4, GivenComparison
    <2>2. ShapeOf(S(1), w) /\ ShapeOf(S(2), w) /\ n = 1
      BY <1>4 DEF OperandsGood
    <2> HIDE DEF s, n, S, w
    <2> QED
      BY <1>1, <1>4, <2>1, <2>2, ComparisonGiven DEF s, n
  <1>5. CASE o.op \in CallOps
    BY <1>2, <1>5, CallGiven
  <1>6. CASE o.op \in {"sext", "zext", "trunc"}
    <2>1. s = ConvertShape(o.op, S(1), n)
      BY <1>6 DEF ShapeGiven, BinaryOps, Comparisons
    <2>2. ShapeOf(S(1), w) /\ (o.op = "trunc" => n <= w)
      BY <1>6 DEF OperandsGood
    <2> HIDE DEF s, n, S, w
    <2> QED
      BY <1>1, <1>6, <2>1, <2>2, ConvertGiven DEF s, n
  <1>7. CASE o.op = "select"
    <2>1. s = SelectShape(S(1), S(2), S(3))
      BY <1>7, OtherOps DEF ShapeGiven
    <2>2. ShapeOf(S(1), 1) /\ ShapeOf(S(2), n) /\ ShapeOf(S(3), n)
      BY <1>7 DEF OperandsGood
    <2> HIDE DEF s, n, S
    <2> QED
      BY <1>1, <2>1, <2>2, SelectGiven DEF s, n
  <1>8. CASE o.op = "gep"
    <2>1. s = GEPShape(S(1), S(2), 2)
      BY <1>8 DEF ShapeGiven, BinaryOps, Comparisons
    <2>2. ShapeOf(S(1), n) /\ ShapeOf(S(2), n)
      BY <1>8 DEF OperandsGood
    <2> HIDE DEF s, n, S
    <2> QED
      BY <1>1, <2>1, <2>2, GEPGiven DEF s, n
  <1>9. CASE o.op = "load"
    <2>1. s = LoadShape(S(1), FALSE, Memory, n)
      BY <1>9 DEF ShapeGiven, BinaryOps, Comparisons
    <2>2. ShapeOf(S(1), MaxWidth) /\ \A x \in Words(MaxWidth) : Memory[x] \in Words(n)
      BY <1>9 DEF OperandsGood
    <2>3. WordTable(Memory, MaxWidth, n)
      BY <2>2 DEF WordTable
    <2> HIDE DEF s, n, S
    <2> QED
      BY <1>1, <2>1, <2>2, <2>3, LoadGiven DEF s, n
  <1>10. CASE o.op = "freeze"
    <2>1. s = S(1)
      BY <1>10 DEF ShapeGiven, BinaryOps, Comparisons
    <2> QED
      BY <1>10, <2>1 DEF OperandsGood
  <1>11. CASE o.op \in {"insert", "fneg"}
    <2>1. s \in {Varying, Unknown}
      BY <1>11 DEF ShapeGiven, BinaryOps, Comparisons
    <2> QED
      BY <2>1, Zenon DEF ShapeOf
  <1>12. o.op \in StraightOps
    BY <1>2 DEF WellTyped
  <1> HIDE DEF o, s
  <1> QED
    BY <1>3, <1>4, <1>5, <1>6, <1>7, <1>8, <1>9, <1>10, <1>11, <1>12 DEF StraightOps, o, s

\* Arithmetic gives poison, or the word of its operands.
LEMMA EvalBinary ==
    ASSUME NEW i, NEW e, NEW l, Op(i) \in BinaryOps, DOMAIN program.ops[i].args = {1, 2}
    PROVE  \/ Eval(i, e, l) = Poison
           \/ /\ e[program.ops[i].args[1]][l] # Poison
              /\ e[program.ops[i].args[2]][l] # Poison
              /\ Eval(i, e, l) = Apply(Op(i), e[program.ops[i].args[1]][l],
                                       e[program.ops[i].args[2]][l], program.ops[i].width)
  <1>1. /\ Op(i) \notin CallOps /\ Op(i) \notin Comparisons
        /\ Op(i) \notin {"phi", "select", "freeze", "sadd_sat", "sext", "zext", "trunc", "gep",
                        "load", "lookup", "insert", "fneg"}
    BY OtherOps
  <1> QED
    BY <1>1, Zenon DEF Eval, Arg

\* So do comparisons.
LEMMA EvalComparison ==
    ASSUME NEW i, NEW e, NEW l, Op(i) \in Comparisons, DOMAIN program.ops[i].args = {1, 2}
    PROVE  \/ Eval(i, e, l) = Poison
           \/ /\ e[program.ops[i].args[1]][l] # Poison
              /\ e[program.ops[i].args[2]][l] # Poison
              /\ Eval(i, e, l) = Compare(Op(i), e[program.ops[i].args[1]][l],
                                         e[program.ops[i].args[2]][l], TypeWidth(program.ops[i].args[1]))
  <1>1. /\ Op(i) \notin CallOps /\ Op(i) \notin BinaryOps
        /\ Op(i) \notin {"phi", "select", "freeze", "sadd_sat", "sext", "zext", "trunc", "gep",
                        "load", "lookup", "insert", "fneg"}
    BY OtherOps
  <1> QED
    BY <1>1, Zenon DEF Eval, Arg

\* Every lane gets a value that the shape allows, or poison.
LEMMA EvalShaped ==
    ASSUME StraightLine(program), NEW i \in Instrs, i \in DOMAIN shape, OperandsGood(i),
           Range(program.ops[i].args) \subseteq DOMAIN shape,
           shape[i] = ShapeGiven(program, i, shape), IsIndexed(shape[i]),
           NEW e, AllShaped(shape, e)
    PROVE  Shaped(shape[i], [l \in Lanes |-> Eval(i, e, l)])
  <1> DEFINE o == program.ops[i]
             n == o.width
             w == WidthIn(program, o.args[1])
             S(k) == shape[o.args[k]]
             X(k) == e[o.args[k]]
             s == ShapeGiven(program, i, shape)
             h == [l \in Lanes |-> Eval(i, e, l)]
  <1>0. SUFFICES Shaped(s, h)
    OBVIOUS
  <1>1. n \in Nat \ {0} /\ n <= MaxWidth /\ w \in Nat /\ MaxWidth \in Nat
    BY ShapeRulesAssumption DEF OperandsGood
  <1>2. WellTyped(program, i) /\ IsIndexed(s)
    BY DEF StraightLine, Instrs
  <1>3. \A k \in DOMAIN o.args : IsIndexed(S(k)) => Shaped(S(k), X(k))
    <2> TAKE k \in DOMAIN o.args
    <2>1. o.args[k] \in DOMAIN shape
      BY DEF Range
    <2> QED
      BY <2>1 DEF AllShaped
  <1>4. \A k \in DOMAIN o.args : \A m : GoodShape(S(k), m) => Shaped(S(k), X(k))
    BY <1>3 DEF GoodShape, IndexedShape, IsIndexed
  <1>5. \A l \in Lanes : h[l] = Eval(i, e, l)
    OBVIOUS
  <1>w. w = TypeWidth(o.args[1])
    BY DEF WidthIn, TypeWidth, Instrs
  <1>6. CASE o.op \in BinaryOps
    <2>1. s = BinaryOpShape(o.op, S(1), S(2))
      BY <1>6, GivenBinary
    <2>2. ShapeOf(S(1), n) /\ ShapeOf(S(2), n) /\ DOMAIN o.args = {1, 2}
      BY <1>6 DEF OperandsGood
    <2>3. \A l \in Lanes : \/ h[l] = Poison
                           \/ /\ X(1)[l] # Poison /\ X(2)[l] # Poison
                              /\ h[l] = Apply(o.op, X(1)[l], X(2)[l], n)
      <3> TAKE l \in Lanes
      <3>1. Op(i) = o.op
        BY DEF Op
      <3>2. \/ Eval(i, e, l) = Poison
            \/ /\ X(1)[l] # Poison /\ X(2)[l] # Poison
               /\ Eval(i, e, l) = Apply(o.op, X(1)[l], X(2)[l], n)
        <4>1. Op(i) \in BinaryOps /\ DOMAIN program.ops[i].args = {1, 2}
          BY <1>6, <2>2, <3>1
        <4>2. \/ Eval(i, e, l) = Poison
              \/ /\ X(1)[l] # Poison /\ X(2)[l] # Poison
                 /\ Eval(i, e, l) = Apply(Op(i), X(1)[l], X(2)[l], n)
          BY <4>1, EvalBinary
        <4> QED
          BY <3>1, <4>2
      <3> HIDE DEF h
      <3> QED
        BY <1>5, <3>2
    <2> HIDE DEF s, n, S, X, h
    <2>4. GoodShape(S(1), n) /\ GoodShape(S(2), n)
      BY <1>1, <1>2, <1>6, <2>1, <2>2, BinaryGiven
    <2>5. Shaped(S(1), X(1)) /\ Shaped(S(2), X(2))
      BY <1>4, <2>2, <2>4
    <2>6. CalculatedFrom(o.op, n, X(1), X(2), h)
      BY <2>3 DEF CalculatedFrom
    <2> QED
      BY <1>1, <1>2, <1>6, <2>1, <2>2, <2>5, <2>6, BinaryShaped
  <1>7. CASE o.op \in Comparisons
    <2>1. s = CmpShape(o.op, S(1), S(2))
      BY <1>7, GivenComparison
    <2>2. ShapeOf(S(1), w) /\ ShapeOf(S(2), w) /\ DOMAIN o.args = {1, 2}
      BY <1>7 DEF OperandsGood
    <2>3. \A l \in Lanes : \/ h[l] = Poison
                           \/ /\ X(1)[l] # Poison /\ X(2)[l] # Poison
                              /\ h[l] = Compare(o.op, X(1)[l], X(2)[l], w)
      <3> TAKE l \in Lanes
      <3>1. Op(i) = o.op
        BY DEF Op
      <3>2. \/ Eval(i, e, l) = Poison
            \/ /\ X(1)[l] # Poison /\ X(2)[l] # Poison
               /\ Eval(i, e, l) = Compare(o.op, X(1)[l], X(2)[l], TypeWidth(o.args[1]))
        <4>1. Op(i) \in Comparisons /\ DOMAIN program.ops[i].args = {1, 2}
          BY <1>7, <2>2, <3>1
        <4>2. \/ Eval(i, e, l) = Poison
              \/ /\ X(1)[l] # Poison /\ X(2)[l] # Poison
                 /\ Eval(i, e, l) = Compare(Op(i), X(1)[l], X(2)[l], TypeWidth(o.args[1]))
          BY <4>1, EvalComparison
        <4> QED
          BY <3>1, <4>2
      <3> HIDE DEF h, w
      <3> QED
        BY <1>5, <1>w, <3>2
    <2> HIDE DEF s, n, S, X, h, w
    <2>4. GoodShape(S(1), w) /\ GoodShape(S(2), w)
      BY <1>1, <1>2, <1>7, <2>1, <2>2, ComparisonGiven
    <2>5. Shaped(S(1), X(1)) /\ Shaped(S(2), X(2))
      BY <1>4, <2>2, <2>4
    <2>6. ComparedFrom(o.op, w, X(1), X(2), h)
      BY <2>3 DEF ComparedFrom
    <2> QED
      BY <1>1, <1>2, <1>7, <2>1, <2>2, <2>5, <2>6, ComparisonShaped
  <1>8. CASE o.op \in CallOps \ {"sadd_sat"}
    <2>1. h = [l \in Lanes |-> e[i][l]]
      BY <1>8 DEF Eval, Op
    <2>2. Shaped(s, e[i])
      BY <1>2 DEF AllShaped
    <2> HIDE DEF s, h
    <2> QED
      BY <2>1, <2>2 DEF Shaped
  <1>9. CASE o.op = "sadd_sat"
    <2>1. s = IF \A v \in Range(o.args) : IsUniform(shape[v]) THEN Symbolic(n) ELSE Varying
      BY <1>9 DEF ShapeGiven, BinaryOps, Comparisons
    <2>2. ShapeOf(S(1), n) /\ ShapeOf(S(2), n) /\ DOMAIN o.args = {1, 2}
      BY <1>9, Zenon DEF OperandsGood
    <2>3. \A l \in Lanes : \/ h[l] = Poison
                           \/ /\ X(1)[l] # Poison /\ X(2)[l] # Poison
                              /\ h[l] = Saturated(SignedWord(X(1)[l], n) + SignedWord(X(2)[l], n), n)
      BY <1>9, <2>2, OtherOps, Zenon DEF Eval, Op, Arg
    <2>4. s = Symbolic(n) /\ \A v \in Range(o.args) : IsUniform(shape[v])
      BY <1>2, <2>1 DEF IsIndexed, Varying
    <2>5. IsUniform(S(1)) /\ IsUniform(S(2))
      BY <2>2, <2>4 DEF Range
    <2> HIDE DEF s, n, S, X, h
    <2>6. GoodShape(S(1), n) /\ GoodShape(S(2), n)
      BY <2>2, <2>5, IndexedOrNot DEF IsUniform
    <2>7. Shaped(S(1), X(1)) /\ Shaped(S(2), X(2))
      BY <1>4, <2>2, <2>6
    <2>8. Shaped(Symbolic(n), h)
      BY <1>1, <2>3, <2>5, <2>6, <2>7, SaturatedGiven
    <2> QED
      BY <2>4, <2>8
  <1>10. CASE o.op \in {"sext", "zext", "trunc"}
    <2>1. s = ConvertShape(o.op, S(1), n)
      BY <1>10, OtherOps, Zenon DEF ShapeGiven
    <2>2. ShapeOf(S(1), w) /\ (o.op = "trunc" => n <= w) /\ DOMAIN o.args = {1}
      BY <1>10, Zenon DEF OperandsGood
    <2>3. \A l \in Lanes : h[l] = Poison \/ (X(1)[l] # Poison /\ h[l] = Convert(o.op, X(1)[l], w, n))
      <3> HIDE DEF w
      <3> QED
        BY <1>10, <1>w, <2>2, OtherOps, Zenon DEF Eval, Op, Arg
    <2> HIDE DEF s, n, S, X, h, w
    <2>4. GoodShape(S(1), w)
      BY <1>1, <1>2, <1>10, <2>1, <2>2, ConvertGiven
    <2>5. Shaped(S(1), X(1))
      BY <1>4, <2>2, <2>4
    <2>6. ConvertedFrom(o.op, w, n, X(1), h)
      BY <2>3 DEF ConvertedFrom
    <2> QED
      BY <1>1, <1>2, <1>10, <2>1, <2>2, <2>5, <2>6, ConvertShaped
  <1>11. CASE o.op = "select"
    <2>1. s = SelectShape(S(1), S(2), S(3))
      BY <1>11 DEF ShapeGiven, BinaryOps, Comparisons
    <2>2. ShapeOf(S(1), 1) /\ ShapeOf(S(2), n) /\ ShapeOf(S(3), n) /\ DOMAIN o.args = {1, 2, 3}
      BY <1>11, Zenon DEF OperandsGood
    <2>3. \A l \in Lanes : \/ h[l] = Poison
                           \/ /\ X(1)[l] # Poison
                              /\ h[l] = SelectWord(X(1)[l], X(2)[l], X(3)[l])
      BY <1>11, <2>2, OtherOps, Zenon DEF Eval, Op, Arg
    <2> HIDE DEF s, n, S, X, h
    <2>4. GoodShape(S(1), 1) /\ GoodShape(S(2), n) /\ GoodShape(S(3), n)
      BY <1>1, <1>2, <2>1, <2>2, SelectGiven
    <2>5. Shaped(S(1), X(1)) /\ Shaped(S(2), X(2)) /\ Shaped(S(3), X(3))
      BY <1>4, <2>2, <2>4
    <2>6. SelectedFrom(X(1), X(2), X(3), h)
      BY <2>3 DEF SelectedFrom
    <2> QED
      BY <1>1, <1>2, <2>1, <2>2, <2>5, <2>6, SelectShaped
  <1>12. CASE o.op = "gep"
    <2>1. s = GEPShape(S(1), S(2), 2)
      BY <1>12 DEF ShapeGiven, BinaryOps, Comparisons
    <2>2. ShapeOf(S(1), n) /\ ShapeOf(S(2), n) /\ DOMAIN o.args = {1, 2}
      BY <1>12, Zenon DEF OperandsGood
    <2>3. \A l \in Lanes : \/ h[l] = Poison
                           \/ /\ X(1)[l] # Poison /\ X(2)[l] # Poison
                              /\ h[l] = Cut(X(1)[l] + 2 * X(2)[l], n)
      BY <1>12, <2>2, OtherOps, Zenon DEF Eval, Op, Arg
    <2> HIDE DEF s, n, S, X, h
    <2>4. GoodShape(S(1), n) /\ GoodShape(S(2), n)
      BY <1>1, <1>2, <2>1, <2>2, GEPGiven
    <2>5. Shaped(S(1), X(1)) /\ Shaped(S(2), X(2))
      BY <1>4, <2>2, <2>4
    <2>6. \A l \in Lanes : X(2)[l] # Poison => 2 * X(2)[l] = X(2)[l] * 2
      <3> TAKE l \in Lanes
      <3> HAVE X(2)[l] # Poison
      <3>1. PICK y \in S(2).base : X(2)[l] \in {Poison, AtLane(S(2), y, l)}
        BY <2>5 DEF Shaped
      <3>2. IndexedShape(S(2), n)
        BY <2>4 DEF GoodShape
      <3>3. X(2)[l] \in Int
        BY <3>1, <3>2, AtLaneIs
      <3> QED
        BY <3>3
    <2>7. \A l \in Lanes : \/ h[l] = Poison
                           \/ /\ X(1)[l] # Poison /\ X(2)[l] # Poison
                              /\ h[l] = Cut(X(1)[l] + X(2)[l] * 2, n)
      BY <2>3, <2>6
    <2>8. AddressedFrom(2, n, X(1), X(2), h)
      BY <2>7 DEF AddressedFrom
    <2> QED
      BY <1>1, <1>2, <2>1, <2>2, <2>5, <2>8, GEPShaped
  <1>13. CASE o.op = "load"
    <2>1. s = LoadShape(S(1), FALSE, Memory, n)
      BY <1>13 DEF ShapeGiven, BinaryOps, Comparisons
    <2>2. /\ ShapeOf(S(1), MaxWidth) /\ DOMAIN o.args = {1}
          /\ \A x \in Words(MaxWidth) : Memory[x] \in Words(n)
      BY <1>13, Zenon DEF OperandsGood
    <2>3. \A l \in Lanes : h[l] = Poison \/ (X(1)[l] # Poison /\ h[l] = Memory[X(1)[l]])
      BY <1>13, <2>2, Zenon DEF Eval, BinaryOps, Comparisons, CallOps, Op, Arg
    <2> HIDE DEF s, n, S, X, h
    <2>w. WordTable(Memory, MaxWidth, n)
      BY <2>2 DEF WordTable
    <2>4. GoodShape(S(1), MaxWidth)
      BY <1>1, <1>2, <2>1, <2>2, <2>w, LoadGiven
    <2>5. Shaped(S(1), X(1))
      BY <1>4, <2>2, <2>4
    <2>6. WordTable(Memory, MaxWidth, n) /\ LoadedFrom(Memory, X(1), h)
      BY <2>3, <2>w DEF LoadedFrom
    <2> QED
      BY <1>1, <1>2, <2>1, <2>2, <2>5, <2>6, LoadShaped
  <1>14. CASE o.op = "freeze"
    <2>1. s = S(1) /\ DOMAIN o.args = {1}
      BY <1>14 DEF ShapeGiven, BinaryOps, Comparisons, OperandsGood
    <2>2. \A l \in Lanes : h[l] = X(1)[l]
      BY <1>14 DEF Eval, BinaryOps, Comparisons, CallOps, Op, Arg
    <2> HIDE DEF s, S, X, h
    <2>3. Shaped(S(1), X(1))
      BY <1>2, <1>3, <2>1
    <2> QED
      BY <2>1, <2>2, <2>3 DEF Shaped
  <1>15. CASE o.op \in {"insert", "fneg"}
    <2>1. s \in {Varying, Unknown}
      BY <1>15, OtherOps, Zenon DEF ShapeGiven
    <2> QED
      BY <1>2, <2>1, NoPromise
  <1>16. o.op \in StraightOps
    BY <1>2 DEF WellTyped
  <1> HIDE DEF o, s, h
  <1> QED
    BY <1>6, <1>7, <1>8, <1>9, <1>10, <1>11, <1>12, <1>13, <1>14, <1>15, <1>16, Zenon
       DEF StraightOps, CallOps

-----------------------------------------------------------------------------
(* Execution of a block *)

\* One instruction, for some lanes.
ExecStep(i, lanes, f) ==
    [f EXCEPT ![i] = [l \in Lanes |-> IF l \in lanes \/ program.ops[i].gang THEN Eval(i, f, l)
                                      ELSE f[i][l]]]

RunStep(insts, lanes, e, r, k) == IF k = 0 THEN e ELSE ExecStep(insts[k], lanes, r[k - 1])

RunUpTo(insts, lanes, e, r, m) == \A k \in 0..m : r[k] = RunStep(insts, lanes, e, r, k)

\* The instructions can be executed one after the other.
LEMMA RunUpToEach ==
    ASSUME NEW insts, NEW lanes, NEW e
    PROVE  \A m \in Nat : \E r : RunUpTo(insts, lanes, e, r, m)
  <1> DEFINE Up(r, m) == RunUpTo(insts, lanes, e, r, m)
             Q == {m \in Nat : \E r : Up(r, m)}
  <1>1. 0 \in Q
    <2> DEFINE r == [k \in 0..0 |-> e]
    <2>1. \A k \in 0..0 : k = 0 /\ r[k] = e
      OBVIOUS
    <2>2. Up(r, 0)
      <3> HIDE DEF r
      <3> QED
        BY <2>1 DEF RunUpTo, RunStep
    <2> HIDE DEF Up
    <2> QED
      BY <2>2
  <1>2. ASSUME NEW m \in Nat, m \in Q
        PROVE  m + 1 \in Q
    <2>1. PICK r : Up(r, m)
      BY <1>2
    <2> DEFINE q == [k \in 0..(m + 1) |-> IF k = m + 1 THEN ExecStep(insts[m + 1], lanes, r[m]) ELSE r[k]]
    <2>2. \A k \in 0..m : q[k] = r[k] /\ k # m + 1
      OBVIOUS
    <2>3. q[m + 1] = ExecStep(insts[m + 1], lanes, r[m])
      OBVIOUS
    <2> HIDE DEF q
    <2>4. ASSUME NEW k \in 0..(m + 1)
          PROVE  q[k] = RunStep(insts, lanes, e, q, k)
      <3>1. CASE k = m + 1
        <4>1. k # 0 /\ k - 1 = m /\ m \in 0..m
          BY <3>1
        <4> QED
          BY <2>2, <2>3, <3>1, <4>1 DEF RunStep
      <3>2. CASE k # m + 1
        <4>1. k \in 0..m /\ (k # 0 => k - 1 \in 0..m)
          BY <3>2
        <4>2. r[k] = RunStep(insts, lanes, e, r, k)
          BY <2>1, <4>1 DEF RunUpTo
        <4> QED
          BY <2>2, <4>1, <4>2 DEF RunStep
      <3> QED
        BY <3>1, <3>2
    <2>5. Up(q, m + 1)
      BY <2>4 DEF RunUpTo
    <2> HIDE DEF Up
    <2> QED
      BY <2>5
  <1> HIDE DEF Q
  <1>3. \A m \in Nat : m \in Q
    BY <1>1, <1>2, CountUp
  <1> QED
    BY <1>3 DEF Q

\* Execute goes through the instructions one by one.
LEMMA ExecuteIs ==
    ASSUME NEW insts, NEW lanes, NEW e, Len(insts) \in Nat
    PROVE  \E r : RunUpTo(insts, lanes, e, r, Len(insts)) /\ Execute(insts, lanes, e) = r[Len(insts)]
  <1> DEFINE N == Len(insts)
             Of(r) == [k \in 0..N |-> RunStep(insts, lanes, e, r, k)]
             R(r) == r = Of(r)
  <1>1. PICK f : RunUpTo(insts, lanes, e, f, N)
    BY RunUpToEach
  <1> DEFINE g == [k \in 0..N |-> f[k]]
  <1>2. \A k \in 0..N : g[k] = f[k]
    OBVIOUS
  <1>3. \A k \in 0..N : f[k] = RunStep(insts, lanes, e, f, k)
    BY <1>1 DEF RunUpTo
  <1>4. \A k \in 0..N : RunStep(insts, lanes, e, f, k) = RunStep(insts, lanes, e, g, k)
    <2> TAKE k \in 0..N
    <2>1. k # 0 => k - 1 \in 0..N
      OBVIOUS
    <2> HIDE DEF g, N
    <2> QED
      BY <1>2, <2>1 DEF RunStep
  <1>5. R(g)
    <2>1. \A k \in 0..N : f[k] = RunStep(insts, lanes, e, g, k)
      BY <1>3, <1>4
    <2> DEFINE t == g
    <2>2. \A k \in 0..N : f[k] = RunStep(insts, lanes, e, t, k)
      BY <2>1
    <2> HIDE DEF t, N
    <2>3. [k \in 0..N |-> f[k]] = Of(t)
      BY <2>2
    <2> QED
      BY <2>3 DEF t
  <1>6. Execute(insts, lanes, e) = (CHOOSE r : R(r))[N]
    BY DEF Execute, RunStep, ExecStep
  <1>7. R(CHOOSE r : R(r))
    <2> HIDE DEF R
    <2> QED
      BY <1>5
  <1> DEFINE run == CHOOSE r : R(r)
  <1>8. run = Of(run)
    BY <1>7
  <1> HIDE DEF run, N
  <1>9. \A k \in 0..N : run[k] = RunStep(insts, lanes, e, run, k)
    BY <1>8
  <1>10. RunUpTo(insts, lanes, e, run, N)
    BY <1>9 DEF RunUpTo
  <1> QED
    BY <1>6, <1>10 DEF run, N

\* A block leaves every value in its shape.
LEMMA ExecuteKeeps ==
    ASSUME StraightLine(program), StraightShapes, Instrs \subseteq DOMAIN shape,
           NEW insts, Len(insts) \in Nat, \A k \in 1..Len(insts) : insts[k] \in Instrs,
           NEW D, DOMAIN shape \subseteq D, NEW e, DOMAIN e = D, AllShaped(shape, e)
    PROVE  /\ DOMAIN Execute(insts, Lanes, e) = D
           /\ AllShaped(shape, Execute(insts, Lanes, e))
  <1> DEFINE N == Len(insts)
             Kept(f) == DOMAIN f = D /\ AllShaped(shape, f)
  <1>1. PICK r : RunUpTo(insts, Lanes, e, r, N) /\ Execute(insts, Lanes, e) = r[N]
    BY ExecuteIs
  <1>2. \A k \in 0..N : r[k] = RunStep(insts, Lanes, e, r, k)
    BY <1>1 DEF RunUpTo
  <1>3. ASSUME NEW i \in Instrs, NEW f, Kept(f)
        PROVE  Kept(ExecStep(i, Lanes, f))
    <2> DEFINE h == [l \in Lanes |-> Eval(i, f, l)]
               g == [f EXCEPT ![i] = h]
    <2>1. i \in DOMAIN shape /\ i \in D
      OBVIOUS
    <2>2. Range(program.ops[i].args) \subseteq DOMAIN shape /\ shape[i] = ShapeGiven(program, i, shape)
      BY <2>1 DEF StraightShapes
    <2>3. OperandsGood(i)
      BY <2>2, OperandsAreGood
    <2>4. IsIndexed(shape[i]) => Shaped(shape[i], h)
      BY <1>3, <2>1, <2>2, <2>3, EvalShaped
    <2>5. ExecStep(i, Lanes, f) = g
      BY DEF ExecStep
    <2>6. DOMAIN g = D /\ g[i] = h /\ \A v \in D : v # i => g[v] = f[v]
      <3> HIDE DEF h
      <3> QED
        BY <1>3, <2>1
    <2> HIDE DEF g, h
    <2>7. AllShaped(shape, g)
      BY <1>3, <2>4, <2>6 DEF AllShaped
    <2> QED
      BY <2>5, <2>6, <2>7
  <1> DEFINE Q == {k \in Nat : k <= N => Kept(r[k])}
  <1>4. 0 \in Q
    <2>1. r[0] = e
      BY <1>2 DEF RunStep
    <2> QED
      BY <2>1
  <1>5. ASSUME NEW k \in Nat, k \in Q
        PROVE  k + 1 \in Q
    <2> SUFFICES ASSUME k + 1 <= N
                 PROVE  Kept(r[k + 1])
      OBVIOUS
    <2>1. k <= N /\ k + 1 \in 0..N /\ k + 1 \in 1..N /\ k + 1 # 0 /\ (k + 1) - 1 = k
      OBVIOUS
    <2>2. Kept(r[k])
      BY <1>5, <2>1
    <2>3. r[k + 1] = ExecStep(insts[k + 1], Lanes, r[k])
      BY <1>2, <2>1 DEF RunStep
    <2>4. insts[k + 1] \in Instrs
      BY <2>1
    <2> HIDE DEF Kept
    <2> QED
      BY <1>3, <2>2, <2>3, <2>4
  <1> HIDE DEF Q
  <1>6. \A k \in Nat : k \in Q
    BY <1>4, <1>5, CountUp
  <1>7. Kept(r[N])
    BY <1>6 DEF Q
  <1> QED
    BY <1>1, <1>7

\* The shape of an instruction depends on those of its operands only.
LEMMA GivenSame ==
    ASSUME NEW p, NEW i, WellTyped(p, i), NEW sh, NEW other_shapes,
           \A v \in Range(p.ops[i].args) : sh[v] = other_shapes[v]
    PROVE  ShapeGiven(p, i, sh) = ShapeGiven(p, i, other_shapes)
  <1> DEFINE o == p.ops[i]
  <1>1. \A k \in DOMAIN o.args : sh[o.args[k]] = other_shapes[o.args[k]]
    BY DEF Range
  <1>2. CASE o.op \in BinaryOps
    <2>1. DOMAIN o.args = {1, 2}
      BY <1>2 DEF WellTyped
    <2>2. sh[o.args[1]] = other_shapes[o.args[1]] /\ sh[o.args[2]] = other_shapes[o.args[2]]
      BY <1>1, <2>1
    <2> QED
      BY <1>2, <2>2, GivenBinary
  <1>3. CASE o.op \in Comparisons
    <2>1. DOMAIN o.args = {1, 2}
      BY <1>3 DEF WellTyped
    <2>2. sh[o.args[1]] = other_shapes[o.args[1]] /\ sh[o.args[2]] = other_shapes[o.args[2]]
      BY <1>1, <2>1
    <2> QED
      BY <1>3, <2>2, GivenComparison
  <1>4. CASE o.op \in CallOps \cup {"insert", "fneg"}
    <2>1. CASE o.op = "sadd_sat"
      <3>1. (\A v \in Range(o.args) : IsUniform(sh[v]))
                <=> (\A v \in Range(o.args) : IsUniform(other_shapes[v]))
        OBVIOUS
      <3> QED
        BY <2>1, <3>1 DEF ShapeGiven, BinaryOps, Comparisons
    <2>2. CASE o.op # "sadd_sat"
      BY <1>4, <2>2, OtherOps, Zenon DEF ShapeGiven, CallOps
    <2> QED
      BY <2>1, <2>2
  <1>5. CASE o.op \in {"sext", "zext", "trunc", "load", "freeze"}
    <2>1. DOMAIN o.args = {1}
      BY <1>5 DEF WellTyped
    <2>2. sh[o.args[1]] = other_shapes[o.args[1]]
      BY <1>1, <2>1
    <2> QED
      BY <1>5, <2>2 DEF ShapeGiven, BinaryOps, Comparisons
  <1>6. CASE o.op = "gep"
    <2>1. DOMAIN o.args = {1, 2}
      BY <1>6 DEF WellTyped
    <2>2. sh[o.args[1]] = other_shapes[o.args[1]] /\ sh[o.args[2]] = other_shapes[o.args[2]]
      BY <1>1, <2>1
    <2> QED
      BY <1>6, <2>2 DEF ShapeGiven, BinaryOps, Comparisons
  <1>7. CASE o.op = "select"
    <2>1. DOMAIN o.args = {1, 2, 3}
      BY <1>7 DEF WellTyped
    <2>2. /\ sh[o.args[1]] = other_shapes[o.args[1]] /\ sh[o.args[2]] = other_shapes[o.args[2]]
          /\ sh[o.args[3]] = other_shapes[o.args[3]]
      BY <1>1, <2>1
    <2> QED
      BY <1>7, <2>2 DEF ShapeGiven, BinaryOps, Comparisons
  <1>8. o.op \in StraightOps
    BY DEF WellTyped
  <1> HIDE DEF o
  <1> QED
    BY <1>2, <1>3, <1>4, <1>5, <1>6, <1>7, <1>8 DEF StraightOps, o

\* Lanes that have no value yet have no wrong one.
LEMMA NoValueShaped ==
    ASSUME NEW s, s.base # {}
    PROVE  Shaped(s, NoValue)
  BY DEF Shaped, NoValue

\* Inputs drawn from a shape are allowed by it.
LEMMA FromShapeIs ==
    ASSUME NEW s, NEW n, GoodShape(s, n), NEW f \in FromShape(s)
    PROVE  Shaped(s, f)
  <1>1. IsIndexed(s)
    BY DEF GoodShape, IndexedShape, IsIndexed
  <1>2. PICK x \in s.base : f = [l \in Lanes |-> AtLane(s, x, l)]
    BY <1>1 DEF FromShape
  <1> QED
    BY <1>2 DEF Shaped

\* Before the first visit.
LEMMA ShapesInitially == ShapesInit => StraightInv
  <1> SUFFICES ASSUME ShapesInit, StraightLine(program)
               PROVE  StraightShapes /\ StraightValues
    BY DEF StraightInv
  <1>1. DOMAIN program.args \cap Instrs = {} /\ DOMAIN program.blocks = {"E"}
    BY DEF StraightLine, Instrs
  <1>2. StraightShapes
    BY <1>1 DEF ShapesInit, StraightShapes
  <1>3. DOMAIN env = DOMAIN program.args \cup Instrs \cup {"undef"}
    BY DEF ShapesInit, Instrs
  <1>4. \A i \in Instrs : env[i] = NoValue
    BY <1>1 DEF ShapesInit, Instrs, NoValue
  <1>5. ASSUME NEW v \in DOMAIN program.args, IsIndexed(program.args[v])
        PROVE  Shaped(program.args[v], env[v])
    <2> DEFINE s == program.args[v]
    <2>1. s \notin {Varying, Unknown}
      BY <1>5 DEF IsIndexed, Varying, Unknown
    <2>2. PICK n \in 1..MaxWidth : GoodShape(s, n)
      BY <2>1 DEF StraightLine
    <2>3. s.base # {}
      BY <2>2 DEF GoodShape
    <2>4. CASE HasConstantBase(s)
      <3>1. PICK x \in s.base : TRUE
        BY <2>3
      <3>2. [l \in Lanes |-> AtLane(s, x, l)] \in FromShape(s)
        BY <1>5, <2>4, <3>1 DEF FromShape
      <3>3. env[v] = CHOOSE f \in FromShape(s) : TRUE
        BY <2>4 DEF ShapesInit
      <3>4. env[v] \in FromShape(s)
        <4> HIDE DEF s
        <4> QED
          BY <3>2, <3>3
      <3> QED
        BY <2>2, <3>4, FromShapeIs
    <2>5. CASE ~HasConstantBase(s)
      <3>1. env[v] = NoValue
        BY <2>5 DEF ShapesInit, NoValue
      <3> QED
        BY <2>3, <3>1, NoValueShaped
    <2> QED
      BY <2>4, <2>5
  <1>6. AllShaped(shape, env)
    BY <1>5 DEF ShapesInit, AllShaped
  <1>7. DOMAIN at = {"E"} /\ at["E"] \subseteq Lanes
    BY <1>1 DEF ShapesInit
  <1> QED
    BY <1>2, <1>3, <1>4, <1>6, <1>7 DEF StraightValues

\* A visit finds the shapes of all operands, and no user to visit again.
LEMMA VisitKeeps ==
    ASSUME StraightLine(program), StraightShapes, StraightValues, NEW i \in Instrs, Visit(i)
    PROVE  StraightShapes' /\ StraightValues'
  <1> DEFINE n == program.ops[i].width
             s == CalculateShape(i)
  <1>1. /\ stage = "order" /\ i \notin DOMAIN shape /\ work_queue = {}
        /\ UNCHANGED <<program, env, at>>
    BY DEF Visit, Has, StraightShapes
  <1>2. WellTyped(program, i)
    BY DEF StraightLine, Instrs
  <1>3. Op(i) \in StraightOps /\ ~IsPHI(i)
    BY <1>2 DEF WellTyped, Op, IsPHI, StraightOps, BinaryOps, Comparisons, CallOps
  <1>4. Range(program.ops[i].args) \subseteq DOMAIN shape
    <2>1. OperandsBefore(i) = Range(program.ops[i].args)
      BY <1>3 DEF OperandsBefore, IsHeaderPHI
    <2>2. \A v \in Range(program.ops[i].args) : v \in Instrs => v \in DOMAIN shape
      BY <2>1 DEF Visit, Has
    <2>3. Range(program.ops[i].args) \subseteq DOMAIN program.args \cup Instrs
      BY <1>2 DEF WellTyped, Instrs
    <2> QED
      BY <2>2, <2>3 DEF StraightShapes
  <1>5. s = ShapeGiven(program, i, shape)
    BY <1>3, CalculateIs
  <1>6. s = NoShape \/ ShapeOf(s, n)
    BY <1>4, <1>5, OperandsAreGood, GivenGood
  <1>7. Requeued(i) = {}
    <2> SUFFICES ASSUME NEW u \in Requeued(i)
                 PROVE  FALSE
      OBVIOUS
    <2>1. u \in Instrs /\ i \in Range(program.ops[u].args) /\ u \in DOMAIN shape
      BY DEF Requeued, Users, Has
    <2> QED
      BY <1>1, <2>1 DEF StraightShapes
  <1>8. CASE s = NoShape
    <2>1. stage' = "abort" /\ UNCHANGED <<shape, work_queue>>
      BY <1>8 DEF Visit, Calculate
    <2>2. StraightShapes'
      BY <1>1, <2>1 DEF StraightShapes, Instrs
    <2>3. StraightValues'
      BY <1>1, <2>1 DEF StraightValues, Instrs, AllShaped
    <2> QED
      BY <2>2, <2>3
  <1>9. CASE s # NoShape
    <2> DEFINE sh == [v \in DOMAIN shape \cup {i} |-> IF v = i THEN s ELSE shape[v]]
    <2>1. shape' = sh /\ work_queue' = {} /\ stage' = "order"
      BY <1>1, <1>7, <1>9 DEF Visit, Calculate
    <2> HIDE DEF s
    <2>2. /\ DOMAIN sh = DOMAIN shape \cup {i} /\ sh[i] = s
          /\ \A v \in DOMAIN shape : sh[v] = shape[v]
      BY <1>1
    <2> HIDE DEF sh
    <2>3. \A j \in Instrs : Range(program.ops[j].args) \subseteq DOMAIN shape
                                => ShapeGiven(program, j, sh) = ShapeGiven(program, j, shape)
      <3> TAKE j \in Instrs
      <3> HAVE Range(program.ops[j].args) \subseteq DOMAIN shape
      <3>1. \A v \in Range(program.ops[j].args) : shape[v] = sh[v]
        BY <2>2
      <3>2. WellTyped(program, j)
        BY DEF StraightLine, Instrs
      <3>3. ShapeGiven(program, j, shape) = ShapeGiven(program, j, sh)
        BY <3>1, <3>2, GivenSame
      <3> QED
        BY <3>3
    <2>4. ASSUME NEW j \in Instrs, j \in DOMAIN sh
          PROVE  /\ Range(program.ops[j].args) \subseteq DOMAIN sh
                 /\ sh[j] = ShapeGiven(program, j, sh)
                 /\ ShapeOf(sh[j], program.ops[j].width)
      <3>1. CASE j = i
        BY <1>4, <1>5, <1>6, <1>9, <2>2, <2>3, <3>1
      <3>2. CASE j # i
        <4>1. j \in DOMAIN shape
          BY <2>2, <2>4, <3>2
        <4>2. /\ Range(program.ops[j].args) \subseteq DOMAIN shape
              /\ shape[j] = ShapeGiven(program, j, shape)
              /\ ShapeOf(shape[j], program.ops[j].width)
          BY <4>1 DEF StraightShapes
        <4> QED
          BY <2>2, <2>3, <4>1, <4>2
      <3> QED
        BY <3>1, <3>2
    <2>5. DOMAIN sh \subseteq DOMAIN program.args \cup Instrs
      BY <2>2 DEF StraightShapes
    <2>6. \A v \in DOMAIN program.args : v \in DOMAIN sh /\ sh[v] = program.args[v]
      BY <2>2 DEF StraightShapes
    <2>7. StraightShapes'
      BY <1>1, <2>1, <2>4, <2>5, <2>6 DEF StraightShapes, Instrs
    <2>8. AllShaped(sh, env)
      <3> SUFFICES ASSUME NEW v \in DOMAIN sh, IsIndexed(sh[v])
                   PROVE  Shaped(sh[v], env[v])
        BY DEF AllShaped
      <3>1. CASE v = i
        <4>1. GoodShape(s, n)
          BY <1>6, <1>9, <2>2, <3>1, IndexedOrNot
        <4>2. env[i] = NoValue
          BY <1>1 DEF StraightValues
        <4> QED
          BY <2>2, <3>1, <4>1, <4>2, NoValueShaped DEF GoodShape
      <3>2. CASE v # i
        BY <2>2, <3>2 DEF StraightValues, AllShaped
      <3> QED
        BY <3>1, <3>2
    <2>9. StraightValues'
      BY <1>1, <2>1, <2>8 DEF StraightValues, Instrs, AllShaped
    <2> QED
      BY <2>7, <2>9
  <1> QED
    BY <1>8, <1>9

\* The inputs are as promised.
LEMMA BindKeeps ==
    ASSUME StraightLine(program), StraightShapes, StraightValues, Bind
    PROVE  StraightShapes' /\ StraightValues'
  <1>1. stage = "queue" /\ UNCHANGED <<program, stage, shape, work_queue, at>>
    BY DEF Bind
  <1>v. PICK v \in Unbound(env) : \E f \in InputValues(v) : env' = [env EXCEPT ![v] = f]
    <2> DEFINE u == CHOOSE u \in Unbound(env) : TRUE
    <2>1. Unbound(env) # {} /\ \E f \in InputValues(u) : env' = [env EXCEPT ![u] = f]
      BY DEF Bind
    <2>2. u \in Unbound(env)
      <3> DEFINE U == Unbound(env)
      <3>1. U # {}
        BY <2>1
      <3> HIDE DEF U
      <3>2. (CHOOSE w \in U : TRUE) \in U
        BY <3>1
      <3> QED
        BY <3>2 DEF U
    <2> HIDE DEF u
    <2> QED
      BY <2>1, <2>2
  <1>2. PICK f \in InputValues(v) : env' = [env EXCEPT ![v] = f]
    BY <1>v
  <1>3. v \in DOMAIN program.args \/ (v \in Instrs /\ Op(v) \in CallOps \ {"sadd_sat"})
    BY DEF Unbound, Inputs
  <1>4. DOMAIN program.args \cap Instrs = {}
    BY DEF StraightLine, Instrs
  <1>5. IsIndexed(shape[v]) => Shaped(shape[v], f)
    <2>1. CASE v \in DOMAIN program.args
      <3> SUFFICES ASSUME IsIndexed(shape[v])
                   PROVE  Shaped(shape[v], f)
        OBVIOUS
      <3>1. v \notin Instrs /\ shape[v] = program.args[v] /\ f \in FromShape(shape[v])
        BY <1>2, <1>4, <2>1 DEF StraightShapes, InputValues
      <3>2. shape[v] \notin {Varying, Unknown}
        BY DEF IsIndexed, Varying, Unknown
      <3>3. PICK n \in 1..MaxWidth : GoodShape(shape[v], n)
        BY <2>1, <3>1, <3>2 DEF StraightLine
      <3> QED
        BY <3>1, <3>3, FromShapeIs
    <2>2. CASE v \in Instrs /\ Op(v) \in CallOps \ {"sadd_sat"}
      <3>1. v \in DOMAIN shape
        BY <1>1, <2>2 DEF StraightShapes
      <3>2. shape[v] = ShapeGiven(program, v, shape) /\ WellTyped(program, v)
        BY <2>2, <3>1 DEF StraightShapes, StraightLine, Instrs
      <3> QED
        BY <1>2, <2>2, <3>2, InputGiven
    <2> QED
      BY <1>3, <2>1, <2>2
  <1>6. v \in DOMAIN env
    BY <1>3 DEF StraightValues
  <1> DEFINE g == [env EXCEPT ![v] = f]
  <1>7. DOMAIN g = DOMAIN env /\ g[v] = f /\ \A u \in DOMAIN env : u # v => g[u] = env[u]
    BY <1>6
  <1>8. DOMAIN shape \subseteq DOMAIN env
    BY DEF StraightShapes, StraightValues
  <1>9. env' = g
    BY <1>2
  <1> HIDE DEF g
  <1>10. AllShaped(shape, g)
    BY <1>5, <1>7, <1>8 DEF AllShaped, StraightValues
  <1>11. StraightShapes'
    BY <1>1 DEF StraightShapes, Instrs
  <1>12. StraightValues'
    BY <1>1, <1>7, <1>9, <1>10 DEF StraightValues, Instrs, AllShaped
  <1> QED
    BY <1>11, <1>12

\* The block is executed.
LEMMA EnterKeeps ==
    ASSUME StraightLine(program), StraightShapes, StraightValues, Enter
    PROVE  StraightShapes' /\ StraightValues'
  <1> DEFINE insts == program.blocks["E"]
             D == DOMAIN env
             g == Execute(insts, Lanes, env)
  <1>1. stage = "queue" /\ UNCHANGED <<program, shape, work_queue>> /\ env' = g
    BY DEF Enter
  <1>2. stage' = "done"
    BY DEF Enter, StraightValues
  <1>3. at' = [at EXCEPT !["E"] = Lanes]
    BY DEF Enter
  <1>4. Instrs \subseteq DOMAIN shape
    BY <1>1 DEF StraightShapes
  <1>5. Len(insts) \in Nat /\ \A k \in 1..Len(insts) : insts[k] \in Instrs
    BY DEF StraightLine, Instrs
  <1>6. DOMAIN shape \subseteq D /\ AllShaped(shape, env)
    BY DEF StraightShapes, StraightValues
  <1>7. DOMAIN g = D /\ AllShaped(shape, g)
    <2> HIDE DEF insts
    <2> QED
      BY <1>4, <1>5, <1>6, ExecuteKeeps
  <1>8. DOMAIN at' = {"E"} /\ at'["E"] = Lanes
    BY <1>3 DEF StraightValues
  <1> HIDE DEF g
  <1>9. StraightShapes'
    BY <1>1, <1>2, <1>4 DEF StraightShapes, Instrs
  <1>10. StraightValues'
    BY <1>1, <1>2, <1>7, <1>8 DEF StraightValues, Instrs, AllShaped
  <1> QED
    BY <1>9, <1>10

\* Every step keeps the invariant.
LEMMA StraightStep == StraightInv /\ [ShapesNext]_shapesVars => StraightInv'
  <1> SUFFICES ASSUME StraightInv, [ShapesNext]_shapesVars, StraightLine(program)'
               PROVE  StraightShapes' /\ StraightValues'
    BY DEF StraightInv
  <1>1. program' = program
    BY DEF ShapesNext, shapesVars, Visit, AllVisited, Revisit, Bind, Enter, Iterate, Leave, Ended
  <1>2. StraightLine(program)
    BY <1>1
  <1>3. StraightShapes /\ StraightValues
    BY <1>2 DEF StraightInv
  <1>4. CASE \E i \in Instrs : Visit(i)
    BY <1>2, <1>3, <1>4, VisitKeeps
  <1>5. CASE AllVisited
    <2>1. /\ stage' = "queue" /\ Instrs \subseteq DOMAIN shape
          /\ UNCHANGED <<program, shape, work_queue, env, at>>
      BY <1>5 DEF AllVisited, Has
    <2>2. StraightShapes'
      BY <1>3, <2>1 DEF StraightShapes, Instrs
    <2>3. StraightValues'
      BY <1>3, <2>1 DEF StraightValues, Instrs, AllShaped
    <2> QED
      BY <2>2, <2>3
  <1>6. CASE \E i \in Instrs : Revisit(i)
    BY <1>3, <1>6 DEF Revisit, StraightShapes
  <1>7. CASE Bind
    BY <1>2, <1>3, <1>7, BindKeeps
  <1>8. CASE Enter
    BY <1>2, <1>3, <1>8, EnterKeeps
  <1>9. CASE Iterate \/ Leave
    BY <1>3, <1>9 DEF Iterate, Leave, StraightShapes
  <1>10. CASE UNCHANGED shapesVars
    <2>1. StraightShapes'
      BY <1>3, <1>10 DEF StraightShapes, Instrs, shapesVars
    <2>2. StraightValues'
      BY <1>3, <1>10 DEF StraightValues, Instrs, AllShaped, shapesVars
    <2> QED
      BY <2>1, <2>2
  <1>11. CASE Ended
    BY <1>10, <1>11 DEF Ended
  <1> QED
    BY <1>4, <1>5, <1>6, <1>7, <1>8, <1>9, <1>10, <1>11 DEF ShapesNext

\* In straight-line code without loads from constant tables the shape of an
\* instruction is calculated once, from the final shapes of its operands, and
\* the values of the lanes are what the shapes promise at every moment
\* (shapes.cpp:1230-1286).
THEOREM StraightInvariant == ShapesSpec => []StraightInv
  BY ShapesInitially, StraightStep, PTL DEF ShapesSpec

\* The lanes of straight-line code have what the shapes promise, whatever the
\* program, the order of the visits and the inputs (shapes.cpp:1241-1286).
THEOREM ShapesHoldInStraightLine == ShapesSpec => [](StraightLine(program) => ShapesHold)
  <1>1. StraightInv => (StraightLine(program) => ShapesHold)
    <2> SUFFICES ASSUME StraightInv, StraightLine(program), NEW v \in DOMAIN shape,
                        IsIndexed(shape[v])
                 PROVE  \E x \in shape[v].base :
                            \A l \in Live(v) : env[v][l] \in {Poison, AtLane(shape[v], x, l)}
      BY DEF ShapesHold
    <2>1. StraightValues
      BY DEF StraightInv
    <2>2. PICK x \in shape[v].base : \A l \in Lanes : env[v][l] \in {Poison, AtLane(shape[v], x, l)}
      BY <2>1 DEF StraightValues, AllShaped, Shaped
    <2>3. Live(v) \subseteq Lanes
      BY <2>1 DEF Live, StraightValues
    <2> QED
      BY <2>2, <2>3
  <1> QED
    BY <1>1, StraightInvariant, PTL

-----------------------------------------------------------------------------
(* The work list *)

\* A PHI with a select mask that is not among its operands.
HasMaskApart(i) ==
    /\ IsPHI(i) /\ Len(program.ops[i].args) = 2
    /\ program.select[i] \in Instrs \ Range(program.ops[i].args)

\* What the operands of i have now gives the shape of i; for a PHI with a mask
\* apart, they give it under some shape of the mask.  Only the mask of a
\* header's PHI may have had none.
FollowsOperands(i) ==
    IF HasMaskApart(i)
    THEN \E hasMask \in {TRUE, ~IsHeaderPHI(i)} : \E c :
            shape[i] = PHIShapeUnder(i, hasMask, c)
    ELSE shape[i] = CalculateShape(i)

OwnOperand(i) == i \in Range(program.ops[i].args)

UpToDate(i) == IsVarying(shape[i]) \/ FollowsOperands(i)

\* An instruction is in the work list whenever an operand has changed since
\* it was visited.
QueueInv ==
    /\ program \in Programs
    /\ DOMAIN program.args \subseteq DOMAIN shape
    /\ DOMAIN shape \subseteq DOMAIN program.args \cup Instrs
    /\ \A i \in Instrs : Has(i) => \A v \in OperandsBefore(i) : v \in Instrs => Has(v)
    /\ \A i \in Instrs : Has(i) /\ ~OwnOperand(i) => i \in work_queue \/ UpToDate(i)
    /\ stage \notin {"order", "abort"} => Instrs \subseteq DOMAIN shape
    /\ stage \in {"first", "again", "leave", "done"} => work_queue = {}

Ready(i) == \A v \in OperandsBefore(i) : v \in Instrs => Has(v)

\* What a shape is calculated from does not change.
SameFor(i) ==
    /\ program' = program
    /\ \A v \in DOMAIN program.args \cup Range(program.ops[i].args) :
          /\ Has(v) <=> Has(v)'
          /\ Has(v) => shape'[v] = shape[v]

LEMMA ArgsOf ==
    ASSUME QueueInv, NEW i \in Instrs
    PROVE  LET args == program.ops[i].args
           IN  /\ Op(i) \in Operations
               /\ DOMAIN args = 1..Len(args) /\ Len(args) \in Nat
               /\ Range(args) = {args[k] : k \in DOMAIN args}
               /\ Op(i) \in BinaryOps \cup Comparisons \cup {"gep"} => Len(args) = 2
               /\ Op(i) \in {"sext", "zext", "trunc", "load", "lookup", "freeze"} => Len(args) = 1
               /\ Op(i) = "select" => Len(args) = 3
               /\ Op(i) = "phi" =>
                     /\ Len(args) \in {1, 2} /\ Range(args) # {"undef"}
                     /\ Len(args) = 2 => program.select[i] \in DOMAIN program.args \cup Instrs
               /\ \A k \in DOMAIN args :
                     /\ args[k] \in DOMAIN program.args \cup Instrs \cup {"undef"}
                     /\ Op(i) # "phi" => args[k] # "undef"
               /\ "undef" \notin DOMAIN program.args \cup Instrs
  <1>1. IsProgram(program)
    BY ShapesAssumption DEF QueueInv
  <1> DEFINE args == program.ops[i].args
             names == DOMAIN program.args \cup DOMAIN program.ops
  <1>2. args \in Seq(names \cup {"undef"})
    BY <1>1 DEF IsProgram, Instrs
  <1>3. /\ DOMAIN args = 1..Len(args) /\ Len(args) \in Nat
        /\ \A k \in DOMAIN args : args[k] \in names \cup {"undef"}
    <2> HIDE DEF args, names
    <2> QED
      BY <1>2
  <1>4. Range(args) = {args[k] : k \in DOMAIN args}
    BY DEF Range
  <1> QED
    BY <1>1, <1>3, <1>4 DEF IsProgram, Instrs, Op

\* The operands of an instruction but a PHI have shapes.
LEMMA OperandsHave ==
    ASSUME QueueInv, NEW i \in Instrs, Ready(i), ~IsPHI(i)
    PROVE  \A k \in DOMAIN program.ops[i].args : Has(program.ops[i].args[k])
  <1> SUFFICES ASSUME NEW k \in DOMAIN program.ops[i].args
               PROVE  Has(program.ops[i].args[k])
    OBVIOUS
  <1> DEFINE v == program.ops[i].args[k]
  <1>1. v \in Range(program.ops[i].args) /\ v \in DOMAIN program.args \cup Instrs
    BY ArgsOf DEF IsPHI, Range
  <1>2. v \in OperandsBefore(i)
    BY <1>1 DEF OperandsBefore, IsHeaderPHI
  <1> QED
    BY <1>1, <1>2 DEF QueueInv, Has, Ready

\* The operands of a PHI without a shape.
MissingOf(i) ==
    {k \in DOMAIN program.ops[i].args :
        program.ops[i].args[k] \in Instrs /\ ~Has(program.ops[i].args[k])}

LEMMA SamePHIShape ==
    ASSUME QueueInv, NEW i \in Instrs, Ready(i), IsPHI(i), SameFor(i),
           NEW hasMask \in BOOLEAN, NEW c
    PROVE  PHIShapeUnder(i, hasMask, c)' = PHIShapeUnder(i, hasMask, c)
  <1> DEFINE args == program.ops[i].args
  <1>1. /\ DOMAIN args = 1..Len(args) /\ Len(args) \in {1, 2}
        /\ Range(args) = {args[k] : k \in DOMAIN args} /\ Range(args) # {"undef"}
        /\ \A k \in DOMAIN args : args[k] \in DOMAIN program.args \cup Instrs \cup {"undef"}
    BY ArgsOf DEF IsPHI
  <1>2. program' = program /\ args' = args /\ Instrs' = Instrs
    BY DEF SameFor, Instrs
  <1>3. \A k \in DOMAIN args : /\ Has(args[k]) <=> Has(args[k])'
                               /\ Has(args[k]) => shape'[args[k]] = shape[args[k]]
    BY <1>1, <1>2 DEF SameFor, Has
  <1>4. MissingOf(i)' = MissingOf(i)
    BY <1>2, <1>3 DEF MissingOf, Has
  <1>5. \A k \in DOMAIN args : k \notin MissingOf(i) /\ args[k] # "undef" => Has(args[k])
    BY <1>1 DEF MissingOf, QueueInv, Has
  <1>6. CASE Len(args) = 1
    <2>1. args[1] # "undef" /\ 1 \in DOMAIN args
      BY <1>1, <1>6
    <2>2. Has(args[1])
      <3>1. args[1] \in OperandsBefore(i)
        BY <1>1, <2>1 DEF OperandsBefore, Arg
      <3> QED
        BY <1>1, <2>1, <3>1 DEF Ready, QueueInv, Has
    <2>3. PHIShapeUnder(i, hasMask, c) = shape[args[1]]
      BY <1>6 DEF PHIShapeUnder
    <2>4. PHIShapeUnder(i, hasMask, c)' = shape'[args[1]]
      BY <1>2, <1>6 DEF PHIShapeUnder
    <2> QED
      BY <1>3, <2>1, <2>2, <2>3, <2>4
  <1>7. CASE Len(args) = 2 /\ MissingOf(i) # {}
    <2> DEFINE tentative == Symbolic(program.ops[args[Min(MissingOf(i))]].width)
    <2>1. PHIShapeUnder(i, hasMask, c) = tentative
      BY <1>7 DEF PHIShapeUnder, MissingOf
    <2>2. PHIShapeUnder(i, hasMask, c)' = Symbolic(program.ops[args[Min(MissingOf(i)')]].width)
      BY <1>2, <1>4, <1>7 DEF PHIShapeUnder, MissingOf
    <2> QED
      BY <1>4, <2>1, <2>2
  <1>8. CASE Len(args) = 2 /\ MissingOf(i) = {}
    <2>1. \A k \in {1, 2} : args[k] # "undef" => shape'[args[k]] = shape[args[k]]
      BY <1>1, <1>3, <1>5, <1>8
    <2>2. args[1] # "undef" \/ args[2] # "undef"
      BY <1>1, <1>8
    <2>3. \A a, b : JoinShape(i, a, b, c)' = JoinShape(i, a, b, c)
      BY <1>2 DEF JoinShape, IsHeaderPHI, IsPHI, IsIn, Op
    <2> DEFINE Of(sh) == IF ~hasMask THEN Symbolic(program.ops[program.select[i]].width)
                         ELSE IF args[1] = "undef" THEN sh[args[2]]
                         ELSE IF args[2] = "undef" THEN sh[args[1]]
                         ELSE JoinShape(i, sh[args[1]], sh[args[2]], c)
    <2>4. PHIShapeUnder(i, hasMask, c) = Of(shape)
      BY <1>8 DEF PHIShapeUnder, MissingOf
    <2>5. PHIShapeUnder(i, hasMask, c)' = Of(shape')
      BY <1>2, <1>4, <1>8, <2>3 DEF PHIShapeUnder, MissingOf
    <2>6. Of(shape') = Of(shape)
      BY <2>1, <2>2
    <2> QED
      BY <2>4, <2>5, <2>6
  <1> QED
    BY <1>1, <1>6, <1>7, <1>8

LEMMA SameShape ==
    ASSUME QueueInv, NEW i \in Instrs, Ready(i), SameFor(i), ~HasMaskApart(i)
    PROVE  CalculateShape(i)' = CalculateShape(i)
  <1> DEFINE args == program.ops[i].args
             mask == program.select[i]
  <1>1. /\ Op(i) \in Operations
        /\ DOMAIN args = 1..Len(args) /\ Len(args) \in Nat
        /\ Range(args) = {args[k] : k \in DOMAIN args}
        /\ Op(i) \in BinaryOps \cup Comparisons \cup {"gep"} => Len(args) = 2
        /\ Op(i) \in {"sext", "zext", "trunc", "load", "lookup", "freeze"} => Len(args) = 1
        /\ Op(i) = "select" => Len(args) = 3
        /\ IsPHI(i) => /\ Len(args) \in {1, 2}
                       /\ Len(args) = 2 => mask \in DOMAIN program.args \cup Instrs
    BY ArgsOf DEF IsPHI
  <1>2. program' = program /\ args' = args /\ Instrs' = Instrs /\ Op(i)' = Op(i)
    BY DEF SameFor, Instrs, Op
  <1>3. ~IsPHI(i) => \A k \in 1..Len(args) : shape'[args[k]] = shape[args[k]]
    BY <1>1, OperandsHave DEF SameFor
  <1>4. ASSUME Op(i) \in CallOps PROVE CallShape(i)' = CallShape(i)
    <2>1. ~IsPHI(i)
      BY <1>4, OtherOps DEF IsPHI, CallOps
    <2>2. (\A v \in Range(args) : IsUniform(shape[v]))' <=> \A v \in Range(args) : IsUniform(shape[v])
      BY <1>1, <1>2, <1>3, <2>1
    <2> QED
      BY <1>2, <2>2 DEF CallShape
  <1>5. ASSUME IsPHI(i) PROVE PHIShape(i)' = PHIShape(i)
    <2>1. \A h \in BOOLEAN : \A c : PHIShapeUnder(i, h, c)' = PHIShapeUnder(i, h, c)
      BY <1>5, SamePHIShape
    <2> DEFINE h == mask \in Instrs => Has(mask)
    <2>2. PHIShape(i) = PHIShapeUnder(i, h, shape[mask])
      BY DEF PHIShape
    <2>3. ASSUME NEW g \in BOOLEAN, NEW c, g = h', c = shape'[mask]
          PROVE  PHIShape(i)' = PHIShapeUnder(i, g, c)
      <3>1. PHIShape(i)' = PHIShapeUnder(i, g, c)'
        BY <1>2, <2>3 DEF PHIShape
      <3> QED
        BY <2>1, <3>1
    <2>4. CASE Len(args) = 1 \/ MissingOf(i) # {}
      <3>1. \A g \in BOOLEAN : \A c : PHIShapeUnder(i, g, c) = PHIShapeUnder(i, h, shape[mask])
        BY <2>4 DEF PHIShapeUnder, MissingOf
      <3> QED
        BY <2>2, <2>3, <3>1
    <2>5. CASE Len(args) = 2 /\ MissingOf(i) = {}
      <3>1. mask \in DOMAIN program.args \cup Range(args)
        BY <1>1, <1>5, <2>5 DEF HasMaskApart
      <3>2. Has(mask)
        BY <1>1, <1>5, <2>5, <3>1 DEF MissingOf, QueueInv, Has
      <3>3. h = TRUE /\ h' = TRUE /\ shape'[mask] = shape[mask]
        BY <1>2, <3>1, <3>2 DEF SameFor, Has
      <3> QED
        BY <2>2, <2>3, <3>3
    <2> QED
      BY <1>1, <1>5, <2>4, <2>5
  <1>6. CASE Op(i) \in BinaryOps \cup Comparisons \cup {"gep"}
    <2>1. shape'[args[1]] = shape[args[1]] /\ shape'[args[2]] = shape[args[2]]
      BY <1>1, <1>3, <1>6, OtherOps DEF IsPHI
    <2> QED
      BY <1>2, <1>6, <2>1 DEF CalculateShape, Op, Arg, BinaryOps, Comparisons, CallOps
  <1>7. CASE Op(i) \in CallOps
    BY <1>2, <1>4, <1>7 DEF CalculateShape, Op, BinaryOps, Comparisons, CallOps
  <1>8. CASE Op(i) \in {"sext", "zext", "trunc", "load", "lookup", "freeze"}
    <2>1. shape'[args[1]] = shape[args[1]]
      BY <1>1, <1>3, <1>8, OtherOps DEF IsPHI
    <2> QED
      BY <1>2, <1>8, <2>1 DEF CalculateShape, Op, Arg, BinaryOps, Comparisons, CallOps
  <1>9. CASE Op(i) = "select"
    <2>1. shape'[args[1]] = shape[args[1]] /\ shape'[args[2]] = shape[args[2]] /\ shape'[args[3]] = shape[args[3]]
      BY <1>1, <1>3, <1>9, OtherOps DEF IsPHI
    <2> QED
      BY <1>2, <1>9, <2>1 DEF CalculateShape, Op, Arg, BinaryOps, Comparisons, CallOps
  <1>10. CASE Op(i) \in {"insert", "fneg"}
    BY <1>2, <1>10 DEF CalculateShape, Op, BinaryOps, Comparisons, CallOps
  <1>11. CASE IsPHI(i)
    BY <1>2, <1>5, <1>11 DEF CalculateShape, IsPHI, Op, BinaryOps, Comparisons, CallOps
  <1> QED
    BY <1>1, <1>6, <1>7, <1>8, <1>9, <1>10, <1>11 DEF Operations, IsPHI

LEMMA SameTerms ==
    ASSUME program' = program, NEW i \in Instrs
    PROVE  /\ Instrs' = Instrs /\ i \in Instrs'
           /\ OperandsBefore(i)' = OperandsBefore(i)
           /\ HasMaskApart(i)' <=> HasMaskApart(i)
           /\ OwnOperand(i)' <=> OwnOperand(i)
  BY DEF Instrs, OperandsBefore, HasMaskApart, OwnOperand, IsHeaderPHI, IsPHI, IsIn, Op, Arg

LEMMA StillUpToDate ==
    ASSUME QueueInv, NEW i \in Instrs, Ready(i), SameFor(i), shape'[i] = shape[i], UpToDate(i)
    PROVE  UpToDate(i)'
  <1>1. program' = program /\ (HasMaskApart(i)' <=> HasMaskApart(i))
    BY SameTerms DEF SameFor
  <1>2. CASE IsVarying(shape[i])
    BY <1>2 DEF UpToDate
  <1>3. CASE FollowsOperands(i) /\ HasMaskApart(i)
    <2>1. PICK h \in {TRUE, ~IsHeaderPHI(i)} : \E c : shape[i] = PHIShapeUnder(i, h, c)
      BY <1>3 DEF FollowsOperands
    <2>2. PICK c : shape[i] = PHIShapeUnder(i, h, c)
      BY <2>1
    <2>3. shape'[i] = PHIShapeUnder(i, h, c)'
      BY <1>3, <2>2, SamePHIShape DEF HasMaskApart
    <2>4. IsHeaderPHI(i)' <=> IsHeaderPHI(i)
      BY <1>1 DEF IsHeaderPHI, IsPHI, IsIn, Op
    <2> QED
      BY <1>1, <1>3, <2>3, <2>4 DEF UpToDate, FollowsOperands
  <1>4. CASE FollowsOperands(i) /\ ~HasMaskApart(i)
    <2>1. shape'[i] = CalculateShape(i)'
      BY <1>4, SameShape DEF FollowsOperands
    <2> QED
      BY <1>1, <1>4, <2>1 DEF UpToDate, FollowsOperands
  <1> QED
    BY <1>2, <1>3, <1>4 DEF UpToDate

\* A shape just calculated is up to date.
LEMMA CalculatedUpToDate ==
    ASSUME QueueInv, NEW i \in Instrs, Ready(i), SameFor(i), shape'[i] = CalculateShape(i)
    PROVE  UpToDate(i)'
  <1>1. program' = program /\ (HasMaskApart(i)' <=> HasMaskApart(i))
    BY SameTerms DEF SameFor
  <1>2. CASE HasMaskApart(i)
    <2> DEFINE mask == program.select[i]
               h == mask \in Instrs => Has(mask)
    <2>1. shape'[i] = PHIShapeUnder(i, h, shape[mask])
      BY <1>2 DEF CalculateShape, PHIShape, HasMaskApart, IsPHI, Op, BinaryOps, Comparisons, CallOps
    <2>2. PICK g \in {TRUE, ~IsHeaderPHI(i)} : g = h
      BY <1>2 DEF HasMaskApart, OperandsBefore, Ready
    <2>3. PICK c : c = shape[mask]
      OBVIOUS
    <2>4. shape'[i] = PHIShapeUnder(i, g, c)
      BY <2>1, <2>2, <2>3
    <2> HIDE DEF h
    <2>5. shape'[i] = PHIShapeUnder(i, g, c)'
      BY <1>2, <2>4, SamePHIShape DEF HasMaskApart
    <2>6. IsHeaderPHI(i)' <=> IsHeaderPHI(i)
      BY <1>1 DEF IsHeaderPHI, IsPHI, IsIn, Op
    <2> QED
      BY <1>1, <1>2, <2>5, <2>6 DEF UpToDate, FollowsOperands
  <1>3. CASE ~HasMaskApart(i)
    BY <1>1, <1>3, SameShape DEF UpToDate, FollowsOperands
  <1> QED
    BY <1>2, <1>3

LEMMA CalculateKeeps ==
    ASSUME QueueInv, NEW j \in Instrs, Ready(j), Calculate(j, work_queue), program' = program,
           stage \in {"order", "queue"}, stage = "queue" => Has(j)
    PROVE  QueueInv'
  <1> DEFINE s == CalculateShape(j)
             changed == ~Has(j) \/ shape[j] # s
  <1>1. CASE s = NoShape
    <2>1. stage' = "abort" /\ shape' = shape /\ work_queue' = work_queue
      BY <1>1 DEF Calculate
    <2>2. ASSUME NEW i \in Instrs, Has(i) PROVE Ready(i) /\ SameFor(i)
      BY <2>1, <2>2 DEF QueueInv, Ready, SameFor, Has
    <2> QED
      BY <2>1, <2>2, SameTerms, StillUpToDate DEF QueueInv, Has, Instrs
  <1>2. CASE s # NoShape
    <2>1. /\ shape' = [v \in DOMAIN shape \cup {j} |-> IF v = j THEN s ELSE shape[v]]
          /\ work_queue' = (work_queue \cup (IF changed THEN Requeued(j) ELSE {})) \ {j}
          /\ stage' = stage
      BY <1>2 DEF Calculate
    <2> HIDE DEF s
    <2>2. /\ DOMAIN shape' = DOMAIN shape \cup {j} /\ shape'[j] = s
          /\ \A v \in DOMAIN shape \ {j} : shape'[v] = shape[v]
          /\ \A v : Has(v)' <=> Has(v) \/ v = j
      BY <2>1 DEF Has
    <2>3. /\ DOMAIN program.args \subseteq DOMAIN shape'
          /\ DOMAIN shape' \subseteq DOMAIN program.args \cup Instrs
          /\ j \notin DOMAIN program.args
      BY <2>2, ShapesAssumption DEF QueueInv, IsProgram, Instrs
    <2>4. ASSUME NEW i \in Instrs, Has(i)' PROVE Ready(i) /\ Ready(i)'
      BY <2>2, <2>4, SameTerms DEF QueueInv, Ready
    <2>5. ASSUME NEW i \in Instrs, j \notin Range(program.ops[i].args) \/ ~changed
          PROVE  SameFor(i)
      BY <2>2, <2>3, <2>5 DEF SameFor, Has
    <2>6. ASSUME NEW i \in Instrs, Has(i)', ~OwnOperand(i), i \notin work_queue'
          PROVE  UpToDate(i)'
      <3>1. CASE i = j
        <4>1. SameFor(i)
          BY <2>5, <2>6, <3>1 DEF OwnOperand
        <4> QED
          BY <2>2, <2>4, <2>6, <3>1, <4>1, CalculatedUpToDate DEF s
      <3>2. CASE i # j /\ IsVarying(shape[i])
        BY <2>2, <2>6, <3>2 DEF UpToDate, Has
      <3>3. CASE i # j /\ ~IsVarying(shape[i])
        <4>1. Has(i) /\ shape'[i] = shape[i] /\ i \notin work_queue
          BY <2>1, <2>2, <2>6, <3>3 DEF Has
        <4>2. j \notin Range(program.ops[i].args) \/ ~changed
          BY <2>1, <2>6, <3>3, <4>1 DEF Requeued, Users
        <4>3. UpToDate(i)
          BY <2>6, <4>1 DEF QueueInv
        <4> QED
          BY <2>4, <2>5, <2>6, <4>1, <4>2, <4>3, StillUpToDate
      <3> QED
        BY <3>1, <3>2, <3>3
    <2> QED
      BY <2>1, <2>2, <2>3, <2>4, <2>6, SameTerms DEF QueueInv, Ready, Instrs
  <1> QED
    BY <1>1, <1>2

LEMMA QueueInitially == ShapesInit => QueueInv
  <1> SUFFICES ASSUME ShapesInit PROVE QueueInv
    OBVIOUS
  <1>1. DOMAIN program.args \cap Instrs = {}
    BY ShapesAssumption DEF ShapesInit, IsProgram, Instrs
  <1> QED
    BY <1>1 DEF ShapesInit, QueueInv, Has

LEMMA QueueStep == QueueInv /\ [ShapesNext]_shapesVars => QueueInv'
  <1> SUFFICES ASSUME QueueInv, [ShapesNext]_shapesVars PROVE QueueInv'
    OBVIOUS
  <1>1. ASSUME NEW i \in Instrs, Visit(i) PROVE QueueInv'
    <2>1. Ready(i)
      BY <1>1 DEF Visit, Ready
    <2> QED
      BY <1>1, <2>1, CalculateKeeps DEF Visit
  <1>2. ASSUME NEW i \in Instrs, Revisit(i) PROVE QueueInv'
    <2>1. Has(i) /\ Ready(i)
      BY <1>2 DEF Revisit, QueueInv, Ready, Has
    <2> QED
      BY <1>2, <2>1, CalculateKeeps DEF Revisit
  <1>3. ASSUME UNCHANGED <<program, shape, work_queue>>,
               stage' \notin {"order", "abort"} => Instrs \subseteq DOMAIN shape,
               stage' \in {"first", "again", "leave", "done"} => work_queue = {}
        PROVE  QueueInv'
    <2>1. ASSUME NEW i \in Instrs, Has(i) PROVE Ready(i) /\ SameFor(i)
      BY <1>3, <2>1 DEF QueueInv, Ready, SameFor, Has
    <2> QED
      BY <1>3, <2>1, SameTerms, StillUpToDate DEF QueueInv, Has, Instrs
  <1>4. CASE AllVisited
    BY <1>3, <1>4 DEF AllVisited, Has
  <1>5. CASE Bind
    BY <1>3, <1>5 DEF Bind, QueueInv
  <1>6. CASE Enter
    BY <1>3, <1>6 DEF Enter, QueueInv
  <1>7. CASE Iterate
    BY <1>3, <1>7 DEF Iterate, QueueInv
  <1>8. CASE Leave
    BY <1>3, <1>8 DEF Leave, QueueInv
  <1>9. CASE UNCHANGED shapesVars
    BY <1>3, <1>9 DEF shapesVars, QueueInv
  <1> QED
    BY <1>1, <1>2, <1>4, <1>5, <1>6, <1>7, <1>8, <1>9 DEF ShapesNext, Ended

\* No update of an operand is lost: in every function, with loops and ifs and
\* in every order of the visits and of the work list, the shape of an
\* instruction that is not its own operand is, when the list is empty, the one
\* that the final shapes of its operands give (shapes.cpp:1125-1146).  For a
\* PHI it is the one they give under some shape of its select mask, perhaps not
\* the final one: the mask is no operand, and brings nobody back to the list.
THEOREM OperandUpdatesArrive ==
    ShapesSpec =>
        [](stage \in {"first", "again", "leave", "done"} =>
              \A i \in Instrs : OwnOperand(i) \/ UpToDate(i))
  <1>1. QueueInv => (stage \in {"first", "again", "leave", "done"} =>
                        \A i \in Instrs : OwnOperand(i) \/ UpToDate(i))
    BY DEF QueueInv, Has
  <1> QED
    BY <1>1, QueueInitially, QueueStep, PTL DEF ShapesSpec
===============================================================================
