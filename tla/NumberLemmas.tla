----------------------------- MODULE NumberLemmas -----------------------------
(***************************************************************************)
(* What the proofs about the components need of least and greatest         *)
(* elements, of integer division and of remainders.                        *)
(***************************************************************************)
EXTENDS Integers, FiniteSetsExt, WellFoundedInduction, TLAPS

-----------------------------------------------------------------------------
(* Least and greatest elements.                                            *)

\* A set of numbers that has an element has a least one.
LEMMA LeastExists ==
  ASSUME NEW S \in SUBSET Nat, S # {}
  PROVE  \E x \in S : \A y \in S : x <= y
<1> DEFINE Below == {ss \in Nat \X Nat : ss[1] < ss[2]}
<1>1. IsWellFoundedOn(Below, Nat)
  BY NatLessThanWellFounded, Zenon DEF OpToRel
<1> HIDE DEF Below
<1>2. PICK x \in S : \A y \in S : <<y, x>> \notin Below
  BY <1>1, WFMin
<1>3. \A y \in S : ~(y < x)
  BY <1>2 DEF Below
<1>4. QED
  BY <1>3

\* A set that has 0, and with every number the next one, has every number.
LEMMA Induction ==
  ASSUME NEW S, 0 \in S, \A n \in Nat : n \in S => n + 1 \in S
  PROVE  \A n \in Nat : n \in S
<1> DEFINE Out == {n \in Nat : n \notin S}
<1>1. SUFFICES ASSUME Out # {} PROVE FALSE
  OBVIOUS
<1>2. PICK m \in Out : \A n \in Out : m <= n
  <2>1. Out \in SUBSET Nat
    OBVIOUS
  <2>2. QED
    BY <1>1, <2>1, LeastExists
<1>3. m # 0
  OBVIOUS
<1>4. m - 1 \in Nat /\ m - 1 \notin Out
  BY <1>2, <1>3
<1>5. m - 1 \in S /\ (m - 1) + 1 = m
  BY <1>4
<1>6. m \in S
  BY <1>4, <1>5
<1>7. QED
  BY <1>6

\* Min of the community modules gives it.
LEMMA MinLeast ==
  ASSUME NEW S \in SUBSET Nat, S # {}
  PROVE  Min(S) \in S /\ \A y \in S : Min(S) <= y
  BY LeastExists DEF Min

\* Max gives the greatest element of a bounded set.
LEMMA MaxGreatest ==
  ASSUME NEW n \in Nat, NEW S \in SUBSET 0..n, S # {}
  PROVE  Max(S) \in S /\ \A y \in S : Max(S) >= y
<1> DEFINE Rest == {m \in 0..n : n - m \in S}
<1>1. Rest \in SUBSET Nat
  OBVIOUS
<1>2. \A x \in S : n - x \in Rest
  OBVIOUS
<1> HIDE DEF Rest
<1>3. PICK m \in Rest : \A k \in Rest : m <= k
  BY <1>1, <1>2, LeastExists
<1>4. n - m \in S /\ m \in 0..n
  BY DEF Rest
<1>5. \A y \in S : n - m >= y
  BY <1>2, <1>3, <1>4
<1>6. QED
  BY <1>4, <1>5 DEF Max

\* The greater of two numbers.
LEMMA MaxOfTwo ==
  ASSUME NEW a \in Nat, NEW b \in Nat
  PROVE  Max({a, b}) = IF a >= b THEN a ELSE b
<1>1. CASE a >= b
  <2>1. a \in {a, b} /\ \A y \in {a, b} : a >= y
    BY <1>1
  <2>2. \A x \in {a, b} : (\A y \in {a, b} : x >= y) => x = a
    BY <1>1
  <2>3. QED
    BY <1>1, <2>1, <2>2 DEF Max
<1>2. CASE ~(a >= b)
  <2>1. b \in {a, b} /\ \A y \in {a, b} : b >= y
    BY <1>2
  <2>2. \A x \in {a, b} : (\A y \in {a, b} : x >= y) => x = b
    BY <1>2
  <2>3. QED
    BY <1>2, <2>1, <2>2 DEF Max
<1>3. QED
  BY <1>1, <1>2

-----------------------------------------------------------------------------
(* Integer division.                                                       *)

\* Quotient and remainder.
LEMMA DivMod ==
  ASSUME NEW n \in Nat, NEW m \in Nat \ {0}
  PROVE  /\ n \div m \in Nat /\ n % m \in 0..(m - 1)
         /\ n = m * (n \div m) + (n % m)
  OBVIOUS

\* A product of numbers is a number.
LEMMA ProductNat ==
  ASSUME NEW a \in Nat, NEW b \in Nat
  PROVE  a * b \in Nat
  OBVIOUS

\* A remainder is not larger than the dividend.
LEMMA ModBelow ==
  ASSUME NEW n \in Nat, NEW m \in Nat \ {0}
  PROVE  n % m <= n
  <1>1. m * (n \div m) \in Nat
    BY DivMod, ProductNat
  <1>2. n % m \in Nat /\ n = m * (n \div m) + (n % m)
    BY DivMod
  <1>3. QED
    BY <1>1, <1>2

\* A quotient by at least b of at most a * b is at most a.
LEMMA DivBelow ==
  ASSUME NEW a \in Nat, NEW b \in Nat \ {0}, NEW n \in Nat, n <= a * b
  PROVE  n \div b \in Nat /\ n \div b <= a
<1> DEFINE q == n \div b
<1>1. q \in Nat /\ n % b \in Nat /\ n = b * q + (n % b)
  BY DivMod
<1> HIDE DEF q
<1>2. SUFFICES ASSUME q >= a + 1 PROVE FALSE
  BY <1>1 DEF q
<1>3. q - (a + 1) \in Nat
  BY <1>1, <1>2
<1>4. b * (q - (a + 1)) \in Nat
  BY <1>3, ProductNat
<1>5. b * q = b * (q - (a + 1)) + a * b + b
  BY <1>1
<1>6. QED
  BY <1>1, <1>4, <1>5, ProductNat

\* A remainder by a larger number is the dividend.
LEMMA ModSmall ==
  ASSUME NEW m \in Nat \ {0}, NEW n \in 0..(m - 1)
  PROVE  n % m = n
  OBVIOUS

\* The quotient of a number between q * m and q * m + m is q.
LEMMA QuotientIs ==
  ASSUME NEW n \in Nat, NEW m \in Nat \ {0}, NEW q \in Nat, q * m <= n, n < q * m + m
  PROVE  n \div m = q
<1> DEFINE d == n \div m
<1>1. d \in Nat /\ n % m \in 0..(m - 1) /\ n = m * d + (n % m)
  BY DivMod
<1> HIDE DEF d
<1>2. m * d <= n /\ n < m * d + m
  BY <1>1
<1>3. ASSUME d < q PROVE FALSE
  <2>1. q - (d + 1) \in Nat
    BY <1>1, <1>3
  <2>2. m * (q - (d + 1)) \in Nat
    BY <2>1, ProductNat
  <2>3. q * m = m * (q - (d + 1)) + m * d + m
    BY <1>1
  <2>4. m * d \in Nat
    BY <1>1, ProductNat
  <2>5. QED
    BY <1>2, <2>2, <2>3, <2>4
<1>4. ASSUME q < d PROVE FALSE
  <2>1. d - (q + 1) \in Nat
    BY <1>1, <1>4
  <2>2. m * (d - (q + 1)) \in Nat
    BY <2>1, ProductNat
  <2>3. m * d = m * (d - (q + 1)) + q * m + m
    BY <1>1
  <2>4. m * d \in Nat /\ q * m \in Nat
    BY <1>1, ProductNat
  <2>5. QED
    BY <1>2, <2>2, <2>3, <2>4
<1>5. QED
  BY <1>1, <1>3, <1>4 DEF d

\* The quotient grows with the dividend.
LEMMA DivMonotone ==
  ASSUME NEW a \in Nat, NEW b \in Nat, NEW m \in Nat \ {0}, a <= b
  PROVE  a \div m <= b \div m
<1> DEFINE c == a \div m
           d == b \div m
<1>1. /\ c \in Nat /\ a % m \in 0..(m - 1) /\ a = m * c + (a % m)
      /\ d \in Nat /\ b % m \in 0..(m - 1) /\ b = m * d + (b % m)
  BY DivMod
<1> HIDE DEF c, d
<1>2. ASSUME d < c PROVE FALSE
  <2>1. c - (d + 1) \in Nat
    BY <1>1, <1>2
  <2>2. m * (c - (d + 1)) \in Nat /\ m * d \in Nat /\ m * c \in Nat
    BY <1>1, <2>1, ProductNat
  <2>3. m * c = m * (c - (d + 1)) + m * d + m
    BY <1>1
  <2>4. QED
    BY <1>1, <2>2, <2>3
<1>3. QED
  BY <1>1, <1>2 DEF c, d

\* It grows by one at most when the dividend grows by one.
LEMMA DivStep ==
  ASSUME NEW a \in Nat, NEW m \in Nat \ {0}
  PROVE  (a + 1) \div m <= a \div m + 1
<1>1. (a + m) \div m = a \div m + 1
  <2> DEFINE c == a \div m
  <2>1. c \in Nat /\ a % m \in 0..(m - 1) /\ a = m * c + (a % m)
    BY DivMod
  <2> HIDE DEF c
  <2>2. m * c \in Nat /\ (c + 1) * m = m * c + m
    BY <2>1, ProductNat
  <2>3. (c + 1) * m <= a + m /\ a + m < (c + 1) * m + m
    BY <2>1, <2>2
  <2>4. a + m \in Nat /\ c + 1 \in Nat
    BY <2>1
  <2>5. (a + m) \div m = c + 1
    BY <2>3, <2>4, QuotientIs
  <2>6. QED
    BY <2>5 DEF c
<1>2. a + 1 \in Nat /\ a + m \in Nat /\ a + 1 <= a + m
  OBVIOUS
<1>3. QED
  BY <1>1, <1>2, DivMonotone
=============================================================================
