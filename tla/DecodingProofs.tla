---------------------------- MODULE DecodingProofs ----------------------------
(***************************************************************************)
(* What comes of the bytes Marshal wrote, for every width of a word, every *)
(* message offered and every order a map is ranged over: what was written  *)
(* is what is read, unknown fields are stepped over, joined messages are   *)
(* merged, a buffer that lost its tail is refused or lacks fields, and     *)
(* what was read, whatever the bytes, can be written and read again.       *)
(*                                                                         *)
(* The first part is about what a call comes to: sets of calls with the    *)
(* value each is to end with, the bytes that carry a call from one value   *)
(* to another, field by field and message by message, unknown fields, and  *)
(* what is left of such bytes when the buffer ends in them.                *)
(* The second puts calls together: the stack on its way to a goal, the     *)
(* plain messages that are all a decoder makes, the inductive invariants   *)
(* FInv and CInv and the theorems.                                         *)
(***************************************************************************)
EXTENDS CodecProofs

-----------------------------------------------------------------------------
(* What is written is read.                                                *)

\* Len64: the number lies between two powers of two.
LEMMA Len64Bounds ==
  ASSUME NEW x \in Uint64Values, x # 0
  PROVE  /\ Len64(x) \in 1..Word
         /\ Pow2[Len64(x) - 1] <= x
         /\ \A n \in 0..Word : Len64(x) <= n => x < Pow2[n]
<1> DEFINE B == {n \in 0..(Word - 1) : x >= Pow2[n]}
           Out == {n \in 0..Word : x < Pow2[n]}
<1>1. x \in Nat /\ Word \in Nat /\ \A n \in 0..Word : Pow2[n] \in Nat \ {0}
  BY UintValues, PowPositive, WireAssumption
<1>2. Word \in Out
  BY <1>1 DEF Uint64Values
<1>3. PICK l \in Out : \A n \in Out : l <= n
  <2>1. Out \in SUBSET Nat
    OBVIOUS
  <2>2. QED
    BY <1>2, <2>1, LeastExists
<1>4. l # 0
  BY <1>1, <1>3, PowRecursion
<1>5. B = 0..(l - 1)
  <2>1. ASSUME NEW n \in 0..(l - 1) PROVE n \in B
    BY <1>1, <1>3
  <2>2. ASSUME NEW n \in B, n >= l PROVE FALSE
    <3>1. Pow2[l] <= Pow2[n]
      BY <1>1, <1>3, <2>2, PowMonotone
    <3>2. QED
      BY <1>1, <1>3, <2>2, <3>1
  <2>3. QED
    BY <1>3, <2>1, <2>2
<1>6. Cardinality(0..(l - 1)) = l
  <2>1. 0 \in Int /\ l - 1 \in Int /\ l > 0
    BY <1>3, <1>4
  <2>2. Cardinality(0..(l - 1)) = IF 0 > l - 1 THEN 0 ELSE (l - 1) - 0 + 1
    BY <2>1, FS_Interval
  <2>3. QED
    BY <2>1, <2>2
<1>7. Len64(x) = l
  BY <1>5, <1>6 DEF Len64
<1>8. l - 1 \in B
  BY <1>3, <1>4, <1>5
<1>9. \A n \in 0..Word : l <= n => x < Pow2[n]
  <2>1. ASSUME NEW n \in 0..Word, l <= n PROVE x < Pow2[n]
    <3>1. Pow2[l] <= Pow2[n]
      BY <1>3, <2>1, PowMonotone
    <3>2. QED
      BY <1>1, <1>3, <3>1
  <2>2. QED
    BY <2>1
<1> HIDE DEF Out
<1>10. QED
  BY <1>1, <1>3, <1>4, <1>7, <1>8, <1>9 DEF Out

\* Powers up to that of seven, and seven more.
LEMMA Pow128 ==
  /\ \A n \in 0..Word : n <= 7 => Pow2[n] <= 128
  /\ \A n \in Nat : n + 7 <= Word => Pow2[n + 7] = Pow2[n] * 128
<1>1. /\ Pow2[0] = 1
      /\ 1 <= Word => Pow2[1] = 2
      /\ 2 <= Word => Pow2[2] = 4
      /\ 3 <= Word => Pow2[3] = 8
      /\ 4 <= Word => Pow2[4] = 16
      /\ 5 <= Word => Pow2[5] = 32
      /\ 6 <= Word => Pow2[6] = 64
      /\ 7 <= Word => Pow2[7] = 128
  BY PowRecursion, WireAssumption
<1>2. \A n \in 0..Word : n <= 7 => n \in {0, 1, 2, 3, 4, 5, 6, 7}
  BY WireAssumption
<1>3. ASSUME NEW n \in Nat, n + 7 <= Word PROVE Pow2[n + 7] = Pow2[n] * 128
  <2>1. Pow2[n + 7] = Pow2[n] * Pow2[7] /\ 7 <= Word
    BY <1>3, PowSum, WireAssumption
  <2>2. QED
    BY <1>1, <2>1
<1>4. \A n \in 0..Word : n <= 7 => Pow2[n] <= 128
  BY <1>1, <1>2, WireAssumption
<1>5. QED
  BY <1>3, <1>4

\* The loop of encodeVarint ends where Sov says: there are more than seven bits left
\* before each group but the last.
LEMMA SovFits ==
  ASSUME NEW v \in Uint64Values
  PROVE  /\ Sov(v) \in Nat \ {0} /\ Sov(v) <= (Word + 6) \div 7
         /\ \A i \in 1..Sov(v) : Rest(v, i - 1) \in Nat /\ (Rest(v, i - 1) >= 128 <=> i < Sov(v))
<1> DEFINE x == IF v = 0 THEN 1 ELSE v
           l == Len64(x)
           s == Sov(v)
<1>1. v \in Nat /\ Word \in Nat /\ \A n \in 0..Word : Pow2[n] \in Nat \ {0}
  BY UintValues, PowPositive, WireAssumption
<1>2. x \in Uint64Values /\ x # 0
  <2>1. Pow2[Word] >= 2
    <3>1. Pow2[1] = 2 /\ Pow2[1] <= Pow2[Word]
      BY PowRecursion, PowMonotone, WireAssumption
    <3>2. QED
      BY <1>1, <3>1
  <2>2. QED
    BY <1>1, <2>1 DEF Uint64Values
<1>3. /\ l \in 1..Word /\ Pow2[l - 1] <= x
      /\ \A n \in 0..Word : l <= n => x < Pow2[n]
  <2> HIDE DEF x
  <2>1. QED
    BY <1>2, Len64Bounds
<1>4. s = (l + 6) \div 7
  BY DEF Sov
<1>5. v <= x /\ l \in 1..Word
  BY <1>1, <1>3
<1> HIDE DEF l
<1>6. s \in Nat \ {0} /\ 7 * s <= l + 6 /\ l <= 7 * s /\ s <= (Word + 6) \div 7
  BY <1>1, <1>3, <1>4
<1> HIDE DEF s
<1>7. ASSUME NEW i \in 1..s
      PROVE  Rest(v, i - 1) \in Nat /\ (Rest(v, i - 1) >= 128 <=> i < s)
  <2>1. i - 1 \in Nat /\ 7 * (i - 1) \in 0..Word
    BY <1>1, <1>3, <1>6
  <2>2. Rest(v, i - 1) \in Nat
    BY <1>1, <2>1, RestType
  <2> DEFINE p == Pow2[7 * (i - 1)]
  <2>3. p \in Nat \ {0} /\ Rest(v, i - 1) = v \div p
    BY <1>1, <2>1 DEF Rest
  <2>4. CASE i < s
    <3>1. 7 * i \in 0..Word /\ 7 * i <= l - 1 /\ l - 1 \in 0..Word
      BY <1>1, <1>3, <1>6, <2>4
    <3>2. Pow2[7 * i] <= Pow2[l - 1]
      BY <3>1, PowMonotone
    <3>3. Pow2[7 * i] = p * 128
      BY <2>1, <3>1, Pow128
    <3> HIDE DEF p
    <3>4. p * 128 <= v
      <4>1. CASE v = 0
        <5>1. x = 1
          BY <4>1
        <5>2. 1 \in 0..Word /\ 1 <= 7 * i /\ Pow2[1] = 2
          BY <1>1, <3>1, PowRecursion
        <5>3. Pow2[1] <= Pow2[7 * i]
          BY <3>1, <5>2, PowMonotone
        <5>4. Pow2[7 * i] \in Nat /\ Pow2[l - 1] \in Nat
          BY <1>1, <3>1
        <5>5. QED
          BY <1>3, <3>2, <5>1, <5>2, <5>3, <5>4
      <4>2. CASE v # 0
        <5>1. Pow2[7 * i] \in Nat /\ Pow2[l - 1] \in Nat
          BY <1>1, <3>1
        <5>2. x = v
          BY <4>2
        <5> HIDE DEF x
        <5>3. QED
          BY <1>1, <1>3, <3>2, <3>3, <5>1, <5>2
      <4>3. QED
        BY <4>1, <4>2
    <3>5. v \div p >= 128
      <4>1. (128 * p) \div p = 128
        BY <2>3, QuotientIs
      <4>2. QED
        BY <1>1, <2>3, <3>4, <4>1, DivMonotone
    <3>6. QED
      BY <2>2, <2>3, <2>4, <3>5
  <2>5. CASE i = s
    <3> DEFINE k == l - 7 * (i - 1)
    <3>1. k \in 0..Word /\ k <= 7 /\ 7 * (i - 1) + k = l
      BY <1>1, <1>5, <1>6, <2>5
    <3>2. Pow2[l] = p * Pow2[k] /\ Pow2[k] <= 128 /\ Pow2[k] \in Nat /\ v < Pow2[l]
      <4>1. Pow2[7 * (i - 1) + k] = Pow2[7 * (i - 1)] * Pow2[k]
        <5> DEFINE m == 7 * (i - 1)
        <5>1. m \in Nat /\ k \in Nat /\ m + k <= Word
          BY <1>1, <1>5, <2>1, <3>1
        <5> HIDE DEF m, k
        <5>2. Pow2[m + k] = Pow2[m] * Pow2[k]
          BY ONLY <5>1, PowSum
        <5>3. QED
          BY <5>2 DEF m
      <4>2. x < Pow2[l] /\ Pow2[l] \in Nat
        BY <1>1, <1>3, <1>5
      <4> HIDE DEF x, k
      <4>3. x \in Nat
        BY <1>2, UintValues
      <4>4. QED
        BY <1>1, <1>5, <3>1, <4>1, <4>2, <4>3, Pow128
    <3> HIDE DEF p, k
    <3>3. v < p * 128
      <4>1. p * (128 - Pow2[k]) \in Nat /\ p * Pow2[k] \in Nat
        BY <2>3, <3>2, ProductNat
      <4>2. p * 128 = p * (128 - Pow2[k]) + p * Pow2[k]
        BY <2>3, <3>2
      <4>3. QED
        BY <1>1, <3>2, <4>1, <4>2
    <3> DEFINE q == v \div p
    <3>4. q \in Nat /\ v % p \in Nat /\ v = p * q + (v % p)
      <4>1. v \in Nat /\ p \in Nat \ {0}
        BY <1>1, <2>3
      <4>2. /\ v \div p \in Nat /\ v % p \in 0..(p - 1)
            /\ v = p * (v \div p) + (v % p)
        BY ONLY <4>1, DivMod, Zenon
      <4>3. QED
        BY ONLY <4>2, <4>1
    <3>5. ASSUME q >= 128 PROVE FALSE
      <4> HIDE DEF q
      <4>1. p * (q - 128) \in Nat /\ p * 128 \in Nat
        BY <2>3, <3>4, <3>5, ProductNat
      <4>2. p * q = p * (q - 128) + p * 128
        BY <2>3, <3>4
      <4>3. QED
        BY <1>1, <3>3, <3>4, <4>1, <4>2
    <3>6. QED
      BY <2>2, <2>3, <2>5, <3>4, <3>5
  <2>6. QED
    BY <1>6, <2>4, <2>5
<1>8. QED
  BY <1>6, <1>7 DEF s

\* One more group: seven bits go, the rest stays.
LEMMA RestStep ==
  ASSUME NEW v \in Nat, NEW k \in Nat, 7 * k + 7 <= Word
  PROVE  /\ Rest(v, k) \in Nat /\ Rest(v, k + 1) \in Nat
         /\ Rest(v, k) * Pow2[7 * k]
              = Rest(v, k + 1) * Pow2[7 * (k + 1)] + (Rest(v, k) % 128) * Pow2[7 * k]
<1> DEFINE p == Pow2[7 * k]
           q == v \div p
           r == v % p
           a == q \div 128
           b == q % 128
<1>1. p \in Nat \ {0} /\ Pow2[7 * (k + 1)] = p * 128 /\ 7 * (k + 1) = 7 * k + 7
  BY Pow128, PowPositive, WireAssumption
<1>2. Rest(v, k) = q /\ Rest(v, k + 1) = v \div (p * 128)
  BY <1>1 DEF Rest
<1> HIDE DEF p
<1>3. q \in Nat /\ r \in 0..(p - 1) /\ v = p * q + r
  BY ONLY v \in Nat, <1>1, DivMod, Zenon DEF q, r
<1> HIDE DEF q, r
<1>4. a \in Nat /\ b \in 0..127 /\ q = 128 * a + b
  BY <1>3
<1> HIDE DEF a, b
<1>5. /\ p * a \in Nat /\ p * b \in Nat /\ p * q = 128 * (p * a) + p * b
      /\ p * b <= p * 127 /\ p * 127 + p = p * 128 /\ a * (p * 128) = 128 * (p * a)
  <2>1. p * a \in Nat /\ p * b \in Nat /\ p * (127 - b) \in Nat
    BY <1>1, <1>4, ProductNat
  <2>2. p * q = 128 * (p * a) + p * b
    BY <1>1, <1>4
  <2>3. p * 127 = p * b + p * (127 - b)
    BY <1>1, <1>4
  <2>4. p * b <= p * 127
    BY <1>1, <2>1, <2>3
  <2>5. QED
    BY <1>1, <1>4, <2>1, <2>2, <2>4
<1>6. a * (p * 128) <= v /\ v < a * (p * 128) + p * 128
  BY <1>1, <1>3, <1>5
<1>7. v \div (p * 128) = a
  <2>1. p * 128 \in Nat \ {0}
    BY <1>1
  <2>2. QED
    BY <1>4, <1>6, <2>1, QuotientIs
<1>8. q * p = a * (p * 128) + b * p
  BY <1>1, <1>3, <1>4, <1>5
<1>9. QED
  BY <1>1, <1>2, <1>3, <1>4, <1>7, <1>8 DEF b, p

\* The groups of a varint that was written make the number.
LEMMA GroupsOfVarint ==
  ASSUME NEW v \in Uint64Values, NEW data \in Seq(Byte), NEW at \in Nat,
         at + Sov(v) <= Len(data), \A i \in 1..Sov(v) : data[at + i] = Varint(v)[i]
  PROVE  Groups(data, at, at + Sov(v)) = v
<1> DEFINE s == Sov(v)
           g == [j \in (at + 1)..(at + s) |-> (data[j] % 128) * Pow2[7 * (j - at - 1)]]
           Sum(k) == SumFunctionOnSet(g, (at + 1)..(at + k))
           S == {k \in Nat : k < s => Sum(k) \in Nat /\ Sum(k) + Rest(v, k) * Pow2[7 * k] = v}
<1>1. /\ v \in Nat /\ s \in Nat \ {0}
      /\ \A i \in 1..s : Rest(v, i - 1) \in Nat /\ (Rest(v, i - 1) >= 128 <=> i < s)
  BY UintValues, SovFits
<1>2. Groups(data, at, at + s) = Sum(s)
  BY DEF Groups, SumFunction
<1>3. \A i \in 1..s : 7 * (i - 1) \in 0..Word /\ Pow2[7 * (i - 1)] \in Nat
  BY SovType, PowPositive
<1>4. ASSUME NEW i \in 1..s
      PROVE  /\ g[at + i] = (Rest(v, i - 1) % 128) * Pow2[7 * (i - 1)]
             /\ g[at + i] \in Nat
  <2> DEFINE r == Rest(v, i - 1)
  <2>1. data[at + i] = IF r >= 128 THEN 128 + (r % 128) ELSE r
    BY DEF Varint
  <2>2. r \in Nat
    BY <1>1
  <2>3. g[at + i] = (data[at + i] % 128) * Pow2[7 * ((at + i) - at - 1)]
    BY <1>1
  <2>4. (at + i) - at - 1 = i - 1
    BY <1>1
  <2> HIDE DEF r, g
  <2>5. data[at + i] % 128 = r % 128 /\ r % 128 \in Nat
    BY <2>1, <2>2
  <2>6. g[at + i] = (r % 128) * Pow2[7 * (i - 1)]
    BY <2>3, <2>4, <2>5
  <2>7. g[at + i] \in Nat
    BY <1>3, <2>5, <2>6, ProductNat
  <2>8. QED
    BY <2>6, <2>7 DEF r
<1>5. ASSUME NEW k \in Nat, k < s
      PROVE  Sum(k + 1) = g[at + (k + 1)] + Sum(k)
  <2> DEFINE D == (at + 1)..(at + k)
             y == at + (k + 1)
  <2>1. D \cup {y} = (at + 1)..(at + (k + 1)) /\ y \notin D
    BY <1>1, <1>5
  <2>2. IsFiniteSet(D)
    <3>1. at + 1 \in Int /\ at + k \in Int
      OBVIOUS
    <3>2. QED
      BY <3>1, FS_Interval
  <2>3. \A x \in D \cup {y} : x - at \in 1..s /\ x = at + (x - at)
    BY <1>1, <1>5
  <2> HIDE DEF D, y, g
  <2>4. \A x \in D \cup {y} : g[x] \in Nat
    <3>1. ASSUME NEW x \in D \cup {y} PROVE g[x] \in Nat
      <4>1. g[at + (x - at)] \in Nat
        BY <1>4, <2>3
      <4>2. QED
        BY <2>3, <4>1
    <3>2. QED
      BY <3>1
  <2>5. SumFunctionOnSet(g, D \cup {y}) = g[y] + SumFunctionOnSet(g, D)
    BY <2>1, <2>2, <2>4, SumAdd
  <2>6. QED
    BY <2>1, <2>5 DEF D, y
<1>6. 0 \in S
  <2>1. (at + 1)..(at + 0) = {}
    OBVIOUS
  <2>2. Sum(0) = 0
    BY <2>1, SumEmpty
  <2>3. Rest(v, 0) = v /\ Pow2[7 * 0] = 1
    <3>1. Pow2[0] = 1 /\ 7 * 0 = 0
      BY PowRecursion, WireAssumption
    <3>2. v \div 1 = v
      BY <1>1
    <3>3. QED
      BY <3>1, <3>2 DEF Rest
  <2> HIDE DEF Sum
  <2>4. QED
    BY <1>1, <2>2, <2>3
<1> HIDE DEF Sum
<1>7. ASSUME NEW k \in Nat, k \in S PROVE k + 1 \in S
  <2>1. SUFFICES ASSUME k + 1 < s
                 PROVE  Sum(k + 1) \in Nat /\ Sum(k + 1) + Rest(v, k + 1) * Pow2[7 * (k + 1)] = v
    OBVIOUS
  <2>2. Sum(k) \in Nat /\ Sum(k) + Rest(v, k) * Pow2[7 * k] = v
    BY <1>1, <1>7, <2>1
  <2>3. k + 1 \in 1..s /\ k + 2 \in 1..s /\ (k + 1) - 1 = k /\ (k + 2) - 1 = k + 1 /\ k < s
    <3>1. s \in Nat
      BY <1>1
    <3> HIDE DEF s
    <3>2. QED
      BY <2>1, <3>1
  <2>4. 7 * k + 7 <= Word
    <3>1. 7 * ((k + 2) - 1) \in 0..Word
      BY <1>3, <2>3
    <3>2. QED
      BY <3>1, WireAssumption
  <2>5. /\ g[at + (k + 1)] = (Rest(v, k) % 128) * Pow2[7 * k] /\ g[at + (k + 1)] \in Nat
        /\ Sum(k + 1) = g[at + (k + 1)] + Sum(k)
    BY <1>4, <1>5, <2>3
  <2>6. /\ Rest(v, k) \in Nat /\ Rest(v, k + 1) \in Nat
        /\ Rest(v, k) * Pow2[7 * k]
             = Rest(v, k + 1) * Pow2[7 * (k + 1)] + (Rest(v, k) % 128) * Pow2[7 * k]
    BY <1>1, <2>4, RestStep
  <2>7. Rest(v, k + 1) * Pow2[7 * (k + 1)] \in Nat
    <3>1. Pow2[7 * (k + 1)] \in Nat
      BY <2>4, PowPositive, WireAssumption
    <3>2. QED
      BY <2>6, <3>1, ProductNat
  <2> DEFINE x == Rest(v, k) * Pow2[7 * k]
             y == Rest(v, k + 1) * Pow2[7 * (k + 1)]
             z == (Rest(v, k) % 128) * Pow2[7 * k]
             w == g[at + (k + 1)]
  <2>8. w = z /\ w \in Nat /\ Sum(k + 1) = w + Sum(k) /\ x = y + z /\ y \in Nat /\ Sum(k) + x = v
    BY <2>2, <2>5, <2>6, <2>7
  <2> HIDE DEF x, y, z, w
  <2>9. Sum(k + 1) \in Nat /\ Sum(k + 1) + y = v
    BY <2>2, <2>8
  <2>10. QED
    BY <2>9 DEF y
<1>8. \A k \in Nat : k \in S
  <2> HIDE DEF S
  <2>1. QED
    BY <1>6, <1>7, Induction
<1>9. Sum(s) = v
  <2> DEFINE k == s - 1
  <2>1. k \in Nat /\ k < s /\ k + 1 = s /\ s \in 1..s /\ at + (k + 1) = at + s
    BY <1>1
  <2>2. Sum(k) \in Nat /\ Sum(k) + Rest(v, k) * Pow2[7 * k] = v
    BY <1>8, <2>1
  <2>3. Rest(v, k) \in Nat /\ ~(Rest(v, k) >= 128)
    BY <1>1, <2>1
  <2>4. Rest(v, k) % 128 = Rest(v, k)
    BY <2>3
  <2>5. g[at + s] = Rest(v, k) * Pow2[7 * k]
    BY <1>4, <2>1, <2>4
  <2>6. Sum(s) = g[at + s] + Sum(k)
    BY <1>5, <2>1
  <2>7. Rest(v, k) * Pow2[7 * k] \in Nat
    BY <1>4, <2>1, <2>5
  <2> DEFINE x == Rest(v, k) * Pow2[7 * k]
             y == g[at + s]
  <2> HIDE DEF x, y, k
  <2>8. QED
    BY <2>2, <2>5, <2>6, <2>7 DEF x
<1>10. QED
  BY <1>2, <1>9

\* The bytes w lie in data from index at.
Stored(data, at, w) ==
  /\ data \in Seq(Byte) /\ w \in Seq(Byte) /\ at \in Nat
  /\ at + Len(w) <= Len(data)
  /\ \A i \in 1..Len(w) : data[at + i] = w[i]

\* What is stored is bytes and has its place.
LEMMA StoredFacts ==
  ASSUME NEW data, NEW at, NEW w, Stored(data, at, w)
  PROVE  /\ data \in Seq(Byte) /\ w \in Seq(Byte) /\ at \in Nat
         /\ Len(data) \in Nat /\ Len(w) \in Nat
         /\ at \in 0..Len(data) /\ at + Len(w) \in 0..Len(data)
<1>1. data \in Seq(Byte) /\ w \in Seq(Byte) /\ at \in Nat /\ at + Len(w) <= Len(data)
  BY DEF Stored
<1>2. Len(data) \in Nat /\ Len(w) \in Nat
  BY <1>1, LenProperties
<1>3. QED
  BY <1>1, <1>2

\* Two pieces, one after the other.
LEMMA StoredParts ==
  ASSUME NEW data, NEW at, NEW a \in Seq(Byte), NEW b \in Seq(Byte)
  PROVE  Stored(data, at, a \o b) <=> Stored(data, at, a) /\ Stored(data, at + Len(a), b)
<1> DEFINE n == Len(a)
           k == Len(b)
           l == Len(data)
           c == a \o b
<1>1. /\ n \in Nat /\ k \in Nat /\ c \in Seq(Byte) /\ Len(c) = n + k
      /\ \A i \in 1..n : c[i] = a[i]
      /\ \A i \in 1..k : c[n + i] = b[i]
  BY ConcatProperties, LenProperties
<1> HIDE DEF n, k, c
<1>2. ASSUME Stored(data, at, c)
      PROVE  Stored(data, at, a) /\ Stored(data, at + n, b)
  <2>1. /\ data \in Seq(Byte) /\ at \in Nat /\ l \in Nat /\ at + (n + k) <= l
        /\ \A i \in 1..(n + k) : data[at + i] = c[i]
    BY <1>1, <1>2, StoredFacts DEF Stored
  <2>2. \A i \in 1..n : i \in 1..(n + k)
    BY <1>1
  <2>3. \A i \in 1..k : n + i \in 1..(n + k) /\ at + (n + i) = (at + n) + i
    BY <1>1, <2>1
  <2>4. at + n <= l /\ at + n \in Nat /\ (at + n) + k <= l
    BY <1>1, <2>1
  <2>5. \A i \in 1..n : data[at + i] = a[i]
    BY <1>1, <2>1, <2>2
  <2>6. \A i \in 1..k : data[(at + n) + i] = b[i]
    BY <1>1, <2>1, <2>3
  <2>7. QED
    BY <2>1, <2>4, <2>5, <2>6 DEF Stored, n, k
<1>3. ASSUME Stored(data, at, a), Stored(data, at + n, b)
      PROVE  Stored(data, at, c)
  <2>1. /\ data \in Seq(Byte) /\ at \in Nat /\ l \in Nat /\ (at + n) + k <= l
        /\ \A i \in 1..n : data[at + i] = a[i]
        /\ \A i \in 1..k : data[(at + n) + i] = b[i]
    BY <1>3, StoredFacts DEF Stored, n, k
  <2>2. ASSUME NEW i \in 1..(n + k) PROVE data[at + i] = c[i]
    <3>1. CASE i <= n
      BY <1>1, <2>1, <3>1
    <3>2. CASE i > n
      <4>1. i - n \in 1..k /\ n + (i - n) = i /\ (at + n) + (i - n) = at + i
        BY <1>1, <2>1, <3>2
      <4>2. QED
        BY <1>1, <2>1, <4>1
    <3>3. QED
      BY <1>1, <3>1, <3>2
  <2>3. at + (n + k) <= l
    BY <1>1, <2>1
  <2>4. QED
    BY <1>1, <2>1, <2>2, <2>3 DEF Stored
<1>4. QED
  BY <1>2, <1>3 DEF n, c

\* The slice from the beginning to the end of a piece is the piece.
LEMMA StoredSlice ==
  ASSUME NEW data, NEW at, NEW w, Stored(data, at, w)
  PROVE  SubSeq(data, at + 1, at + Len(w)) = w
<1> DEFINE n == Len(w)
<1>1. /\ data \in Seq(Byte) /\ w \in Seq(Byte) /\ at \in Nat /\ n \in Nat
      /\ Len(data) \in Nat /\ at + n <= Len(data) /\ \A i \in 1..n : data[at + i] = w[i]
  BY StoredFacts DEF Stored
<1>2. w = [i \in 1..n |-> w[i]]
  BY <1>1, LenProperties
<1> HIDE DEF n
<1>3. SubSeq(data, at + 1, at + n) = [i \in 1..n |-> data[at + i]]
  <2>1. SubSeq(data, at + 1, at + n) = [i \in 1..((1 + (at + n)) - (at + 1)) |-> data[(i + (at + 1)) - 1]]
    BY <1>1, SubSeqProperties DEF SubSeq
  <2>2. (1 + (at + n)) - (at + 1) = n /\ \A i \in 1..n : (i + (at + 1)) - 1 = at + i
    BY <1>1
  <2>3. QED
    BY <2>1, <2>2
<1>4. QED
  BY <1>1, <1>2, <1>3 DEF n

\* A whole buffer is stored in itself.
LEMMA StoredWhole == \A w \in Seq(Byte) : Stored(w, 0, w)
<1>1. SUFFICES ASSUME NEW w \in Seq(Byte) PROVE Stored(w, 0, w)
  OBVIOUS
<1>2. Len(w) \in Nat
  BY LenProperties
<1>3. QED
  BY <1>2 DEF Stored

\* A varint that was written is read as it was, and it is the only thing read.
LEMMA VarintIsRead ==
  ASSUME NEW v \in Uint64Values, NEW data, NEW at, Stored(data, at, Varint(v))
  PROVE  ReadVarint(data, at) = {[value |-> v, at |-> at + Sov(v)]}
<1> DEFINE s == Sov(v)
           top == at + (Word + 6) \div 7
           l == Len(data)
           Ends == VarintEnds(data, at)
<1>1. /\ v \in Nat /\ s \in Nat \ {0} /\ s <= (Word + 6) \div 7
      /\ \A i \in 1..s : Rest(v, i - 1) \in Nat /\ (Rest(v, i - 1) >= 128 <=> i < s)
  BY UintValues, SovFits
<1>2. /\ data \in Seq(Byte) /\ at \in Nat /\ l \in Nat /\ at + s <= l
      /\ \A i \in 1..s : data[at + i] = Varint(v)[i]
  BY <1>1, VarintBytes, StoredFacts DEF Stored
<1>3. \A i \in 1..s : data[at + i] < 128 <=> i = s
  <2>1. SUFFICES ASSUME NEW i \in 1..s PROVE data[at + i] < 128 <=> i = s
    OBVIOUS
  <2> DEFINE r == Rest(v, i - 1)
  <2>2. data[at + i] = IF r >= 128 THEN 128 + (r % 128) ELSE r
    BY <1>2 DEF Varint
  <2>3. r \in Nat /\ (r >= 128 <=> i < s)
    BY <1>1
  <2> HIDE DEF r, s
  <2>4. r % 128 \in Nat
    BY <2>3
  <2>5. QED
    BY <1>1, <2>2, <2>3, <2>4
<1>4. top \in Nat /\ at + s <= top
  BY <1>1, <1>2, WireAssumption
<1>5. Ends = {i \in (at + 1)..Min({l, top}) : data[i] < 128}
  BY DEF VarintEnds
<1> HIDE DEF top, l, s, Ends
<1>6. Min({l, top}) \in {l, top}
  <2>1. {l, top} \in SUBSET Nat /\ {l, top} # {}
    BY <1>2, <1>4
  <2>2. QED
    BY <2>1, MinLeast
<1>7. at + s \in Ends
  <2>1. at + s \in (at + 1)..Min({l, top})
    BY <1>1, <1>2, <1>4, <1>6
  <2>2. s \in 1..s
    BY <1>1
  <2>3. QED
    BY <1>3, <1>5, <2>1, <2>2
<1>8. ASSUME NEW j \in Ends PROVE at + s <= j /\ j \in Nat
  <2>1. j \in Nat /\ at + 1 <= j /\ data[j] < 128
    BY <1>2, <1>4, <1>5, <1>6
  <2>2. ASSUME j < at + s PROVE FALSE
    <3>1. j - at \in 1..s /\ j - at # s /\ at + (j - at) = j
      BY <1>1, <1>2, <2>1, <2>2
    <3>2. QED
      BY <1>3, <2>1, <3>1
  <2>3. QED
    BY <1>1, <1>2, <2>1, <2>2
<1>9. {j \in Ends : \A k \in Ends : j <= k} = {at + s}
  <2>1. ASSUME NEW j \in Ends, \A k \in Ends : j <= k PROVE j = at + s
    <3>1. j <= at + s /\ at + s <= j /\ j \in Nat
      BY <1>7, <1>8, <2>1
    <3>2. QED
      BY <1>1, <1>2, <3>1
  <2>2. \A k \in Ends : at + s <= k
    BY <1>8
  <2>3. QED
    BY <1>7, <2>1, <2>2
<1>10. Groups(data, at, at + s) = v
  BY <1>2, GroupsOfVarint DEF s, l
<1>11. v % Pow2[Word] = v
  BY UintValues, ModSmall DEF Uint64Values
<1>12. ReadVarint(data, at) =
         {[value |-> Groups(data, at, i) % Pow2[Word], at |-> i] :
            i \in {j \in Ends : \A k \in Ends : j <= k}}
  BY DEF ReadVarint, Ends
<1>13. QED
  BY <1>9, <1>10, <1>11, <1>12 DEF s

\* A byte below 128 is the varint of its value.
LEMMA ByteVarint ==
  ASSUME NEW v \in 0..127
  PROVE  v \in Uint64Values => Varint(v) = <<v>> /\ Sov(v) = 1
<1> SUFFICES ASSUME v \in Uint64Values PROVE Varint(v) = <<v>> /\ Sov(v) = 1
  OBVIOUS
<1>1. /\ Sov(v) \in Nat \ {0}
      /\ \A i \in 1..Sov(v) : Rest(v, i - 1) \in Nat /\ (Rest(v, i - 1) >= 128 <=> i < Sov(v))
  BY SovFits
<1>2. Rest(v, 0) = v
  <2>1. Pow2[0] = 1 /\ 7 * 0 = 0 /\ v \div 1 = v
    BY PowRecursion, WireAssumption
  <2>2. QED
    BY <2>1 DEF Rest
<1>3. Sov(v) = 1
  <2>1. 1 \in 1..Sov(v) /\ 1 - 1 = 0
    BY <1>1
  <2>2. ~(1 < Sov(v))
    BY <1>1, <1>2, <2>1
  <2>3. QED
    BY <1>1, <2>2
<1>4. Varint(v) = [i \in 1..1 |-> v]
  <2>1. \A i \in 1..1 : i - 1 = 0
    OBVIOUS
  <2>2. \A i \in 1..1 : (IF Rest(v, i - 1) >= 128 THEN 128 + (Rest(v, i - 1) % 128) ELSE Rest(v, i - 1)) = v
    BY <1>2, <2>1
  <2>3. QED
    BY <1>3, <2>2 DEF Varint
<1>5. <<v>> = [i \in 1..1 |-> v]
  OBVIOUS
<1>6. QED
  BY <1>3, <1>4, <1>5

\* A length that an int holds, and the bytes it counts, are read as they were
\* written.
LEMMA DelimitedIsRead ==
  ASSUME NEW data, NEW at, NEW w \in Seq(Byte), Len(data) < Pow2[Word - 1],
         Stored(data, at, Varint(Len(w)) \o w)
  PROVE  LET from == at + Sov(Len(w))
             post == from + Len(w)
         IN  /\ ReadDelimited(data, at) = {[from |-> from, post |-> post]}
             /\ from \in 0..Len(data) /\ post \in 0..Len(data) /\ at < post
             /\ Slice(data, [from |-> from, post |-> post]) = w
<1> DEFINE n == Len(w)
           l == Len(data)
           p == Pow2[Word - 1]
           from == at + Sov(n)
           post == from + n
<1>1. n \in Nat /\ l \in Nat /\ at \in Nat /\ at + Len(Varint(n) \o w) <= l /\ l < p
  <2>1. w \in Seq(Byte) /\ Len(w) \in Nat
    BY LenProperties
  <2>2. QED
    BY <2>1, StoredFacts DEF Stored
<1>2. Varint(n) \in Seq(Byte) /\ Len(Varint(n)) = Sov(n) /\ Sov(n) \in Nat
  BY <1>1, VarintBytes
<1>3. Stored(data, at, Varint(n)) /\ Stored(data, from, w)
  BY <1>2, StoredParts
<1>4. from \in 0..l /\ post \in 0..l
  BY <1>1, <1>2, <1>3, StoredFacts
<1>5. p \in Nat \ {0} /\ Pow2[Word] = 2 * p
  BY PowRecursion, PowPositive, WireAssumption
<1> HIDE DEF p, l, n
<1>6. n \in Uint64Values /\ n < p
  <2>1. n <= l
    BY <1>1, <1>2, <1>4 DEF n
  <2>2. QED
    BY <1>1, <1>5, <2>1 DEF Uint64Values
<1>7. Sov(n) # 0
  BY <1>6, SovFits
<1>8. ReadVarint(data, at) = {[value |-> n, at |-> from]}
  BY <1>3, <1>6, VarintIsRead
<1> HIDE DEF from
<1>9. Signed(n, Word) = n
  BY <1>1, <1>5, <1>6 DEF Signed, p
<1>10. Wrap(post) = post
  <2>1. post \in 0..(Pow2[Word] - 1) /\ ~(post >= p) /\ Pow2[Word] \in Nat \ {0}
    BY <1>1, <1>4, <1>5
  <2>2. post % Pow2[Word] = post
    BY <2>1, ModSmall
  <2> HIDE DEF post
  <2>3. QED
    BY <2>1, <2>2 DEF Wrap, Signed, p
<1>11. ReadDelimited(data, at) = {[from |-> from, post |-> post]}
  <2> DEFINE r == [value |-> n, at |-> from]
             d == [from |-> from, post |-> post]
  <2>1. {x \in ReadVarint(data, at) : Signed(x.value, Word) >= 0} = {r}
    BY <1>1, <1>8, <1>9
  <2>2. [from |-> r.at, post |-> Wrap(r.at + Signed(r.value, Word))] = d
    BY <1>9, <1>10
  <2>3. d.post >= 0 /\ d.post <= l
    BY <1>1, <1>4
  <2> HIDE DEF r, d
  <2>4. {[from |-> x.at, post |-> Wrap(x.at + Signed(x.value, Word))] : x \in {r}} = {d}
    BY <2>2
  <2>5. ReadDelimited(data, at) = {x \in {d} : x.post >= 0 /\ x.post <= l}
    BY <2>1, <2>4 DEF ReadDelimited, l
  <2>6. QED
    BY <2>3, <2>5 DEF d
<1>12. Slice(data, [from |-> from, post |-> post]) = w
  <2>1. SubSeq(data, from + 1, from + n) = w
    BY <1>3, StoredSlice DEF n
  <2>2. QED
    BY <2>1 DEF Slice
<1>13. at < post
  BY <1>1, <1>2, <1>4, <1>7 DEF from
<1>14. QED
  BY <1>4, <1>11, <1>12, <1>13 DEF from, n, l

\* The tag of a field number and a wire type.
Tag(num, type) == 8 * num + type

\* A tag of one byte is read as the field number and the wire type it is made of.
LEMMA TagIsRead ==
  ASSUME NEW data, NEW at, NEW num, NEW type, num \in 1..15, type \in 0..5,
         Stored(data, at, <<Tag(num, type)>>)
  PROVE  ReadTag(data, at) = {[num |-> num, type |-> type, at |-> at + 1]}
<1> DEFINE b == Tag(num, type)
<1>1. b \in 0..127 /\ b \div 8 = num /\ b % 8 = type
  BY DEF Tag
<1>2. Pow2[0] = 1 /\ Pow2[1] = 2 /\ Pow2[2] = 4 /\ Pow2[3] = 8 /\ Pow2[4] = 16
      /\ Pow2[5] = 32 /\ Pow2[6] = 64 /\ Pow2[7] = 128
  <2>1. Pow2[0] = 1 /\ \A n \in 0..6 : Pow2[n + 1] = 2 * Pow2[n]
    <3>1. \A n \in 0..6 : n + 1 \in 0..Word /\ n + 1 # 0 /\ (n + 1) - 1 = n
      BY WireAssumption
    <3>2. 0 \in 0..Word
      BY WireAssumption
    <3>3. QED
      BY <3>1, <3>2, PowRecursion
  <2>2. /\ Pow2[1] = 2 * Pow2[0] /\ Pow2[2] = 2 * Pow2[1] /\ Pow2[3] = 2 * Pow2[2]
        /\ Pow2[4] = 2 * Pow2[3] /\ Pow2[5] = 2 * Pow2[4] /\ Pow2[6] = 2 * Pow2[5]
        /\ Pow2[7] = 2 * Pow2[6]
    <3>1. 0 + 1 = 1 /\ 1 + 1 = 2 /\ 2 + 1 = 3 /\ 3 + 1 = 4 /\ 4 + 1 = 5 /\ 5 + 1 = 6 /\ 6 + 1 = 7
      OBVIOUS
    <3>2. 0 \in 0..6 /\ 1 \in 0..6 /\ 2 \in 0..6 /\ 3 \in 0..6 /\ 4 \in 0..6 /\ 5 \in 0..6 /\ 6 \in 0..6
      OBVIOUS
    <3>3. QED
      BY ONLY <2>1, <3>1, <3>2, Zenon
  <2>3. QED
    BY ONLY <2>1, <2>2
<1>3. Pow2[7] <= Pow2[Word] /\ Pow2[4] <= Pow2[Half - 1] /\ Pow2[Half] = 2 * Pow2[Half - 1]
      /\ Pow2[Word] \in Nat /\ Pow2[Half - 1] \in Nat
  <2>1. 7 \in 0..Word /\ Word \in 0..Word /\ 4 \in 0..Word /\ Half - 1 \in 0..Word
        /\ 4 <= Half - 1 /\ 7 <= Word /\ Half \in 0..Word /\ Half # 0
    BY WireAssumption
  <2>2. Pow2[Half] = 2 * Pow2[Half - 1]
    BY <2>1, PowRecursion
  <2>3. QED
    BY <2>1, <2>2, PowMonotone, PowPositive
<1> HIDE DEF b
<1>4. b \in Uint64Values
  BY <1>1, <1>2, <1>3 DEF Uint64Values
<1>5. Varint(b) = <<b>> /\ Sov(b) = 1
  BY <1>1, <1>4, ByteVarint
<1>6. ReadVarint(data, at) = {[value |-> b, at |-> at + 1]}
  <2>1. Stored(data, at, Varint(b))
    BY <1>5 DEF b
  <2>2. ReadVarint(data, at) = {[value |-> b, at |-> at + Sov(b)]}
    BY <1>4, <2>1, VarintIsRead
  <2>3. QED
    BY <1>5, <2>2
<1>7. Signed((b \div 8) % Pow2[Half], Half) = num
  <2>1. num % Pow2[Half] = num
    BY <1>2, <1>3, ModSmall
  <2>2. ~(num >= Pow2[Half - 1])
    BY <1>2, <1>3
  <2>3. QED
    BY <1>1, <2>1, <2>2 DEF Signed
<1>8. QED
  <2> DEFINE r == [value |-> b, at |-> at + 1]
  <2>1. [num |-> Signed((r.value \div 8) % Pow2[Half], Half), type |-> r.value % 8, at |-> r.at]
          = [num |-> num, type |-> type, at |-> at + 1]
    BY <1>1, <1>7
  <2> HIDE DEF r
  <2>2. QED
    BY <1>6, <2>1 DEF ReadTag, r

-----------------------------------------------------------------------------
(* What a call decodes.  A goal is the value a call is to end with, of     *)
(* skipOptimism the index it is to end at.  A set of calls with their      *)
(* goals is closed if whatever a call of it does next leads to calls of    *)
(* it: whoever is in such a set ends with its goal, unless it fails.       *)

At(c, g) == [call |-> c, goal |-> g]

\* What a call may be after it read a field, or a part of a map's entry, with a tag.
GoesScalar(c, t, d) ==
  \E f \in Case(c, t) : \E v \in Scalars(c, t, f) :
    IsScalar(f) /\ d = Moved(c, [c.val EXCEPT ![f.name] = v.value], v.at)
GoesString(c, t, d) ==
  \E f \in Case(c, t), e \in Contents(c, t) :
    LET bytes == Slice(c.data, e)
        value == IF f.kind = "bytes" THEN bytes ELSE Append(c.val[f.name], bytes)
    IN  /\ f.kind \in {"bytes", "bytes list"}
        /\ d = Moved(c, [c.val EXCEPT ![f.name] = value], e.post)
GoesKey(c, t, d) ==
  \E e \in ReadDelimited(c.data, t.at) :
    /\ c.kind = "MapEntry" /\ t.num = 1
    /\ d = Moved(c, [key |-> Slice(c.data, e), value |-> c.val.value], e.post)
GoesValue(c, t, d) ==
  \E v \in ReadVarint(c.data, t.at) :
    /\ c.kind = "MapEntry" /\ t.num = 2
    /\ d = Moved(c, [key |-> c.val.key, value |-> Or(c.val.value, v.value)], v.at)
GoesOn(c, d) ==
  \E t \in Tags(c) :
    GoesScalar(c, t, d) \/ GoesString(c, t, d) \/ GoesKey(c, t, d) \/ GoesValue(c, t, d)

\* What it may be when it makes a call, and the call.
MakesNested(c, t, b, d) ==
  \E f \in Case(c, t), e \in Contents(c, t) :
    LET data == Slice(c.data, e)
    IN  /\ f.kind \in {"message", "message list", "external", "duration"}
        /\ b = Moved(c, c.val, e.post)
        /\ d = Call(f.of, f, Started(f, c.val[f.name]), data, 0, Len(data))
MakesEntry(c, t, b, d) ==
  \E f \in Case(c, t), e \in Contents(c, t) :
    /\ f.kind = "map"
    /\ b = Moved(c, c.val, e.post)
    /\ d = Call(f.of, f, [key |-> <<>>, value |-> 0], c.data, e.from, e.post)
MakesSkip(c, t, b, d) ==
  LET data == SubSeq(c.data, c.at + 1, Len(c.data))
  IN  Skipped(c, t) /\ b = c /\ d = Call("skip", Entry, 0, data, 0, Len(data))
Makes(c, b, d) ==
  \E t \in Tags(c) : MakesNested(c, t, b, d) \/ MakesEntry(c, t, b, d) \/ MakesSkip(c, t, b, d)

\* It fails.
Stuck(c) ==
  \A t \in Tags(c) :
    \/ \E f \in Case(c, t) :
         IF IsScalar(f) THEN Scalars(c, t, f) = {} ELSE Contents(c, t) = {}
    \/ c.kind = "MapEntry" /\ t.num = 1 /\ ReadDelimited(c.data, t.at) = {}
    \/ c.kind = "MapEntry" /\ t.num = 2 /\ ReadVarint(c.data, t.at) = {}

\* How a call goes on after the one it made for a field, or for no field, has ended.
After(b, d, x) ==
  IF d.kind = "skip"
  THEN {Moved(b, IF b.kind = "external" THEN b.val \o SubSeq(b.data, b.at + 1, i) ELSE b.val, i) :
          i \in Resumed(b, x)}
  ELSE {Moved(b, [b.val EXCEPT ![d.field.name] =
                    Filled(b.val[d.field.name], [field |-> d.field, val |-> x])], b.at)}

\* The call that waits goes on with what it was given, in S.
Resumes(S, b, d, x, g) == After(b, d, x) # {} /\ \A c \in After(b, d, x) : At(c, g) \in S

\* Whatever skipOptimism does, and an iteration of the loop, leads into S.
SkipLeads(S, c, g) ==
  /\ Elements(c) # {}
  /\ \A e \in Elements(c) :
       IF e.depth = 0 THEN e.at = g ELSE e.at < c.end /\ At(Moved(c, e.depth, e.at), g) \in S
LoopLeads(S, A, c, g) ==
  /\ Stuck(c) => A.fails
  /\ \A d : GoesOn(c, d) => At(d, g) \in S
  /\ \A b, d : Makes(c, b, d) => \E x : At(d, x) \in S /\ Resumes(S, b, d, x, g)

\* What a decoder takes for external messages, and whether it may fail for other reasons.
Strict(T) == [takes |-> T, fails |-> FALSE]
Lax(T) == [takes |-> T, fails |-> TRUE]

\* The same of any call.
Leads(S, A, c, g) ==
  /\ c.kind = "external" => c.data \in A.takes
  /\ c.kind = "skip" => SkipLeads(S, c, g)
  /\ c.kind # "skip" /\ c.at >= c.end => c.val = g
  /\ c.kind # "skip" /\ c.at < c.end => LoopLeads(S, A, c, g)

\* Whatever the calls of S do next leads into S.
Closed(S, A) == \A s \in S : Leads(S, A, s.call, s.goal)

\* The call ends with the goal.
Decodes(A, c, g) == \E S : Closed(S, A) /\ At(c, g) \in S

\* More calls do not hurt.
LEMMA LeadsMore ==
  ASSUME NEW S, NEW T, S \subseteq T, NEW A, NEW c, NEW g, Leads(S, A, c, g)
  PROVE  Leads(T, A, c, g)
<1>1. SkipLeads(S, c, g) => SkipLeads(T, c, g)
  BY DEF SkipLeads
<1>2. ASSUME NEW b, NEW d, NEW x, Resumes(S, b, d, x, g)
      PROVE  Resumes(T, b, d, x, g)
  BY <1>2 DEF Resumes
<1>3. LoopLeads(S, A, c, g) => LoopLeads(T, A, c, g)
  <2>1. SUFFICES ASSUME LoopLeads(S, A, c, g) PROVE LoopLeads(T, A, c, g)
    OBVIOUS
  <2>2. \A b, d : Makes(c, b, d) => \E x : At(d, x) \in T /\ Resumes(T, b, d, x, g)
    BY <1>2, <2>1 DEF LoopLeads
  <2>3. QED
    BY <2>1, <2>2 DEF LoopLeads
<1>4. QED
  BY <1>1, <1>3 DEF Leads

\* Two sets of calls are closed together.
LEMMA ClosedUnion ==
  ASSUME NEW A, NEW S, Closed(S, A), NEW T, Closed(T, A)
  PROVE  Closed(S \cup T, A)
<1>1. SUFFICES ASSUME NEW s \in S \cup T PROVE Leads(S \cup T, A, s.call, s.goal)
  BY DEF Closed
<1>2. CASE s \in S
  <2>1. S \subseteq S \cup T /\ Leads(S, A, s.call, s.goal)
    BY <1>2 DEF Closed
  <2>2. QED
    BY <2>1, LeadsMore
<1>3. CASE s \in T
  <2>1. T \subseteq S \cup T /\ Leads(T, A, s.call, s.goal)
    BY <1>3 DEF Closed
  <2>2. QED
    BY <2>1, LeadsMore
<1>4. QED
  BY <1>1, <1>2, <1>3

\* A call that leads into a closed set decodes its goal.
LEMMA DecodesFirst ==
  ASSUME NEW A, NEW S, Closed(S, A), NEW c, NEW g, Leads(S, A, c, g)
  PROVE  Decodes(A, c, g)
<1> DEFINE s == At(c, g)
           T == S \cup {s}
<1>1. s.call = c /\ s.goal = g
  BY DEF At
<1>2. \A r \in T : r \in S \/ r = s
  OBVIOUS
<1>3. S \subseteq T
  OBVIOUS
<1> HIDE DEF s, T
<1>4. ASSUME NEW r \in T PROVE Leads(T, A, r.call, r.goal)
  <2>1. Leads(S, A, r.call, r.goal)
    BY <1>1, <1>2 DEF Closed
  <2>2. QED
    BY <1>3, <2>1, LeadsMore
<1>5. Closed(T, A)
  BY <1>4 DEF Closed
<1>6. At(c, g) \in T
  BY DEF s, T
<1>7. QED
  BY <1>5, <1>6 DEF Decodes

\* A call at its end decodes what it holds.
LEMMA DecodesEnd ==
  ASSUME NEW A, NEW c, c.kind # "skip", c.at >= c.end, ~(c.at < c.end),
         c.kind = "external" => c.data \in A.takes
  PROVE  Decodes(A, c, c.val)
<1>1. Closed({}, A)
  BY DEF Closed
<1>2. Leads({}, A, c, c.val)
  BY DEF Leads
<1>3. QED
  BY <1>1, <1>2, DecodesFirst

\* A call that can only go on.
LEMMA DecodesOn ==
  ASSUME NEW A, NEW c, c.kind # "skip", ~(c.at >= c.end), c.kind = "external" => c.data \in A.takes,
         ~Stuck(c), \A b, d : ~Makes(c, b, d),
         NEW n, \A d : GoesOn(c, d) => d = n,
         NEW g, Decodes(A, n, g)
  PROVE  Decodes(A, c, g)
<1>1. PICK S : Closed(S, A) /\ At(n, g) \in S
  BY DEF Decodes
<1>2. LoopLeads(S, A, c, g)
  BY <1>1 DEF LoopLeads
<1>3. Leads(S, A, c, g)
  BY <1>2 DEF Leads
<1>4. QED
  BY <1>1, <1>3, DecodesFirst

\* A call that can only make another one.
LEMMA DecodesMake ==
  ASSUME NEW A, NEW c, c.kind # "skip", ~(c.at >= c.end), c.kind = "external" => c.data \in A.takes,
         ~Stuck(c), \A d : ~GoesOn(c, d),
         NEW m, NEW n, \A b, d : Makes(c, b, d) => b = m /\ d = n,
         NEW x, Decodes(A, n, x),
         NEW r, After(m, n, x) = {r},
         NEW g, Decodes(A, r, g)
  PROVE  Decodes(A, c, g)
<1>1. PICK S : Closed(S, A) /\ At(n, x) \in S
  BY DEF Decodes
<1>2. PICK T : Closed(T, A) /\ At(r, g) \in T
  BY DEF Decodes
<1>3. Closed(S \cup T, A)
  BY <1>1, <1>2, ClosedUnion
<1>4. Resumes(S \cup T, m, n, x, g)
  BY <1>2 DEF Resumes
<1>5. LoopLeads(S \cup T, A, c, g)
  BY <1>1, <1>4 DEF LoopLeads
<1>6. Leads(S \cup T, A, c, g)
  BY <1>5 DEF Leads
<1>7. QED
  BY <1>3, <1>6, DecodesFirst

\* skipOptimism ends, or goes on in a group.
LEMMA DecodesSkip ==
  ASSUME NEW A, NEW c, c.kind = "skip", NEW e, Elements(c) = {e}, NEW g,
         IF e.depth = 0 THEN e.at = g ELSE e.at < c.end /\ Decodes(A, Moved(c, e.depth, e.at), g)
  PROVE  Decodes(A, c, g)
<1>1. CASE e.depth = 0
  <2>1. Closed({}, A)
    BY DEF Closed
  <2>2. SkipLeads({}, c, g)
    BY <1>1 DEF SkipLeads
  <2>3. Leads({}, A, c, g)
    BY <2>2 DEF Leads
  <2>4. QED
    BY <2>1, <2>3, DecodesFirst
<1>2. CASE e.depth # 0
  <2>1. PICK S : Closed(S, A) /\ At(Moved(c, e.depth, e.at), g) \in S
    BY <1>2 DEF Decodes
  <2>2. SkipLeads(S, c, g)
    BY <1>2, <2>1 DEF SkipLeads
  <2>3. Leads(S, A, c, g)
    BY <2>2 DEF Leads
  <2>4. QED
    BY <2>1, <2>3, DecodesFirst
<1>3. QED
  BY <1>1, <1>2

-----------------------------------------------------------------------------
(* Bytes that carry a call from one value to another, wherever they are.   *)

\* The parts of a call.
LEMMA CallParts ==
  ASSUME NEW kind, NEW field, NEW val, NEW data, NEW at, NEW end
  PROVE  LET c == Call(kind, field, val, data, at, end)
         IN  /\ c.kind = kind /\ c.field = field /\ c.val = val /\ c.data = data
             /\ c.at = at /\ c.end = end
             /\ \A v, i : Moved(c, v, i) = Call(kind, field, v, data, i, end)
  BY DEF Call, Moved

\* Bytes w that take a call from a value to another one, wherever they are stored.
Carries(A, kind, w, a, b) ==
  \A field, data, at, end, g :
    /\ Stored(data, at, w) /\ Addressable(data)
    /\ end \in 0..Len(data) /\ at + Len(w) <= end
    /\ kind = "external" => data \in A.takes
    /\ Decodes(A, Call(kind, field, b, data, at + Len(w), end), g)
    => Decodes(A, Call(kind, field, a, data, at, end), g)

\* No bytes.
LEMMA CarriesNothing ==
  ASSUME NEW A, NEW kind, NEW a
  PROVE  Carries(A, kind, <<>>, a, a)
<1>1. SUFFICES ASSUME NEW field, NEW data, NEW at, NEW end, NEW g, Stored(data, at, <<>>),
                      Decodes(A, Call(kind, field, a, data, at + Len(<<>>), end), g)
               PROVE  Decodes(A, Call(kind, field, a, data, at, end), g)
  BY DEF Carries
<1>2. at \in Nat /\ Len(<<>>) = 0
  BY <1>1, StoredFacts, EmptySeq
<1>3. at + Len(<<>>) = at
  BY <1>2
<1>4. QED
  BY <1>1, <1>3

\* One piece after the other.
LEMMA CarriesConcat ==
  ASSUME NEW A, NEW kind, NEW a, NEW b, NEW c, NEW v \in Seq(Byte), NEW w \in Seq(Byte),
         Carries(A, kind, v, a, b), Carries(A, kind, w, b, c)
  PROVE  Carries(A, kind, v \o w, a, c)
<1>1. SUFFICES ASSUME NEW field, NEW data, NEW at, NEW end, NEW g,
                      Stored(data, at, v \o w), Addressable(data),
                      end \in 0..Len(data), at + Len(v \o w) <= end,
                      kind = "external" => data \in A.takes,
                      Decodes(A, Call(kind, field, c, data, at + Len(v \o w), end), g)
               PROVE  Decodes(A, Call(kind, field, a, data, at, end), g)
  BY DEF Carries
<1> DEFINE m == Len(v)
           n == Len(w)
<1>2. m \in Nat /\ n \in Nat /\ Len(v \o w) = m + n
  BY Concat
<1>3. Stored(data, at, v) /\ Stored(data, at + m, w) /\ at \in Nat /\ Len(data) \in Nat
  BY <1>1, StoredParts, StoredFacts
<1> HIDE DEF m, n
<1>4. at + m <= end /\ (at + m) + n <= end /\ at + Len(v \o w) = (at + m) + n
  BY <1>1, <1>2, <1>3
<1>5. Decodes(A, Call(kind, field, b, data, at + m, end), g)
  BY <1>1, <1>3, <1>4 DEF Carries, n
<1>6. QED
  BY <1>1, <1>3, <1>4, <1>5 DEF Carries, m

\* How FlattenSeq puts the elements together.
LEMMA FlattenSteps ==
  ASSUME NEW s, Len(s) \in Nat \ {0}
  PROVE  \E f : /\ FlattenSeq(s) = f[Len(s)]
                /\ \A i \in 1..Len(s) : f[i] = IF i = 1 THEN s[i] ELSE f[i - 1] \o s[i]
<1> DEFINE Solves(f) == f = [i \in 1..Len(s) |-> IF i = 1 THEN s[i] ELSE f[i - 1] \o s[i]]
           flatten == CHOOSE f : Solves(f)
<1>1. FlattenSeq(s) = flatten[Len(s)]
  BY DEF FlattenSeq
<1>2. Solves(flatten)
  <2>1. \E f : Solves(f)
    BY FlattenExists
  <2>2. QED
    BY <2>1
<1> HIDE DEF flatten
<1>3. \A i \in 1..Len(s) : flatten[i] = IF i = 1 THEN s[i] ELSE flatten[i - 1] \o s[i]
  BY <1>2
<1>4. QED
  BY <1>1, <1>3

\* All pieces of a sequence.
LEMMA CarriesAll ==
  ASSUME NEW A, NEW kind, NEW vals, NEW s \in Seq(Seq(Byte)),
         \A i \in 1..Len(s) : Carries(A, kind, s[i], vals[i - 1], vals[i])
  PROVE  FlattenSeq(s) \in Seq(Byte) /\ Carries(A, kind, FlattenSeq(s), vals[0], vals[Len(s)])
<1> DEFINE n == Len(s)
<1>1. n \in Nat /\ \A i \in 1..n : s[i] \in Seq(Byte)
  BY LenProperties, ElementOfSeq
<1>2. CASE n = 0
  <2>1. s = <<>> /\ FlattenSeq(s) = <<>>
    BY <1>2, EmptySeq DEF FlattenSeq
  <2>2. QED
    BY <1>2, <2>1, EmptySeq, CarriesNothing
<1>3. CASE n # 0
  <2>1. PICK f : /\ FlattenSeq(s) = f[n]
                 /\ \A i \in 1..n : f[i] = IF i = 1 THEN s[i] ELSE f[i - 1] \o s[i]
    BY <1>1, <1>3, FlattenSteps
  <2> DEFINE Good(k) == k + 1 <= n => /\ f[k + 1] \in Seq(Byte)
                                      /\ Carries(A, kind, f[k + 1], vals[0], vals[k + 1])
  <2> HIDE DEF n
  <2>2. Good(0)
    <3>1. 1 \in 1..n /\ 1 - 1 = 0 /\ 0 + 1 = 1
      BY <1>1, <1>3
    <3>2. f[1] = s[1] /\ s[1] \in Seq(Byte) /\ Carries(A, kind, s[1], vals[0], vals[1])
      BY <1>1, <2>1, <3>1 DEF n
    <3>3. QED
      BY <3>1, <3>2
  <2>3. ASSUME NEW k \in Nat, Good(k) PROVE Good(k + 1)
    <3> DEFINE m == k + 1
    <3>1. SUFFICES ASSUME m + 1 <= n
                   PROVE  f[m + 1] \in Seq(Byte) /\ Carries(A, kind, f[m + 1], vals[0], vals[m + 1])
      OBVIOUS
    <3>2. m + 1 \in 1..n /\ (m + 1) - 1 = m /\ m + 1 # 1
      BY <1>1, <3>1
    <3>3. f[m] \in Seq(Byte) /\ Carries(A, kind, f[m], vals[0], vals[m])
      BY <1>1, <2>3, <3>2
    <3> HIDE DEF m
    <3>4. f[m + 1] = f[m] \o s[m + 1] /\ s[m + 1] \in Seq(Byte)
      BY <1>1, <2>1, <3>2
    <3>5. Carries(A, kind, s[m + 1], vals[m], vals[m + 1])
      BY <3>2 DEF n
    <3>6. QED
      BY <3>3, <3>4, <3>5, Concat, CarriesConcat
  <2> HIDE DEF Good
  <2>4. \A k \in Nat : Good(k)
    <3> DEFINE S == {k \in Nat : Good(k)}
    <3>1. 0 \in S /\ \A k \in Nat : k \in S => k + 1 \in S
      BY <2>2, <2>3
    <3> HIDE DEF S
    <3>2. \A k \in Nat : k \in S
      BY <3>1, Induction
    <3>3. QED
      BY <3>2 DEF S
  <2>5. n - 1 \in Nat /\ (n - 1) + 1 = n
    BY <1>1, <1>3
  <2>6. Good(n - 1)
    BY <2>4, <2>5
  <2>7. f[n] \in Seq(Byte) /\ Carries(A, kind, f[n], vals[0], vals[n])
    BY <1>1, <2>5, <2>6 DEF Good
  <2>8. QED
    BY <2>1, <2>7 DEF n
<1>4. QED
  BY <1>2, <1>3

\* A call that gets these bytes and no others.
LEMMA CarriesWhole ==
  ASSUME NEW A, NEW kind, kind # "skip", NEW a, NEW b, NEW field, NEW w \in Seq(Byte),
         Addressable(w), kind = "external" => w \in A.takes, Carries(A, kind, w, a, b)
  PROVE  Decodes(A, Call(kind, field, a, w, 0, Len(w)), b)
<1> DEFINE n == Len(w)
           c == Call(kind, field, b, w, n, n)
<1>1. n \in Nat /\ Stored(w, 0, w)
  BY LenProperties, StoredWhole
<1>2. c.kind = kind /\ c.val = b /\ c.data = w /\ c.at = n /\ c.end = n
  BY CallParts
<1> HIDE DEF c, n
<1>3. c.at >= c.end /\ ~(c.at < c.end)
  BY <1>1, <1>2
<1>4. Decodes(A, c, b)
  <2>1. Decodes(A, c, c.val)
    BY <1>2, <1>3, DecodesEnd
  <2>2. QED
    BY <1>2, <2>1
<1>5. 0 + n = n /\ n <= n /\ n \in 0..n
  BY <1>1
<1>6. Decodes(A, Call(kind, field, b, w, 0 + n, n), b)
  BY <1>4, <1>5 DEF c
<1>7. QED
  BY <1>1, <1>5, <1>6 DEF Carries, n

-----------------------------------------------------------------------------
(* Elements of a message.                                                  *)

\* The numbers of a message's fields have a tag of one byte, and each has one field.
LEMMA NumbersDistinct ==
  ASSUME NEW kind, NEW f, f \in Fields(kind)
  PROVE  f.num \in 1..15 /\ \A g \in Fields(kind) : f.num = g.num => f = g
<1> SUFFICES ASSUME NEW g \in Fields(kind)
             PROVE  f.num \in 1..15 /\ (f.num = g.num => f = g)
  OBVIOUS
<1>1. kind \in Kinds
  BY DEF Fields
<1>2. \A num, name :
        /\ Uint64(num, name).num = num /\ Uint32(num, name).num = num
        /\ Bool(num, name).num = num /\ Bytes(num, name).num = num
        /\ BytesList(num, name).num = num /\ Duration(num, name).num = num
        /\ External(num, name).num = num /\ Map(num, name).num = num
  BY DEF Uint64, Uint32, Bool, Bytes, BytesList, Duration, External, Map, Field
<1>3. \A num, name, of : Message(num, name, of).num = num /\ MessageList(num, name, of).num = num
  BY DEF Message, MessageList, Field
<1>4. CASE kind = "ProverConfig"
  BY <1>2, <1>4, FieldTables DEF ProverConfigFields
<1>5. CASE kind = "Misbehaviour"
  BY <1>2, <1>3, <1>5, FieldTables DEF MisbehaviourFields
<1>6. CASE kind = "L1Config"
  BY <1>2, <1>6, FieldTables DEF L1ConfigFields
<1>7. CASE kind = "ConsensusState"
  BY <1>2, <1>7, FieldTables DEF ConsensusStateFields
<1>8. CASE kind \in {"ClientState", "Header", "L1Header", "Derivation"}
  BY <1>2, <1>3, <1>8, FieldTables
     DEF ClientStateFields, HeaderFields, L1HeaderFields, DerivationFields
<1>9. CASE kind \in {"FaultDisputeGameConfig", "FaultDisputeGameProof"}
  BY <1>2, <1>9, FieldTables DEF FaultDisputeGameConfigFields, FaultDisputeGameProofFields
<1>10. CASE kind \in {"FinalizedHeaderMisbehaviour", "NextSyncCommitteeMisbehaviour"}
  BY <1>2, <1>10, FieldTables DEF FinalizedHeaderMisbehaviourFields, NextSyncCommitteeMisbehaviourFields
<1>11. QED
  BY <1>1, <1>4, <1>5, <1>6, <1>7, <1>8, <1>9, <1>10, KindList

\* The tag of a field written with a wire type.
TagOf(f, type) == Tag(f.num, type)

\* The tag of a field with one of the first fifteen numbers is one byte.
LEMMA TagOfByte ==
  ASSUME NEW f, NEW type, f.num \in 1..15, type \in 0..5
  PROVE  TagOf(f, type) \in Byte
<1>1. \A n \in 1..15, z \in 0..5 : Tag(n, z) \in Byte
  BY DEF Byte, Tag
<1>2. QED
  BY <1>1 DEF TagOf

\* The tag of a field leads to its case of the switch.
LEMMA TagOfField ==
  ASSUME NEW c, NEW f, NEW type, f \in Fields(c.kind), type \in 0..5, type # 4,
         Stored(c.data, c.at, <<TagOf(f, type)>>)
  PROVE  LET t == [num |-> f.num, type |-> type, at |-> c.at + 1]
         IN  /\ Tags(c) = {t} /\ Case(c, t) = {f} /\ ~Skipped(c, t)
             /\ c.kind \notin {"external", "MapEntry", "skip"}
<1> DEFINE t == [num |-> f.num, type |-> type, at |-> c.at + 1]
<1>1. f.num \in 1..15 /\ \A g \in Fields(c.kind) : f.num = g.num => f = g
  BY NumbersDistinct
<1>2. ReadTag(c.data, c.at) = {t}
  BY <1>1, TagIsRead DEF TagOf
<1>3. t.num = f.num /\ t.type = type /\ t.type # 4 /\ t.num > 0
  BY <1>1
<1> HIDE DEF t
<1>4. Tags(c) = {t}
  BY <1>2, <1>3 DEF Tags
<1>5. Case(c, t) = {f}
  BY <1>1, <1>3 DEF Case
<1>6. c.kind \notin {"external", "MapEntry", "skip"}
  BY KindsApart DEF Fields
<1>7. QED
  BY <1>4, <1>5, <1>6 DEF t, Skipped

\* A number or a flag: the value of the varint as the field holds it.
ScalarValue(f, v, x) ==
  /\ f.kind = "uint64" => x = v
  /\ f.kind = "uint32" => x = v % Pow2[Half]
  /\ f.kind = "bool" => x = (v # 0)

\* A number or a truth value that was written carries a message to the same with that value.
LEMMA ScalarCarries ==
  ASSUME NEW A, NEW kind, NEW a, NEW x, NEW f, NEW v,
         f \in Fields(kind), IsScalar(f), v \in Uint64Values, ScalarValue(f, v, x)
  PROVE  Carries(A, kind, <<TagOf(f, 0)>> \o Varint(v), a, [a EXCEPT ![f.name] = x])
<1> DEFINE tag == TagOf(f, 0)
           w == <<tag>> \o Varint(v)
           b == [a EXCEPT ![f.name] = x]
<1>1. SUFFICES ASSUME NEW field, NEW data, NEW at, NEW end, NEW g,
                      Stored(data, at, w), end \in 0..Len(data), at + Len(w) <= end,
                      Decodes(A, Call(kind, field, b, data, at + Len(w), end), g)
               PROVE  Decodes(A, Call(kind, field, a, data, at, end), g)
  BY DEF Carries
<1> DEFINE c == Call(kind, field, a, data, at, end)
           t == [num |-> f.num, type |-> 0, at |-> at + 1]
           post == (at + 1) + Sov(v)
           n == Call(kind, field, b, data, post, end)
<1>2. tag \in Byte
  BY NumbersDistinct, TagOfByte
<1>3. Varint(v) \in Seq(Byte) /\ Len(Varint(v)) = Sov(v) /\ Sov(v) \in Nat
  BY UintValues, VarintBytes
<1>4. <<tag>> \in Seq(Byte) /\ Len(<<tag>>) = 1
  BY <1>2, TagBytes
<1> HIDE DEF tag
<1>5. /\ Stored(data, at, <<tag>>) /\ Stored(data, at + 1, Varint(v))
      /\ at \in Nat /\ Len(data) \in Nat /\ Len(w) = 1 + Sov(v)
  BY <1>1, <1>3, <1>4, StoredParts, StoredFacts, Concat
<1>6. at + Len(w) = post /\ post <= end /\ post > at
  BY <1>1, <1>3, <1>5
<1> HIDE DEF w
<1>7. /\ c.kind = kind /\ c.data = data /\ c.at = at /\ c.end = end /\ c.val = a
      /\ \A y, i : Moved(c, y, i) = Call(kind, field, y, data, i, end)
  BY CallParts
<1> HIDE DEF c
<1>8. /\ Tags(c) = {t} /\ Case(c, t) = {f} /\ ~Skipped(c, t)
      /\ c.kind \notin {"external", "MapEntry", "skip"}
  <2> DEFINE z == 0
  <2>1. f \in Fields(c.kind) /\ z \in 0..5 /\ z # 4 /\ Stored(c.data, c.at, <<TagOf(f, z)>>)
    BY <1>2, <1>5, <1>7 DEF tag
  <2> HIDE DEF z, t
  <2>2. LET r == [num |-> f.num, type |-> z, at |-> c.at + 1]
        IN  /\ Tags(c) = {r} /\ Case(c, r) = {f} /\ ~Skipped(c, r)
            /\ c.kind \notin {"external", "MapEntry", "skip"}
    BY <2>1, TagOfField
  <2>3. QED
    BY <1>7, <2>2 DEF z, t
<1>9. Scalars(c, t, f) = {[value |-> x, at |-> post]}
  <2> DEFINE r == [value |-> v, at |-> post]
  <2>1. ReadVarint(c.data, t.at) = {r} /\ t.type = 0
    <3>1. ReadVarint(data, at + 1) = {[value |-> v, at |-> (at + 1) + Sov(v)]}
      BY <1>5, VarintIsRead
    <3>2. QED
      BY <1>7, <3>1
  <2>2. (CASE f.kind = "uint64" -> r.value
           [] f.kind = "uint32" -> r.value % Pow2[Half]
           [] f.kind = "bool" -> r.value # 0) = x
    <3>1. r.value = v
      OBVIOUS
    <3> HIDE DEF r
    <3>2. CASE f.kind = "uint64"
      <4>1. f.kind # "uint32" /\ f.kind # "bool" /\ x = v
        BY <3>2 DEF ScalarValue
      <4>2. QED
        BY <3>1, <3>2, <4>1, Zenon
    <3>3. CASE f.kind = "uint32"
      <4>1. f.kind # "uint64" /\ f.kind # "bool" /\ x = v % Pow2[Half]
        BY <3>3 DEF ScalarValue
      <4>2. QED
        BY <3>1, <3>3, <4>1, Zenon
    <3>4. CASE f.kind = "bool"
      <4>1. f.kind # "uint64" /\ f.kind # "uint32" /\ x = (v # 0)
        BY <3>4 DEF ScalarValue
      <4>2. QED
        BY <3>1, <3>4, <4>1, Zenon
    <3>5. QED
      BY <3>2, <3>3, <3>4 DEF IsScalar
  <2>3. r.at = post
    OBVIOUS
  <2>4. {q \in ReadVarint(c.data, t.at) : t.type = 0} = {r}
    BY <2>1
  <2> HIDE DEF r, t, post
  <2>5. QED
    BY <2>2, <2>3, <2>4, Zenon DEF Scalars
<1> HIDE DEF t, post, b, n
<1>10. ~Stuck(c)
  BY <1>8, <1>9 DEF Stuck
<1>11. \A m, d : ~Makes(c, m, d)
  <2>1. \A m, d : ~MakesNested(c, t, m, d) /\ ~MakesEntry(c, t, m, d)
    BY <1>8 DEF MakesNested, MakesEntry, IsScalar
  <2>2. \A m, d : ~MakesSkip(c, t, m, d)
    BY <1>8 DEF MakesSkip
  <2>3. QED
    BY <1>8, <2>1, <2>2 DEF Makes
<1>12. Moved(c, b, post) = n
  BY <1>7 DEF n
<1>13. \A d : GoesOn(c, d) => d = n
  <2>1. \A d : ~GoesKey(c, t, d) /\ ~GoesValue(c, t, d)
    BY <1>8 DEF GoesKey, GoesValue
  <2>2. \A d : ~GoesString(c, t, d)
    BY <1>8 DEF GoesString, IsScalar
  <2>3. ASSUME NEW d, GoesScalar(c, t, d) PROVE d = n
    <3>1. PICK h \in Case(c, t) : \E r \in Scalars(c, t, h) :
            d = Moved(c, [c.val EXCEPT ![h.name] = r.value], r.at)
      BY <2>3 DEF GoesScalar
    <3>2. h = f
      BY <1>8
    <3>3. PICK r \in Scalars(c, t, f) : d = Moved(c, [c.val EXCEPT ![f.name] = r.value], r.at)
      BY <3>1, <3>2
    <3>4. r.value = x /\ r.at = post
      BY <1>9
    <3>5. QED
      BY <1>7, <1>12, <3>3, <3>4 DEF b
  <2>4. QED
    BY <1>8, <2>1, <2>2, <2>3 DEF GoesOn
<1>14. ~(c.at >= c.end) /\ c.kind # "skip" /\ c.kind # "external"
  BY <1>1, <1>5, <1>6, <1>7, <1>8 DEF post
<1>15. Decodes(A, n, g)
  BY <1>1, <1>6 DEF n
<1>16. Decodes(A, c, g)
  BY <1>10, <1>11, <1>13, <1>14, <1>15, DecodesOn
<1>17. QED
  BY <1>16 DEF c

-----------------------------------------------------------------------------
(* Nested messages: the call that is made and the one that goes on after it. *)

\* A call meets the tag of a field and its bytes w, which are in d.
Opens(c, f, w, t, d) ==
  /\ Tags(c) = {t} /\ Case(c, t) = {f} /\ ~Skipped(c, t) /\ t.type = 2
  /\ c.kind \notin {"external", "MapEntry", "skip"}
  /\ Contents(c, t) = {d} /\ Slice(c.data, d) = w /\ Stored(c.data, d.from, w)
  /\ d.post = c.at + Len(Delimited(TagOf(f, 2), w)) /\ d.post = d.from + Len(w)
  /\ c.at < d.post /\ c.at \in Nat /\ d.post \in 0..Len(c.data)

\* Where the tag of a field and its bytes are, they are what the call meets.
LEMMA OpensField ==
  ASSUME NEW c, NEW f, NEW w, f \in Fields(c.kind), w \in Seq(Byte),
         Stored(c.data, c.at, Delimited(TagOf(f, 2), w)), Addressable(c.data)
  PROVE  \E t, d : Opens(c, f, w, t, d)
<1> DEFINE tag == TagOf(f, 2)
           n == Len(w)
           z == 2
           t == [num |-> f.num, type |-> z, at |-> c.at + 1]
           from == (c.at + 1) + Sov(n)
           d == [from |-> from, post |-> from + n]
<1>1. z \in 0..5 /\ z # 4 /\ tag = TagOf(f, z) /\ tag \in Byte
  BY NumbersDistinct, TagOfByte
<1>2. n \in Nat
  BY LenProperties
<1>3. Varint(n) \in Seq(Byte) /\ Len(Varint(n)) = Sov(n) /\ Sov(n) \in Nat
  BY <1>2, VarintBytes
<1>4. <<tag>> \in Seq(Byte) /\ Len(<<tag>>) = 1
  BY <1>1, TagBytes
<1> HIDE DEF tag
<1>5. /\ <<tag>> \o Varint(n) \in Seq(Byte) /\ Len(<<tag>> \o Varint(n)) = 1 + Sov(n)
      /\ Len(Delimited(tag, w)) = (1 + Sov(n)) + n
  BY <1>3, <1>4, Concat DEF Delimited
<1>6. /\ Stored(c.data, c.at, <<tag>> \o Varint(n))
      /\ Stored(c.data, c.at + (1 + Sov(n)), w)
  <2>1. Stored(c.data, c.at, (<<tag>> \o Varint(n)) \o w)
    BY DEF Delimited, tag
  <2>2. QED
    BY <1>5, <2>1, StoredParts
<1>7. Stored(c.data, c.at, <<tag>>) /\ Stored(c.data, c.at + 1, Varint(n)) /\ c.at \in Nat
  <2>1. Stored(c.data, c.at, <<tag>>) /\ Stored(c.data, c.at + Len(<<tag>>), Varint(n))
    BY <1>3, <1>4, <1>6, StoredParts
  <2>2. QED
    BY <1>4, <2>1, StoredFacts
<1>8. c.at + (1 + Sov(n)) = from
  BY <1>3, <1>7
<1>9. Stored(c.data, from, w)
  BY <1>6, <1>8
<1>10. Stored(c.data, c.at + 1, Varint(n) \o w)
  BY <1>3, <1>7, <1>9, StoredParts
<1> HIDE DEF n, z, t, from
<1>11. /\ Tags(c) = {t} /\ Case(c, t) = {f} /\ ~Skipped(c, t)
       /\ c.kind \notin {"external", "MapEntry", "skip"}
  BY <1>1, <1>7, TagOfField DEF t
<1>12. t.type = 2 /\ t.at = c.at + 1
  BY DEF t, z
<1>13. /\ ReadDelimited(c.data, c.at + 1) = {d}
       /\ from \in 0..Len(c.data) /\ from + n \in 0..Len(c.data) /\ c.at + 1 < from + n
       /\ Slice(c.data, d) = w
  <2>1. Len(c.data) < Pow2[Word - 1]
    BY DEF Addressable
  <2>2. QED
    BY <1>10, <2>1, DelimitedIsRead DEF from, n
<1>14. d.from = from /\ d.post = from + n
  OBVIOUS
<1> HIDE DEF d
<1>15. Contents(c, t) = {d}
  BY <1>12, <1>13 DEF Contents
<1>16. d.post = c.at + Len(Delimited(tag, w)) /\ c.at < d.post
  <2>1. c.at + ((1 + Sov(n)) + n) = from + n
    BY <1>2, <1>3, <1>7 DEF from
  <2>2. c.at < from + n
    BY <1>2, <1>7, <1>13
  <2>3. QED
    BY <1>5, <1>14, <2>1, <2>2
<1>17. Opens(c, f, w, t, d)
  BY <1>7, <1>9, <1>11, <1>12, <1>13, <1>14, <1>15, <1>16 DEF n, tag, Opens
<1>18. QED
  BY <1>17

IsString(f) == f.kind \in {"bytes", "bytes list"}

\* A string, bytes or one of a list of bytes.
LEMMA StringCarries ==
  ASSUME NEW A, NEW kind, NEW a, NEW f, NEW w, f \in Fields(kind), w \in Seq(Byte), IsString(f)
  PROVE  Carries(A, kind, Delimited(TagOf(f, 2), w), a,
                 [a EXCEPT ![f.name] = IF f.kind = "bytes" THEN w ELSE Append(a[f.name], w)])
<1> DEFINE x == IF f.kind = "bytes" THEN w ELSE Append(a[f.name], w)
           b == [a EXCEPT ![f.name] = x]
           u == Delimited(TagOf(f, 2), w)
<1> HIDE DEF x, b, u
<1>1. SUFFICES ASSUME NEW field, NEW data, NEW at, NEW end, NEW g,
                      Stored(data, at, u), Addressable(data), end \in 0..Len(data),
                      at + Len(u) <= end, Decodes(A, Call(kind, field, b, data, at + Len(u), end), g)
               PROVE  Decodes(A, Call(kind, field, a, data, at, end), g)
  BY DEF Carries, u, x, b
<1> DEFINE c == Call(kind, field, a, data, at, end)
<1>2. /\ c.kind = kind /\ c.data = data /\ c.at = at /\ c.end = end /\ c.val = a
      /\ \A y, i : Moved(c, y, i) = Call(kind, field, y, data, i, end)
  BY DEF Call, Moved
<1> HIDE DEF c
<1>3. PICK t, d : Opens(c, f, w, t, d)
  <2>1. f \in Fields(c.kind) /\ Stored(c.data, c.at, Delimited(TagOf(f, 2), w)) /\ Addressable(c.data)
    BY <1>1, <1>2 DEF u
  <2>2. QED
    BY <2>1, OpensField
<1>4. /\ Tags(c) = {t} /\ Case(c, t) = {f} /\ ~Skipped(c, t) /\ t.type = 2
      /\ c.kind \notin {"external", "MapEntry", "skip"}
      /\ Contents(c, t) = {d} /\ Slice(c.data, d) = w
  BY <1>3 DEF Opens
<1>5. d.post = at + Len(u) /\ at < d.post /\ at \in Nat /\ d.post \in 0..Len(data)
  BY <1>2, <1>3 DEF Opens, u
<1> DEFINE n == Moved(c, b, d.post)
<1> HIDE DEF n
<1>6. ~Stuck(c)
  BY <1>4 DEF Stuck, IsScalar, IsString
<1>7. \A m, e : ~Makes(c, m, e)
  <2>1. \A m, e : ~MakesNested(c, t, m, e) /\ ~MakesEntry(c, t, m, e)
    BY <1>4 DEF MakesNested, MakesEntry, IsString
  <2>2. \A m, e : ~MakesSkip(c, t, m, e)
    BY <1>4 DEF MakesSkip
  <2>3. QED
    BY <1>4, <2>1, <2>2 DEF Makes
<1>8. \A e : GoesOn(c, e) => e = n
  <2>1. \A e : ~GoesKey(c, t, e) /\ ~GoesValue(c, t, e) /\ ~GoesScalar(c, t, e)
    BY <1>4 DEF GoesKey, GoesValue, GoesScalar, IsScalar, IsString
  <2>2. \A e : GoesString(c, t, e) => e = n
    BY <1>2, <1>4 DEF GoesString, n, b, x
  <2>3. QED
    BY <1>4, <2>1, <2>2 DEF GoesOn
<1>9. ~(c.at >= c.end) /\ c.kind # "skip" /\ c.kind # "external"
  BY <1>1, <1>2, <1>4, <1>5
<1>10. Decodes(A, n, g)
  BY <1>1, <1>2, <1>5 DEF n
<1>11. Decodes(A, c, g)
  BY <1>6, <1>7, <1>8, <1>9, <1>10, DecodesOn
<1>12. QED
  BY <1>11 DEF c

\* A nested message of a field may be in A, if it is an external one.
Nests(A, f, w) ==
  /\ f.kind \in {"message", "message list", "external", "duration"}
  /\ f.of # "skip" /\ (f.of = "external" => w \in A.takes)

\* A nested message, from what its Unmarshal starts with to what it returns.
LEMMA NestedCarries ==
  ASSUME NEW A, NEW kind, NEW a, NEW f, NEW w, NEW x, f \in Fields(kind), w \in Seq(Byte),
         Nests(A, f, w), Carries(A, f.of, w, Started(f, a[f.name]), x)
  PROVE  Carries(A, kind, Delimited(TagOf(f, 2), w), a,
                 [a EXCEPT ![f.name] = Filled(a[f.name], [field |-> f, val |-> x])])
<1> DEFINE y == Filled(a[f.name], [field |-> f, val |-> x])
           b == [a EXCEPT ![f.name] = y]
           u == Delimited(TagOf(f, 2), w)
<1> HIDE DEF y, b, u
<1>1. SUFFICES ASSUME NEW field, NEW data, NEW at, NEW end, NEW g,
                      Stored(data, at, u), Addressable(data), end \in 0..Len(data),
                      at + Len(u) <= end, Decodes(A, Call(kind, field, b, data, at + Len(u), end), g)
               PROVE  Decodes(A, Call(kind, field, a, data, at, end), g)
  BY DEF Carries, u, y, b
<1> DEFINE c == Call(kind, field, a, data, at, end)
<1>2. /\ c.kind = kind /\ c.data = data /\ c.at = at /\ c.end = end /\ c.val = a
      /\ \A z, i : Moved(c, z, i) = Call(kind, field, z, data, i, end)
  BY DEF Call, Moved
<1> HIDE DEF c
<1>3. PICK t, d : Opens(c, f, w, t, d)
  <2>1. f \in Fields(c.kind) /\ Stored(c.data, c.at, Delimited(TagOf(f, 2), w)) /\ Addressable(c.data)
    BY <1>1, <1>2 DEF u
  <2>2. QED
    BY <2>1, OpensField
<1>4. /\ Tags(c) = {t} /\ Case(c, t) = {f} /\ ~Skipped(c, t) /\ t.type = 2
      /\ c.kind \notin {"external", "MapEntry", "skip"}
      /\ Contents(c, t) = {d} /\ Slice(c.data, d) = w
  BY <1>3 DEF Opens
<1>5. d.post = at + Len(u) /\ at < d.post /\ at \in Nat /\ d.post \in 0..Len(data)
  BY <1>2, <1>3 DEF Opens, u
<1> DEFINE m == Moved(c, a, d.post)
           n == Call(f.of, f, Started(f, a[f.name]), w, 0, Len(w))
           r == Call(kind, field, b, data, at + Len(u), end)
<1>6. n.kind = f.of /\ n.field = f
  BY DEF Call
<1>7. /\ m.val = a /\ m.at = d.post /\ \A z, i : Moved(m, z, i) = Moved(c, z, i)
  BY DEF Moved, Call
<1> HIDE DEF m, n, r
<1>8. ~Stuck(c)
  BY <1>4 DEF Stuck, IsScalar, Nests
<1>9. \A e : ~GoesOn(c, e)
  <2>1. \A e : ~GoesKey(c, t, e) /\ ~GoesValue(c, t, e)
    BY <1>4 DEF GoesKey, GoesValue
  <2>2. \A e : ~GoesScalar(c, t, e) /\ ~GoesString(c, t, e)
    BY <1>4 DEF GoesScalar, GoesString, IsScalar, Nests
  <2>3. QED
    BY <1>4, <2>1, <2>2 DEF GoesOn
<1>10. \A z, e : Makes(c, z, e) => z = m /\ e = n
  <2>1. \A z, e : ~MakesEntry(c, t, z, e) /\ ~MakesSkip(c, t, z, e)
    BY <1>4 DEF MakesEntry, MakesSkip, Nests
  <2>2. \A z, e : MakesNested(c, t, z, e) => z = m /\ e = n
    BY <1>2, <1>4 DEF MakesNested, m, n
  <2>3. QED
    BY <1>4, <2>1, <2>2 DEF Makes
<1>11. ~(c.at >= c.end) /\ c.kind # "skip" /\ c.kind # "external"
  BY <1>1, <1>2, <1>4, <1>5
<1>12. Addressable(w)
  <2>1. Stored(data, d.from, w)
    BY <1>2, <1>3 DEF Opens
  <2>2. Len(w) <= Len(data) /\ Len(w) \in Nat /\ Len(data) \in Nat
    <3>1. /\ d.from \in Nat /\ Len(w) \in Nat /\ Len(data) \in Nat
          /\ d.from + Len(w) \in 0..Len(data)
      BY <2>1, StoredFacts
    <3>2. QED
      BY <3>1
  <2>3. Len(data) < Pow2[Word - 1] /\ Pow2[Word - 1] \in Nat
    <3>1. Word - 1 \in 0..Word
      BY WireAssumption
    <3>2. QED
      BY <1>1, <3>1, PowPositive DEF Addressable
  <2>4. QED
    BY <2>2, <2>3 DEF Addressable
<1>13. Decodes(A, n, x)
  BY <1>12, CarriesWhole DEF n, Nests
<1>14. After(m, n, x) = {r}
  <2>1. n.kind # "skip"
    BY <1>6 DEF Nests
  <2>2. Moved(m, [m.val EXCEPT ![n.field.name] =
                    Filled(m.val[n.field.name], [field |-> n.field, val |-> x])], m.at) = r
    BY <1>2, <1>5, <1>6, <1>7 DEF r, b, y
  <2>3. QED
    BY <2>1, <2>2 DEF After
<1>15. Decodes(A, r, g)
  BY <1>1 DEF r
<1>16. Decodes(A, c, g)
  BY <1>8, <1>9, <1>10, <1>11, <1>13, <1>14, <1>15, DecodesMake
<1>17. QED
  BY <1>16 DEF c

-----------------------------------------------------------------------------
(* Entries of a map.                                                       *)

\* A number and its half.
LEMMA Halves ==
  ASSUME NEW v \in Nat, NEW p \in Nat \ {0}
  PROVE  LET q == v \div p
         IN  /\ q \in Nat /\ v \div (2 * p) = q \div 2
             /\ p * q = (IF q % 2 = 1 THEN p ELSE 0) + (2 * p) * (q \div 2)
<1> DEFINE q == v \div p
           h == q \div 2
<1>1. q \in Nat /\ v % p \in 0..(p - 1) /\ v = p * q + (v % p)
  BY DivMod
<1> HIDE DEF q
<1>2. h \in Nat /\ q % 2 \in 0..1 /\ q = 2 * h + (q % 2)
  BY <1>1
<1> HIDE DEF h
<1>3. p * q = (IF q % 2 = 1 THEN p ELSE 0) + (2 * p) * h
  <2>1. CASE q % 2 = 1
    <3>1. p * q = p * (2 * h + 1)
      BY <1>2, <2>1
    <3>2. p * (2 * h + 1) = p + (2 * p) * h
      BY <1>2
    <3>3. QED
      BY <2>1, <3>1, <3>2
  <2>2. CASE q % 2 = 0
    <3>1. p * q = p * (2 * h)
      BY <1>2, <2>2
    <3>2. p * (2 * h) = 0 + (2 * p) * h
      BY <1>2
    <3>3. QED
      BY <2>2, <3>1, <3>2
  <2>3. QED
    BY <1>2, <2>1, <2>2
<1>4. v \div (2 * p) = h
  <2> DEFINE m == 2 * p
             x == h * m
  <2>1. m \in Nat \ {0} /\ x \in Nat /\ (2 * p) * h = x
    BY <1>2
  <2>2. v = ((IF q % 2 = 1 THEN p ELSE 0) + x) + (v % p)
    BY <1>1, <1>3, <2>1
  <2> HIDE DEF x
  <2>3. x <= v /\ v < x + m
    BY <1>1, <2>1, <2>2
  <2>4. h * m <= v /\ v < h * m + m
    BY <2>3 DEF x
  <2> HIDE DEF m
  <2>5. v \div m = h
    BY <1>2, <2>1, <2>4, QuotientIs
  <2>6. QED
    BY <2>5 DEF m
<1>5. QED
  BY <1>1, <1>3, <1>4 DEF q, h

\* A value that is joined to zero stays what it is.
LEMMA OrZero == \A v \in Uint64Values : Or(0, v) = v
<1>1. SUFFICES ASSUME NEW v \in Uint64Values PROVE Or(0, v) = v
  OBVIOUS
<1> DEFINE g == [i \in 0..(Word - 1) |->
                   IF (0 \div Pow2[i]) % 2 = 1 \/ (v \div Pow2[i]) % 2 = 1 THEN Pow2[i] ELSE 0]
           Sum(n) == SumFunctionOnSet(g, 0..(n - 1))
           S == {n \in Nat : n <= Word => Sum(n) \in Nat /\ Sum(n) + Pow2[n] * (v \div Pow2[n]) = v}
<1>2. v \in Nat /\ Word \in Nat
  BY UintValues, WireAssumption
<1>3. ASSUME NEW i \in 0..(Word - 1)
      PROVE  g[i] = (IF (v \div Pow2[i]) % 2 = 1 THEN Pow2[i] ELSE 0) /\ g[i] \in Nat
  <2>1. Pow2[i] \in Nat \ {0}
    BY PowPositive, WireAssumption
  <2>2. (0 \div Pow2[i]) % 2 = 0
    <3>1. 0 \div Pow2[i] = 0
      BY <2>1
    <3>2. QED
      BY <3>1
  <2>3. g[i] = (IF (v \div Pow2[i]) % 2 = 1 THEN Pow2[i] ELSE 0)
    BY <2>2
  <2> HIDE DEF g
  <2>4. QED
    BY <2>1, <2>3
<1>4. DOMAIN g = 0..(Word - 1) /\ Or(0, v) = Sum(Word)
  BY DEF Or, SumFunction
<1> HIDE DEF g
<1>5. 0 \in S
  <2>1. 0..(0 - 1) = {} /\ Pow2[0] = 1 /\ v \div 1 = v /\ 0 + 1 * v = v
    BY <1>2, PowRecursion, WireAssumption
  <2>2. Sum(0) = 0
    BY <2>1, SumEmpty
  <2>3. QED
    BY <2>1, <2>2
<1>6. ASSUME NEW n \in Nat, n \in S PROVE n + 1 \in S
  <2> DEFINE p == Pow2[n]
             q == v \div p
             e == IF q % 2 = 1 THEN p ELSE 0
  <2>1. SUFFICES ASSUME n + 1 <= Word
                 PROVE  Sum(n + 1) \in Nat /\ Sum(n + 1) + Pow2[n + 1] * (v \div Pow2[n + 1]) = v
    OBVIOUS
  <2>2. n <= Word
    BY <1>2, <2>1
  <2>3. Sum(n) \in Nat /\ Sum(n) + p * q = v
    BY <1>6, <2>2
  <2>4. /\ 0..((n + 1) - 1) = (0..(n - 1)) \cup {n} /\ n \notin 0..(n - 1)
        /\ \A x \in (0..(n - 1)) \cup {n} : x \in 0..(Word - 1)
    BY <1>2, <2>1
  <2>5. IsFiniteSet(0..(n - 1))
    BY FS_Interval
  <2>6. Sum(n + 1) = g[n] + Sum(n)
    BY <1>3, <2>4, <2>5, SumAdd
  <2>7. Pow2[n + 1] = 2 * p /\ p \in Nat \ {0}
    <3>1. n + 1 \in 0..Word /\ n + 1 # 0 /\ n \in 0..Word /\ (n + 1) - 1 = n
      BY <1>2, <2>1
    <3>2. Pow2[n + 1] = 2 * Pow2[(n + 1) - 1]
      BY ONLY <3>1, PowRecursion
    <3>3. QED
      BY ONLY <3>1, <3>2, PowPositive
  <2>8. g[n] = e /\ n \in 0..(Word - 1)
    BY <1>3, <2>4
  <2> HIDE DEF p
  <2>9. v \div (2 * p) = q \div 2 /\ p * q = e + (2 * p) * (q \div 2) /\ e \in Nat /\ q \in Nat
    BY <1>2, <2>7, Halves
  <2> DEFINE x == (2 * p) * (q \div 2)
             s == Sum(n)
  <2>10. Pow2[n + 1] * (v \div Pow2[n + 1]) = x
    BY <2>7, <2>9
  <2>11. x \in Nat
    <3>1. 2 * p \in Nat /\ q \div 2 \in Nat
      BY <2>7, <2>9
    <3>2. QED
      BY <3>1, ProductNat
  <2>12. s \in Nat /\ s + (e + x) = v
    BY <2>3, <2>9 DEF p
  <2>13. Sum(n + 1) = e + s
    BY <2>6, <2>8
  <2> HIDE DEF x, s, e, q
  <2>14. e + s \in Nat /\ (e + s) + x = v
    BY <2>9, <2>11, <2>12
  <2>15. QED
    BY <2>10, <2>13, <2>14
<1>7. Word \in S
  <2> HIDE DEF S
  <2>1. \A n \in Nat : n \in S
    BY <1>5, <1>6, Induction
  <2>2. QED
    BY <1>2, <2>1
<1>8. v \div Pow2[Word] = 0 /\ Pow2[Word] * 0 = 0
  <2>1. Pow2[Word] \in Nat \ {0} /\ v < Pow2[Word]
    BY <1>2, PowPositive DEF Uint64Values
  <2> DEFINE p == Pow2[Word]
  <2> HIDE DEF p
  <2>2. 0 * p <= v /\ v < 0 * p + p /\ p * 0 = 0
    BY <1>2, <2>1 DEF p
  <2>3. v \div p = 0
    BY <1>2, <2>1, <2>2, QuotientIs DEF p
  <2>4. QED
    BY <2>2, <2>3 DEF p
<1>9. QED
  <2> HIDE DEF Sum
  <2>1. Sum(Word) \in Nat /\ Sum(Word) + Pow2[Word] * (v \div Pow2[Word]) = v
    BY <1>2, <1>7
  <2>2. Sum(Word) + 0 = v
    BY <1>8, <2>1
  <2>3. QED
    BY <1>4, <2>1, <2>2

\* The tags in a map entry: nothing else is looked at.
LEMMA TagOfEntry ==
  ASSUME NEW c, NEW num, NEW type, num \in 1..2, type \in 0..5, c.kind = "MapEntry",
         Stored(c.data, c.at, <<Tag(num, type)>>)
  PROVE  LET t == [num |-> num, type |-> type, at |-> c.at + 1]
         IN  Tags(c) = {t} /\ Case(c, t) = {} /\ ~Skipped(c, t)
<1> DEFINE t == [num |-> num, type |-> type, at |-> c.at + 1]
<1>1. num \in 1..15
  OBVIOUS
<1>2. ReadTag(c.data, c.at) = {t}
  BY <1>1, TagIsRead
<1>3. t.num = num
  OBVIOUS
<1> HIDE DEF t
<1>4. Tags(c) = {t}
  BY <1>2 DEF Tags
<1>5. Case(c, t) = {}
  BY KindsApart DEF Case, Fields
<1>6. ~Skipped(c, t)
  <2>1. t.num \in {1, 2}
    BY <1>3
  <2>2. QED
    BY <2>1 DEF Skipped
<1>7. QED
  BY <1>4, <1>5, <1>6 DEF t

\* The key of an entry.
LEMMA KeyCarries ==
  ASSUME NEW A, NEW e, NEW key, key \in Seq(Byte)
  PROVE  Carries(A, "MapEntry", Delimited(10, key), e, [key |-> key, value |-> e.value])
<1> DEFINE b == [key |-> key, value |-> e.value]
           tag == 10
           u == Delimited(tag, key)
           l == Len(key)
<1>1. /\ Varint(l) \in Seq(Byte) /\ Len(Varint(l)) = Sov(l) /\ Sov(l) \in Nat /\ l \in Nat
      /\ <<tag>> \in Seq(Byte) /\ Len(<<tag>>) = 1
  <2>1. tag \in Byte /\ l \in Nat
    BY LenProperties DEF Byte
  <2>2. QED
    BY <2>1, VarintBytes, TagBytes
<1>2. /\ <<tag>> \o Varint(l) \in Seq(Byte) /\ Len(<<tag>> \o Varint(l)) = 1 + Sov(l)
      /\ Len(u) = (1 + Sov(l)) + l
  BY <1>1, Concat DEF Delimited
<1> HIDE DEF b, u, l, tag
<1>3. SUFFICES ASSUME NEW field, NEW data, NEW at, NEW end, NEW g,
                      Stored(data, at, u), Addressable(data), end \in 0..Len(data), at + Len(u) <= end,
                      Decodes(A, Call("MapEntry", field, b, data, at + Len(u), end), g)
               PROVE  Decodes(A, Call("MapEntry", field, e, data, at, end), g)
  BY DEF Carries, u, b, tag
<1> DEFINE c == Call("MapEntry", field, e, data, at, end)
           from == (at + 1) + Sov(l)
           d == [from |-> from, post |-> from + l]
           t == [num |-> 1, type |-> 2, at |-> at + 1]
<1>4. /\ c.kind = "MapEntry" /\ c.data = data /\ c.at = at /\ c.end = end /\ c.val = e
      /\ \A z, i : Moved(c, z, i) = Call("MapEntry", field, z, data, i, end)
  BY DEF Call, Moved
<1> HIDE DEF c
<1>5. /\ Stored(data, at, <<tag>>) /\ Stored(data, at + 1, Varint(l) \o key)
      /\ at \in Nat /\ at + Len(u) = from + l
  <2>1. Stored(data, at, (<<tag>> \o Varint(l)) \o key)
    BY <1>3 DEF u, Delimited, l
  <2>2. Stored(data, at, <<tag>> \o Varint(l)) /\ Stored(data, at + (1 + Sov(l)), key)
    BY <1>2, <2>1, StoredParts
  <2>3. /\ Stored(data, at, <<tag>>) /\ Stored(data, at + 1, Varint(l)) /\ at \in Nat
    <3>1. Stored(data, at, <<tag>>) /\ Stored(data, at + Len(<<tag>>), Varint(l))
      BY <1>1, <2>2, StoredParts
    <3>2. QED
      BY <1>1, <3>1, StoredFacts
  <2>4. at + (1 + Sov(l)) = (at + 1) + Sov(l)
    BY <1>1, <2>3
  <2>5. Stored(data, at + 1, Varint(l) \o key)
    BY <1>1, <2>2, <2>3, <2>4, StoredParts
  <2>6. at + Len(u) = from + l
    BY <1>1, <1>2, <2>3
  <2>7. QED
    BY <2>3, <2>5, <2>6
<1>6. /\ ReadDelimited(data, at + 1) = {d} /\ Slice(data, d) = key
      /\ from + l \in 0..Len(data) /\ at + 1 < from + l
  <2>1. Len(data) < Pow2[Word - 1]
    BY <1>3 DEF Addressable
  <2>2. QED
    BY <1>5, <2>1, DelimitedIsRead DEF l
<1>7. Tags(c) = {t} /\ Case(c, t) = {} /\ ~Skipped(c, t)
  <2> DEFINE n == 1
             z == 2
  <2>1. n \in 1..2 /\ z \in 0..5 /\ Tag(n, z) = tag
    BY DEF tag, Tag
  <2> HIDE DEF n, z
  <2>2. Stored(c.data, c.at, <<Tag(n, z)>>)
    BY <1>4, <1>5, <2>1
  <2>3. LET r == [num |-> n, type |-> z, at |-> c.at + 1]
        IN  Tags(c) = {r} /\ Case(c, r) = {} /\ ~Skipped(c, r)
    BY <1>4, <2>1, <2>2, TagOfEntry
  <2>4. QED
    BY <1>4, <2>3 DEF n, z
<1>8. t.num = 1 /\ t.at = at + 1 /\ d.post = from + l
  OBVIOUS
<1> HIDE DEF t, d, from
<1> DEFINE n == Moved(c, b, d.post)
<1> HIDE DEF n
<1>9. ~Stuck(c)
  BY <1>4, <1>6, <1>7, <1>8 DEF Stuck
<1>10. \A m, h : ~Makes(c, m, h)
  <2>1. \A m, h : ~MakesNested(c, t, m, h) /\ ~MakesEntry(c, t, m, h) /\ ~MakesSkip(c, t, m, h)
    BY <1>7 DEF MakesNested, MakesEntry, MakesSkip
  <2>2. QED
    BY <1>7, <2>1 DEF Makes
<1>11. \A h : GoesOn(c, h) => h = n
  <2>1. \A h : ~GoesScalar(c, t, h) /\ ~GoesString(c, t, h) /\ ~GoesValue(c, t, h)
    BY <1>7, <1>8 DEF GoesScalar, GoesString, GoesValue
  <2>2. \A h : GoesKey(c, t, h) => h = n
    BY <1>4, <1>6, <1>8 DEF GoesKey, n, b
  <2>3. QED
    BY <1>7, <2>1, <2>2 DEF GoesOn
<1>12. ~(c.at >= c.end) /\ c.kind # "skip" /\ c.kind # "external"
  BY <1>3, <1>4, <1>5, <1>6
<1>13. Decodes(A, n, g)
  BY <1>3, <1>4, <1>5, <1>8 DEF n
<1>14. Decodes(A, c, g)
  BY <1>9, <1>10, <1>11, <1>12, <1>13, DecodesOn
<1>15. QED
  BY <1>14 DEF c

\* The value of an entry.
LEMMA ValueCarries ==
  ASSUME NEW A, NEW e, NEW v, v \in Uint64Values
  PROVE  Carries(A, "MapEntry", <<16>> \o Varint(v), e, [key |-> e.key, value |-> Or(e.value, v)])
<1> DEFINE b == [key |-> e.key, value |-> Or(e.value, v)]
           tag == 16
           u == <<tag>> \o Varint(v)
<1>1. /\ Varint(v) \in Seq(Byte) /\ Len(Varint(v)) = Sov(v) /\ Sov(v) \in Nat
      /\ <<tag>> \in Seq(Byte) /\ Len(<<tag>>) = 1
  <2>1. tag \in Byte /\ v \in Nat
    BY UintValues DEF Byte
  <2>2. QED
    BY <2>1, VarintBytes, TagBytes
<1>2. Len(u) = 1 + Sov(v)
  BY <1>1, Concat
<1> HIDE DEF b, u, tag
<1>3. SUFFICES ASSUME NEW field, NEW data, NEW at, NEW end, NEW g,
                      Stored(data, at, u), end \in 0..Len(data), at + Len(u) <= end,
                      Decodes(A, Call("MapEntry", field, b, data, at + Len(u), end), g)
               PROVE  Decodes(A, Call("MapEntry", field, e, data, at, end), g)
  BY DEF Carries, u, b, tag
<1> DEFINE c == Call("MapEntry", field, e, data, at, end)
           post == (at + 1) + Sov(v)
           r == [value |-> v, at |-> post]
           t == [num |-> 2, type |-> 0, at |-> at + 1]
<1>4. /\ c.kind = "MapEntry" /\ c.data = data /\ c.at = at /\ c.end = end /\ c.val = e
      /\ \A z, i : Moved(c, z, i) = Call("MapEntry", field, z, data, i, end)
  BY DEF Call, Moved
<1> HIDE DEF c
<1>5. /\ Stored(data, at, <<tag>>) /\ Stored(data, at + 1, Varint(v)) /\ at \in Nat
  <2>1. Stored(data, at, <<tag>>) /\ Stored(data, at + Len(<<tag>>), Varint(v))
    BY <1>1, <1>3, StoredParts DEF u
  <2>2. QED
    BY <1>1, <2>1, StoredFacts
<1>6. ReadVarint(data, at + 1) = {r} /\ at + Len(u) = post /\ post > at
  BY <1>1, <1>2, <1>5, VarintIsRead
<1>7. Tags(c) = {t} /\ Case(c, t) = {} /\ ~Skipped(c, t)
  <2> DEFINE n == 2
             z == 0
  <2>1. n \in 1..2 /\ z \in 0..5 /\ Tag(n, z) = tag
    BY DEF tag, Tag
  <2> HIDE DEF n, z
  <2>2. Stored(c.data, c.at, <<Tag(n, z)>>)
    BY <1>4, <1>5, <2>1
  <2>3. LET q == [num |-> n, type |-> z, at |-> c.at + 1]
        IN  Tags(c) = {q} /\ Case(c, q) = {} /\ ~Skipped(c, q)
    BY <1>4, <2>1, <2>2, TagOfEntry
  <2>4. QED
    BY <1>4, <2>3 DEF n, z
<1>8. t.num = 2 /\ t.at = at + 1 /\ r.at = post /\ r.value = v
  OBVIOUS
<1> HIDE DEF t, r, post
<1> DEFINE n == Moved(c, b, r.at)
<1> HIDE DEF n
<1>9. ~Stuck(c)
  <2>1. t \in Tags(c) /\ t.num # 1 /\ ReadVarint(c.data, t.at) # {}
    BY <1>4, <1>6, <1>7, <1>8
  <2>2. QED
    BY <1>7, <2>1 DEF Stuck
<1>10. \A m, h : ~Makes(c, m, h)
  <2>1. \A m, h : ~MakesNested(c, t, m, h) /\ ~MakesEntry(c, t, m, h) /\ ~MakesSkip(c, t, m, h)
    BY <1>7 DEF MakesNested, MakesEntry, MakesSkip
  <2>2. QED
    BY <1>7, <2>1 DEF Makes
<1>11. \A h : GoesOn(c, h) => h = n
  <2>1. \A h : ~GoesScalar(c, t, h) /\ ~GoesString(c, t, h) /\ ~GoesKey(c, t, h)
    BY <1>7, <1>8 DEF GoesScalar, GoesString, GoesKey
  <2>2. \A h : GoesValue(c, t, h) => h = n
    BY <1>4, <1>6, <1>8 DEF GoesValue, n, b
  <2>3. QED
    BY <1>7, <2>1, <2>2 DEF GoesOn
<1>12. ~(c.at >= c.end) /\ c.kind # "skip" /\ c.kind # "external"
  <2>1. at \in Nat /\ end \in Nat /\ post <= end /\ post \in Int /\ at < post
    BY <1>1, <1>3, <1>5, <1>6 DEF post
  <2>2. QED
    BY <1>4, <2>1
<1>13. Decodes(A, n, g)
  BY <1>3, <1>4, <1>6, <1>8 DEF n
<1>14. Decodes(A, c, g)
  BY <1>9, <1>10, <1>11, <1>12, <1>13, DecodesOn
<1>15. QED
  BY <1>14 DEF c

IsMap(f) == f.kind = "map" /\ f.of = "MapEntry"

\* The bytes of an entry, from no key and zero.
EntryOf(key, v) == Delimited(10, key) \o <<16>> \o Varint(v)

\* They carry an entry of no key and zero to the key and its value.
LEMMA EntryBytes ==
  ASSUME NEW A, NEW key, NEW v, key \in Seq(Byte), v \in Uint64Values
  PROVE  /\ EntryOf(key, v) \in Seq(Byte)
         /\ Carries(A, "MapEntry", EntryOf(key, v), [key |-> <<>>, value |-> 0], [key |-> key, value |-> v])
<1> DEFINE z == [key |-> <<>>, value |-> 0]
           x == [key |-> key, value |-> 0]
           y == [key |-> key, value |-> v]
           u == Delimited(10, key)
           w == <<16>> \o Varint(v)
<1>1. [key |-> key, value |-> z.value] = x /\ x.key = key /\ x.value = 0
  OBVIOUS
<1>2. [key |-> x.key, value |-> Or(x.value, v)] = y
  BY <1>1, OrZero
<1> HIDE DEF x, y, z
<1>3. Carries(A, "MapEntry", u, z, x)
  BY <1>1, KeyCarries
<1>4. Carries(A, "MapEntry", w, x, y)
  BY <1>2, ValueCarries
<1>5. u \in Seq(Byte)
  <2>1. 10 \in Byte
    BY DEF Byte
  <2>2. QED
    BY <2>1, DelimitedBytes
<1>6. w \in Seq(Byte) /\ Varint(v) \in Seq(Byte) /\ <<16>> \in Seq(Byte)
  <2>1. 16 \in Byte /\ v \in Nat
    BY UintValues DEF Byte
  <2>2. QED
    BY <2>1, TagBytes, VarintBytes, Concat
<1>7. EntryOf(key, v) = u \o w
  BY <1>5, <1>6, ConcatAssociative DEF EntryOf
<1> HIDE DEF u, w
<1>8. QED
  BY <1>3, <1>4, <1>5, <1>6, <1>7, Concat, CarriesConcat DEF y, z

\* An entry of a map is read in the slice of the message.
LEMMA EntryCarries ==
  ASSUME NEW A, NEW kind, NEW a, NEW f, NEW key, NEW v,
         f \in Fields(kind), IsMap(f), key \in Seq(Byte), v \in Uint64Values
  PROVE  Carries(A, kind, Delimited(TagOf(f, 2), EntryOf(key, v)), a,
           [a EXCEPT ![f.name] =
              Filled(a[f.name], [field |-> f, val |-> [key |-> key, value |-> v]])])
<1> DEFINE z == [key |-> <<>>, value |-> 0]
           x == [key |-> key, value |-> v]
           w == EntryOf(key, v)
           y == Filled(a[f.name], [field |-> f, val |-> x])
           b == [a EXCEPT ![f.name] = y]
           u == Delimited(TagOf(f, 2), w)
<1> HIDE DEF x, y, z, b, u, w
<1>1. SUFFICES ASSUME NEW field, NEW data, NEW at, NEW end, NEW g,
                      Stored(data, at, u), Addressable(data), end \in 0..Len(data),
                      at + Len(u) <= end, Decodes(A, Call(kind, field, b, data, at + Len(u), end), g)
               PROVE  Decodes(A, Call(kind, field, a, data, at, end), g)
  BY DEF Carries, u, w, b, y, x
<1>2. w \in Seq(Byte) /\ Carries(A, "MapEntry", w, z, x)
  BY EntryBytes DEF w, x, z
<1> DEFINE c == Call(kind, field, a, data, at, end)
<1>3. /\ c.kind = kind /\ c.data = data /\ c.at = at /\ c.end = end /\ c.val = a
      /\ \A e, i : Moved(c, e, i) = Call(kind, field, e, data, i, end)
  BY DEF Call, Moved
<1> HIDE DEF c
<1>4. PICK t, d : Opens(c, f, w, t, d)
  <2>1. f \in Fields(c.kind) /\ Stored(c.data, c.at, Delimited(TagOf(f, 2), w)) /\ Addressable(c.data)
    BY <1>1, <1>3 DEF u
  <2>2. QED
    BY <1>2, <2>1, OpensField
<1>5. /\ Tags(c) = {t} /\ Case(c, t) = {f} /\ ~Skipped(c, t) /\ t.type = 2
      /\ c.kind \notin {"external", "MapEntry", "skip"}
      /\ Contents(c, t) = {d} /\ Slice(c.data, d) = w
  BY <1>4 DEF Opens
<1>6. /\ d.post = at + Len(u) /\ at < d.post /\ at \in Nat /\ d.post \in 0..Len(data)
      /\ d.post = d.from + Len(w) /\ Stored(data, d.from, w)
  BY <1>3, <1>4 DEF Opens, u
<1> DEFINE m == Moved(c, a, d.post)
           n == Call("MapEntry", f, z, data, d.from, d.post)
           q == Call("MapEntry", f, x, data, d.post, d.post)
           r == Call(kind, field, b, data, at + Len(u), end)
<1>7. n.kind = "MapEntry" /\ n.field = f /\ q.kind = "MapEntry" /\ q.at = d.post /\ q.end = d.post /\ q.val = x
  BY DEF Call
<1>8. /\ m.val = a /\ m.at = d.post /\ \A e, i : Moved(m, e, i) = Moved(c, e, i)
  BY DEF Moved, Call
<1> HIDE DEF m, n, r, q
<1>9. ~Stuck(c)
  BY <1>5 DEF Stuck, IsScalar, IsMap
<1>10. \A e : ~GoesOn(c, e)
  <2>1. \A e : ~GoesKey(c, t, e) /\ ~GoesValue(c, t, e)
    BY <1>5 DEF GoesKey, GoesValue
  <2>2. \A e : ~GoesScalar(c, t, e) /\ ~GoesString(c, t, e)
    BY <1>5 DEF GoesScalar, GoesString, IsScalar, IsMap
  <2>3. QED
    BY <1>5, <2>1, <2>2 DEF GoesOn
<1>11. \A h, e : Makes(c, h, e) => h = m /\ e = n
  <2>1. \A h, e : ~MakesNested(c, t, h, e) /\ ~MakesSkip(c, t, h, e)
    BY <1>5 DEF MakesNested, MakesSkip, IsMap
  <2>2. \A h, e : MakesEntry(c, t, h, e) => h = m /\ e = n
    BY <1>3, <1>5 DEF MakesEntry, m, n, IsMap, z
  <2>3. QED
    BY <1>5, <2>1, <2>2 DEF Makes
<1>12. ~(c.at >= c.end) /\ c.kind # "skip" /\ c.kind # "external"
  BY <1>1, <1>3, <1>5, <1>6
<1>13. Decodes(A, n, x)
  <2>1. ~(q.at < q.end) /\ q.at >= q.end
    BY <1>6, <1>7
  <2>2. Decodes(A, q, x)
    <3>1. Decodes(A, q, q.val)
      BY <1>7, <2>1, DecodesEnd
    <3>2. QED
      BY <1>7, <3>1
  <2>3. d.post \in 0..Len(data) /\ d.from + Len(w) <= d.post /\ d.from + Len(w) = d.post
    BY <1>6
  <2>4. Decodes(A, Call("MapEntry", f, x, data, d.from + Len(w), d.post), x)
    BY <1>6, <2>2 DEF q
  <2>5. QED
    BY <1>1, <1>2, <1>6, <2>3, <2>4 DEF Carries, n
<1>14. After(m, n, x) = {r}
  <2>1. Moved(m, [m.val EXCEPT ![n.field.name] =
                    Filled(m.val[n.field.name], [field |-> n.field, val |-> x])], m.at) = r
    BY <1>3, <1>6, <1>7, <1>8 DEF r, b, y
  <2>2. QED
    BY <1>7, <2>1 DEF After
<1>15. Decodes(A, r, g)
  BY <1>1 DEF r
<1>16. Decodes(A, c, g)
  BY <1>9, <1>10, <1>11, <1>12, <1>13, <1>14, <1>15, DecodesMake
<1>17. QED
  BY <1>16 DEF c

-----------------------------------------------------------------------------
(* Unknown fields.                                                         *)

\* The same numbers elsewhere have the same sum.
Shifted(g, h, a, b, n) == \A i \in 1..n : g[a + i] \in Nat /\ g[a + i] = h[b + i]

\* The same numbers elsewhere have the same sum.
LEMMA SumShift ==
  ASSUME NEW g, NEW h, NEW a, NEW b, NEW n, a \in Nat, b \in Nat, n \in Nat, Shifted(g, h, a, b, n)
  PROVE  SumFunctionOnSet(g, (a + 1)..(a + n)) = SumFunctionOnSet(h, (b + 1)..(b + n))
<1> DEFINE G(k) == SumFunctionOnSet(g, (a + 1)..(a + k))
           H(k) == SumFunctionOnSet(h, (b + 1)..(b + k))
           S == {k \in Nat : k <= n => G(k) = H(k)}
<1>1. 0 \in S
  <2>1. (a + 1)..(a + 0) = {} /\ (b + 1)..(b + 0) = {}
    OBVIOUS
  <2>2. QED
    BY <2>1, SumEmpty
<1>2. ASSUME NEW k \in Nat, k \in S PROVE k + 1 \in S
  <2>1. SUFFICES ASSUME k + 1 <= n PROVE G(k + 1) = H(k + 1)
    OBVIOUS
  <2> DEFINE D == (a + 1)..(a + k)
             E == (b + 1)..(b + k)
             x == a + (k + 1)
             y == b + (k + 1)
  <2>2. /\ (a + 1)..(a + (k + 1)) = D \cup {x} /\ x \notin D
        /\ (b + 1)..(b + (k + 1)) = E \cup {y} /\ y \notin E
    OBVIOUS
  <2>3. IsFiniteSet(D) /\ IsFiniteSet(E)
    BY FS_Interval
  <2>4. \A z \in D \cup {x} : g[z] \in Nat
    <3>1. SUFFICES ASSUME NEW z \in D \cup {x} PROVE g[z] \in Nat
      OBVIOUS
    <3>2. z - a \in 1..n /\ a + (z - a) = z
      BY <2>1
    <3>3. QED
      BY <3>2 DEF Shifted
  <2>5. \A z \in E \cup {y} : h[z] \in Nat
    <3>1. SUFFICES ASSUME NEW z \in E \cup {y} PROVE h[z] \in Nat
      OBVIOUS
    <3>2. z - b \in 1..n /\ b + (z - b) = z
      BY <2>1
    <3>3. QED
      BY <3>2 DEF Shifted
  <2>6. g[x] = h[y]
    <3>1. k + 1 \in 1..n
      BY <2>1
    <3>2. QED
      BY <3>1 DEF Shifted
  <2>7. G(k) = H(k)
    BY <1>2, <2>1
  <2> HIDE DEF D, E, x, y
  <2>8. SumFunctionOnSet(g, D \cup {x}) = g[x] + SumFunctionOnSet(g, D)
    BY <2>2, <2>3, <2>4, SumAdd
  <2>9. SumFunctionOnSet(h, E \cup {y}) = h[y] + SumFunctionOnSet(h, E)
    BY <2>2, <2>3, <2>5, SumAdd
  <2>10. QED
    BY <2>2, <2>6, <2>7, <2>8, <2>9 DEF D, E
<1> HIDE DEF S
<1>3. n \in S
  <2>1. \A k \in Nat : k \in S
    BY <1>1, <1>2, Induction
  <2>2. QED
    BY <2>1
<1>4. QED
  BY <1>3 DEF S

\* A varint in a piece is read as it is read in the piece itself.
LEMMA ReadLocal ==
  ASSUME NEW data, NEW at, NEW u, NEW i, NEW r,
         Stored(data, at, u), i \in 0..Len(u), r \in ReadVarint(u, i)
  PROVE  /\ ReadVarint(data, at + i) = {[value |-> r.value, at |-> at + r.at]}
         /\ r.at \in (i + 1)..Len(u) /\ r.value \in Uint64Values
<1> DEFINE k == (Word + 6) \div 7
           E == VarintEnds(u, i)
           F == VarintEnds(data, at + i)
<1>1. /\ data \in Seq(Byte) /\ u \in Seq(Byte) /\ at \in Nat /\ Len(u) \in Nat /\ Len(data) \in Nat
      /\ at + Len(u) <= Len(data) /\ i \in Nat
      /\ \A j \in 1..Len(u) : data[at + j] = u[j]
  BY StoredFacts DEF Stored
<1>2. k \in Nat
  BY WireAssumption
<1>3. PICK e \in {x \in E : \A y \in E : x <= y} :
        r = [value |-> Groups(u, i, e) % Pow2[Word], at |-> e]
  BY DEF ReadVarint
<1> HIDE DEF k
<1>4. \A j : j \in E <=> j \in (i + 1)..Len(u) /\ j <= i + k /\ u[j] < 128
  <2> DEFINE m == Min({Len(u), i + k})
  <2>1. m \in Nat /\ m <= Len(u) /\ m <= i + k /\ m \in {Len(u), i + k}
    <3> DEFINE x == i + k
    <3>1. x \in Nat /\ Len(u) \in Nat
      BY <1>1, <1>2
    <3> HIDE DEF x
    <3>2. LET z == Min({Len(u), x})
          IN  z \in Nat /\ z <= Len(u) /\ z <= x /\ z \in {Len(u), x}
      BY <3>1, MinOfTwo
    <3>3. QED
      BY <3>2 DEF x
  <2>2. \A j : j \in E <=> j \in (i + 1)..m /\ u[j] < 128
    BY DEF VarintEnds, k
  <2> HIDE DEF m, E
  <2>3. \A j : j \in (i + 1)..m <=> j \in (i + 1)..Len(u) /\ j <= i + k
    BY <1>1, <1>2, <2>1
  <2>4. QED
    BY <2>2, <2>3
<1>5. \A j : j \in F <=> j \in (at + i + 1)..Len(data) /\ j <= at + i + k /\ data[j] < 128
  <2> DEFINE m == Min({Len(data), (at + i) + k})
  <2>1. m \in Nat /\ m <= Len(data) /\ m <= at + i + k /\ m \in {Len(data), at + i + k}
    <3> DEFINE x == (at + i) + k
    <3>1. x \in Nat /\ x = at + i + k
      BY <1>1, <1>2
    <3> HIDE DEF x
    <3>2. LET z == Min({Len(data), x})
          IN  z \in Nat /\ z <= Len(data) /\ z <= x /\ z \in {Len(data), x}
      BY <1>1, <3>1, MinOfTwo
    <3>3. QED
      BY <3>1, <3>2 DEF x
  <2>2. \A j : j \in F <=> j \in ((at + i) + 1)..m /\ data[j] < 128
    BY DEF VarintEnds, k
  <2> HIDE DEF m, F
  <2>3. \A j : j \in ((at + i) + 1)..m <=> j \in (at + i + 1)..Len(data) /\ j <= at + i + k
    BY <1>1, <1>2, <2>1
  <2>4. QED
    BY <2>2, <2>3
<1> HIDE DEF E, F
<1>6. e \in (i + 1)..Len(u) /\ e <= i + k /\ u[e] < 128 /\ e \in Nat
  BY <1>1, <1>3, <1>4
<1>7. at + e \in F
  <2>1. e \in 1..Len(u) /\ at + e \in (at + i + 1)..Len(data) /\ at + e <= at + i + k
    BY <1>1, <1>2, <1>6
  <2>2. data[at + e] < 128
    BY <1>1, <1>6, <2>1
  <2>3. QED
    BY <1>5, <2>1, <2>2
<1>8. \A j \in F : at + e <= j
  <2>1. SUFFICES ASSUME NEW j \in F, j < at + e PROVE FALSE
    BY <1>1, <1>5, <1>6
  <2>2. j - at \in (i + 1)..Len(u) /\ j - at <= i + k /\ at + (j - at) = j /\ j - at \in 1..Len(u)
    BY <1>1, <1>2, <1>5, <1>6, <2>1
  <2>3. u[j - at] < 128
    BY <1>1, <1>5, <2>1, <2>2
  <2>4. j - at \in E
    BY <1>4, <2>2, <2>3
  <2>5. e <= j - at
    BY <1>3, <2>4
  <2>6. QED
    BY <1>1, <1>6, <2>1, <2>2, <2>5
<1>9. {x \in F : \A y \in F : x <= y} = {at + e}
  <2>1. \A x \in F : x \in Nat
    BY <1>1, <1>5
  <2>2. QED
    BY <1>1, <1>6, <1>7, <1>8, <2>1
<1>10. Groups(data, at + i, at + e) = Groups(u, i, e)
  <2> DEFINE n == e - i
             g == [j \in ((at + i) + 1)..(at + e) |-> (data[j] % 128) * Pow2[7 * (j - (at + i) - 1)]]
             h == [j \in (i + 1)..e |-> (u[j] % 128) * Pow2[7 * (j - i - 1)]]
  <2>1. n \in Nat /\ (at + i) + n = at + e /\ i + n = e /\ n <= k
    BY <1>1, <1>2, <1>6
  <2>2. ASSUME NEW j \in 1..n
        PROVE  g[(at + i) + j] \in Nat /\ g[(at + i) + j] = h[i + j]
    <3> DEFINE x == u[i + j]
               p == Pow2[7 * (j - 1)]
    <3>1. /\ (at + i) + j \in ((at + i) + 1)..(at + e) /\ i + j \in (i + 1)..e /\ i + j \in 1..Len(u)
          /\ ((at + i) + j) - (at + i) - 1 = j - 1 /\ (i + j) - i - 1 = j - 1
          /\ at + (i + j) = (at + i) + j
      BY <1>1, <1>6, <2>1
    <3>2. data[(at + i) + j] = x /\ x \in Byte
      BY <1>1, <3>1, ElementOfSeq
    <3>3. p \in Nat
      <4>1. 7 * (j - 1) \in 0..Word
        BY <2>1, WireAssumption DEF k
      <4>2. QED
        BY <4>1, PowPositive
    <3>4. g[(at + i) + j] = (x % 128) * p /\ h[i + j] = (x % 128) * p
      BY <3>1, <3>2
    <3> HIDE DEF x, p, g, h
    <3>5. x % 128 \in Nat
      BY <3>2 DEF Byte
    <3>6. QED
      BY <3>3, <3>4, <3>5, ProductNat
  <2>3. Groups(data, at + i, at + e) = SumFunctionOnSet(g, ((at + i) + 1)..((at + i) + n))
    BY <2>1 DEF Groups, SumFunction
  <2>4. Groups(u, i, e) = SumFunctionOnSet(h, (i + 1)..(i + n))
    BY <2>1 DEF Groups, SumFunction
  <2> HIDE DEF g, h, n
  <2> DEFINE a == at + i
  <2>5. a \in Nat /\ Shifted(g, h, a, i, n)
    BY <1>1, <2>2 DEF Shifted
  <2>6. Groups(data, a, at + e) = SumFunctionOnSet(g, (a + 1)..(a + n))
    BY <2>3
  <2> HIDE DEF a
  <2>7. SumFunctionOnSet(g, (a + 1)..(a + n)) = SumFunctionOnSet(h, (i + 1)..(i + n))
    BY i \in Nat, <2>1, <2>5, SumShift
  <2>8. QED
    BY <2>4, <2>6, <2>7 DEF a
<1>11. ReadVarint(data, at + i) = {[value |-> Groups(data, at + i, at + e) % Pow2[Word], at |-> at + e]}
  <2>1. ReadVarint(data, at + i) =
          {[value |-> Groups(data, at + i, j) % Pow2[Word], at |-> j] :
             j \in {x \in F : \A y \in F : x <= y}}
    BY DEF ReadVarint, F
  <2>2. QED
    BY <1>9, <2>1
<1>12. r.value \in Uint64Values
  <2>1. u \in Seq(Byte) /\ i \in Nat
    BY <1>1
  <2>2. QED
    BY <2>1, VarintRead
<1>13. QED
  BY <1>3, <1>6, <1>10, <1>11, <1>12

\* So is a tag.
LEMMA TagLocal ==
  ASSUME NEW data, NEW at, NEW u, NEW t, Stored(data, at, u), t \in ReadTag(u, 0)
  PROVE  /\ ReadTag(data, at) = {[num |-> t.num, type |-> t.type, at |-> at + t.at]}
         /\ t.at \in 1..Len(u)
<1>1. PICK w \in ReadVarint(u, 0) :
        t = [num |-> Signed((w.value \div 8) % Pow2[Half], Half), type |-> w.value % 8, at |-> w.at]
  BY DEF ReadTag
<1>2. at \in Nat /\ Len(u) \in Nat
  BY StoredFacts
<1> DEFINE z == 0
           r == [value |-> w.value, at |-> at + w.at]
<1>3. z \in 0..Len(u) /\ w \in ReadVarint(u, z) /\ at + z = at /\ z + 1 = 1
  BY <1>2
<1> HIDE DEF z
<1>4. ReadVarint(data, at + z) = {[value |-> w.value, at |-> at + w.at]} /\ w.at \in (z + 1)..Len(u)
  BY <1>3, ReadLocal
<1>5. ReadVarint(data, at) = {r}
  BY <1>3, <1>4
<1>6. r.value = w.value /\ r.at = at + w.at
  OBVIOUS
<1> HIDE DEF r
<1>7. ReadTag(data, at) =
        {[num |-> Signed((r.value \div 8) % Pow2[Half], Half), type |-> r.value % 8, at |-> r.at]}
  BY <1>5 DEF ReadTag
<1>8. QED
  BY <1>1, <1>3, <1>4, <1>6, <1>7

\* What skipOptimism steps over, by wire type.
LEMMA PastCases ==
  ASSUME NEW c, NEW t
  PROVE  /\ t.type = 0 => Past(c, t) = {v.at : v \in ReadVarint(c.data, t.at)}
         /\ t.type = 1 => Past(c, t) = {t.at + 8}
         /\ t.type = 2 => Past(c, t) = {Wrap(v.at + v.value) : v \in {r \in ReadVarint(c.data, t.at) :
                                                                     Signed(r.value, Word) >= 0}}
         /\ t.type \in {3, 4} => Past(c, t) = {t.at}
         /\ t.type = 5 => Past(c, t) = {t.at + 4}
         /\ t.type \in {6, 7} => Past(c, t) = {}
<1>1. CASE t.type = 0
  <2>1. t.type # 1 /\ t.type # 2 /\ t.type \notin {3, 4} /\ t.type # 5 /\ t.type \notin {6, 7}
    BY <1>1
  <2>2. QED
    BY <1>1, <2>1, Zenon DEF Past
<1>2. CASE t.type = 1
  <2>1. t.type # 0 /\ t.type # 2 /\ t.type \notin {3, 4} /\ t.type # 5 /\ t.type \notin {6, 7}
    BY <1>2
  <2>2. QED
    BY <1>2, <2>1, Zenon DEF Past
<1>3. CASE t.type = 2
  <2>1. t.type # 0 /\ t.type # 1 /\ t.type \notin {3, 4} /\ t.type # 5 /\ t.type \notin {6, 7}
    BY <1>3
  <2>2. QED
    BY <1>3, <2>1, Zenon DEF Past
<1>4. CASE t.type \in {3, 4}
  <2>1. t.type # 0 /\ t.type # 1 /\ t.type # 2 /\ t.type # 5 /\ t.type \notin {6, 7}
    BY <1>4
  <2>2. QED
    BY <1>4, <2>1, Zenon DEF Past
<1>5. CASE t.type = 5
  <2>1. t.type # 0 /\ t.type # 1 /\ t.type # 2 /\ t.type \notin {3, 4} /\ t.type \notin {6, 7}
    BY <1>5
  <2>2. QED
    BY <1>5, <2>1, Zenon DEF Past
<1>6. CASE t.type \in {6, 7}
  <2>1. t.type # 0 /\ t.type # 1 /\ t.type # 2 /\ t.type \notin {3, 4} /\ t.type # 5
    BY <1>6
  <2>2. QED
    BY <1>6, <2>1, Zenon DEF Past
<1>7. QED
  BY <1>1, <1>2, <1>3, <1>4, <1>5, <1>6, Zenon

\* One element of an unknown field.
LEMMA SkipElement ==
  ASSUME NEW c, NEW t, NEW p, p \in Nat, ReadTag(c.data, c.at) = {t}, Past(c, t) = {p},
         Depth(c, t) \in Nat
  PROVE  Elements(c) = {[at |-> p, depth |-> Depth(c, t)]}
<1> DEFINE e == [at |-> p, depth |-> Depth(c, t)]
<1>1. e.at >= 0 /\ e.depth >= 0
  OBVIOUS
<1> HIDE DEF e
<1>2. UNION {{[at |-> i, depth |-> Depth(c, r)] : i \in Past(c, r)} : r \in ReadTag(c.data, c.at)} = {e}
  BY DEF e
<1>3. QED
  BY <1>1, <1>2 DEF Elements, e

\* A field with a number that skipOptimism steps over wherever it is.
Skippable(u, num) ==
  /\ u \in Seq(Byte) /\ Len(u) > 0
  /\ \A data, at : Stored(data, at, u) => \E t : ReadTag(data, at) = {t} /\ t.num = num /\ t.type # 4
  /\ \A A, data, field :
       Stored(data, 0, u) /\ Addressable(data)
       => Decodes(A, Call("skip", field, 0, data, 0, Len(data)), Len(u))

\* A field that is no group.
LEMMA FieldSkippable ==
  ASSUME NEW u, NEW t, u \in Seq(Byte), t \in ReadTag(u, 0), t.type \notin {3, 4},
         Len(u) \in Past(Call("skip", Entry, 0, u, 0, Len(u)), t)
  PROVE  Skippable(u, t.num)
<1> DEFINE l == Len(u)
           own == Call("skip", Entry, 0, u, 0, l)
<1>1. l \in Nat /\ Stored(u, 0, u)
  BY LenProperties, StoredWhole
<1>2. t.at \in 1..l /\ t.type \in 0..7 /\ t.type # 3 /\ t.type # 4
  <2>1. 0 \in 0..l
    BY <1>1
  <2>2. QED
    BY <1>1, <2>1, TagLocal, TagRead
<1>3. own.data = u
  BY DEF Call
<1> HIDE DEF own, l
<1>4. l > 0
  BY <1>1, <1>2
<1>5. ASSUME NEW data, NEW at, Stored(data, at, u)
      PROVE  \E r : ReadTag(data, at) = {r} /\ r.num = t.num /\ r.type # 4
  <2> DEFINE r == [num |-> t.num, type |-> t.type, at |-> at + t.at]
  <2>1. ReadTag(data, at) = {r} /\ r.num = t.num /\ r.type = t.type
    BY <1>5, TagLocal
  <2> HIDE DEF r
  <2>2. QED
    BY <1>2, <2>1
<1>6. ASSUME NEW A, NEW data, NEW field, Stored(data, 0, u), Addressable(data)
      PROVE  Decodes(A, Call("skip", field, 0, data, 0, Len(data)), l)
  <2> DEFINE c == Call("skip", field, 0, data, 0, Len(data))
             r == [num |-> t.num, type |-> t.type, at |-> 0 + t.at]
  <2>1. c.kind = "skip" /\ c.data = data /\ c.at = 0 /\ c.val = 0
    BY DEF Call
  <2> HIDE DEF c
  <2>2. ReadTag(data, 0) = {r}
    BY <1>6, TagLocal
  <2>3. r.type = t.type /\ r.at = t.at
    BY <1>2
  <2> HIDE DEF r
  <2>4. ASSUME NEW v, v \in ReadVarint(u, t.at)
        PROVE  ReadVarint(data, t.at) = {[value |-> v.value, at |-> v.at]} /\ v.at \in Nat
    <3> DEFINE z == 0
    <3>1. t.at \in 0..Len(u) /\ t.at \in Nat /\ z \in Nat /\ Stored(data, z, u)
      BY <1>1, <1>2, <1>6 DEF l
    <3> HIDE DEF z
    <3>2. ReadVarint(data, z + t.at) = {[value |-> v.value, at |-> z + v.at]} /\ v.at \in (t.at + 1)..Len(u)
      BY <2>4, <3>1, ReadLocal
    <3>3. v.at \in Nat
      BY <1>1, <3>1, <3>2 DEF l
    <3>4. z + t.at = t.at /\ z + v.at = v.at
      BY <3>1, <3>3 DEF z
    <3>5. QED
      BY <3>2, <3>3, <3>4
  <2>5. Past(c, r) = {l}
    <3>1. CASE t.type = 0
      <4>1. PICK v \in ReadVarint(u, t.at) : l = v.at
        BY <1>3, <3>1, PastCases DEF own, l
      <4> DEFINE w == [value |-> v.value, at |-> v.at]
      <4>2. ReadVarint(c.data, r.at) = {w} /\ w.at = v.at
        BY <2>1, <2>3, <2>4
      <4> HIDE DEF w
      <4>3. Past(c, r) = {v.at}
        <5>1. Past(c, r) = {x.at : x \in ReadVarint(c.data, r.at)}
          BY <2>3, <3>1, PastCases
        <5>2. QED
          BY <4>2, <5>1
      <4>4. QED
        BY <4>1, <4>3
    <3>2. CASE t.type = 1
      BY <2>3, <3>2, PastCases DEF own, l
    <3>3. CASE t.type = 2
      <4>1. PICK v \in ReadVarint(u, t.at) : l = Wrap(v.at + v.value) /\ Signed(v.value, Word) >= 0
        BY <1>3, <3>3, PastCases DEF own, l
      <4> DEFINE w == [value |-> v.value, at |-> v.at]
      <4>2. ReadVarint(c.data, r.at) = {w} /\ w.at = v.at /\ w.value = v.value
        BY <2>1, <2>3, <2>4
      <4> HIDE DEF w
      <4>3. Past(c, r) = {Wrap(v.at + v.value)}
        <5>1. Past(c, r) = {Wrap(x.at + x.value) : x \in {y \in ReadVarint(c.data, r.at) :
                                                         Signed(y.value, Word) >= 0}}
          BY <2>3, <3>3, PastCases
        <5>2. {y \in ReadVarint(c.data, r.at) : Signed(y.value, Word) >= 0} = {w}
          BY <4>1, <4>2
        <5>3. QED
          BY <4>2, <5>1, <5>2
      <4>4. QED
        BY <4>1, <4>3
    <3>4. CASE t.type = 5
      BY <2>3, <3>4, PastCases DEF own, l
    <3>5. CASE t.type \in {6, 7}
      BY <3>5, PastCases DEF own, l
    <3>6. QED
      BY <1>2, <3>1, <3>2, <3>3, <3>4, <3>5
  <2>6. Depth(c, r) = 0
    BY <1>2, <2>1, <2>3 DEF Depth
  <2> DEFINE e == [at |-> l, depth |-> 0]
  <2>7. Elements(c) = {e}
    <3>1. ReadTag(c.data, c.at) = {r} /\ Depth(c, r) \in Nat
      BY <2>1, <2>2, <2>6
    <3>2. Elements(c) = {[at |-> l, depth |-> Depth(c, r)]}
      BY <1>1, <2>5, <3>1, SkipElement
    <3>3. QED
      BY <2>6, <3>2
  <2>8. e.depth = 0 /\ e.at = l
    OBVIOUS
  <2> HIDE DEF e
  <2>9. Decodes(A, c, l)
    BY <2>1, <2>7, <2>8, DecodesSkip
  <2>10. QED
    BY <2>9 DEF c
<1>7. QED
  BY <1>1, <1>4, <1>5, <1>6 DEF Skippable, l

-----------------------------------------------------------------------------
(* What a message or an external one does with a field it does not know.   *)

\* No field of a kind of call has a number, and its loop steps over such a field.
Ignores(kind, num) ==
  /\ kind \notin {"MapEntry", "skip"} /\ num \in Nat \ {0}
  /\ \A f \in Fields(kind) : f.num # num

\* An unknown field: an external message keeps it, any other drops it.
LEMMA UnknownCarries ==
  ASSUME NEW A, NEW kind, NEW a, NEW u, NEW num, Skippable(u, num), Ignores(kind, num)
  PROVE  Carries(A, kind, u, a, IF kind = "external" THEN a \o u ELSE a)
<1> DEFINE b == IF kind = "external" THEN a \o u ELSE a
           l == Len(u)
<1> HIDE DEF b
<1>1. SUFFICES ASSUME NEW field, NEW data, NEW at, NEW end, NEW g,
                      Stored(data, at, u), Addressable(data), end \in 0..Len(data), at + l <= end,
                      kind = "external" => data \in A.takes,
                      Decodes(A, Call(kind, field, b, data, at + l, end), g)
               PROVE  Decodes(A, Call(kind, field, a, data, at, end), g)
  BY DEF Carries, b
<1>2. /\ u \in Seq(Byte) /\ data \in Seq(Byte) /\ at \in Nat /\ l \in Nat /\ l > 0
      /\ Len(data) \in Nat /\ at + l \in 0..Len(data)
  BY <1>1, StoredFacts DEF Skippable
<1> DEFINE rest == SubSeq(data, at + 1, Len(data))
           k == Len(data) - at
           c == Call(kind, field, a, data, at, end)
           n == Call("skip", Entry, 0, rest, 0, Len(rest))
           r == Call(kind, field, b, data, at + l, end)
<1>3. /\ c.kind = kind /\ c.data = data /\ c.at = at /\ c.end = end /\ c.val = a
      /\ \A e, i : Moved(c, e, i) = Call(kind, field, e, data, i, end)
  BY DEF Call, Moved
<1>4. n.kind = "skip"
  BY DEF Call
<1>5. k \in Nat /\ l <= k /\ k <= Len(data)
  BY <1>2
<1>6. /\ rest \in Seq(Byte) /\ Len(rest) = k
      /\ \A i \in 1..k : rest[i] = data[at + i]
  <2>1. /\ rest = [i \in 1..k |-> data[at + i]]
    <3>1. rest = [i \in 1..((1 + Len(data)) - (at + 1)) |-> data[(i + (at + 1)) - 1]]
      BY <1>2, SubSeqProperties DEF SubSeq
    <3>2. (1 + Len(data)) - (at + 1) = k /\ \A i \in 1..k : (i + (at + 1)) - 1 = at + i
      BY <1>2
    <3>3. QED
      BY <3>1, <3>2
  <2> HIDE DEF rest
  <2>2. \A i \in 1..k : data[at + i] \in Byte
    <3>1. \A i \in 1..k : at + i \in 1..Len(data)
      BY <1>2, <1>5
    <3>2. QED
      BY <1>2, <3>1, ElementOfSeq
  <2>3. rest \in [1..k -> Byte]
    BY <2>1, <2>2
  <2> HIDE DEF k
  <2>4. QED
    BY <1>5, <2>1, <2>3, FunctionIsSeq
<1> HIDE DEF rest, c, n, r
<1>7. Stored(rest, 0, u)
  <2>1. \A i \in 1..l : i \in 1..k /\ 0 + i = i /\ data[at + i] = u[i]
    BY <1>1, <1>2, <1>5 DEF Stored
  <2>2. 0 + l <= Len(rest)
    BY <1>2, <1>5, <1>6
  <2>3. QED
    BY <1>2, <1>6, <2>1, <2>2 DEF Stored
<1>8. Addressable(rest) /\ at + l < Pow2[Word - 1] /\ Pow2[Word - 1] \in Nat \ {0} /\ Pow2[Word] = 2 * Pow2[Word - 1]
  <2>1. Word - 1 \in 0..Word /\ Word \in 0..Word /\ Word # 0
    BY WireAssumption
  <2>2. Pow2[Word - 1] \in Nat \ {0} /\ Pow2[Word] = 2 * Pow2[Word - 1]
    BY <2>1, PowPositive, PowRecursion
  <2> DEFINE p == Pow2[Word - 1]
  <2> HIDE DEF p
  <2>3. Len(data) < p /\ p \in Nat
    BY <1>1, <2>2 DEF Addressable, p
  <2>4. Len(rest) < p /\ at + l < p
    BY <1>2, <1>5, <1>6, <2>3
  <2>5. QED
    BY <2>2, <2>4 DEF Addressable, p
<1>9. Decodes(A, n, l)
  BY <1>7, <1>8 DEF Skippable, n
<1>10. PICK t : ReadTag(data, at) = {t} /\ t.num = num /\ t.type # 4
  BY <1>1 DEF Skippable
<1>11. Tags(c) = {t} /\ Case(c, t) = {} /\ Skipped(c, t)
  <2>1. t.num > 0
    BY <1>10 DEF Ignores
  <2>2. Tags(c) = {t}
    BY <1>3, <1>10, <2>1 DEF Tags
  <2>3. Case(c, t) = {}
    BY <1>3, <1>10 DEF Case, Ignores
  <2>4. QED
    BY <1>3, <2>2, <2>3 DEF Skipped, Ignores
<1>12. kind # "MapEntry" /\ kind # "skip"
  BY DEF Ignores
<1>13. ~Stuck(c)
  BY <1>3, <1>11, <1>12 DEF Stuck
<1>14. \A e : ~GoesOn(c, e)
  BY <1>3, <1>11, <1>12 DEF GoesOn, GoesScalar, GoesString, GoesKey, GoesValue
<1>15. \A h, e : Makes(c, h, e) => h = c /\ e = n
  <2>1. \A h, e : ~MakesNested(c, t, h, e) /\ ~MakesEntry(c, t, h, e)
    BY <1>11 DEF MakesNested, MakesEntry
  <2>2. \A h, e : MakesSkip(c, t, h, e) => h = c /\ e = n
    BY <1>3 DEF MakesSkip, n, rest
  <2>3. QED
    BY <1>11, <2>1, <2>2 DEF Makes
<1>16. After(c, n, l) = {r}
  <2>1. Wrap(at + l) = at + l
    <3> DEFINE x == at + l
               p == Pow2[Word - 1]
               q == Pow2[Word]
    <3> HIDE DEF x, p, q
    <3>1. x \in 0..(q - 1) /\ ~(x >= p) /\ q \in Nat \ {0}
      BY <1>2, <1>8 DEF x, p, q
    <3>2. x % q = x
      BY <3>1, ModSmall
    <3>3. QED
      BY <3>1, <3>2 DEF Wrap, Signed, x, p, q
  <2>2. Resumed(c, l) = {at + l}
    BY <1>2, <1>3, <1>12, <2>1 DEF Resumed
  <2>3. Moved(c, IF c.kind = "external" THEN c.val \o SubSeq(c.data, c.at + 1, at + l) ELSE c.val, at + l) = r
    <3>1. SubSeq(data, at + 1, at + l) = u
      BY <1>1, StoredSlice
    <3>2. (IF c.kind = "external" THEN c.val \o SubSeq(c.data, c.at + 1, at + l) ELSE c.val) = b
      BY <1>3, <3>1 DEF b
    <3>3. QED
      BY <1>3, <3>2 DEF r
  <2>4. QED
    BY <1>4, <2>2, <2>3 DEF After
<1>17. ~(c.at >= c.end) /\ c.kind # "skip" /\ (c.kind = "external" => c.data \in A.takes)
  BY <1>1, <1>2, <1>3, <1>12
<1>18. Decodes(A, r, g)
  BY <1>1 DEF r
<1>19. Decodes(A, c, g)
  BY <1>9, <1>13, <1>14, <1>15, <1>16, <1>17, <1>18, DecodesMake
<1>20. QED
  BY <1>19 DEF c

\* Bytes an external message takes as they are.
Plain(w) ==
  /\ w \in Seq(Byte)
  /\ \A A, a : a \in Seq(Byte) => Carries(A, "external", w, a, a \o w)

\* No bytes are plain.
LEMMA PlainNothing == Plain(<<>>)
<1>1. ASSUME NEW A, NEW a, a \in Seq(Byte) PROVE Carries(A, "external", <<>>, a, a \o <<>>)
  <2>1. a \o <<>> = a
    BY <1>1, ConcatEmptySeq
  <2>2. QED
    BY <2>1, CarriesNothing
<1>2. QED
  BY <1>1, EmptySeq DEF Plain

\* Plain bytes after plain bytes.
LEMMA PlainConcat ==
  ASSUME NEW v, NEW w, Plain(v), Plain(w)
  PROVE  Plain(v \o w)
<1>1. v \in Seq(Byte) /\ w \in Seq(Byte) /\ v \o w \in Seq(Byte)
  BY Concat DEF Plain
<1>2. ASSUME NEW A, NEW a, a \in Seq(Byte) PROVE Carries(A, "external", v \o w, a, a \o (v \o w))
  <2>1. a \o v \in Seq(Byte) /\ a \o (v \o w) = (a \o v) \o w
    BY <1>1, <1>2, Concat, ConcatAssociative
  <2>2. Carries(A, "external", v, a, a \o v) /\ Carries(A, "external", w, a \o v, (a \o v) \o w)
    BY <1>2, <2>1 DEF Plain
  <2>3. QED
    BY <1>1, <2>1, <2>2, CarriesConcat
<1>3. QED
  BY <1>1, <1>2 DEF Plain

\* A field that any decoder steps over is plain.
LEMMA FieldPlain ==
  ASSUME NEW u, u \in Seq(Byte), IsField(u)
  PROVE  Plain(u)
<1>1. PICK t \in ReadTag(u, 0) :
        /\ t.num > 0 /\ t.type \notin {3, 4}
        /\ Len(u) \in Past(Call("skip", Entry, 0, u, 0, Len(u)), t)
  BY DEF IsField
<1>2. Skippable(u, t.num)
  BY <1>1, FieldSkippable
<1>3. Ignores("external", t.num)
  <2>1. t.num \in Int
    <3>1. 0 \in 0..Len(u)
      BY LenProperties
    <3>2. QED
      BY <3>1, TagRead
  <2>2. Fields("external") = {}
    BY KindsApart DEF Fields
  <2>3. QED
    BY <1>1, <2>1, <2>2 DEF Ignores
<1>4. QED
  BY <1>2, <1>3, UnknownCarries DEF Plain

\* What is left of a sequence from one place is what is there up to another one, and
\* the rest.
LEMMA Tails ==
  ASSUME NEW w, NEW i, NEW j, w \in Seq(Byte), i \in Nat, j \in Nat, i <= j, j <= Len(w)
  PROVE  /\ SubSeq(w, i + 1, j) \in Seq(Byte) /\ SubSeq(w, j + 1, Len(w)) \in Seq(Byte)
         /\ SubSeq(w, i + 1, Len(w)) = SubSeq(w, i + 1, j) \o SubSeq(w, j + 1, Len(w))
<1> DEFINE l == Len(w)
           Part(x, y) == SubSeq(w, x + 1, y)
<1>1. l \in Nat /\ \A x \in 1..l : w[x] \in Byte
  BY LenProperties, ElementOfSeq
<1>2. ASSUME NEW x \in 0..l, NEW y \in x..l
      PROVE  /\ Part(x, y) = [k \in 1..(y - x) |-> w[x + k]]
             /\ Part(x, y) \in Seq(Byte) /\ Len(Part(x, y)) = y - x
  <2>1. Part(x, y) = [k \in 1..((1 + y) - (x + 1)) |-> w[(k + (x + 1)) - 1]]
    BY <1>1, SubSeqProperties DEF SubSeq
  <2> HIDE DEF Part
  <2>2. (1 + y) - (x + 1) = y - x /\ \A k \in 1..(y - x) : (k + (x + 1)) - 1 = x + k
    BY <1>1
  <2>3. Part(x, y) = [k \in 1..(y - x) |-> w[x + k]]
    BY <2>1, <2>2
  <2>4. \A k \in 1..(y - x) : w[x + k] \in Byte
    BY <1>1
  <2>5. Part(x, y) \in [1..(y - x) -> Byte] /\ y - x \in Nat
    BY <1>1, <2>3, <2>4
  <2>6. QED
    BY <2>3, <2>5, FunctionIsSeq
<1> DEFINE a == Part(i, j)
           b == Part(j, l)
           c == Part(i, l)
<1> HIDE DEF l, Part
<1>3. i \in 0..l /\ j \in i..l /\ j \in 0..l /\ l \in j..l /\ l \in i..l
  BY <1>1 DEF l
<1>4. /\ a = [k \in 1..(j - i) |-> w[i + k]] /\ a \in Seq(Byte) /\ Len(a) = j - i
      /\ b = [k \in 1..(l - j) |-> w[j + k]] /\ b \in Seq(Byte) /\ Len(b) = l - j
      /\ c = [k \in 1..(l - i) |-> w[i + k]]
  BY <1>2, <1>3
<1> HIDE DEF a, b, c
<1>5. /\ a \o b \in Seq(Byte) /\ Len(a \o b) = Len(a) + Len(b)
      /\ \A k \in 1..Len(a) : (a \o b)[k] = a[k]
      /\ \A k \in 1..Len(b) : (a \o b)[Len(a) + k] = b[k]
  <2>1. a \in Seq(Byte) /\ b \in Seq(Byte)
    BY <1>4
  <2>2. QED
    BY ONLY <2>1, ConcatProperties
<1>6. Len(a \o b) = l - i
  BY <1>1, <1>3, <1>4, <1>5
<1>7. ASSUME NEW k \in 1..(l - i) PROVE (a \o b)[k] = w[i + k]
  <2>1. CASE k <= j - i
    BY <1>1, <1>3, <1>4, <1>5, <2>1
  <2>2. CASE ~(k <= j - i)
    <3> DEFINE m == k - (j - i)
    <3>1. m \in 1..(l - j) /\ (j - i) + m = k /\ j + m = i + k
      BY <1>1, <1>3, <2>2
    <3> HIDE DEF m
    <3>2. (a \o b)[(j - i) + m] = b[m] /\ b[m] = w[j + m]
      BY <1>4, <1>5, <3>1
    <3>3. QED
      BY <3>1, <3>2
  <2>3. QED
    BY <2>1, <2>2
<1>8. a \o b = c
  <2>1. a \o b = [k \in 1..(l - i) |-> (a \o b)[k]]
    BY <1>5, <1>6, LenProperties
  <2>2. QED
    BY <1>4, <1>7, <2>1
<1>9. QED
  BY <1>4, <1>8 DEF a, b, c, l, Part

\* An encoding of an external message.
LEMMA EncodingPlain ==
  ASSUME NEW w, IsEncoding(w)
  PROVE  Plain(w)
<1> DEFINE l == Len(w)
           Part(i) == SubSeq(w, i + 1, l)
<1>1. w \in Seq(Byte) /\ l \in Nat
  BY LenProperties DEF IsEncoding
<1>2. PICK ends \in SUBSET (0..l) :
        /\ {0, l} \subseteq ends
        /\ \A i \in ends \ {l} : \E j \in ends : i < j /\ IsField(SubSeq(w, i + 1, j))
  BY DEF IsEncoding
<1> DEFINE Good(k) == \A i \in ends : l - i <= k => Plain(Part(i))
<1>3. Part(l) = <<>>
  BY <1>1, SubSeqProperties, EmptySeq
<1> HIDE DEF Part, l
<1>4. Good(0)
  <2>1. \A i \in ends : l - i <= 0 => i = l
    BY <1>1, <1>2
  <2>2. Plain(Part(l))
    BY <1>3, PlainNothing
  <2>3. QED
    BY <2>1, <2>2
<1>5. ASSUME NEW k \in Nat, Good(k) PROVE Good(k + 1)
  <2>1. SUFFICES ASSUME NEW i \in ends, l - i <= k + 1, i # l PROVE Plain(Part(i))
    BY <1>3, PlainNothing
  <2>2. PICK j \in ends : i < j /\ IsField(SubSeq(w, i + 1, j))
    BY <1>2, <2>1
  <2>3. i \in Nat /\ j \in Nat /\ i <= j /\ j <= l /\ l - j <= k
    BY <1>1, <1>2, <2>1, <2>2
  <2>4. /\ SubSeq(w, i + 1, j) \in Seq(Byte)
        /\ Part(i) = SubSeq(w, i + 1, j) \o Part(j)
    BY <1>1, <2>3, Tails DEF Part, l
  <2>5. Plain(SubSeq(w, i + 1, j))
    BY <2>2, <2>4, FieldPlain
  <2>6. Plain(Part(j))
    BY <1>5, <2>3
  <2>7. QED
    BY <2>4, <2>5, <2>6, PlainConcat
<1>6. Good(l)
  <2> DEFINE S == {k \in Nat : Good(k)}
  <2> HIDE DEF Good
  <2>1. 0 \in S /\ \A k \in Nat : k \in S => k + 1 \in S
    BY <1>4, <1>5
  <2> HIDE DEF S
  <2>2. \A k \in Nat : k \in S
    BY <2>1, Induction
  <2>3. QED
    BY <1>1, <2>2 DEF S
<1>7. Plain(Part(0))
  <2>1. 0 \in ends /\ l - 0 <= l
    BY <1>1, <1>2
  <2>2. QED
    BY <1>6, <2>1
<1>8. Part(0) = w
  <2>1. 0 + 1 = 1
    OBVIOUS
  <2>2. Stored(w, 0, w)
    BY <1>1, StoredWhole
  <2>3. SubSeq(w, 0 + 1, 0 + Len(w)) = w
    BY <2>2, StoredSlice
  <2>4. 0 + Len(w) = l
    BY <1>1 DEF l
  <2>5. QED
    BY <2>3, <2>4 DEF Part
<1>9. QED
  BY <1>7, <1>8

-----------------------------------------------------------------------------
(* What merging two messages is.                                           *)

\* A field, and a message, of two that come together.
Joined(f, a, b) == MergedField(f, a, b, MergedFlat)
JoinedMessage(kind, m, n) == [name \in DOMAIN m |-> Joined(FieldNamed(kind, name), m[name], n[name])]

\* Merging by the flat merge is joining field by field.
LEMMA MergedIsJoined ==
  ASSUME NEW kind, NEW m, NEW n
  PROVE  Merged(kind, m, n, MergedFlat) = JoinedMessage(kind, m, n)
  BY DEF Merged, JoinedMessage, Joined

\* Two maps, the second over the first.
Overlaid(a, b) == [k \in DOMAIN a \cup DOMAIN b |-> IF k \in DOMAIN b THEN b[k] ELSE a[k]]

\* The entries of the second map replace those of the first.
LEMMA JoinedMaps ==
  ASSUME NEW f, NEW a, NEW b, IsMap(f)
  PROVE  Joined(f, a, b) = Overlaid(a, b)
  BY DEF Joined, MergedField, IsMap, Overlaid

\* Of a scalar, a string or a list the second one stays unless it is absent.
LEMMA JoinedOther ==
  ASSUME NEW f, NEW a, NEW b, f.kind \notin {"duration", "bytes list", "message list", "map", "message", "external"}
  PROVE  Joined(f, a, b) = (IF b = ZeroOf(f) THEN a ELSE b)
  BY DEF Joined, MergedField

\* The fields that hold a pointer.
IsPointed(f) == f.kind \in {"message", "external"}

\* A pointer that is nil gives way to the other one.
LEMMA JoinedPointers ==
  ASSUME NEW f, NEW a, IsPointed(f)
  PROVE  Joined(f, a, <<>>) = a \o <<>> /\ Joined(f, <<>>, a) = <<>> \o a
  BY DEF Joined, MergedField, IsPointed

\* Of two external messages the bytes are concatenated.
LEMMA JoinedExternals ==
  ASSUME NEW f, NEW a, NEW b, f.kind = "external", a # <<>>, b # <<>>
  PROVE  Joined(f, a, b) = <<Head(a) \o Head(b)>>
  BY DEF Joined, MergedField

\* Two messages are merged.
LEMMA JoinedMessages ==
  ASSUME NEW f, NEW a, NEW b, f.kind = "message", a # <<>>, b # <<>>
  PROVE  Joined(f, a, b) = <<MergedFlat(f.of, Head(a), Head(b))>>
  BY DEF Joined, MergedField

\* Whatever nested messages are merged with, the other fields are joined in the same way.
LEMMA FlatJoinedField ==
  ASSUME NEW f, NEW a, NEW b, f.kind # "message"
  PROVE  MergedField(f, a, b, LAMBDA k, x, y : x) = Joined(f, a, b)
  BY DEF MergedField, Joined

\* A name of a message's field has its field, and a field its name.
LEMMA NamedField ==
  ASSUME NEW kind, NEW name, name \in Names(kind)
  PROVE  FieldNamed(kind, name) \in Fields(kind) /\ FieldNamed(kind, name).name = name
<1>1. \E f : f \in Fields(kind) /\ f.name = name
  BY DEF Names
<1>2. QED
  BY <1>1 DEF FieldNamed

\* The field of its name is the field.
LEMMA FieldNamedSo ==
  ASSUME NEW kind, NEW f, f \in Fields(kind)
  PROVE  FieldNamed(kind, f.name) = f /\ f.name \in Names(kind)
  BY NamesDistinct DEF FieldNamed, Names

\* A kind whose fields hold no messages is merged field by field.
LEMMA FlatJoined ==
  ASSUME NEW kind \in Simple, NEW m, NEW n, m = [name \in Names(kind) |-> m[name]]
  PROVE  MergedFlat(kind, m, n) = JoinedMessage(kind, m, n)
<1> DEFINE M(f, a, b) == MergedField(f, a, b, LAMBDA k, x, y : x)
<1>1. ASSUME NEW f \in Fields(kind), NEW a, NEW b
      PROVE  M(f, a, b) = Joined(f, a, b)
  BY SimpleFields, FlatJoinedField
<1>2. MergedFlat(kind, m, n) = [name \in DOMAIN m |-> M(FieldNamed(kind, name), m[name], n[name])]
  BY DEF MergedFlat, Merged
<1> HIDE DEF M
<1>3. DOMAIN m = Names(kind)
  OBVIOUS
<1>4. \A name \in DOMAIN m : FieldNamed(kind, name) \in Fields(kind)
  BY <1>3, NamedField
<1>5. QED
  BY <1>1, <1>2, <1>4 DEF JoinedMessage

-----------------------------------------------------------------------------
(* A buffer that lost its tail.  A decoder that meets the beginning of an  *)
(* element of which the end is missing fails, so that it ends between two  *)
(* elements or not at all.                                                 *)

\* A record of a kind's fields, and the same with another value in one of them.
Shaped(kind, a) == a = [name \in Names(kind) |-> a[name]]
With(a, f, v) == [a EXCEPT ![f.name] = v]

\* A record with another value in one field, and then another one.
LEMMA WithAgain ==
  ASSUME NEW kind, NEW a, NEW f, NEW v, Shaped(kind, a), f \in Fields(kind)
  PROVE  /\ Shaped(kind, With(a, f, v)) /\ With(a, f, v)[f.name] = v
<1> DEFINE n == f.name
           N == Names(kind)
           g == [name \in N |-> a[name]]
<1>1. n \in N
  BY DEF Names
<1>2. a = g
  BY DEF Shaped
<1> HIDE DEF n, N
<1> DEFINE h == [a EXCEPT ![n] = v]
           k == [name \in N |-> IF name = n THEN v ELSE a[name]]
<1>3. h = k
  <2>1. [g EXCEPT ![n] = v] = [name \in N |-> IF name = n THEN v ELSE g[name]]
    OBVIOUS
  <2>2. \A name \in N : g[name] = a[name]
    OBVIOUS
  <2>3. [name \in N |-> IF name = n THEN v ELSE g[name]] = k
    BY <2>2
  <2> HIDE DEF g, k
  <2>4. QED
    BY <1>2, <2>1, <2>3
<1>4. h = [name \in N |-> h[name]] /\ h[n] = v
  BY <1>1, <1>3
<1> HIDE DEF h, k, g
<1>5. QED
  BY <1>4 DEF Shaped, With, n, N, h

\* The last value counts.
LEMMA WithTwice ==
  ASSUME NEW kind, NEW a, NEW f, NEW v, NEW u, Shaped(kind, a), f \in Fields(kind)
  PROVE  With(With(a, f, v), f, u) = With(a, f, u)
<1> DEFINE n == f.name
           g == [name \in Names(kind) |-> a[name]]
<1>1. [[g EXCEPT ![n] = v] EXCEPT ![n] = u] = [g EXCEPT ![n] = u]
  OBVIOUS
<1>2. a = g
  BY DEF Shaped
<1> HIDE DEF g
<1>3. QED
  BY <1>1, <1>2 DEF With, n

\* The other fields stay.
LEMMA WithElse ==
  ASSUME NEW kind, NEW a, NEW f, NEW v, NEW name, Shaped(kind, a), f \in Fields(kind),
         name \in Names(kind), name # f.name
  PROVE  With(a, f, v)[name] = a[name]
<1> DEFINE n == f.name
           g == [k \in Names(kind) |-> a[k]]
           h == [g EXCEPT ![n] = v]
<1>1. h[name] = g[name] /\ g[name] = a[name]
  OBVIOUS
<1>2. a = g
  BY DEF Shaped
<1>3. With(a, f, v) = [a EXCEPT ![n] = v]
  BY DEF With
<1> HIDE DEF g
<1>4. QED
  BY <1>1, <1>2, <1>3

\* A record whose fields are parts of those of a message.
Partly(kind, v, m) ==
  /\ Shaped(kind, v)
  /\ \A f \in Fields(kind) : PartOf(f, v[f.name], m[f.name])

\* Another part of a field's value makes it no less a part of the message.
LEMMA WithPart ==
  ASSUME NEW kind, NEW a, NEW f, NEW v, NEW m, Partly(kind, a, m), f \in Fields(kind),
         PartOf(f, v, m[f.name])
  PROVE  Partly(kind, With(a, f, v), m)
<1> DEFINE x == With(a, f, v)
<1>1. Shaped(kind, a)
  BY DEF Partly
<1>2. Shaped(kind, x) /\ x[f.name] = v
  BY ONLY <1>1, f \in Fields(kind), WithAgain
<1>3. ASSUME NEW name, name \in Names(kind), name # f.name PROVE x[name] = a[name]
  BY <1>1, <1>3, WithElse
<1> HIDE DEF x
<1>4. ASSUME NEW g \in Fields(kind) PROVE PartOf(g, x[g.name], m[g.name])
  <2>1. g.name \in Names(kind) /\ FieldNamed(kind, g.name) = g /\ FieldNamed(kind, f.name) = f
    BY FieldNamedSo
  <2>2. CASE g.name = f.name
    <3>1. g = f
      BY <2>1, <2>2
    <3>2. QED
      BY <1>2, <3>1
  <2>3. CASE g.name # f.name
    <3>1. x[g.name] = a[g.name] /\ PartOf(g, a[g.name], m[g.name])
      BY <1>3, <2>1, <2>3 DEF Partly
    <3>2. QED
      BY <3>1
  <2>4. QED
    BY <2>2, <2>3
<1>5. QED
  BY <1>2, <1>4 DEF Partly, x

\* What is left of a buffer.
Begins(data, whole) ==
  /\ data \in Seq(Byte) /\ whole \in Seq(Byte) /\ Len(data) <= Len(whole)
  /\ \A i \in 1..Len(data) : data[i] = whole[i]

\* What comes before the cut is still there.
LEMMA BeginsStored ==
  ASSUME NEW data, NEW whole, NEW at, NEW w, Begins(data, whole), Stored(whole, at, w),
         at + Len(w) <= Len(data)
  PROVE  Stored(data, at, w)
<1>1. /\ at \in Nat /\ Len(w) \in Nat /\ Len(data) \in Nat /\ w \in Seq(Byte)
      /\ \A i \in 1..Len(w) : whole[at + i] = w[i]
  BY StoredFacts, LenProperties DEF Begins, Stored
<1>2. ASSUME NEW i \in 1..Len(w) PROVE data[at + i] = w[i]
  <2>1. at + i \in 1..Len(data)
    BY <1>1
  <2>2. QED
    BY <1>1, <2>1 DEF Begins
<1>3. QED
  BY <1>1, <1>2 DEF Begins, Stored

\* What is left fits as well.
LEMMA BeginsAddressable ==
  ASSUME NEW data, NEW whole, Begins(data, whole), Addressable(whole)
  PROVE  Addressable(data)
<1>1. Len(data) \in Nat /\ Len(whole) \in Nat /\ Pow2[Word - 1] \in Nat
  BY LenProperties, PowPositive, WireAssumption DEF Begins
<1>2. QED
  BY <1>1 DEF Begins, Addressable

\* A varint of which the last byte is missing does not end.
LEMMA VarintCut ==
  ASSUME NEW data, NEW whole, NEW at, NEW v \in Uint64Values, Begins(data, whole),
         Stored(whole, at, Varint(v)), Len(data) < at + Sov(v)
  PROVE  ReadVarint(data, at) = {}
<1> DEFINE s == Sov(v)
           l == Len(data)
           top == at + (Word + 6) \div 7
<1>1. /\ s \in Nat
      /\ \A i \in 1..s : Rest(v, i - 1) \in Nat /\ (Rest(v, i - 1) >= 128 <=> i < s)
  BY SovFits
<1>2. /\ at \in Nat /\ l \in Nat /\ l < at + s
      /\ \A i \in 1..s : whole[at + i] = Varint(v)[i]
  BY <1>1, VarintBytes, UintValues, StoredFacts, LenProperties DEF Stored, Begins
<1>3. top \in Nat
  BY <1>2, WireAssumption
<1> HIDE DEF s, l, top
<1>4. Min({l, top}) \in {l, top} /\ Min({l, top}) <= l
  <2>1. {l, top} \in SUBSET Nat /\ {l, top} # {}
    BY <1>2, <1>3
  <2>2. QED
    BY <2>1, MinLeast
<1>5. ASSUME NEW j \in VarintEnds(data, at) PROVE FALSE
  <2>1. j \in (at + 1)..Min({l, top}) /\ data[j] < 128
    BY DEF VarintEnds, l, top
  <2>2. j \in 1..l /\ j - at \in 1..s /\ j - at < s /\ at + (j - at) = j
    BY <1>1, <1>2, <1>3, <1>4, <2>1
  <2> DEFINE i == j - at
             r == Rest(v, i - 1)
  <2>3. data[j] = whole[j] /\ whole[j] = Varint(v)[i]
    BY <1>2, <2>2 DEF Begins, l
  <2>4. r \in Nat /\ r >= 128
    BY <1>1, <2>2
  <2>5. Varint(v)[i] = IF r >= 128 THEN 128 + (r % 128) ELSE r
    BY <2>2 DEF Varint, s
  <2> HIDE DEF r, i
  <2>6. r % 128 \in Nat
    BY <2>4
  <2>7. QED
    BY <2>1, <2>3, <2>4, <2>5, <2>6
<1>6. VarintEnds(data, at) = {}
  BY <1>5
<1>7. QED
  BY <1>6 DEF ReadVarint

\* Bytes of which some are missing run over the end.
LEMMA DelimitedCut ==
  ASSUME NEW data, NEW whole, NEW at, NEW w \in Seq(Byte), Begins(data, whole), Addressable(whole),
         Stored(whole, at, Varint(Len(w)) \o w), Len(data) < at + (Sov(Len(w)) + Len(w))
  PROVE  ReadDelimited(data, at) = {}
<1> DEFINE n == Len(w)
           l == Len(data)
           p == Pow2[Word - 1]
           from == at + Sov(n)
           post == from + n
<1>1. n \in Nat /\ l \in Nat /\ at \in Nat /\ Len(whole) \in Nat /\ Len(whole) < p
  BY LenProperties, StoredFacts DEF Begins, Addressable
<1>2. Varint(n) \in Seq(Byte) /\ Len(Varint(n)) = Sov(n) /\ Sov(n) \in Nat
  BY <1>1, VarintBytes
<1>3. Stored(whole, at, Varint(n)) /\ Stored(whole, from, w)
  BY <1>2, StoredParts
<1>4. from \in Nat /\ post \in 0..Len(whole) /\ l < post
  BY <1>1, <1>2, <1>3, StoredFacts
<1>5. p \in Nat \ {0} /\ Pow2[Word] = 2 * p
  BY PowRecursion, PowPositive, WireAssumption
<1> HIDE DEF p, n
<1>6. n \in Uint64Values /\ n < p
  <2>1. n <= post /\ post < p
    BY <1>1, <1>4, <1>5
  <2>2. QED
    BY <1>1, <1>4, <1>5, <2>1 DEF Uint64Values
<1>7. CASE l < from
  <2>1. ReadVarint(data, at) = {}
    BY <1>3, <1>6, <1>7, VarintCut
  <2>2. QED
    BY <2>1 DEF ReadDelimited
<1>8. CASE ~(l < from)
  <2>1. ReadVarint(data, at) = {[value |-> n, at |-> from]}
    <3>1. at + Len(Varint(n)) <= Len(data)
      BY <1>1, <1>2, <1>4, <1>8
    <3>2. Stored(data, at, Varint(n))
      BY <1>3, <3>1, BeginsStored
    <3>3. QED
      BY <1>6, <3>2, VarintIsRead
  <2> HIDE DEF from
  <2>2. Signed(n, Word) = n
    BY <1>1, <1>5, <1>6 DEF Signed, p
  <2>3. Wrap(post) = post
    <3>1. post \in 0..(Pow2[Word] - 1) /\ ~(post >= p) /\ Pow2[Word] \in Nat \ {0}
      BY <1>1, <1>4, <1>5
    <3>2. post % Pow2[Word] = post
      BY <3>1, ModSmall
    <3> HIDE DEF post
    <3>3. QED
      BY <3>1, <3>2 DEF Wrap, Signed, p
  <2> DEFINE r == [value |-> n, at |-> from]
             d == [from |-> from, post |-> post]
  <2>4. {x \in ReadVarint(data, at) : Signed(x.value, Word) >= 0} = {r}
    BY <1>1, <2>1, <2>2
  <2>5. [from |-> r.at, post |-> Wrap(r.at + Signed(r.value, Word))] = d
    BY <2>2, <2>3
  <2>6. ~(d.post <= l)
    BY <1>1, <1>4
  <2> HIDE DEF r, d
  <2>7. {[from |-> x.at, post |-> Wrap(x.at + Signed(x.value, Word))] : x \in {r}} = {d}
    BY <2>5
  <2>8. ReadDelimited(data, at) = {x \in {d} : x.post >= 0 /\ x.post <= l}
    BY <2>4, <2>7 DEF ReadDelimited, l
  <2>9. QED
    BY <2>6, <2>8
<1>9. QED
  BY <1>7, <1>8

\* A call that can only fail.
Sticks(c) == Stuck(c) /\ (\A d : ~GoesOn(c, d)) /\ (\A b, d : ~Makes(c, b, d))

\* If the decoder may fail, such a call ends with whatever it is said to.
LEMMA DecodesStuck ==
  ASSUME NEW A, NEW c, NEW g, A.fails, Sticks(c), c.kind \notin {"external", "skip"}, ~(c.at >= c.end)
  PROVE  Decodes(A, c, g)
<1>1. Closed({}, A)
  BY DEF Closed
<1>2. LoopLeads({}, A, c, g)
  BY DEF LoopLeads, Sticks
<1>3. Leads({}, A, c, g)
  BY <1>2 DEF Leads
<1>4. QED
  BY <1>1, <1>3, DecodesFirst

\* A tag is all that can be read of a field.
LEMMA TagSticks ==
  ASSUME NEW c, NEW f, NEW type, f \in Fields(c.kind), type \in 0..5, type # 4,
         Stored(c.data, c.at, <<TagOf(f, type)>>),
         IF IsScalar(f) THEN ReadVarint(c.data, c.at + 1) = {} ELSE ReadDelimited(c.data, c.at + 1) = {}
  PROVE  Sticks(c) /\ c.kind \notin {"external", "skip"}
<1> DEFINE t == [num |-> f.num, type |-> type, at |-> c.at + 1]
<1>1. /\ Tags(c) = {t} /\ Case(c, t) = {f} /\ ~Skipped(c, t)
      /\ c.kind \notin {"external", "MapEntry", "skip"}
  BY TagOfField
<1>2. t.at = c.at + 1
  OBVIOUS
<1> HIDE DEF t
<1>3. IF IsScalar(f) THEN Scalars(c, t, f) = {} ELSE Contents(c, t) = {}
  BY <1>2 DEF Scalars, Contents
<1>4. Stuck(c)
  BY <1>1, <1>3 DEF Stuck
<1>5. \A d : ~GoesOn(c, d)
  <2>1. \A d : ~GoesKey(c, t, d) /\ ~GoesValue(c, t, d)
    BY <1>1 DEF GoesKey, GoesValue
  <2>2. \A d : ~GoesScalar(c, t, d)
    BY <1>1, <1>3 DEF GoesScalar
  <2>3. \A d : ~GoesString(c, t, d)
    BY <1>1, <1>3 DEF GoesString, IsScalar
  <2>4. QED
    BY <1>1, <2>1, <2>2, <2>3 DEF GoesOn
<1>6. \A b, d : ~Makes(c, b, d)
  <2>1. \A b, d : ~MakesNested(c, t, b, d)
    BY <1>1, <1>3 DEF MakesNested, IsScalar
  <2>2. \A b, d : ~MakesEntry(c, t, b, d)
    BY <1>1, <1>3 DEF MakesEntry, IsScalar
  <2>3. \A b, d : ~MakesSkip(c, t, b, d)
    BY <1>1 DEF MakesSkip
  <2>4. QED
    BY <1>1, <2>1, <2>2, <2>3 DEF Makes
<1>7. QED
  BY <1>1, <1>4, <1>5, <1>6 DEF Sticks

\* A buffer that ends somewhere in the bytes w, or at one of their ends, leaves parts of m
\* if it left parts of m before: nothing else is ever returned.
Breaks(A, kind, w, a, m) ==
  \A field, data, whole, at :
    /\ Begins(data, whole) /\ Addressable(whole) /\ Stored(whole, at, w)
    /\ at <= Len(data) /\ Len(data) <= at + Len(w)
    => \E v : Partly(kind, v, m) /\ Decodes(A, Call(kind, field, a, data, at, Len(data)), v)

\* A call at the end of what is left.
LEMMA DecodesRest ==
  ASSUME NEW A, NEW kind, NEW field, NEW a, NEW data, kind \in Kinds, data \in Seq(Byte)
  PROVE  Decodes(A, Call(kind, field, a, data, Len(data), Len(data)), a)
<1> DEFINE n == Len(data)
           c == Call(kind, field, a, data, n, n)
<1>1. n \in Nat
  BY LenProperties
<1>2. c.kind = kind /\ c.val = a /\ c.at = n /\ c.end = n
  BY CallParts
<1>3. kind # "skip" /\ kind # "external"
  BY KindsApart
<1> HIDE DEF c, n
<1>4. c.at >= c.end /\ ~(c.at < c.end)
  BY <1>1, <1>2
<1>5. Decodes(A, c, c.val)
  BY <1>2, <1>3, <1>4, DecodesEnd
<1>6. QED
  BY <1>2, <1>5 DEF c, n

\* No bytes.
LEMMA BreaksNothing ==
  ASSUME NEW A, NEW kind, NEW a, NEW m, kind \in Kinds, Partly(kind, a, m)
  PROVE  Breaks(A, kind, <<>>, a, m)
<1>1. SUFFICES ASSUME NEW field, NEW data, NEW whole, NEW at, Begins(data, whole),
                      Stored(whole, at, <<>>), at <= Len(data), Len(data) <= at + Len(<<>>)
               PROVE  \E v : /\ Partly(kind, v, m)
                             /\ Decodes(A, Call(kind, field, a, data, at, Len(data)), v)
  BY DEF Breaks
<1>2. at \in Nat /\ Len(data) \in Nat /\ Len(<<>>) = 0 /\ data \in Seq(Byte)
  BY <1>1, StoredFacts, LenProperties, EmptySeq DEF Begins
<1>3. at = Len(data)
  BY <1>1, <1>2
<1>4. Decodes(A, Call(kind, field, a, data, at, Len(data)), a)
  BY <1>2, <1>3, DecodesRest
<1>5. QED
  BY <1>4

\* One piece after the other.
LEMMA BreaksConcat ==
  ASSUME NEW A, NEW kind, NEW a, NEW b, NEW m, NEW v \in Seq(Byte), NEW w \in Seq(Byte),
         kind \in Kinds, Breaks(A, kind, v, a, m), Carries(A, kind, v, a, b), Breaks(A, kind, w, b, m)
  PROVE  Breaks(A, kind, v \o w, a, m)
<1>1. SUFFICES ASSUME NEW field, NEW data, NEW whole, NEW at, Begins(data, whole), Addressable(whole),
                      Stored(whole, at, v \o w), at <= Len(data), Len(data) <= at + Len(v \o w)
               PROVE  \E x : /\ Partly(kind, x, m)
                             /\ Decodes(A, Call(kind, field, a, data, at, Len(data)), x)
  BY DEF Breaks
<1> DEFINE p == Len(v)
           q == Len(w)
           l == Len(data)
<1>2. p \in Nat /\ q \in Nat /\ Len(v \o w) = p + q /\ l \in Nat
  BY <1>1, Concat, LenProperties DEF Begins
<1>3. Stored(whole, at, v) /\ Stored(whole, at + p, w) /\ at \in Nat
  BY <1>1, StoredParts, StoredFacts
<1>4. CASE l <= at + p
  BY <1>1, <1>3, <1>4 DEF Breaks
<1>5. CASE ~(l <= at + p)
  <2> HIDE DEF p, q, l
  <2>1. at + p <= l /\ l <= (at + p) + q /\ l \in 0..l
    BY <1>1, <1>2, <1>3, <1>5 DEF l
  <2>2. PICK x : Partly(kind, x, m) /\ Decodes(A, Call(kind, field, b, data, at + p, l), x)
    BY <1>1, <1>3, <2>1 DEF Breaks, l, q
  <2>3. Stored(data, at, v) /\ Addressable(data)
    BY <1>1, <1>3, <2>1, BeginsStored, BeginsAddressable DEF l, p
  <2>4. kind # "external"
    BY KindsApart
  <2>5. Decodes(A, Call(kind, field, a, data, at, l), x)
    BY <2>1, <2>2, <2>3, <2>4 DEF Carries, p, l
  <2>6. QED
    BY <2>2, <2>5 DEF l
<1>6. QED
  BY <1>4, <1>5

\* What comes after the tag of an element cannot be read when a part of it is missing.
Fragile(f, rest) ==
  /\ rest \in Seq(Byte)
  /\ \A data, whole, at :
       /\ Begins(data, whole) /\ Addressable(whole) /\ Stored(whole, at, rest)
       /\ Len(data) < at + Len(rest)
       => IF IsScalar(f) THEN ReadVarint(data, at) = {} ELSE ReadDelimited(data, at) = {}

\* A number.
LEMMA VarintFragile ==
  ASSUME NEW f, NEW v \in Uint64Values, IsScalar(f)
  PROVE  Fragile(f, Varint(v))
<1>1. Varint(v) \in Seq(Byte) /\ Len(Varint(v)) = Sov(v)
  BY UintValues, VarintBytes
<1>2. QED
  BY <1>1, VarintCut DEF Fragile

\* Bytes.
LEMMA BytesFragile ==
  ASSUME NEW f, NEW w \in Seq(Byte), ~IsScalar(f)
  PROVE  Fragile(f, Varint(Len(w)) \o w)
<1>1. Len(w) \in Nat
  BY LenProperties
<1>2. Varint(Len(w)) \in Seq(Byte) /\ Len(Varint(Len(w))) = Sov(Len(w))
  BY <1>1, VarintBytes
<1>3. Varint(Len(w)) \o w \in Seq(Byte) /\ Len(Varint(Len(w)) \o w) = Sov(Len(w)) + Len(w)
  BY <1>2, Concat
<1>4. QED
  BY <1>3, DelimitedCut DEF Fragile

\* An element: a cut in it is an error, and one at its ends leaves what was there.
LEMMA ElementBreaks ==
  ASSUME NEW A, NEW kind, NEW a, NEW b, NEW m, NEW f, NEW type, NEW rest, f \in Fields(kind),
         type \in 0..5, type # 4, A.fails, Fragile(f, rest), Partly(kind, a, m), Partly(kind, b, m),
         Carries(A, kind, <<TagOf(f, type)>> \o rest, a, b)
  PROVE  Breaks(A, kind, <<TagOf(f, type)>> \o rest, a, m)
<1> DEFINE tag == TagOf(f, type)
           w == <<tag>> \o rest
<1>1. tag \in Byte /\ kind \in Kinds /\ rest \in Seq(Byte)
  BY NumbersDistinct, TagOfByte DEF Fields, Fragile
<1>2. <<tag>> \in Seq(Byte) /\ Len(<<tag>>) = 1 /\ Len(rest) \in Nat
  BY <1>1, TagBytes, LenProperties
<1> HIDE DEF tag
<1>3. w \in Seq(Byte) /\ Len(w) = 1 + Len(rest)
  BY <1>1, <1>2, Concat
<1>4. ASSUME NEW field, NEW data, NEW whole, NEW at, Begins(data, whole), Addressable(whole),
             Stored(whole, at, w), at <= Len(data), Len(data) <= at + Len(w)
      PROVE  \E v : Partly(kind, v, m) /\ Decodes(A, Call(kind, field, a, data, at, Len(data)), v)
  <2> DEFINE l == Len(data)
             c == Call(kind, field, a, data, at, l)
  <2>1. at \in Nat /\ l \in Nat /\ data \in Seq(Byte)
    BY <1>4, StoredFacts, LenProperties DEF Begins
  <2>2. Stored(whole, at, <<tag>>) /\ Stored(whole, at + 1, rest)
    BY <1>1, <1>2, <1>4, StoredParts
  <2> HIDE DEF w, l
  <2>3. CASE l = at
    <3>1. Decodes(A, Call(kind, field, a, data, at, l), a)
      BY <1>1, <2>1, <2>3, DecodesRest DEF l
    <3>2. QED
      BY <3>1 DEF l
  <2>4. CASE l = at + Len(w)
    <3>1. Decodes(A, Call(kind, field, b, data, at + Len(w), l), b)
      BY <1>1, <2>1, <2>4, DecodesRest DEF l
    <3>2. Stored(data, at, w) /\ Addressable(data) /\ at + Len(w) <= Len(data)
      BY <1>3, <1>4, <2>1, <2>4, BeginsStored, BeginsAddressable DEF l
    <3>3. kind # "external" /\ l \in 0..Len(data)
      BY <1>1, <2>1, KindsApart DEF l
    <3>4. Carries(A, kind, w, a, b)
      BY DEF w, tag
    <3>5. Decodes(A, Call(kind, field, a, data, at, l), b)
      BY <2>4, <3>1, <3>2, <3>3, <3>4 DEF Carries, l
    <3>6. QED
      BY <3>5 DEF l
  <2>5. CASE l # at /\ l # at + Len(w)
    <3>1. at + 1 <= l /\ l < (at + 1) + Len(rest)
      BY <1>2, <1>3, <1>4, <2>1, <2>5 DEF l
    <3>2. Stored(data, at, <<tag>>)
      BY <1>2, <1>4, <2>2, <3>1, BeginsStored DEF l
    <3>3. IF IsScalar(f) THEN ReadVarint(data, at + 1) = {} ELSE ReadDelimited(data, at + 1) = {}
      BY <1>4, <2>2, <3>1 DEF Fragile, l
    <3>4. c.kind = kind /\ c.data = data /\ c.at = at /\ c.end = l
      BY CallParts
    <3> HIDE DEF c
    <3>5. Sticks(c) /\ c.kind \notin {"external", "skip"}
      BY <3>2, <3>3, <3>4, TagSticks DEF tag
    <3>6. ~(c.at >= c.end)
      BY <2>1, <3>1, <3>4
    <3>7. Decodes(A, c, a)
      BY <3>5, <3>6, DecodesStuck
    <3>8. QED
      BY <3>7 DEF c, l
  <2>6. QED
    BY <2>3, <2>4, <2>5
<1> HIDE DEF w
<1>5. Breaks(A, kind, w, a, m)
  BY <1>4 DEF Breaks
<1>6. QED
  BY <1>5 DEF w, tag

\* A field of bytes.
LEMMA DelimitedBreaks ==
  ASSUME NEW A, NEW kind, NEW a, NEW b, NEW m, NEW f, NEW w \in Seq(Byte), f \in Fields(kind),
         ~IsScalar(f), A.fails, Partly(kind, a, m), Partly(kind, b, m),
         Carries(A, kind, Delimited(TagOf(f, 2), w), a, b)
  PROVE  Breaks(A, kind, Delimited(TagOf(f, 2), w), a, m)
<1> DEFINE z == 2
           tag == TagOf(f, z)
           n == Len(w)
           rest == Varint(n) \o w
<1>1. tag \in Byte /\ n \in Nat /\ z \in 0..5 /\ z # 4
  BY NumbersDistinct, TagOfByte, LenProperties
<1>2. <<tag>> \in Seq(Byte) /\ Varint(n) \in Seq(Byte)
  BY <1>1, TagBytes, VarintBytes
<1>3. Delimited(tag, w) = <<tag>> \o rest
  <2>1. (<<tag>> \o Varint(n)) \o w = <<tag>> \o (Varint(n) \o w)
    BY <1>2, ConcatAssociative
  <2>2. QED
    BY <2>1 DEF Delimited
<1>4. Fragile(f, rest)
  BY BytesFragile
<1> HIDE DEF rest, n
<1>5. Carries(A, kind, <<TagOf(f, z)>> \o rest, a, b)
  BY <1>3
<1> HIDE DEF z
<1>6. Breaks(A, kind, <<TagOf(f, z)>> \o rest, a, m)
  BY <1>1, <1>4, <1>5, ElementBreaks
<1>7. QED
  BY <1>3, <1>6 DEF z

\* All pieces of a sequence.
LEMMA BreaksAll ==
  ASSUME NEW A, NEW kind, NEW m, NEW vals, NEW s \in Seq(Seq(Byte)), kind \in Kinds,
         Partly(kind, vals[0], m),
         \A i \in 1..Len(s) : /\ Carries(A, kind, s[i], vals[i - 1], vals[i])
                              /\ Breaks(A, kind, s[i], vals[i - 1], m)
  PROVE  Breaks(A, kind, FlattenSeq(s), vals[0], m)
<1> DEFINE n == Len(s)
<1>1. n \in Nat /\ \A i \in 1..n : s[i] \in Seq(Byte)
  BY LenProperties, ElementOfSeq
<1>2. CASE n = 0
  <2>1. FlattenSeq(s) = <<>>
    BY <1>2, EmptySeq DEF FlattenSeq
  <2>2. QED
    BY <2>1, BreaksNothing
<1>3. CASE n # 0
  <2>1. PICK f : /\ FlattenSeq(s) = f[n]
                 /\ \A i \in 1..n : f[i] = IF i = 1 THEN s[i] ELSE f[i - 1] \o s[i]
    BY <1>1, <1>3, FlattenSteps
  <2> DEFINE Good(k) == k + 1 <= n => /\ f[k + 1] \in Seq(Byte)
                                      /\ Carries(A, kind, f[k + 1], vals[0], vals[k + 1])
                                      /\ Breaks(A, kind, f[k + 1], vals[0], m)
  <2> HIDE DEF n
  <2>2. Good(0)
    <3>1. 1 \in 1..n /\ 1 - 1 = 0 /\ 0 + 1 = 1
      BY <1>1, <1>3
    <3>2. /\ f[1] = s[1] /\ s[1] \in Seq(Byte) /\ Carries(A, kind, s[1], vals[0], vals[1])
          /\ Breaks(A, kind, s[1], vals[0], m)
      BY <1>1, <2>1, <3>1 DEF n
    <3>3. QED
      BY <3>1, <3>2
  <2>3. ASSUME NEW k \in Nat, Good(k) PROVE Good(k + 1)
    <3> DEFINE j == k + 1
    <3>1. SUFFICES ASSUME j + 1 <= n
                   PROVE  /\ f[j + 1] \in Seq(Byte) /\ Carries(A, kind, f[j + 1], vals[0], vals[j + 1])
                          /\ Breaks(A, kind, f[j + 1], vals[0], m)
      OBVIOUS
    <3>2. j + 1 \in 1..n /\ (j + 1) - 1 = j /\ j + 1 # 1
      BY <1>1, <3>1
    <3>3. /\ f[j] \in Seq(Byte) /\ Carries(A, kind, f[j], vals[0], vals[j])
          /\ Breaks(A, kind, f[j], vals[0], m)
      BY <1>1, <2>3, <3>2
    <3> HIDE DEF j
    <3>4. f[j + 1] = f[j] \o s[j + 1] /\ s[j + 1] \in Seq(Byte)
      BY <1>1, <2>1, <3>2
    <3>5. Carries(A, kind, s[j + 1], vals[j], vals[j + 1]) /\ Breaks(A, kind, s[j + 1], vals[j], m)
      BY <3>2 DEF n
    <3>6. f[j + 1] \in Seq(Byte) /\ Carries(A, kind, f[j + 1], vals[0], vals[j + 1])
      BY <3>3, <3>4, <3>5, Concat, CarriesConcat
    <3>7. Breaks(A, kind, f[j + 1], vals[0], m)
      BY <3>3, <3>4, <3>5, BreaksConcat
    <3>8. QED
      BY <3>6, <3>7
  <2> HIDE DEF Good
  <2>4. \A k \in Nat : Good(k)
    <3> DEFINE S == {k \in Nat : Good(k)}
    <3>1. 0 \in S /\ \A k \in Nat : k \in S => k + 1 \in S
      BY <2>2, <2>3
    <3> HIDE DEF S
    <3>2. \A k \in Nat : k \in S
      BY <3>1, Induction
    <3>3. QED
      BY <3>2 DEF S
  <2>5. n - 1 \in Nat /\ (n - 1) + 1 = n
    BY <1>1, <1>3
  <2>6. Good(n - 1)
    BY <2>4, <2>5
  <2>7. Breaks(A, kind, f[n], vals[0], m)
    BY <1>1, <2>5, <2>6 DEF Good
  <2>8. QED
    BY <2>1, <2>7
<1>4. QED
  BY <1>2, <1>3

-----------------------------------------------------------------------------
(* A message grows by the bytes of one field.                              *)

\* To write a field's own value changes nothing.
LEMMA WithSame ==
  ASSUME NEW kind, NEW a, NEW f, Shaped(kind, a), f \in Fields(kind)
  PROVE  With(a, f, a[f.name]) = a
<1>1. f.name \in Names(kind)
  BY DEF Names
<1> DEFINE n == f.name
           g == [name \in Names(kind) |-> a[name]]
<1> HIDE DEF n
<1>2. [g EXCEPT ![n] = g[n]] = g
  OBVIOUS
<1>3. a = g
  BY DEF Shaped
<1> HIDE DEF g
<1>4. QED
  BY <1>2, <1>3 DEF With, n

\* Bytes of which any beginning brings a part of the value into a field that was empty.
BreaksField(A, kind, f, w, b) ==
  \A a, m : Partly(kind, a, m) /\ a[f.name] = ZeroOf(f) /\ m[f.name] = b => Breaks(A, kind, w, a, m)

\* Bytes that bring a value into a field, whatever is there.
Piece(A, kind, f, w, b) ==
  /\ w \in Seq(Byte)
  /\ \A a : Shaped(kind, a) /\ Fits(f, a[f.name]) =>
       Carries(A, kind, w, a, With(a, f, Joined(f, a[f.name], b)))
  /\ A.fails => BreaksField(A, kind, f, w, b)

\* A field's kind is one of the kinds of messages.
LEMMA FieldKind ==
  ASSUME NEW kind, NEW f, f \in Fields(kind)
  PROVE  kind \in Kinds
  BY DEF Fields

\* One element that sets the field.
LEMMA ElementBreaksField ==
  ASSUME NEW A, NEW kind, NEW f, NEW b, NEW type, NEW rest, f \in Fields(kind), type \in 0..5,
         type # 4, Fragile(f, rest),
         \A a : Carries(A, kind, <<TagOf(f, type)>> \o rest, a, With(a, f, b))
  PROVE  A.fails => BreaksField(A, kind, f, <<TagOf(f, type)>> \o rest, b)
<1> DEFINE w == <<TagOf(f, type)>> \o rest
<1>1. SUFFICES ASSUME A.fails, NEW a, NEW m, Partly(kind, a, m), m[f.name] = b
               PROVE  Breaks(A, kind, w, a, m)
  BY DEF BreaksField
<1> DEFINE x == With(a, f, b)
<1>2. PartOf(f, b, m[f.name])
  BY <1>1 DEF PartOf
<1>3. Partly(kind, x, m)
  BY <1>1, <1>2, WithPart
<1>4. Carries(A, kind, w, a, x)
  OBVIOUS
<1> HIDE DEF x
<1>5. QED
  BY <1>1, <1>3, <1>4, ElementBreaks

\* One element of bytes that sets it.
LEMMA DelimitedBreaksField ==
  ASSUME NEW A, NEW kind, NEW f, NEW b, NEW w \in Seq(Byte), f \in Fields(kind), ~IsScalar(f),
         \A a : Carries(A, kind, Delimited(TagOf(f, 2), w), a, With(a, f, b))
  PROVE  A.fails => BreaksField(A, kind, f, Delimited(TagOf(f, 2), w), b)
<1> DEFINE d == Delimited(TagOf(f, 2), w)
<1>1. SUFFICES ASSUME A.fails, NEW a, NEW m, Partly(kind, a, m), m[f.name] = b
               PROVE  Breaks(A, kind, d, a, m)
  BY DEF BreaksField
<1> DEFINE x == With(a, f, b)
<1>2. PartOf(f, b, m[f.name])
  BY <1>1 DEF PartOf
<1>3. Partly(kind, x, m)
  BY <1>1, <1>2, WithPart
<1>4. Carries(A, kind, d, a, x)
  OBVIOUS
<1> HIDE DEF x
<1>5. QED
  BY <1>1, <1>3, <1>4, DelimitedBreaks

\* Nothing is written of a field that holds what it is without.
LEMMA NothingPiece ==
  ASSUME NEW A, NEW kind, NEW f, NEW b, f \in Fields(kind),
         \A a : Fits(f, a) => Joined(f, a, b) = a
  PROVE  Piece(A, kind, f, <<>>, b)
<1>1. ASSUME NEW a, Shaped(kind, a), Fits(f, a[f.name])
      PROVE  Carries(A, kind, <<>>, a, With(a, f, Joined(f, a[f.name], b)))
  <2>1. With(a, f, Joined(f, a[f.name], b)) = a
    BY <1>1, WithSame
  <2>2. QED
    BY <2>1, CarriesNothing
<1>2. BreaksField(A, kind, f, <<>>, b)
  BY FieldKind, BreaksNothing DEF BreaksField
<1>3. QED
  BY <1>1, <1>2, EmptySeq DEF Piece

IsNumber(f) == f.kind \in {"uint64", "uint32"}
IsFlag(f) == f.kind = "bool"

\* A number.
LEMMA NumberPiece ==
  ASSUME NEW A, NEW kind, NEW f, NEW b, f \in Fields(kind), IsNumber(f), Fits(f, b)
  PROVE  Piece(A, kind, f, UintField(TagOf(f, 0), b), b)
<1>1. b \in Uint64Values /\ ScalarValue(f, b, b)
  <2>1. Pow2[Half] <= Pow2[Word] /\ Pow2[Half] \in Nat \ {0} /\ Pow2[Word] \in Nat \ {0}
    BY PowMonotone, UintValues, WireAssumption
  <2>2. CASE f.kind = "uint64"
    BY <2>2 DEF Fits, IsValue, ScalarValue
  <2>3. CASE f.kind = "uint32"
    <3>1. b \in 0..(Pow2[Half] - 1)
      BY <2>3 DEF Fits, IsValue, Uint32Values
    <3>2. b % Pow2[Half] = b
      BY <2>1, <3>1, ModSmall
    <3>3. b \in Uint64Values
      BY <2>1, <3>1 DEF Uint64Values
    <3>4. QED
      BY <2>3, <3>2, <3>3 DEF ScalarValue
  <2>4. QED
    BY <2>2, <2>3 DEF IsNumber
<1>2. ZeroOf(f) = 0
  <2>1. f.kind # "bool" /\ IsScalar(f)
    BY DEF IsNumber, IsScalar
  <2>2. QED
    BY <2>1, Zenon DEF ZeroOf, IsNumber
<1>3. \A a : Joined(f, a, b) = IF b = 0 THEN a ELSE b
  <2>1. f.kind \notin {"duration", "bytes list", "message list", "map", "message", "external"}
    BY DEF IsNumber
  <2>2. QED
    BY <1>2, <2>1, JoinedOther
<1>4. CASE b = 0
  <2>1. UintField(TagOf(f, 0), b) = <<>>
    BY <1>4 DEF UintField
  <2>2. QED
    BY <1>3, <1>4, <2>1, NothingPiece
<1>5. CASE b # 0
  <2> DEFINE w == <<TagOf(f, 0)>> \o Varint(b)
  <2>1. UintField(TagOf(f, 0), b) = w
    BY <1>5 DEF UintField
  <2>2. IsScalar(f)
    BY DEF IsNumber, IsScalar
  <2>3. \A a : Carries(A, kind, w, a, [a EXCEPT ![f.name] = b])
    BY <1>1, <2>2, ScalarCarries
  <2>4. w \in Seq(Byte)
    <3>1. TagOf(f, 0) \in Byte /\ b \in Nat
      BY <1>1, UintValues, NumbersDistinct, TagOfByte
    <3>2. QED
      BY <3>1, TagBytes, VarintBytes, Concat
  <2> HIDE DEF w
  <2>5. \A a : Carries(A, kind, w, a, With(a, f, Joined(f, a[f.name], b)))
    BY <1>3, <1>5, <2>3 DEF With
  <2>6. A.fails => BreaksField(A, kind, f, w, b)
    <3> DEFINE rest == Varint(b)
               z == 0
    <3>1. Fragile(f, rest)
      BY <1>1, <2>2, VarintFragile
    <3>2. \A a : Carries(A, kind, <<TagOf(f, z)>> \o rest, a, With(a, f, b))
      BY <2>3 DEF With, w
    <3>3. z \in 0..5 /\ z # 4
      OBVIOUS
    <3> HIDE DEF z, rest
    <3>4. A.fails => BreaksField(A, kind, f, <<TagOf(f, z)>> \o rest, b)
      BY <3>1, <3>2, <3>3, ElementBreaksField
    <3>5. QED
      BY <3>4 DEF z, rest, w
  <2>7. QED
    BY <2>1, <2>4, <2>5, <2>6 DEF Piece
<1>6. QED
  BY <1>4, <1>5

\* A flag.
LEMMA FlagPiece ==
  ASSUME NEW A, NEW kind, NEW f, NEW b, f \in Fields(kind), IsFlag(f), Fits(f, b)
  PROVE  Piece(A, kind, f, BoolField(TagOf(f, 0), b), b)
<1>1. b \in BOOLEAN /\ IsScalar(f)
  BY DEF Fits, IsValue, IsFlag, IsScalar
<1>2. ZeroOf(f) = FALSE
  <2>1. f.kind \notin {"uint64", "uint32"}
    BY DEF IsFlag
  <2>2. QED
    BY <1>1, <2>1, Zenon DEF ZeroOf, IsFlag
<1>3. \A a : Joined(f, a, b) = IF b = FALSE THEN a ELSE b
  <2>1. f.kind \notin {"duration", "bytes list", "message list", "map", "message", "external"}
    BY DEF IsFlag
  <2>2. QED
    BY <1>2, <2>1, JoinedOther
<1>4. CASE b = FALSE
  <2>1. BoolField(TagOf(f, 0), b) = <<>>
    BY <1>4 DEF BoolField
  <2>2. QED
    BY <1>3, <1>4, <2>1, NothingPiece
<1>5. CASE b = TRUE
  <2> DEFINE tag == TagOf(f, 0)
             w == <<tag>> \o Varint(1)
  <2>1. tag \in Byte
    BY NumbersDistinct, TagOfByte
  <2>2. Varint(1) = <<1>> /\ 1 \in Uint64Values
    <3>1. 1 \in Uint64Values
      <4>1. Pow2[1] = 2 * Pow2[0] /\ Pow2[0] = 1 /\ Pow2[1] <= Pow2[Word] /\ Pow2[Word] \in Nat
        BY PowRecursion, PowMonotone, UintValues, WireAssumption
      <4>2. QED
        BY <4>1 DEF Uint64Values
    <3>2. 1 \in 0..127
      OBVIOUS
    <3>3. QED
      BY <3>1, <3>2, ByteVarint
  <2>3. BoolField(tag, b) = w
    <3>1. 1 \in Byte
      BY DEF Byte
    <3>2. <<tag>> \o <<1>> = <<tag, 1>>
      BY <2>1, <3>1, Pair
    <3>3. QED
      BY <1>5, <2>2, <3>2 DEF BoolField
  <2>4. \A a : Carries(A, kind, w, a, [a EXCEPT ![f.name] = b])
    <3>1. ScalarValue(f, 1, b)
      <4>1. f.kind # "uint64" /\ f.kind # "uint32"
        BY DEF IsFlag
      <4>2. (1 # 0) = TRUE
        OBVIOUS
      <4>3. b = (1 # 0)
        BY <1>5, <4>2
      <4>4. QED
        BY <4>1, <4>3, Zenon DEF ScalarValue
    <3>2. QED
      BY <1>1, <2>2, <3>1, ScalarCarries
  <2>5. w \in Seq(Byte)
    BY <2>1, TagBytes, VarintBytes, Concat
  <2> HIDE DEF w
  <2>6. \A a : Carries(A, kind, w, a, With(a, f, Joined(f, a[f.name], b)))
    BY <1>3, <1>5, <2>4 DEF With
  <2>7. A.fails => BreaksField(A, kind, f, w, b)
    <3> DEFINE rest == Varint(1)
               z == 0
    <3>1. Fragile(f, rest)
      BY <1>1, <2>2, VarintFragile
    <3>2. \A a : Carries(A, kind, <<TagOf(f, z)>> \o rest, a, With(a, f, b))
      BY <2>4 DEF With, w
    <3>3. z \in 0..5 /\ z # 4
      OBVIOUS
    <3> HIDE DEF z, rest
    <3>4. A.fails => BreaksField(A, kind, f, <<TagOf(f, z)>> \o rest, b)
      BY <3>1, <3>2, <3>3, ElementBreaksField
    <3>5. QED
      BY <3>4 DEF z, rest, w
  <2>8. QED
    BY <2>3, <2>5, <2>6, <2>7 DEF Piece, tag
<1>6. QED
  BY <1>1, <1>4, <1>5

IsBytes(f) == f.kind = "bytes"
IsDuration(f) == f.kind = "duration"
IsExternal(f) == f.kind = "external"

\* Bytes or a string.
LEMMA BytesPiece ==
  ASSUME NEW A, NEW kind, NEW f, NEW b, f \in Fields(kind), IsBytes(f), Fits(f, b)
  PROVE  Piece(A, kind, f, BytesField(TagOf(f, 2), b), b)
<1>1. b \in Seq(Byte)
  BY DEF Fits, IsValue, IsBytes
<1>2. ZeroOf(f) = <<>>
  <2>1. ~IsScalar(f) /\ f.kind \notin {"uint64", "uint32", "bool"}
    BY DEF IsBytes, IsScalar
  <2>2. QED
    BY <2>1 DEF ZeroOf
<1>3. \A a : Joined(f, a, b) = IF b = <<>> THEN a ELSE b
  <2>1. f.kind \notin {"duration", "bytes list", "message list", "map", "message", "external"}
    BY DEF IsBytes
  <2>2. QED
    BY <1>2, <2>1, JoinedOther
<1>4. Len(b) \in Nat /\ (Len(b) = 0 <=> b = <<>>)
  BY <1>1, EmptySeq, LenProperties
<1>5. CASE b = <<>>
  <2>1. BytesField(TagOf(f, 2), b) = <<>>
    BY <1>4, <1>5 DEF BytesField
  <2>2. QED
    BY <1>3, <1>5, <2>1, NothingPiece
<1>6. CASE b # <<>>
  <2> DEFINE w == Delimited(TagOf(f, 2), b)
  <2>1. BytesField(TagOf(f, 2), b) = w
    BY <1>4, <1>6 DEF BytesField
  <2>2. \A a : Carries(A, kind, w, a, [a EXCEPT ![f.name] = b])
    <3>1. IsString(f)
      BY DEF IsBytes, IsString
    <3>2. \A a : Carries(A, kind, w, a,
                   [a EXCEPT ![f.name] = IF f.kind = "bytes" THEN b ELSE Append(a[f.name], b)])
      BY <1>1, <3>1, StringCarries
    <3> HIDE DEF w
    <3>3. QED
      BY <3>2 DEF IsBytes
  <2>3. w \in Seq(Byte)
    <3>1. TagOf(f, 2) \in Byte
      BY NumbersDistinct, TagOfByte
    <3>2. QED
      BY <1>1, <3>1, DelimitedBytes
  <2> HIDE DEF w
  <2>4. \A a : Carries(A, kind, w, a, With(a, f, Joined(f, a[f.name], b)))
    BY <1>3, <1>6, <2>2 DEF With
  <2>5. A.fails => BreaksField(A, kind, f, w, b)
    <3>1. \A a : Carries(A, kind, Delimited(TagOf(f, 2), b), a, With(a, f, b))
      BY <2>2 DEF With, w
    <3>2. ~IsScalar(f)
      BY DEF IsBytes, IsScalar
    <3>3. QED
      BY <1>1, <3>1, <3>2, DelimitedBreaksField DEF w
  <2>6. QED
    BY <2>1, <2>3, <2>4, <2>5 DEF Piece
<1>7. QED
  BY <1>5, <1>6

\* A duration, which is never left out.
LEMMA DurationPiece ==
  ASSUME NEW A, NEW kind, NEW f, NEW b, f \in Fields(kind), IsDuration(f), Plain(b), b \in A.takes
  PROVE  Piece(A, kind, f, Delimited(TagOf(f, 2), b), b)
<1> DEFINE w == Delimited(TagOf(f, 2), b)
<1>1. b \in Seq(Byte) /\ f.of = "external"
  BY FieldsWellformed DEF Plain, Wellformed, IsDuration
<1>2. Nests(A, f, b)
  BY <1>1 DEF Nests, IsDuration
<1>3. \A a : Started(f, a) = <<>>
  BY DEF Started, IsDuration
<1>4. \A a : Filled(a, [field |-> f, val |-> b]) = b
  BY DEF Filled, IsDuration
<1>5. Carries(A, "external", b, <<>>, b)
  <2>1. <<>> \in Seq(Byte) /\ <<>> \o b = b
    BY <1>1, EmptySeq, ConcatEmptySeq
  <2>2. Carries(A, "external", b, <<>>, <<>> \o b)
    BY <2>1 DEF Plain
  <2>3. QED
    BY <2>1, <2>2
<1>6. ASSUME NEW a PROVE Carries(A, kind, w, a, [a EXCEPT ![f.name] = b])
  <2>1. Carries(A, f.of, b, Started(f, a[f.name]), b)
    BY <1>1, <1>3, <1>5
  <2>2. Carries(A, kind, w, a, [a EXCEPT ![f.name] = Filled(a[f.name], [field |-> f, val |-> b])])
    BY <1>1, <1>2, <2>1, NestedCarries
  <2> HIDE DEF w
  <2>3. QED
    BY <1>4, <2>2
<1>7. \A a : Joined(f, a, b) = b
  BY Zenon DEF Joined, MergedField, IsDuration
<1>8. w \in Seq(Byte)
  <2>1. TagOf(f, 2) \in Byte
    BY NumbersDistinct, TagOfByte
  <2>2. QED
    BY <1>1, <2>1, DelimitedBytes
<1> HIDE DEF w
<1>9. \A a : Carries(A, kind, w, a, With(a, f, Joined(f, a[f.name], b)))
  BY <1>6, <1>7 DEF With
<1>10. A.fails => BreaksField(A, kind, f, w, b)
  <2>1. \A a : Carries(A, kind, Delimited(TagOf(f, 2), b), a, With(a, f, b))
    BY <1>6 DEF With, w
  <2>2. ~IsScalar(f)
    BY DEF IsDuration, IsScalar
  <2>3. QED
    BY <1>1, <2>1, <2>2, DelimitedBreaksField DEF w
<1>11. QED
  BY <1>8, <1>9, <1>10 DEF Piece, w

\* Elements of a slice, one after the other.
LEMMA ElementsCarry ==
  ASSUME NEW A, NEW kind, NEW f, NEW es, NEW vals, f \in Fields(kind), es \in Seq(Seq(Byte)),
         \A i \in 1..Len(es) : Carries(A, kind, Delimited(TagOf(f, 2), es[i]), vals[i - 1], vals[i])
  PROVE  /\ Delimiteds(TagOf(f, 2), es) \in Seq(Byte)
         /\ Carries(A, kind, Delimiteds(TagOf(f, 2), es), vals[0], vals[Len(es)])
<1> DEFINE tag == TagOf(f, 2)
           s == [i \in DOMAIN es |-> Delimited(tag, es[i])]
<1>1. Len(es) \in Nat /\ DOMAIN es = 1..Len(es) /\ \A i \in 1..Len(es) : es[i] \in Seq(Byte)
  BY LenProperties, ElementOfSeq
<1>2. tag \in Byte
  BY NumbersDistinct, TagOfByte
<1>3. \A i \in 1..Len(es) : s[i] = Delimited(tag, es[i]) /\ s[i] \in Seq(Byte)
  BY <1>1, <1>2, DelimitedBytes
<1>4. s \in Seq(Seq(Byte)) /\ Len(s) = Len(es)
  <2>1. s \in [1..Len(es) -> Seq(Byte)]
    BY <1>1, <1>3
  <2> HIDE DEF s
  <2>2. QED
    BY <1>1, <2>1, FunctionIsSeq
<1>5. Delimiteds(tag, es) = FlattenSeq(s)
  BY DEF Delimiteds
<1> HIDE DEF s
<1>6. \A i \in 1..Len(s) : Carries(A, kind, s[i], vals[i - 1], vals[i])
  BY <1>3, <1>4
<1>7. FlattenSeq(s) \in Seq(Byte) /\ Carries(A, kind, FlattenSeq(s), vals[0], vals[Len(s)])
  BY <1>4, <1>6, CarriesAll
<1>8. QED
  BY <1>4, <1>5, <1>7

\* A beginning of such elements leaves what some of them left.
LEMMA ElementsBreak ==
  ASSUME NEW A, NEW kind, NEW m, NEW f, NEW es, NEW vals, f \in Fields(kind), es \in Seq(Seq(Byte)),
         ~IsScalar(f), A.fails, \A i \in 0..Len(es) : Partly(kind, vals[i], m),
         \A i \in 1..Len(es) : Carries(A, kind, Delimited(TagOf(f, 2), es[i]), vals[i - 1], vals[i])
  PROVE  Breaks(A, kind, Delimiteds(TagOf(f, 2), es), vals[0], m)
<1> DEFINE tag == TagOf(f, 2)
           s == [i \in DOMAIN es |-> Delimited(tag, es[i])]
<1>1. Len(es) \in Nat /\ DOMAIN es = 1..Len(es) /\ \A i \in 1..Len(es) : es[i] \in Seq(Byte)
  BY LenProperties, ElementOfSeq
<1>2. tag \in Byte
  BY NumbersDistinct, TagOfByte
<1>3. \A i \in 1..Len(es) : s[i] = Delimited(tag, es[i]) /\ s[i] \in Seq(Byte)
  BY <1>1, <1>2, DelimitedBytes
<1>4. s \in Seq(Seq(Byte)) /\ Len(s) = Len(es)
  <2>1. s \in [1..Len(es) -> Seq(Byte)]
    BY <1>1, <1>3
  <2> HIDE DEF s
  <2>2. QED
    BY <1>1, <2>1, FunctionIsSeq
<1>5. Delimiteds(tag, es) = FlattenSeq(s)
  BY DEF Delimiteds
<1> HIDE DEF s
<1>6. ASSUME NEW i \in 1..Len(s)
      PROVE  Carries(A, kind, s[i], vals[i - 1], vals[i]) /\ Breaks(A, kind, s[i], vals[i - 1], m)
  <2> DEFINE p == vals[i - 1]
             q == vals[i]
             w == es[i]
  <2>1. i \in 1..Len(es) /\ i \in 0..Len(es) /\ i - 1 \in 0..Len(es)
    BY <1>1, <1>4
  <2>2. Partly(kind, p, m) /\ Partly(kind, q, m) /\ w \in Seq(Byte) /\ s[i] = Delimited(tag, w)
    BY <1>1, <1>3, <2>1
  <2>3. Carries(A, kind, Delimited(TagOf(f, 2), w), p, q)
    BY <2>1
  <2> HIDE DEF p, q, w
  <2>4. Breaks(A, kind, Delimited(TagOf(f, 2), w), p, m)
    BY <2>2, <2>3, DelimitedBreaks
  <2>5. QED
    BY <2>2, <2>3, <2>4 DEF p, q
<1>7. Partly(kind, vals[0], m)
  BY <1>1
<1>8. kind \in Kinds
  BY FieldKind
<1>9. Breaks(A, kind, FlattenSeq(s), vals[0], m)
  BY <1>4, <1>6, <1>7, <1>8, BreaksAll
<1>10. QED
  BY <1>5, <1>9

-----------------------------------------------------------------------------
(* Pointers: a message or an external message that may be there already.   *)

\* What such a field holds when nothing was read.
LEMMA ZeroIsEmpty ==
  ASSUME NEW f, ~IsScalar(f)
  PROVE  ZeroOf(f) = <<>>
<1>1. f.kind \notin {"uint64", "uint32", "bool"}
  BY DEF IsScalar
<1>2. QED
  BY <1>1 DEF ZeroOf

\* Two pointers of which one is nil.
LEMMA JoinedNil ==
  ASSUME NEW f, NEW a, IsPointed(f), Fits(f, a)
  PROVE  Joined(f, a, <<>>) = a /\ Joined(f, <<>>, a) = a
<1>1. \E S : a \in Seq(S)
  BY DEF Fits, IsValue, IsPointed
<1>2. a \o <<>> = a /\ <<>> \o a = a
  BY <1>1, ConcatEmptySeq
<1>3. QED
  BY <1>2, JoinedPointers

\* What is joined to nothing is what it was.
LEMMA JoinedZero ==
  ASSUME NEW f, NEW b, Wellformed(f), Fits(f, b)
  PROVE  Joined(f, ZeroOf(f), b) = b
<1>1. CASE f.kind \in {"uint64", "uint32", "bool", "bytes"}
  <2>1. f.kind \notin {"duration", "bytes list", "message list", "map", "message", "external"}
    BY <1>1
  <2>2. QED
    BY <2>1, JoinedOther
<1>2. CASE f.kind \notin {"uint64", "uint32", "bool", "bytes"}
  <2>1. ZeroOf(f) = <<>>
    <3>1. ~IsScalar(f) /\ f.kind \notin {"uint64", "uint32", "bool"}
      BY <1>2 DEF IsScalar
    <3>2. QED
      BY <3>1 DEF ZeroOf
  <2>2. CASE f.kind = "duration"
    BY <2>2, Zenon DEF Joined, MergedField
  <2>3. CASE f.kind \in {"bytes list", "message list"}
    <3>1. \E S : b \in Seq(S)
      BY <2>3 DEF Fits, IsValue
    <3>2. <<>> \o b = b
      BY <3>1, ConcatEmptySeq
    <3>3. Joined(f, <<>>, b) = <<>> \o b
      BY <2>3 DEF Joined, MergedField
    <3>4. QED
      BY <2>1, <3>2, <3>3
  <2>4. CASE f.kind \in {"message", "external"}
    BY <2>1, <2>4, JoinedNil DEF IsPointed
  <2>5. CASE f.kind = "map"
    <3>1. b = [k \in DOMAIN b |-> b[k]]
      BY <2>5 DEF Fits, IsValue
    <3>2. Overlaid(<<>>, b) = b
      <4> DEFINE e == <<>>
      <4>1. DOMAIN e \cup DOMAIN b = DOMAIN b
        OBVIOUS
      <4> HIDE DEF e
      <4>2. QED
        BY <3>1, <4>1 DEF Overlaid, e
    <3>3. IsMap(f)
      BY <2>5 DEF IsMap, Wellformed
    <3>4. QED
      BY <2>1, <3>2, <3>3, JoinedMaps
  <2>6. QED
    BY <1>2, <2>2, <2>3, <2>4, <2>5 DEF Wellformed, FieldKinds
<1>3. QED
  BY <1>1, <1>2

\* A pointer: nothing is written of nil, one element otherwise.
LEMMA PointerPiece ==
  ASSUME NEW A, NEW kind, NEW f, NEW b, NEW es, f \in Fields(kind),
         es \in Seq(Seq(Byte)), Len(es) <= 1, Len(es) = 0 <=> b = <<>>, IsPointed(f), Fits(f, b),
         \A a : Shaped(kind, a) /\ Fits(f, a[f.name]) /\ Len(es) = 1 =>
           Carries(A, kind, Delimited(TagOf(f, 2), es[1]), a, With(a, f, Joined(f, a[f.name], b)))
  PROVE  Piece(A, kind, f, Delimiteds(TagOf(f, 2), es), b)
<1> DEFINE n == Len(es)
           tag == TagOf(f, 2)
<1>1. n \in Nat /\ n <= 1
  BY LenProperties
<1> HIDE DEF tag, n
<1>2. ASSUME NEW a, Shaped(kind, a), Fits(f, a[f.name])
      PROVE  /\ Delimiteds(tag, es) \in Seq(Byte)
             /\ Carries(A, kind, Delimiteds(tag, es), a, With(a, f, Joined(f, a[f.name], b)))
  <2> DEFINE c == With(a, f, Joined(f, a[f.name], b))
             vals == [i \in 0..1 |-> IF i = 0 THEN a ELSE c]
  <2>1. vals[0] = a /\ vals[1] = c
    OBVIOUS
  <2> HIDE DEF vals
  <2>2. vals[n] = c
    <3>1. CASE n = 1
      BY <2>1, <3>1
    <3>2. CASE n = 0
      <4>1. b = <<>>
        BY <3>2 DEF n
      <4>2. c = a
        BY <1>2, <4>1, WithSame, JoinedNil
      <4> HIDE DEF c
      <4>3. QED
        BY <2>1, <3>2, <4>2
    <3>3. QED
      BY <1>1, <3>1, <3>2
  <2>3. ASSUME NEW i \in 1..n
        PROVE  Carries(A, kind, Delimited(tag, es[i]), vals[i - 1], vals[i])
    <3>1. i = 1 /\ n = 1 /\ i - 1 = 0
      BY <1>1
    <3> HIDE DEF c
    <3>2. Carries(A, kind, Delimited(tag, es[1]), a, c)
      BY <1>2, <3>1 DEF tag, c, n
    <3>3. QED
      BY <2>1, <3>1, <3>2
  <2> HIDE DEF c
  <2>4. /\ Delimiteds(tag, es) \in Seq(Byte)
        /\ Carries(A, kind, Delimiteds(tag, es), vals[0], vals[n])
    BY <2>3, ElementsCarry DEF tag, n
  <2>5. QED
    BY <2>1, <2>2, <2>4 DEF c
<1>3. Delimiteds(tag, es) \in Seq(Byte)
  <2>1. tag \in Byte
    BY NumbersDistinct, TagOfByte DEF tag
  <2> DEFINE sizes == [i \in DOMAIN es |-> DelimitedSize(Len(es[i]))]
  <2>2. DOMAIN sizes = DOMAIN es /\ \A i \in DOMAIN es : sizes[i] = DelimitedSize(Len(es[i]))
    OBVIOUS
  <2> HIDE DEF sizes
  <2>3. QED
    BY <2>1, <2>2, DelimitedsBytes
<1>4. ASSUME A.fails, NEW a, NEW m, Partly(kind, a, m), a[f.name] = ZeroOf(f), m[f.name] = b
      PROVE  Breaks(A, kind, Delimiteds(tag, es), a, m)
  <2> DEFINE c == With(a, f, b)
             vals == [i \in 0..1 |-> IF i = 0 THEN a ELSE c]
  <2>1. vals[0] = a /\ vals[1] = c
    OBVIOUS
  <2>2. PartOf(f, b, m[f.name]) /\ ~IsScalar(f) /\ Shaped(kind, a)
    BY <1>4 DEF PartOf, IsPointed, IsScalar, Partly
  <2>3. Partly(kind, c, m)
    BY <1>4, <2>2, WithPart
  <2> HIDE DEF vals
  <2>4. \A i \in 0..n : Partly(kind, vals[i], m)
    <3>1. \A i \in 0..n : i = 0 \/ i = 1
      BY <1>1
    <3> HIDE DEF c
    <3>2. QED
      BY <1>4, <2>1, <2>3, <3>1
  <2>5. ASSUME NEW i \in 1..n
        PROVE  Carries(A, kind, Delimited(tag, es[i]), vals[i - 1], vals[i])
    <3>1. i = 1 /\ n = 1 /\ i - 1 = 0
      BY <1>1
    <3>2. Fits(f, a[f.name]) /\ Joined(f, a[f.name], b) = b
      BY <1>4, ZeroFits, FieldsWellformed, JoinedZero
    <3>3. Carries(A, kind, Delimited(tag, es[1]), a, With(a, f, Joined(f, a[f.name], b)))
      BY <2>2, <3>1, <3>2 DEF tag, n
    <3>4. QED
      BY <2>1, <3>1, <3>2, <3>3
  <2> HIDE DEF c
  <2>6. Breaks(A, kind, Delimiteds(TagOf(f, 2), es), vals[0], m)
    BY <1>4, <2>2, <2>4, <2>5, ElementsBreak DEF tag, n
  <2>7. QED
    BY <2>1, <2>6 DEF tag
<1>5. A.fails => BreaksField(A, kind, f, Delimiteds(tag, es), b)
  BY <1>4 DEF BreaksField
<1>6. QED
  BY <1>2, <1>3, <1>5 DEF Piece, tag

\* A pointer to an external message.
LEMMA ExternalPiece ==
  ASSUME NEW A, NEW kind, NEW f, NEW b, f \in Fields(kind), IsExternal(f), Fits(f, b),
         \A i \in DOMAIN b : b[i] \in A.takes /\ Plain(b[i])
  PROVE  Piece(A, kind, f, MessageField(TagOf(f, 2), b, Own), b)
<1> DEFINE tag == TagOf(f, 2)
<1>1. b \in Seq(Seq(Byte)) /\ Len(b) <= 1 /\ f.of = "external"
  BY FieldsWellformed DEF Fits, IsValue, IsPointer, IsExternal, Wellformed
<1>2. Len(b) \in Nat /\ (Len(b) = 0 <=> b = <<>>) /\ DOMAIN b = 1..Len(b)
  BY <1>1, EmptySeq, LenProperties
<1>3. MessageField(tag, b, Own) = Delimiteds(tag, b)
  <2> DEFINE es == [i \in DOMAIN b |-> b[i]]
  <2>1. es = b
    BY <1>1, LenProperties
  <2>2. MessageField(tag, b, Own) = Delimiteds(tag, es)
    BY DEF MessageField, Own
  <2> HIDE DEF es, tag
  <2>3. QED
    BY <2>1, <2>2
<1>4. IsPointed(f)
  BY DEF IsExternal, IsPointed
<1>5. ASSUME NEW a, Shaped(kind, a), Fits(f, a[f.name]), Len(b) = 1
      PROVE  Carries(A, kind, Delimited(tag, b[1]), a, With(a, f, Joined(f, a[f.name], b)))
  <2> DEFINE old == a[f.name]
             w == b[1]
             start == Started(f, old)
  <2>1. /\ w \in A.takes /\ Plain(w) /\ w \in Seq(Byte) /\ b # <<>> /\ Head(b) = w
    BY <1>1, <1>2, <1>5, HeadIsFirst, ElementOfSeq DEF Plain
  <2>2. old \in Seq(Seq(Byte)) /\ (old # <<>> => Head(old) \in Seq(Byte))
    BY <1>5, HeadTailProperties DEF Fits, IsValue, IsExternal
  <2>3. start = IF old = <<>> THEN <<>> ELSE Head(old)
    BY DEF Started, IsExternal
  <2> HIDE DEF start
  <2>4. start \in Seq(Byte)
    BY <2>2, <2>3, EmptySeq
  <2>5. Carries(A, f.of, w, start, start \o w)
    BY <1>1, <2>1, <2>4 DEF Plain
  <2>6. Nests(A, f, w)
    BY <1>1, <2>1 DEF Nests, IsExternal
  <2> DEFINE x == start \o w
             r == [field |-> f, val |-> x]
  <2>7. Filled(old, r) = <<x>>
    BY DEF Filled, IsExternal
  <2>8. Joined(f, old, b) = <<x>>
    <3>1. CASE old = <<>>
      <4>1. start \o w = w
        BY <2>1, <2>3, <3>1, ConcatEmptySeq
      <4>2. Joined(f, <<>>, b) = b
        BY JoinedNil DEF IsExternal, IsPointed
      <4>3. b = <<w>>
        BY <1>1, <1>5
      <4> HIDE DEF w, old
      <4>4. QED
        BY <3>1, <4>1, <4>2, <4>3
    <3>2. CASE old # <<>>
      <4> HIDE DEF w, old
      <4>1. f.kind = "external" /\ b # <<>>
        BY <2>1 DEF IsExternal
      <4>2. Joined(f, old, b) = <<Head(old) \o Head(b)>>
        BY <3>2, <4>1, JoinedExternals
      <4>3. QED
        BY <2>1, <2>3, <3>2, <4>2
    <3>3. QED
      BY <3>1, <3>2
  <2> HIDE DEF x, w
  <2>9. Carries(A, kind, Delimited(tag, w), a, [a EXCEPT ![f.name] = Filled(old, r)])
    <3>1. Carries(A, f.of, w, Started(f, a[f.name]), x)
      BY <2>5 DEF x, start
    <3>2. QED
      BY <2>1, <2>6, <3>1, NestedCarries
  <2>10. QED
    BY <2>7, <2>8, <2>9 DEF With, w
<1> HIDE DEF tag
<1>6. QED
  BY <1>1, <1>2, <1>3, <1>4, <1>5, PointerPiece DEF tag

-----------------------------------------------------------------------------
(* Messages in messages.                                                   *)

\* Bytes that bring a message into another one of its kind.
Writes(A, kind, w, m) ==
  /\ w \in Seq(Byte)
  /\ \A a : IsMessage(kind, a) => Carries(A, kind, w, a, JoinedMessage(kind, a, m))
  /\ A.fails /\ kind \in Kinds /\ IsMessage(kind, m) => Breaks(A, kind, w, Zero(kind), m)

\* What comes first is nothing, so the second message stays.
LEMMA ZeroJoined ==
  ASSUME NEW kind, NEW m, IsMessage(kind, m)
  PROVE  JoinedMessage(kind, Zero(kind), m) = m
<1>1. m = [name \in Names(kind) |-> m[name]] /\ \A f \in Fields(kind) : Fits(f, m[f.name])
  BY MessageFits
<1>2. ASSUME NEW name \in Names(kind)
      PROVE  Joined(FieldNamed(kind, name), Zero(kind)[name], m[name]) = m[name]
  <2> DEFINE f == FieldNamed(kind, name)
  <2>1. f \in Fields(kind) /\ f.name = name
    BY NamedField
  <2>2. Zero(kind)[name] = ZeroOf(f)
    BY DEF Zero
  <2> HIDE DEF f
  <2>3. Joined(f, ZeroOf(f), m[name]) = m[name]
    BY <1>1, <2>1, JoinedZero, FieldsWellformed
  <2>4. QED
    BY <2>2, <2>3 DEF f
<1>3. DOMAIN Zero(kind) = Names(kind)
  BY DEF Zero
<1>4. QED
  BY <1>1, <1>2, <1>3 DEF JoinedMessage

\* The fields of a message that hold messages, and the bytes written of each of them.
IsMessageField(f) == f.kind = "message"
IsMessageList(f) == f.kind = "message list"
IsBytesList(f) == f.kind = "bytes list"
Encodes(A, kind, b, es) ==
  /\ es \in Seq(Seq(Byte)) /\ Len(es) = Len(b)
  /\ \A i \in 1..Len(b) : IsMessage(kind, b[i]) /\ Writes(A, kind, es[i], b[i])

\* A pointer to a message.
LEMMA MessagePiece ==
  ASSUME NEW A, NEW kind, NEW f, NEW b, NEW es, f \in Fields(kind), IsMessageField(f), Fits(f, b),
         Encodes(A, f.of, b, es)
  PROVE  Piece(A, kind, f, Delimiteds(TagOf(f, 2), es), b)
<1> DEFINE tag == TagOf(f, 2)
           of == f.of
<1>1. b \in Seq(Range(b)) /\ Len(b) <= 1 /\ of \in Simple
  BY FieldsWellformed DEF Fits, IsValue, IsPointer, IsMessageField, Wellformed
<1>2. Len(b) \in Nat /\ (Len(b) = 0 <=> b = <<>>) /\ DOMAIN b = 1..Len(b)
  BY <1>1, EmptySeq, LenProperties
<1>3. es \in Seq(Seq(Byte)) /\ Len(es) = Len(b)
  BY DEF Encodes
<1>4. IsPointed(f)
  BY DEF IsMessageField, IsPointed
<1> HIDE DEF tag, of
<1>5. ASSUME NEW a, Shaped(kind, a), Fits(f, a[f.name]), Len(es) = 1
      PROVE  Carries(A, kind, Delimited(tag, es[1]), a, With(a, f, Joined(f, a[f.name], b)))
  <2> DEFINE old == a[f.name]
             m == b[1]
             w == es[1]
             start == Started(f, old)
  <2>1. /\ w \in Seq(Byte) /\ IsMessage(of, m) /\ Writes(A, of, w, m)
        /\ b # <<>> /\ Head(b) = m /\ b = <<m>>
    <3>1. 1 \in 1..Len(b) /\ 1 \in 1..Len(es) /\ Len(b) = 1 /\ b # <<>>
      BY <1>2, <1>3, <1>5
    <3>2. IsMessage(of, m) /\ Writes(A, of, w, m)
      BY <3>1 DEF Encodes, of
    <3>3. Head(b) = m
      BY <1>1, <3>1, HeadIsFirst
    <3>4. b = <<m>>
      BY <1>1, <3>1
    <3>5. QED
      BY <3>1, <3>2, <3>3, <3>4 DEF Writes
  <2>2. start = IF old = <<>> THEN Zero(of) ELSE Head(old)
    BY DEF Started, IsMessageField, of
  <2>3. old # <<>> => IsMessage(of, Head(old))
    <3>1. old \in Seq(Range(old)) /\ \A i \in DOMAIN old : Flat(of, old[i])
      BY <1>5 DEF Fits, IsValue, IsMessageField, of
    <3> HIDE DEF old
    <3>2. SUFFICES ASSUME old # <<>> PROVE IsMessage(of, Head(old))
      OBVIOUS
    <3>3. 1 \in DOMAIN old /\ Head(old) = old[1]
      BY <3>1, <3>2, HeadIsFirst
    <3>4. QED
      BY <1>1, <3>1, <3>3, SimpleFlat
  <2> HIDE DEF start, m, w
  <2>4. IsMessage(of, start)
    BY <2>2, <2>3, ZeroMessage
  <2> DEFINE x == JoinedMessage(of, start, m)
             r == [field |-> f, val |-> x]
  <2>5. Carries(A, of, w, start, x)
    BY <2>1, <2>4 DEF Writes
  <2>6. Nests(A, f, w)
    <3>1. of \in Kinds /\ of # "skip" /\ of # "external"
      BY <1>1, KindsApart
    <3>2. QED
      BY <3>1 DEF Nests, IsMessageField, of
  <2>7. Filled(old, r) = <<x>>
    BY DEF Filled, IsMessageField
  <2>8. Joined(f, old, b) = <<x>>
    <3>1. CASE old = <<>>
      <4>1. x = m
        BY <2>1, <2>2, <3>1, ZeroJoined
      <4>2. Joined(f, <<>>, b) = b
        BY JoinedNil DEF IsMessageField, IsPointed
      <4> HIDE DEF old, x
      <4>3. QED
        BY <2>1, <3>1, <4>1, <4>2
    <3>2. CASE old # <<>>
      <4>1. f.kind = "message" /\ b # <<>>
        BY <2>1 DEF IsMessageField
      <4>2. Joined(f, old, b) = <<MergedFlat(f.of, Head(old), Head(b))>>
        BY <3>2, <4>1, JoinedMessages
      <4>3. MergedFlat(of, start, m) = x
        <5>1. start = [name \in Names(of) |-> start[name]]
          BY <2>4, MessageFits
        <5>2. QED
          BY <1>1, <5>1, FlatJoined
      <4> HIDE DEF old, x
      <4>4. QED
        BY <2>1, <2>2, <3>2, <4>2, <4>3 DEF of
    <3>3. QED
      BY <3>1, <3>2
  <2> HIDE DEF x
  <2>9. Carries(A, kind, Delimited(tag, w), a, [a EXCEPT ![f.name] = Filled(old, r)])
    <3>1. Carries(A, f.of, w, Started(f, a[f.name]), x)
      BY <2>5 DEF start, of
    <3>2. QED
      BY <2>1, <2>6, <3>1, NestedCarries DEF tag
  <2>10. QED
    BY <2>7, <2>8, <2>9 DEF With, w
<1>6. Len(es) <= 1 /\ (Len(es) = 0 <=> b = <<>>)
  BY <1>1, <1>2, <1>3
<1>7. \A a : Shaped(kind, a) /\ Fits(f, a[f.name]) /\ Len(es) = 1 =>
            Carries(A, kind, Delimited(TagOf(f, 2), es[1]), a, With(a, f, Joined(f, a[f.name], b)))
  BY <1>5 DEF tag
<1>8. QED
  BY <1>3, <1>4, <1>6, <1>7, PointerPiece

\* A sequence that grows by the elements of another one.
Growing(pre, a, b) ==
  /\ pre[0] = a /\ pre[Len(b)] = a \o b
  /\ \A i \in 1..Len(b) : pre[i] = Append(pre[i - 1], b[i])

\* Two lists have such a row between the one and the two together.
LEMMA Grows ==
  ASSUME NEW S, NEW a, NEW b, a \in Seq(S), b \in Seq(S)
  PROVE  \E pre : Growing(pre, a, b)
<1> DEFINE l == Len(a)
           n == Len(b)
           at(i, j) == IF j <= l THEN a[j] ELSE b[j - l]
           pre == [i \in 0..n |-> [j \in 1..(l + i) |-> at(i, j)]]
<1>1. /\ l \in Nat /\ n \in Nat /\ a = [j \in 1..l |-> a[j]]
      /\ \A j \in 1..l : a[j] \in S
      /\ \A j \in 1..n : b[j] \in S
  BY LenProperties, ElementOfSeq
<1> HIDE DEF l, n
<1>2. pre[0] = a
  <2>1. 0 \in 0..n /\ l + 0 = l /\ \A j \in 1..l : at(0, j) = a[j]
    BY <1>1
  <2>2. pre[0] = [j \in 1..l |-> a[j]]
    BY <2>1
  <2>3. QED
    BY <1>1, <2>2
<1>3. pre[n] = a \o b
  <2>1. n \in 0..n
    BY <1>1
  <2>2. /\ a \o b \in Seq(S) /\ Len(a \o b) = l + n
        /\ \A j \in 1..(l + n) : (a \o b)[j] = IF j <= l THEN a[j] ELSE b[j - l]
    BY ConcatProperties DEF l, n
  <2>3. a \o b = [j \in 1..(l + n) |-> (a \o b)[j]]
    BY <2>2, LenProperties
  <2> DEFINE c == a \o b
  <2> HIDE DEF c
  <2>4. QED
    BY <2>1, <2>2, <2>3 DEF c
<1>4. ASSUME NEW i \in 1..n PROVE pre[i] = Append(pre[i - 1], b[i])
  <2> DEFINE p == pre[i - 1]
             k == l + (i - 1)
             e == b[i]
  <2>1. i \in 0..n /\ i - 1 \in 0..n /\ k \in Nat /\ l + i = k + 1 /\ e \in S
    BY <1>1
  <2>2. p = [j \in 1..k |-> at(i - 1, j)]
    BY <2>1
  <2>3. ASSUME NEW j \in 1..k PROVE at(i - 1, j) \in S
    <3>1. CASE j <= l
      BY <1>1, <3>1
    <3>2. CASE ~(j <= l)
      <4>1. j - l \in 1..n
        BY <1>1, <3>2
      <4>2. QED
        BY <1>1, <3>2, <4>1
    <3>3. QED
      BY <3>1, <3>2
  <2>4. p \in [1..k -> S]
    BY <2>2, <2>3
  <2> HIDE DEF p
  <2>5. p \in Seq(S) /\ Len(p) = k
    BY <2>1, <2>4, FunctionIsSeq
  <2>6. /\ Append(p, e) \in Seq(S) /\ Len(Append(p, e)) = k + 1
        /\ \A j \in 1..k : Append(p, e)[j] = p[j]
        /\ Append(p, e)[k + 1] = e
    BY <2>1, <2>5, AppendProperties
  <2>7. Append(p, e) = [j \in 1..(k + 1) |-> Append(p, e)[j]]
    BY <2>6, LenProperties
  <2> DEFINE q == Append(p, e)
  <2>8. \A j \in 1..(k + 1) : q[j] = at(i, j)
    <3>1. SUFFICES ASSUME NEW j \in 1..(k + 1) PROVE q[j] = at(i, j)
      OBVIOUS
    <3> HIDE DEF q
    <3>2. CASE j \in 1..k
      BY <2>2, <2>6, <3>2 DEF q
    <3>3. CASE j = k + 1
      <4>1. ~(j <= l) /\ j - l = i
        BY <1>1, <3>3
      <4>2. QED
        BY <2>6, <3>3, <4>1 DEF q
    <3>4. QED
      BY <2>1, <3>2, <3>3
  <2>9. pre[i] = [j \in 1..(k + 1) |-> at(i, j)]
    BY <2>1
  <2> HIDE DEF k, pre
  <2>10. q = pre[i]
    BY <2>7, <2>8, <2>9
  <2>11. QED
    BY <2>10 DEF p, e, pre
<1> HIDE DEF pre
<1>5. QED
  BY <1>2, <1>3, <1>4 DEF n, Growing

-----------------------------------------------------------------------------
(* Lists grow at their end, element by element.                            *)

IsList(f) == IsBytesList(f) \/ IsMessageList(f)

\* Lists are joined one after the other.
LEMMA JoinedLists ==
  ASSUME NEW f, NEW a, NEW b, IsList(f)
  PROVE  Joined(f, a, b) = a \o b
<1>1. f.kind \in {"bytes list", "message list"} /\ f.kind # "duration"
  BY DEF IsList, IsBytesList, IsMessageList
<1>2. QED
  BY <1>1 DEF Joined, MergedField

\* What a list holds.
LEMMA ListSeq ==
  ASSUME NEW f, NEW a, IsList(f), Fits(f, a)
  PROVE  a \in Seq(Range(a))
<1>1. CASE f.kind = "message list"
  BY <1>1 DEF Fits, IsValue
<1>2. CASE f.kind = "bytes list"
  <2>1. a \in Seq(Seq(Byte))
    BY <1>2 DEF Fits, IsValue
  <2>2. QED
    BY <2>1, SeqOfRange
<1>3. QED
  BY <1>1, <1>2 DEF IsList, IsBytesList, IsMessageList

\* Delimited elements are bytes.
LEMMA DelimitedsAreBytes ==
  ASSUME NEW tag, NEW es, tag \in Byte, es \in Seq(Seq(Byte))
  PROVE  Delimiteds(tag, es) \in Seq(Byte)
<1> DEFINE sizes == [i \in DOMAIN es |-> DelimitedSize(Len(es[i]))]
<1>1. DOMAIN sizes = DOMAIN es /\ \A i \in DOMAIN es : sizes[i] = DelimitedSize(Len(es[i]))
  OBVIOUS
<1> HIDE DEF sizes
<1>2. QED
  BY <1>1, DelimitedsBytes

\* The first elements of a list.
FirstOf(b, i) == SubSeq(b, 1, i)

\* They grow in the same way.
LEMMA FirstGrows ==
  ASSUME NEW S, NEW b, b \in Seq(S)
  PROVE  /\ FirstOf(b, 0) = <<>>
         /\ \A i \in 0..Len(b) : IsPrefix(FirstOf(b, i), b)
         /\ \A i \in 1..Len(b) : FirstOf(b, i) = Append(FirstOf(b, i - 1), b[i])
<1> DEFINE n == Len(b)
<1>1. n \in Nat /\ \A i \in 1..n : b[i] \in S
  BY LenProperties, ElementOfSeq
<1>2. FirstOf(b, 0) = <<>>
  BY SubSeqEmpty DEF FirstOf
<1>3. ASSUME NEW i \in 0..n PROVE FirstOf(b, i) \in Seq(S) /\ Len(FirstOf(b, i)) = i
  <2> DEFINE one == 1
  <2>1. i \in Int /\ one \in Int /\ \A j \in one..i : b[j] \in S
    BY <1>1
  <2> HIDE DEF one
  <2>2. SubSeq(b, one, i) \in Seq(S) /\ Len(SubSeq(b, one, i)) = IF one <= i THEN i - one + 1 ELSE 0
    BY <2>1, SubSeqProperties
  <2>3. FirstOf(b, i) = SubSeq(b, one, i)
    BY DEF FirstOf, one
  <2>4. (IF one <= i THEN i - one + 1 ELSE 0) = i
    BY <1>1 DEF one
  <2>5. QED
    BY <2>2, <2>3, <2>4
<1>4. ASSUME NEW i \in 0..n PROVE IsPrefix(FirstOf(b, i), b)
  <2> DEFINE s == FirstOf(b, i)
  <2>1. s \in Seq(S) /\ Len(s) = i /\ i <= n
    BY <1>1, <1>3
  <2>2. SubSeq(b, 1, Len(s)) = s
    BY <2>1 DEF FirstOf
  <2> HIDE DEF s, n
  <2>3. SubSeq(s, 1, Len(s)) = s
    BY <2>1, SubSeqFull
  <2>4. QED
    BY <2>1, <2>2, <2>3 DEF IsPrefix, s, n
<1>5. ASSUME NEW i \in 1..n PROVE FirstOf(b, i) = Append(FirstOf(b, i - 1), b[i])
  <2> DEFINE s == FirstOf(b, i - 1)
             e == b[i]
             one == 1
  <2>1. i - 1 \in 0..n /\ e \in S
    BY <1>1
  <2>2. s \in Seq(S)
    BY <1>3, <2>1
  <2>3. one \in 1..Len(b) /\ i \in one..Len(b)
    BY <1>1
  <2> HIDE DEF one
  <2>4. SubSeq(b, one, i) = SubSeq(b, one, i - 1) \o <<b[i]>>
    BY <2>3, SubSeqRecursiveSecond
  <2>5. FirstOf(b, i) = s \o <<e>>
    BY <2>4 DEF FirstOf, one
  <2> HIDE DEF s, e
  <2>6. Append(s, e) = s \o <<e>>
    BY <2>1, <2>2, AppendIsConcat
  <2>7. QED
    BY <2>5, <2>6 DEF s, e
<1>6. QED
  BY <1>2, <1>4, <1>5

\* A list to which each element is appended.
LEMMA ListPiece ==
  ASSUME NEW A, NEW kind, NEW f, NEW b, NEW es, f \in Fields(kind), IsList(f), Fits(f, b),
         es \in Seq(Seq(Byte)), Len(es) = Len(b),
         \A a : \A i \in 1..Len(b) :
           Carries(A, kind, Delimited(TagOf(f, 2), es[i]), a, With(a, f, Append(a[f.name], b[i])))
  PROVE  Piece(A, kind, f, Delimiteds(TagOf(f, 2), es), b)
<1> DEFINE n == Len(b)
           tag == TagOf(f, 2)
<1>1. n \in Nat /\ b \in Seq(Range(b))
  BY ListSeq, LenProperties
<1> HIDE DEF tag, n
<1>2. ASSUME NEW a, Shaped(kind, a), Fits(f, a[f.name])
      PROVE  Carries(A, kind, Delimiteds(tag, es), a, With(a, f, Joined(f, a[f.name], b)))
  <2> DEFINE old == a[f.name]
             S == Range(old) \cup Range(b)
  <2>1. old \in Seq(S) /\ b \in Seq(S)
    <3>1. old \in Seq(Range(old))
      BY <1>2, ListSeq
    <3>2. old \in Seq(Range(old) \cup Range(b)) /\ b \in Seq(Range(old) \cup Range(b))
      <4> DEFINE P == Range(old)
                 Q == Range(b)
      <4>1. old \in Seq(P) /\ b \in Seq(Q)
        BY <1>1, <3>1
      <4> HIDE DEF P, Q, old
      <4>2. old \in Seq(P \cup Q) /\ b \in Seq(P \cup Q)
        BY <4>1
      <4>3. QED
        BY <4>2 DEF P, Q
    <3>3. QED
      BY <3>2
  <2> HIDE DEF S, old
  <2>2. PICK pre : Growing(pre, old, b)
    BY <2>1, Grows
  <2> DEFINE vals == [i \in 0..n |-> With(a, f, pre[i])]
  <2>3. vals[0] = a
    <3>1. vals[0] = With(a, f, old)
      BY <1>1, <2>2 DEF Growing
    <3>2. With(a, f, old) = a
      BY <1>2, WithSame DEF old
    <3>3. QED
      BY <3>1, <3>2
  <2>4. vals[n] = With(a, f, old \o b)
    <3>1. n \in 0..n /\ pre[n] = old \o b
      BY <1>1, <2>2 DEF n, Growing
    <3>2. QED
      BY <3>1
  <2>5. ASSUME NEW i \in 1..n
        PROVE  Carries(A, kind, Delimited(tag, es[i]), vals[i - 1], vals[i])
    <3> DEFINE p == pre[i - 1]
               x == With(a, f, p)
    <3>1. i \in 0..n /\ i - 1 \in 0..n /\ i \in 1..Len(b)
      BY <1>1 DEF n
    <3>2. vals[i - 1] = x /\ vals[i] = With(a, f, Append(p, b[i]))
      BY <2>2, <3>1 DEF Growing
    <3> HIDE DEF p, vals
    <3>3. Shaped(kind, a)
      BY <1>2
    <3>4. x[f.name] = p
      BY ONLY Shaped(kind, a), f \in Fields(kind), WithAgain
    <3>5. \A u : With(x, f, u) = With(a, f, u)
      BY Shaped(kind, a), f \in Fields(kind), WithTwice DEF x
    <3> HIDE DEF x
    <3>6. Carries(A, kind, Delimited(tag, es[i]), x, With(x, f, Append(x[f.name], b[i])))
      BY <3>1 DEF tag
    <3>7. QED
      BY <3>2, <3>4, <3>5, <3>6
  <2> HIDE DEF vals
  <2>6. Carries(A, kind, Delimiteds(tag, es), vals[0], vals[n])
    <3>1. \A i \in 1..Len(es) : Carries(A, kind, Delimited(TagOf(f, 2), es[i]), vals[i - 1], vals[i])
      BY <2>5 DEF n, tag
    <3>2. QED
      BY <3>1, ElementsCarry DEF n, tag
  <2>7. Joined(f, old, b) = old \o b
    BY JoinedLists
  <2>8. QED
    BY <2>3, <2>4, <2>6, <2>7 DEF old
<1>3. Delimiteds(tag, es) \in Seq(Byte)
  BY DelimitedsAreBytes, NumbersDistinct, TagOfByte DEF tag
<1>4. ASSUME A.fails, NEW a, NEW m, Partly(kind, a, m), a[f.name] = ZeroOf(f), m[f.name] = b
      PROVE  Breaks(A, kind, Delimiteds(tag, es), a, m)
  <2> DEFINE p(i) == FirstOf(b, i)
             vals == [i \in 0..n |-> With(a, f, p(i))]
  <2>1. /\ p(0) = <<>>
        /\ \A i \in 0..n : IsPrefix(p(i), b)
        /\ \A i \in 1..n : p(i) = Append(p(i - 1), b[i])
    BY <1>1, FirstGrows DEF n
  <2> HIDE DEF p
  <2>2. Shaped(kind, a) /\ ~IsScalar(f)
    BY <1>4 DEF Partly, IsList, IsBytesList, IsMessageList, IsScalar
  <2>3. vals[0] = a
    <3>1. p(0) = a[f.name]
      BY <1>4, <2>1, <2>2, ZeroIsEmpty
    <3>2. With(a, f, a[f.name]) = a
      BY <2>2, WithSame
    <3>3. vals[0] = With(a, f, p(0))
      BY <1>1
    <3>4. QED
      BY <3>1, <3>2, <3>3
  <2>4. ASSUME NEW i \in 0..n PROVE Partly(kind, vals[i], m)
    <3>1. f.kind \in {"bytes list", "message list"} /\ IsPrefix(p(i), m[f.name])
      BY <1>4, <2>1 DEF IsList, IsBytesList, IsMessageList
    <3>2. PartOf(f, p(i), m[f.name])
      BY <3>1 DEF PartOf
    <3>3. Partly(kind, With(a, f, p(i)), m)
      BY <1>4, <3>2, WithPart
    <3>4. QED
      BY <3>3
  <2>5. ASSUME NEW i \in 1..n
        PROVE  Carries(A, kind, Delimited(tag, es[i]), vals[i - 1], vals[i])
    <3> DEFINE q == p(i - 1)
               x == With(a, f, q)
    <3>1. i \in 0..n /\ i - 1 \in 0..n /\ i \in 1..Len(b)
      BY <1>1 DEF n
    <3>2. vals[i - 1] = x /\ vals[i] = With(a, f, Append(q, b[i]))
      BY <2>1, <3>1
    <3>3. Shaped(kind, a)
      BY <2>2
    <3> HIDE DEF q, vals
    <3>4. x[f.name] = q
      BY ONLY <3>3, f \in Fields(kind), WithAgain
    <3>5. \A u : With(x, f, u) = With(a, f, u)
      BY Shaped(kind, a), f \in Fields(kind), WithTwice DEF x
    <3> HIDE DEF x
    <3>6. Carries(A, kind, Delimited(tag, es[i]), x, With(x, f, Append(x[f.name], b[i])))
      BY <3>1 DEF tag
    <3>7. QED
      BY <3>2, <3>4, <3>5, <3>6
  <2> HIDE DEF vals
  <2>6. Breaks(A, kind, Delimiteds(TagOf(f, 2), es), vals[0], m)
    <3>1. \A i \in 0..Len(es) : Partly(kind, vals[i], m)
      BY <2>4 DEF n
    <3>2. \A i \in 1..Len(es) : Carries(A, kind, Delimited(TagOf(f, 2), es[i]), vals[i - 1], vals[i])
      BY <2>5 DEF n, tag
    <3>3. QED
      BY <1>4, <2>2, <3>1, <3>2, ElementsBreak
  <2>7. QED
    BY <2>3, <2>6 DEF tag
<1>5. A.fails => BreaksField(A, kind, f, Delimiteds(tag, es), b)
  BY <1>4 DEF BreaksField
<1>6. QED
  BY <1>2, <1>3, <1>5 DEF Piece, tag

\* Bytes one after the other.
LEMMA BytesListPiece ==
  ASSUME NEW A, NEW kind, NEW f, NEW b, f \in Fields(kind), IsBytesList(f), Fits(f, b)
  PROVE  Piece(A, kind, f, Delimiteds(TagOf(f, 2), b), b)
<1>1. b \in Seq(Seq(Byte))
  BY DEF Fits, IsValue, IsBytesList
<1>2. IsString(f) /\ IsList(f) /\ f.kind # "bytes"
  BY DEF IsBytesList, IsString, IsList
<1>3. ASSUME NEW a, NEW i \in 1..Len(b)
      PROVE  Carries(A, kind, Delimited(TagOf(f, 2), b[i]), a, With(a, f, Append(a[f.name], b[i])))
  <2> DEFINE w == b[i]
  <2>1. w \in Seq(Byte)
    BY <1>1, ElementOfSeq
  <2> HIDE DEF w
  <2>2. Carries(A, kind, Delimited(TagOf(f, 2), w), a,
                 [a EXCEPT ![f.name] = IF f.kind = "bytes" THEN w ELSE Append(a[f.name], w)])
    BY <1>2, <2>1, StringCarries
  <2>3. QED
    BY <1>2, <2>2 DEF With, w
<1>4. QED
  BY <1>1, <1>2, <1>3, ListPiece

\* Messages one after the other.
LEMMA MessageListPiece ==
  ASSUME NEW A, NEW kind, NEW f, NEW b, NEW es, f \in Fields(kind), IsMessageList(f), Fits(f, b),
         Encodes(A, f.of, b, es)
  PROVE  Piece(A, kind, f, Delimiteds(TagOf(f, 2), es), b)
<1>1. es \in Seq(Seq(Byte)) /\ Len(es) = Len(b) /\ IsList(f)
  BY DEF Encodes, IsList
<1>2. ASSUME NEW a, NEW i \in 1..Len(b)
      PROVE  Carries(A, kind, Delimited(TagOf(f, 2), es[i]), a, With(a, f, Append(a[f.name], b[i])))
  <2> DEFINE w == es[i]
             m == b[i]
             of == f.of
             r == [field |-> f, val |-> m]
  <2>1. w \in Seq(Byte) /\ IsMessage(of, m) /\ Writes(A, of, w, m)
    BY DEF Encodes, Writes
  <2>2. Started(f, a[f.name]) = Zero(of)
    BY DEF Started, IsMessageList
  <2>3. Filled(a[f.name], r) = Append(a[f.name], m)
    BY DEF Filled, IsMessageList
  <2>4. Nests(A, f, w)
    <3>1. of \in Simple
      BY FieldsWellformed DEF IsMessageList, Wellformed
    <3>2. of \in Kinds /\ of # "skip" /\ of # "external"
      BY <3>1, KindsApart
    <3>3. QED
      BY <3>2 DEF Nests, IsMessageList
  <2> HIDE DEF w, m
  <2>5. Carries(A, f.of, w, Started(f, a[f.name]), m)
    <3>1. Carries(A, of, w, Zero(of), JoinedMessage(of, Zero(of), m))
      BY <2>1, ZeroMessage DEF Writes
    <3>2. QED
      BY <2>1, <2>2, <3>1, ZeroJoined
  <2>6. Carries(A, kind, Delimited(TagOf(f, 2), w), a, [a EXCEPT ![f.name] = Filled(a[f.name], r)])
    BY <2>1, <2>4, <2>5, NestedCarries
  <2>7. QED
    BY <2>3, <2>6 DEF With, w, m
<1>3. QED
  BY <1>1, <1>2, ListPiece

-----------------------------------------------------------------------------
(* Maps grow entry by entry, in whatever order Marshal ranges over them.   *)

\* A map in which the first i keys of an order have the values of another one.
Laid(old, b, order, i) ==
  [k \in DOMAIN old \cup {order[j] : j \in 1..i} |->
     IF \E j \in 1..i : k = order[j] THEN b[k] ELSE old[k]]

\* It grows with each entry.
LEMMA LaidSteps ==
  ASSUME NEW f, NEW old, NEW b, NEW order, NEW n, n \in Nat, IsMap(f), Lists(order, n, DOMAIN b),
         old = [k \in DOMAIN old |-> old[k]]
  PROVE  /\ Laid(old, b, order, 0) = old
         /\ Laid(old, b, order, n) = Overlaid(old, b)
         /\ \A i \in 1..n : Laid(old, b, order, i) =
              Filled(Laid(old, b, order, i - 1),
                     [field |-> f, val |-> [key |-> order[i], value |-> b[order[i]]]])
<1>1. Laid(old, b, order, 0) = old
  <2>1. 1..0 = {}
    OBVIOUS
  <2>2. DOMAIN old \cup {order[j] : j \in 1..0} = DOMAIN old
    BY <2>1
  <2>3. Laid(old, b, order, 0) = [k \in DOMAIN old |-> old[k]]
    BY <2>1, <2>2 DEF Laid
  <2>4. QED
    BY <2>3
<1>2. Laid(old, b, order, n) = Overlaid(old, b)
  <2>1. {order[j] : j \in 1..n} = DOMAIN b
    <3>1. \A i \in 1..n : order[i] \in DOMAIN b
      BY DEF Lists
    <3>2. \A k \in DOMAIN b : \E i \in 1..n : k = order[i]
      BY DEF Lists
    <3>3. QED
      BY <3>1, <3>2
  <2>2. \A k : (\E j \in 1..n : k = order[j]) <=> k \in DOMAIN b
    BY <2>1
  <2>3. QED
    BY <2>1, <2>2 DEF Laid, Overlaid
<1>3. ASSUME NEW i \in 1..n
      PROVE  Laid(old, b, order, i) =
               Filled(Laid(old, b, order, i - 1),
                      [field |-> f, val |-> [key |-> order[i], value |-> b[order[i]]]])
  <2> DEFINE p == Laid(old, b, order, i - 1)
             D == DOMAIN old \cup {order[j] : j \in 1..(i - 1)}
             key == order[i]
             r == [field |-> f, val |-> [key |-> key, value |-> b[key]]]
  <2>1. DOMAIN p = D /\ \A k \in D : p[k] = IF \E j \in 1..(i - 1) : k = order[j] THEN b[k] ELSE old[k]
    BY DEF Laid
  <2> HIDE DEF p
  <2>2. Filled(p, r) = [k \in DOMAIN p \cup {key} |-> IF k = key THEN b[key] ELSE p[k]]
    <3>1. r.field = f /\ r.val.key = key /\ r.val.value = b[key]
      OBVIOUS
    <3>2. r.field.kind \notin {"message", "external", "message list", "duration"} /\ r.field.kind = "map"
      BY <3>1 DEF IsMap
    <3> HIDE DEF r, key
    <3>3. Filled(p, r) = [k \in DOMAIN p \cup {r.val.key} |-> IF k = r.val.key THEN r.val.value ELSE p[k]]
      BY <3>2, Zenon DEF Filled
    <3>4. QED
      BY <3>1, <3>3
  <2>3. i \in Nat /\ i - 1 \in Nat /\ \A j : j \in 1..i <=> j \in 1..(i - 1) \/ j = i
    OBVIOUS
  <2>4. D \cup {key} = DOMAIN old \cup {order[j] : j \in 1..i}
    BY <2>3
  <2>5. ASSUME NEW k \in D \cup {key}
        PROVE  (IF k = key THEN b[key] ELSE p[k]) = (IF \E j \in 1..i : k = order[j] THEN b[k] ELSE old[k])
    <3>1. CASE k = key
      BY <3>1, <2>3
    <3>2. CASE k # key
      <4>1. k \in D /\ ((\E j \in 1..i : k = order[j]) <=> (\E j \in 1..(i - 1) : k = order[j]))
        BY <2>3, <3>2
      <4>2. QED
        BY <2>1, <3>2, <4>1
    <3>3. QED
      BY <3>1, <3>2
  <2> DEFINE E == D \cup {key}
             g(k) == IF k = key THEN b[key] ELSE p[k]
             h(k) == IF \E j \in 1..i : k = order[j] THEN b[k] ELSE old[k]
  <2>6. \A k \in E : g(k) = h(k)
    BY <2>5
  <2>7. Laid(old, b, order, i) = [k \in E |-> h(k)]
    BY <2>4 DEF Laid
  <2>8. Filled(p, r) = [k \in E |-> g(k)]
    BY <2>1, <2>2
  <2> HIDE DEF E, g, h, r
  <2>9. Laid(old, b, order, i) = Filled(p, r)
    BY <2>6, <2>7, <2>8
  <2>10. QED
    BY <2>9 DEF p, r
<1>4. QED
  BY <1>1, <1>2, <1>3

\* A map, its entries in any order.
LEMMA MapPiece ==
  ASSUME NEW A, NEW kind, NEW f, NEW b, NEW order, f \in Fields(kind), IsMap(f), Fits(f, b),
         order \in SetToSeqs(DOMAIN b)
  PROVE  Piece(A, kind, f, MapField(TagOf(f, 2), b, order), b)
<1> DEFINE n == Len(order)
           tag == TagOf(f, 2)
           es == [i \in DOMAIN order |-> EntryOf(order[i], b[order[i]])]
<1>1. /\ IsFiniteSet(DOMAIN b) /\ b \in [DOMAIN b -> Uint64Values]
      /\ \A k \in DOMAIN b : k \in Seq(Byte)
  BY DEF Fits, IsValue, IsMap
<1>2. n \in Nat /\ DOMAIN order = 1..n /\ Lists(order, n, DOMAIN b)
  BY <1>1, OrderLists, LenProperties
<1>3. \A i \in 1..n : order[i] \in DOMAIN b
  BY <1>2 DEF Lists
<1>4. \A i \in 1..n : order[i] \in Seq(Byte) /\ b[order[i]] \in Uint64Values
  BY <1>1, <1>3
<1>5. \A i \in 1..n : es[i] = EntryOf(order[i], b[order[i]]) /\ es[i] \in Seq(Byte)
  BY <1>2, <1>4, EntryBytes
<1>6. es \in Seq(Seq(Byte)) /\ Len(es) = n
  <2>1. es \in [1..n -> Seq(Byte)]
    BY <1>2, <1>5
  <2> HIDE DEF es, n
  <2>2. QED
    BY <1>2, <2>1, FunctionIsSeq
<1>7. MapField(tag, b, order) = Delimiteds(tag, es)
  BY DEF MapField, EntryOf
<1> HIDE DEF es, n, tag
<1>8. ASSUME NEW a, Shaped(kind, a), Fits(f, a[f.name])
      PROVE  Carries(A, kind, Delimiteds(tag, es), a, With(a, f, Joined(f, a[f.name], b)))
  <2> DEFINE old == a[f.name]
             L(i) == Laid(old, b, order, i)
             vals == [i \in 0..n |-> With(a, f, L(i))]
  <2>1. old = [k \in DOMAIN old |-> old[k]]
    BY <1>8 DEF Fits, IsValue, IsMap
  <2> HIDE DEF old
  <2>2. /\ Laid(old, b, order, 0) = old
        /\ Laid(old, b, order, n) = Overlaid(old, b)
        /\ \A i \in 1..n : Laid(old, b, order, i) =
             Filled(Laid(old, b, order, i - 1),
                    [field |-> f, val |-> [key |-> order[i], value |-> b[order[i]]]])
    BY <1>2, <2>1, LaidSteps
  <2> HIDE DEF L
  <2>3. L(0) = old /\ L(n) = Overlaid(old, b)
    BY <2>2 DEF L
  <2>4. \A i \in 1..n : L(i) = Filled(L(i - 1), [field |-> f, val |-> [key |-> order[i], value |-> b[order[i]]]])
    BY <2>2 DEF L
  <2>5. vals[0] = a
    <3>1. vals[0] = With(a, f, old)
      BY <1>2, <2>3
    <3>2. With(a, f, old) = a
      BY <1>8, WithSame DEF old
    <3>3. QED
      BY <3>1, <3>2
  <2>6. vals[n] = With(a, f, Overlaid(old, b))
    <3>1. n \in 0..n
      BY <1>2
    <3>2. QED
      BY <2>3, <3>1
  <2>7. ASSUME NEW i \in 1..n
        PROVE  Carries(A, kind, Delimited(tag, es[i]), vals[i - 1], vals[i])
    <3> DEFINE p == L(i - 1)
               q == L(i)
               x == With(a, f, p)
               key == order[i]
               v == b[key]
               r == [field |-> f, val |-> [key |-> key, value |-> v]]
    <3>1. i \in 0..n /\ i - 1 \in 0..n
      BY <1>2
    <3>2. vals[i - 1] = x /\ vals[i] = With(a, f, q)
      BY <3>1
    <3>3. q = Filled(p, r)
      BY <2>4
    <3>4. key \in Seq(Byte) /\ v \in Uint64Values /\ es[i] = EntryOf(key, v)
      BY <1>4, <1>5
    <3>5. Shaped(kind, a)
      BY <1>8
    <3> HIDE DEF p, q, vals, key, v
    <3>6. x[f.name] = p
      BY ONLY <3>5, f \in Fields(kind), WithAgain
    <3>7. \A u : With(x, f, u) = With(a, f, u)
      BY Shaped(kind, a), f \in Fields(kind), WithTwice DEF x
    <3> HIDE DEF x
    <3>8. Carries(A, kind, Delimited(TagOf(f, 2), EntryOf(key, v)), x, [x EXCEPT ![f.name] = Filled(x[f.name], r)])
      BY <3>4, EntryCarries
    <3>9. [x EXCEPT ![f.name] = Filled(x[f.name], r)] = With(a, f, q)
      BY <3>3, <3>6, <3>7 DEF With
    <3>10. QED
      BY <3>2, <3>4, <3>8, <3>9 DEF tag
  <2> HIDE DEF vals
  <2>8. Carries(A, kind, Delimiteds(tag, es), vals[0], vals[n])
    <3>1. \A i \in 1..Len(es) : Carries(A, kind, Delimited(TagOf(f, 2), es[i]), vals[i - 1], vals[i])
      BY <1>6, <2>7 DEF tag
    <3>2. QED
      BY <1>6, <3>1, ElementsCarry DEF tag
  <2>9. Joined(f, old, b) = Overlaid(old, b)
    BY JoinedMaps
  <2>10. QED
    BY <2>5, <2>6, <2>8, <2>9 DEF old
<1>9. Delimiteds(tag, es) \in Seq(Byte)
  BY <1>6, DelimitedsAreBytes, NumbersDistinct, TagOfByte DEF tag
<1>10. ASSUME A.fails, NEW a, NEW m, Partly(kind, a, m), a[f.name] = ZeroOf(f), m[f.name] = b
       PROVE  Breaks(A, kind, Delimiteds(tag, es), a, m)
  <2> DEFINE old == <<>>
             L(i) == Laid(old, b, order, i)
             vals == [i \in 0..n |-> With(a, f, L(i))]
  <2>1. Shaped(kind, a) /\ ~IsScalar(f) /\ a[f.name] = old /\ DOMAIN old = {}
    <3>1. Shaped(kind, a) /\ ~IsScalar(f)
      BY <1>10 DEF Partly, IsMap, IsScalar
    <3>2. QED
      BY <1>10, <3>1, ZeroIsEmpty
  <2>2. old = [k \in DOMAIN old |-> old[k]]
    OBVIOUS
  <2> HIDE DEF old
  <2>3. /\ Laid(old, b, order, 0) = old
        /\ Laid(old, b, order, n) = Overlaid(old, b)
        /\ \A i \in 1..n : Laid(old, b, order, i) =
             Filled(Laid(old, b, order, i - 1),
                    [field |-> f, val |-> [key |-> order[i], value |-> b[order[i]]]])
    BY <1>2, <2>2, LaidSteps
  <2> HIDE DEF L
  <2>4. L(0) = old
    BY <2>3 DEF L
  <2>5. \A i \in 1..n : L(i) = Filled(L(i - 1), [field |-> f, val |-> [key |-> order[i], value |-> b[order[i]]]])
    BY <2>3 DEF L
  <2>6. vals[0] = a
    <3>1. vals[0] = With(a, f, old)
      BY <1>2, <2>4
    <3>2. With(a, f, old) = a
      BY <2>1, WithSame
    <3>3. QED
      BY <3>1, <3>2
  <2>7. ASSUME NEW i \in 0..n PROVE Partly(kind, vals[i], m)
    <3> DEFINE p == L(i)
    <3>1. \A k \in DOMAIN p : k \in DOMAIN b /\ p[k] = b[k]
      <4>1. \A j \in 1..i : order[j] \in DOMAIN b
        BY <1>2, <1>3
      <4>2. DOMAIN p = {order[j] : j \in 1..i}
        BY <2>1 DEF L, Laid
      <4>3. \A k \in DOMAIN p : p[k] = b[k]
        BY <2>1 DEF L, Laid
      <4> HIDE DEF p
      <4>4. QED
        BY <4>1, <4>2, <4>3
    <3> HIDE DEF p
    <3>2. PartOf(f, p, b)
      BY <3>1 DEF PartOf, IsMap
    <3>3. Partly(kind, With(a, f, p), m)
      BY <1>10, <3>2, WithPart
    <3>4. QED
      BY <3>3 DEF p
  <2>8. ASSUME NEW i \in 1..n
        PROVE  Carries(A, kind, Delimited(tag, es[i]), vals[i - 1], vals[i])
    <3> DEFINE p == L(i - 1)
               q == L(i)
               x == With(a, f, p)
               key == order[i]
               v == b[key]
               r == [field |-> f, val |-> [key |-> key, value |-> v]]
    <3>1. i \in 0..n /\ i - 1 \in 0..n
      BY <1>2
    <3>2. vals[i - 1] = x /\ vals[i] = With(a, f, q)
      BY <3>1
    <3>3. q = Filled(p, r)
      BY <2>5
    <3>4. key \in Seq(Byte) /\ v \in Uint64Values /\ es[i] = EntryOf(key, v)
      BY <1>4, <1>5
    <3>5. Shaped(kind, a)
      BY <2>1
    <3> HIDE DEF p, q, vals, key, v
    <3>6. x[f.name] = p
      BY ONLY <3>5, f \in Fields(kind), WithAgain
    <3>7. \A u : With(x, f, u) = With(a, f, u)
      BY Shaped(kind, a), f \in Fields(kind), WithTwice DEF x
    <3> HIDE DEF x
    <3>8. Carries(A, kind, Delimited(TagOf(f, 2), EntryOf(key, v)), x, [x EXCEPT ![f.name] = Filled(x[f.name], r)])
      BY <3>4, EntryCarries
    <3>9. [x EXCEPT ![f.name] = Filled(x[f.name], r)] = With(a, f, q)
      BY <3>3, <3>6, <3>7 DEF With
    <3>10. QED
      BY <3>2, <3>4, <3>8, <3>9 DEF tag
  <2> HIDE DEF vals
  <2>9. Breaks(A, kind, Delimiteds(TagOf(f, 2), es), vals[0], m)
    <3>1. \A i \in 0..Len(es) : Partly(kind, vals[i], m)
      BY <1>6, <2>7
    <3>2. \A i \in 1..Len(es) : Carries(A, kind, Delimited(TagOf(f, 2), es[i]), vals[i - 1], vals[i])
      BY <1>6, <2>8 DEF tag
    <3>3. QED
      BY <1>6, <1>10, <2>1, <3>1, <3>2, ElementsBreak
  <2>10. QED
    BY <2>6, <2>9 DEF tag
<1>11. A.fails => BreaksField(A, kind, f, Delimiteds(tag, es), b)
  BY <1>10 DEF BreaksField
<1>12. QED
  BY <1>7, <1>8, <1>9, <1>11 DEF Piece, tag

-----------------------------------------------------------------------------
(* Whole messages, field by field.                                         *)

\* A message with the fields of some names joined by those of another one, and bytes
\* that bring it there.
Over(kind, a, m, N) ==
  [name \in Names(kind) |->
     IF name \in N THEN Joined(FieldNamed(kind, name), a[name], m[name]) ELSE a[name]]
Brings(A, kind, m, w, N) ==
  /\ w \in Seq(Byte)
  /\ \A a : IsMessage(kind, a) => Carries(A, kind, w, a, Over(kind, a, m, N))
  /\ A.fails /\ kind \in Kinds /\ IsMessage(kind, m) => Breaks(A, kind, w, Zero(kind), m)

\* External messages a decoder takes as they are, and a message that has no others in
\* its own fields.
PlainIn(A) == {w \in A.takes : Plain(w)}
Ready(A, kind, m) == IsMessage(kind, m) /\ FlatFrom(PlainIn(A), kind, m)

\* Some of the fields are a part of the message.
LEMMA OverPart ==
  ASSUME NEW kind, NEW m, NEW N, IsMessage(kind, m)
  PROVE  Partly(kind, Over(kind, Zero(kind), m, N), m)
<1> DEFINE x == Over(kind, Zero(kind), m, N)
<1>1. x = [name \in Names(kind) |->
             IF name \in N THEN Joined(FieldNamed(kind, name), Zero(kind)[name], m[name]) ELSE Zero(kind)[name]]
  BY DEF Over
<1>2. Shaped(kind, x)
  BY <1>1 DEF Shaped
<1> HIDE DEF x
<1>3. ASSUME NEW f \in Fields(kind) PROVE PartOf(f, x[f.name], m[f.name])
  <2> DEFINE n == f.name
             z == Zero(kind)[n]
  <2>1. n \in Names(kind) /\ FieldNamed(kind, n) = f
    BY FieldNamedSo
  <2>2. z = ZeroOf(f)
    BY <2>1 DEF Zero
  <2>3. Joined(f, z, m[n]) = m[n]
    BY <2>2, JoinedZero, MessageFits, FieldsWellformed
  <2> HIDE DEF n
  <2>4. x[n] = IF n \in N THEN Joined(f, z, m[n]) ELSE z
    BY <1>1, <2>1
  <2> HIDE DEF z
  <2>5. QED
    BY <2>2, <2>3, <2>4 DEF PartOf, n
<1>4. QED
  BY <1>2, <1>3 DEF Partly, x

\* Nothing yet.
LEMMA BringNothing ==
  ASSUME NEW A, NEW kind, NEW m
  PROVE  Brings(A, kind, m, <<>>, {})
<1>1. ASSUME NEW a, IsMessage(kind, a) PROVE Over(kind, a, m, {}) = a
  <2>1. a = [name \in Names(kind) |-> a[name]]
    BY <1>1, MessageFits
  <2>2. Over(kind, a, m, {}) = [name \in Names(kind) |-> a[name]]
    BY DEF Over
  <2>3. QED
    BY <2>1, <2>2
<1>2. ASSUME NEW a, IsMessage(kind, a) PROVE Carries(A, kind, <<>>, a, Over(kind, a, m, {}))
  <2>1. Carries(A, kind, <<>>, a, a)
    BY CarriesNothing
  <2>2. QED
    BY <1>1, <1>2, <2>1
<1>3. ASSUME kind \in Kinds, IsMessage(kind, m) PROVE Breaks(A, kind, <<>>, Zero(kind), m)
  <2>1. Over(kind, Zero(kind), m, {}) = Zero(kind)
    BY <1>1, ZeroMessage
  <2>2. Partly(kind, Zero(kind), m)
    BY <1>3, <2>1, OverPart
  <2>3. QED
    BY <1>3, <2>2, BreaksNothing
<1>4. QED
  BY <1>2, <1>3, EmptySeq DEF Brings

\* One field more.
LEMMA BringMore ==
  ASSUME NEW A, NEW kind, NEW m, NEW v, NEW N, NEW f, NEW w, Brings(A, kind, m, v, N),
         f \in Fields(kind), f.name \notin N, Piece(A, kind, f, w, m[f.name])
  PROVE  Brings(A, kind, m, v \o w, N \cup {f.name})
<1>1. v \in Seq(Byte) /\ w \in Seq(Byte)
  BY DEF Brings, Piece
<1>2. ASSUME NEW a, IsMessage(kind, a)
      PROVE  Carries(A, kind, v \o w, a, Over(kind, a, m, N \cup {f.name}))
  <2> DEFINE n == f.name
             x == Over(kind, a, m, N)
             y == Over(kind, a, m, N \cup {n})
             z == Joined(f, x[n], m[n])
  <2>1. FieldNamed(kind, n) = f /\ n \in Names(kind)
    BY FieldNamedSo
  <2>2. Fits(f, a[n])
    BY <1>2, MessageFits
  <2> HIDE DEF n, z
  <2>3. x = [name \in Names(kind) |-> IF name \in N THEN Joined(FieldNamed(kind, name), a[name], m[name])
                                      ELSE a[name]]
    BY DEF Over
  <2>4. x[n] = a[n] /\ Shaped(kind, x)
    <3>1. n \notin N
      BY DEF n
    <3>2. QED
      BY <2>1, <2>3, <3>1 DEF Shaped
  <2>5. [x EXCEPT ![n] = z] = y
    <3>1. [x EXCEPT ![n] = z] = [name \in Names(kind) |-> IF name = n THEN z ELSE x[name]]
      BY <2>1, <2>3
    <3>2. z = Joined(f, a[n], m[n])
      BY <2>4 DEF z
    <3>3. y = [name \in Names(kind) |-> IF name \in N \cup {n}
                                        THEN Joined(FieldNamed(kind, name), a[name], m[name]) ELSE a[name]]
      BY DEF Over
    <3>4. ASSUME NEW name \in Names(kind)
          PROVE  (IF name = n THEN z ELSE x[name]) =
                 (IF name \in N \cup {n} THEN Joined(FieldNamed(kind, name), a[name], m[name]) ELSE a[name])
      BY <2>1, <2>3, <3>2
    <3> HIDE DEF x, y
    <3>5. QED
      BY <3>1, <3>3, <3>4
  <2> HIDE DEF x, y
  <2>6. Carries(A, kind, w, x, y)
    <3>1. Carries(A, kind, w, x, With(x, f, Joined(f, x[f.name], m[f.name])))
      BY <2>2, <2>4 DEF Piece, n
    <3>2. QED
      BY <2>5, <3>1 DEF With, n, z
  <2>7. Carries(A, kind, v, a, x)
    BY <1>2 DEF Brings, x
  <2>8. Carries(A, kind, v \o w, a, y)
    BY <1>1, <2>6, <2>7, CarriesConcat
  <2>9. QED
    BY <2>8 DEF y, n
<1>3. v \o w \in Seq(Byte)
  BY <1>1, Concat
<1>4. ASSUME A.fails, kind \in Kinds, IsMessage(kind, m)
      PROVE  Breaks(A, kind, v \o w, Zero(kind), m)
  <2> DEFINE n == f.name
             a == Zero(kind)
             x == Over(kind, a, m, N)
  <2>1. FieldNamed(kind, n) = f /\ n \in Names(kind) /\ IsMessage(kind, a)
    BY FieldNamedSo, ZeroMessage
  <2>2. Partly(kind, x, m)
    BY <1>4, OverPart
  <2>3. x[n] = ZeroOf(f)
    <3>1. n \notin N /\ a[n] = ZeroOf(f)
      BY <2>1 DEF Zero
    <3>2. x[n] = a[n]
      BY <2>1, <3>1 DEF Over
    <3>3. QED
      BY <3>1, <3>2
  <2> HIDE DEF x, n, a
  <2>4. Breaks(A, kind, w, x, m)
    <3>1. BreaksField(A, kind, f, w, m[f.name])
      BY <1>4 DEF Piece
    <3>2. QED
      BY <2>2, <2>3, <3>1 DEF BreaksField, n
  <2>5. Carries(A, kind, v, a, x) /\ Breaks(A, kind, v, a, m)
    BY <1>4, <2>1 DEF Brings, x, a
  <2>6. Breaks(A, kind, v \o w, a, m)
    BY <1>1, <1>4, <2>4, <2>5, BreaksConcat
  <2>7. QED
    BY <2>6 DEF a
<1>5. QED
  BY <1>2, <1>3, <1>4 DEF Brings

\* All fields.
LEMMA BringAll ==
  ASSUME NEW A, NEW kind, NEW m, NEW w, NEW N, Brings(A, kind, m, w, N),
         \A f \in Fields(kind) : f.name \in N
  PROVE  Writes(A, kind, w, m)
<1>1. \A name \in Names(kind) : name \in N
  BY NamedField
<1>2. ASSUME NEW a, IsMessage(kind, a) PROVE Over(kind, a, m, N) = JoinedMessage(kind, a, m)
  <2>1. a = [name \in Names(kind) |-> a[name]]
    BY <1>2, MessageFits
  <2>2. DOMAIN a = Names(kind)
    BY <2>1
  <2>3. QED
    BY <1>1, <2>2 DEF Over, JoinedMessage
<1>3. ASSUME NEW a, IsMessage(kind, a) PROVE Carries(A, kind, w, a, JoinedMessage(kind, a, m))
  BY <1>2, <1>3 DEF Brings
<1>4. QED
  BY <1>3 DEF Writes, Brings

-----------------------------------------------------------------------------
(* A field, by its constructor.                                            *)

\* What a field of a message holds.
LEMMA FieldFits ==
  ASSUME NEW A, NEW kind, NEW m, NEW f, Ready(A, kind, m), f \in Fields(kind)
  PROVE  Fits(f, m[f.name]) /\ FieldFrom(PlainIn(A), f, m[f.name])
  BY MessageFits DEF Ready, FlatFrom

\* Bytes.
LEMMA BringBytes ==
  ASSUME NEW A, NEW kind, NEW m, NEW v, NEW N, NEW num, NEW name, Ready(A, kind, m),
         Brings(A, kind, m, v, N), Bytes(num, name) \in Fields(kind), name \notin N
  PROVE  Brings(A, kind, m, v \o BytesField(Tag(num, 2), m[name]), N \cup {name})
<1> DEFINE f == Bytes(num, name)
<1>1. f.name = name /\ f.num = num /\ IsBytes(f) /\ f \in Fields(kind)
  BY DEF Bytes, Field, IsBytes
<1> HIDE DEF f
<1>2. Piece(A, kind, f, BytesField(TagOf(f, 2), m[f.name]), m[f.name])
  BY <1>1, BytesPiece, FieldFits
<1>3. QED
  BY <1>1, <1>2, BringMore DEF TagOf

\* Numbers.
LEMMA BringUint64 ==
  ASSUME NEW A, NEW kind, NEW m, NEW v, NEW N, NEW num, NEW name, Ready(A, kind, m),
         Brings(A, kind, m, v, N), Uint64(num, name) \in Fields(kind), name \notin N
  PROVE  Brings(A, kind, m, v \o UintField(Tag(num, 0), m[name]), N \cup {name})
<1> DEFINE f == Uint64(num, name)
<1>1. f.name = name /\ f.num = num /\ IsNumber(f) /\ f \in Fields(kind)
  BY DEF Uint64, Field, IsNumber
<1> HIDE DEF f
<1>2. Piece(A, kind, f, UintField(TagOf(f, 0), m[f.name]), m[f.name])
  BY <1>1, NumberPiece, FieldFits
<1>3. QED
  BY <1>1, <1>2, BringMore DEF TagOf

\* A Uint32 field.
LEMMA BringUint32 ==
  ASSUME NEW A, NEW kind, NEW m, NEW v, NEW N, NEW num, NEW name, Ready(A, kind, m),
         Brings(A, kind, m, v, N), Uint32(num, name) \in Fields(kind), name \notin N
  PROVE  Brings(A, kind, m, v \o UintField(Tag(num, 0), m[name]), N \cup {name})
<1> DEFINE f == Uint32(num, name)
<1>1. f.name = name /\ f.num = num /\ IsNumber(f) /\ f \in Fields(kind)
  BY DEF Uint32, Field, IsNumber
<1> HIDE DEF f
<1>2. Piece(A, kind, f, UintField(TagOf(f, 0), m[f.name]), m[f.name])
  BY <1>1, NumberPiece, FieldFits
<1>3. QED
  BY <1>1, <1>2, BringMore DEF TagOf

\* Flags.
LEMMA BringBool ==
  ASSUME NEW A, NEW kind, NEW m, NEW v, NEW N, NEW num, NEW name, Ready(A, kind, m),
         Brings(A, kind, m, v, N), Bool(num, name) \in Fields(kind), name \notin N
  PROVE  Brings(A, kind, m, v \o BoolField(Tag(num, 0), m[name]), N \cup {name})
<1> DEFINE f == Bool(num, name)
<1>1. f.name = name /\ f.num = num /\ IsFlag(f) /\ f \in Fields(kind)
  BY DEF Bool, Field, IsFlag
<1> HIDE DEF f
<1>2. Piece(A, kind, f, BoolField(TagOf(f, 0), m[f.name]), m[f.name])
  BY <1>1, FlagPiece, FieldFits
<1>3. QED
  BY <1>1, <1>2, BringMore DEF TagOf

\* Durations.
LEMMA BringDuration ==
  ASSUME NEW A, NEW kind, NEW m, NEW v, NEW N, NEW num, NEW name, Ready(A, kind, m),
         Brings(A, kind, m, v, N), Duration(num, name) \in Fields(kind), name \notin N
  PROVE  Brings(A, kind, m, v \o Delimited(Tag(num, 2), m[name]), N \cup {name})
<1> DEFINE f == Duration(num, name)
<1>1. f.name = name /\ f.num = num /\ IsDuration(f) /\ f \in Fields(kind)
  BY DEF Duration, Field, IsDuration
<1> HIDE DEF f
<1>2. m[f.name] \in A.takes /\ Plain(m[f.name])
  BY <1>1, FieldFits DEF FieldFrom, IsDuration, PlainIn
<1>3. Piece(A, kind, f, Delimited(TagOf(f, 2), m[f.name]), m[f.name])
  BY <1>1, <1>2, DurationPiece
<1>4. QED
  BY <1>1, <1>3, BringMore DEF TagOf

\* The encodings of external messages.
Owns(b) == [i \in DOMAIN b |-> Own(b[i])]

\* External messages.
LEMMA BringExternal ==
  ASSUME NEW A, NEW kind, NEW m, NEW v, NEW N, NEW num, NEW name, Ready(A, kind, m),
         Brings(A, kind, m, v, N), External(num, name) \in Fields(kind), name \notin N
  PROVE  Brings(A, kind, m, v \o Delimiteds(Tag(num, 2), Owns(m[name])), N \cup {name})
<1> DEFINE f == External(num, name)
           w == Delimiteds(Tag(num, 2), Owns(m[name]))
<1>1. f.name = name /\ f.num = num /\ IsExternal(f) /\ f \in Fields(kind)
  BY DEF External, Field, IsExternal
<1> HIDE DEF f
<1>2. \A i \in DOMAIN m[name] : m[name][i] \in A.takes /\ Plain(m[name][i])
  <2>1. Range(m[name]) \subseteq PlainIn(A)
    BY <1>1, FieldFits DEF FieldFrom, IsExternal
  <2>2. QED
    BY <2>1 DEF Range, PlainIn
<1>3. Fits(f, m[name])
  BY <1>1, FieldFits
<1>4. Piece(A, kind, f, MessageField(TagOf(f, 2), m[name], Own), m[name])
  BY <1>1, <1>2, <1>3, ExternalPiece
<1>5. MessageField(TagOf(f, 2), m[name], Own) = w
  BY <1>1 DEF TagOf, MessageField, Owns
<1> HIDE DEF w
<1>6. Piece(A, kind, f, w, m[f.name])
  BY <1>1, <1>4, <1>5
<1>7. Brings(A, kind, m, v \o w, N \cup {name})
  BY <1>1, <1>6, BringMore
<1>8. QED
  BY <1>7 DEF w

\* Lists of bytes.
LEMMA BringBytesList ==
  ASSUME NEW A, NEW kind, NEW m, NEW v, NEW N, NEW num, NEW name, Ready(A, kind, m),
         Brings(A, kind, m, v, N), BytesList(num, name) \in Fields(kind), name \notin N
  PROVE  Brings(A, kind, m, v \o Delimiteds(Tag(num, 2), m[name]), N \cup {name})
<1> DEFINE f == BytesList(num, name)
<1>1. f.name = name /\ f.num = num /\ IsBytesList(f) /\ f \in Fields(kind)
  BY DEF BytesList, Field, IsBytesList
<1> HIDE DEF f
<1>2. Piece(A, kind, f, Delimiteds(TagOf(f, 2), m[f.name]), m[f.name])
  BY <1>1, BytesListPiece, FieldFits
<1>3. QED
  BY <1>1, <1>2, BringMore DEF TagOf

\* Maps.
LEMMA BringMap ==
  ASSUME NEW A, NEW kind, NEW m, NEW v, NEW N, NEW num, NEW name, NEW order, Ready(A, kind, m),
         Brings(A, kind, m, v, N), Map(num, name) \in Fields(kind), name \notin N,
         order \in SetToSeqs(DOMAIN m[name])
  PROVE  Brings(A, kind, m, v \o MapField(Tag(num, 2), m[name], order), N \cup {name})
<1> DEFINE f == Map(num, name)
<1>1. f.name = name /\ f.num = num /\ IsMap(f) /\ f \in Fields(kind)
  BY DEF Map, Field, IsMap
<1> HIDE DEF f
<1>2. Fits(f, m[name])
  BY <1>1, FieldFits
<1>3. Piece(A, kind, f, MapField(TagOf(f, 2), m[name], order), m[name])
  BY <1>1, <1>2, MapPiece
<1>4. QED
  BY <1>1, <1>3, BringMore DEF TagOf

\* Messages, by what is written of each.
LEMMA BringMessage ==
  ASSUME NEW A, NEW kind, NEW m, NEW v, NEW N, NEW num, NEW name, NEW of, NEW es, Ready(A, kind, m),
         Brings(A, kind, m, v, N), Message(num, name, of) \in Fields(kind), name \notin N,
         Encodes(A, of, m[name], es)
  PROVE  Brings(A, kind, m, v \o Delimiteds(Tag(num, 2), es), N \cup {name})
<1> DEFINE f == Message(num, name, of)
<1>1. f.name = name /\ f.num = num /\ f.of = of /\ IsMessageField(f) /\ f \in Fields(kind)
  BY DEF Message, Field, IsMessageField
<1> HIDE DEF f
<1>2. Fits(f, m[name])
  BY <1>1, FieldFits
<1>3. Piece(A, kind, f, Delimiteds(TagOf(f, 2), es), m[name])
  BY <1>1, <1>2, MessagePiece
<1>4. QED
  BY <1>1, <1>3, BringMore DEF TagOf

\* A MessageList field.
LEMMA BringMessageList ==
  ASSUME NEW A, NEW kind, NEW m, NEW v, NEW N, NEW num, NEW name, NEW of, NEW es, Ready(A, kind, m),
         Brings(A, kind, m, v, N), MessageList(num, name, of) \in Fields(kind), name \notin N,
         Encodes(A, of, m[name], es)
  PROVE  Brings(A, kind, m, v \o Delimiteds(Tag(num, 2), es), N \cup {name})
<1> DEFINE f == MessageList(num, name, of)
<1>1. f.name = name /\ f.num = num /\ f.of = of /\ IsMessageList(f) /\ f \in Fields(kind)
  BY DEF MessageList, Field, IsMessageList
<1> HIDE DEF f
<1>2. Fits(f, m[name])
  BY <1>1, FieldFits
<1>3. Piece(A, kind, f, Delimiteds(TagOf(f, 2), es), m[name])
  BY <1>1, <1>2, MessageListPiece
<1>4. QED
  BY <1>1, <1>3, BringMore DEF TagOf

-----------------------------------------------------------------------------
(* Messages that are nested.                                               *)

\* A message and those in it have no external messages but plain ones.
WholeReady(A, kind, m) == IsMessage(kind, m) /\ From(PlainIn(A), kind, m)

\* A field of messages of a kind.
NestsKind(kind, num, name, of) ==
  Message(num, name, of) \in Fields(kind) \/ MessageList(num, name, of) \in Fields(kind)

\* What holds at every depth holds of the outermost message.
LEMMA WholeIsReady ==
  ASSUME NEW A, NEW kind, NEW m, WholeReady(A, kind, m)
  PROVE  Ready(A, kind, m)
  BY DEF WholeReady, Ready, From, FlatFrom

\* What is written of messages in a field, one by one.
LEMMA EncodesEach ==
  ASSUME NEW A, NEW kind, NEW m, NEW num, NEW name, NEW of, NEW es, WholeReady(A, kind, m),
         NestsKind(kind, num, name, of), es = [i \in DOMAIN m[name] |-> es[i]],
         \A i \in DOMAIN m[name] : Ready(A, of, m[name][i]) => Writes(A, of, es[i], m[name][i])
  PROVE  Encodes(A, of, m[name], es)
<1> DEFINE b == m[name]
<1>1. PICK f \in Fields(kind) : f.name = name /\ f.of = of /\ f.kind \in {"message", "message list"}
  BY DEF NestsKind, Message, MessageList, Field
<1>2. b \in Seq(Range(b)) /\ of \in Simple /\ \A i \in DOMAIN b : Flat(of, b[i])
  <2>1. Fits(f, b) /\ Wellformed(f)
    BY <1>1, MessageFits, FieldsWellformed DEF WholeReady
  <2>2. QED
    BY <1>1, <2>1 DEF Fits, IsValue, Wellformed
<1>3. \A i \in DOMAIN b : FlatFrom(PlainIn(A), of, b[i])
  BY <1>1 DEF WholeReady, From
<1>4. \A i \in DOMAIN b : IsMessage(of, b[i]) /\ Writes(A, of, es[i], b[i])
  BY <1>2, <1>3, SimpleFlat DEF Ready
<1> HIDE DEF b
<1>5. Len(b) \in Nat /\ DOMAIN b = 1..Len(b)
  BY <1>2, LenProperties
<1>6. es \in Seq(Seq(Byte)) /\ Len(es) = Len(b)
  <2>1. \A i \in 1..Len(b) : es[i] \in Seq(Byte)
    BY <1>4, <1>5 DEF Writes
  <2>2. es \in [1..Len(b) -> Seq(Byte)]
    BY <1>5, <2>1 DEF b
  <2>3. QED
    BY <1>5, <2>2, FunctionIsSeq
<1>7. QED
  BY <1>4, <1>5, <1>6 DEF Encodes, b

\* The name of a field is that given to its constructor.
LEMMA FieldNames ==
  /\ \A num, name :
       /\ Uint64(num, name).name = name /\ Uint32(num, name).name = name
       /\ Bool(num, name).name = name /\ Bytes(num, name).name = name
       /\ BytesList(num, name).name = name /\ Duration(num, name).name = name
       /\ External(num, name).name = name /\ Map(num, name).name = name
  /\ \A num, name, of : Message(num, name, of).name = name /\ MessageList(num, name, of).name = name
  BY DEF Uint64, Uint32, Bool, Bytes, BytesList, Duration, External, Map, Message, MessageList, Field

\* The L1 configuration.
LEMMA WritesL1Config ==
  ASSUME NEW A, NEW m, Ready(A, "L1Config", m)
  PROVE  Writes(A, "L1Config", MarshalL1Config(m), m)
<1> DEFINE K == "L1Config"
           w1 == <<>> \o BytesField(Tag(1, 2), m.GenesisValidatorsRoot)
           w2 == w1 \o UintField(Tag(2, 0), m.MinSyncCommitteeParticipants)
           w3 == w2 \o UintField(Tag(3, 0), m.GenesisTime)
           w4 == w3 \o Delimiteds(Tag(4, 2), Owns(m.ForkParameters))
           w5 == w4 \o UintField(Tag(5, 0), m.SecondsPerSlot)
           w6 == w5 \o UintField(Tag(6, 0), m.SlotsPerEpoch)
           w7 == w6 \o UintField(Tag(7, 0), m.EpochsPerSyncCommitteePeriod)
           w8 == w7 \o Delimiteds(Tag(8, 2), Owns(m.TrustLevel))
           w9 == w8 \o Delimited(Tag(9, 2), m.TrustingPeriod)
           w10 == w9 \o Delimited(Tag(10, 2), m.MaxClockDrift)
           N1 == {} \cup {"GenesisValidatorsRoot"}
           N2 == N1 \cup {"MinSyncCommitteeParticipants"}
           N3 == N2 \cup {"GenesisTime"}
           N4 == N3 \cup {"ForkParameters"}
           N5 == N4 \cup {"SecondsPerSlot"}
           N6 == N5 \cup {"SlotsPerEpoch"}
           N7 == N6 \cup {"EpochsPerSyncCommitteePeriod"}
           N8 == N7 \cup {"TrustLevel"}
           N9 == N8 \cup {"TrustingPeriod"}
           N10 == N9 \cup {"MaxClockDrift"}
<1>1. /\ Bytes(1, "GenesisValidatorsRoot") \in Fields(K)
      /\ Uint64(2, "MinSyncCommitteeParticipants") \in Fields(K)
      /\ Uint64(3, "GenesisTime") \in Fields(K)
      /\ External(4, "ForkParameters") \in Fields(K)
      /\ Uint64(5, "SecondsPerSlot") \in Fields(K)
      /\ Uint64(6, "SlotsPerEpoch") \in Fields(K)
      /\ Uint64(7, "EpochsPerSyncCommitteePeriod") \in Fields(K)
      /\ External(8, "TrustLevel") \in Fields(K)
      /\ Duration(9, "TrustingPeriod") \in Fields(K)
      /\ Duration(10, "MaxClockDrift") \in Fields(K)
  BY FieldTables DEF L1ConfigFields
<1>2. Brings(A, K, m, w1, N1)
  BY <1>1, BringNothing, BringBytes
<1>3. Brings(A, K, m, w2, N2)
  BY <1>1, <1>2, BringUint64
<1>4. Brings(A, K, m, w3, N3)
  BY <1>1, <1>3, BringUint64
<1>5. Brings(A, K, m, w4, N4)
  BY <1>1, <1>4, BringExternal
<1>6. Brings(A, K, m, w5, N5)
  BY <1>1, <1>5, BringUint64
<1>7. Brings(A, K, m, w6, N6)
  BY <1>1, <1>6, BringUint64
<1>8. Brings(A, K, m, w7, N7)
  BY <1>1, <1>7, BringUint64
<1>9. Brings(A, K, m, w8, N8)
  BY <1>1, <1>8, BringExternal
<1>10. Brings(A, K, m, w9, N9)
  BY <1>1, <1>9, BringDuration
<1>11. Brings(A, K, m, w10, N10)
  BY <1>1, <1>10, BringDuration
<1>12. \A f \in Fields(K) : f.name \in N10
  BY FieldNames, FieldTables DEF L1ConfigFields
<1>13. MarshalL1Config(m) = w10
  BY DEF MarshalL1Config, Tag, MessageField, Owns
<1>14. QED
  BY <1>13, <1>12, <1>11, BringAll

\* The configuration of the dispute game.
LEMMA WritesFaultDisputeGameConfig ==
  ASSUME NEW A, NEW m, Ready(A, "FaultDisputeGameConfig", m)
  PROVE  Writes(A, "FaultDisputeGameConfig", MarshalFaultDisputeGameConfig(m), m)
<1> DEFINE K == "FaultDisputeGameConfig"
           w1 == <<>> \o BytesField(Tag(1, 2), m.DisputeGameFactoryAddress)
           w2 == w1 \o UintField(Tag(2, 0), m.DisputeGameFactoryTargetStorageSlot)
           w3 == w2 \o UintField(Tag(3, 0), m.FaultDisputeGameStatusSlot)
           w4 == w3 \o UintField(Tag(4, 0), m.FaultDisputeGameStatusSlotOffset)
           w5 == w4 \o UintField(Tag(5, 0), m.FaultDisputeGameCreatedAtSlotOffset)
           w6 == w5 \o UintField(Tag(6, 0), m.StatusDefenderWin)
           N1 == {} \cup {"DisputeGameFactoryAddress"}
           N2 == N1 \cup {"DisputeGameFactoryTargetStorageSlot"}
           N3 == N2 \cup {"FaultDisputeGameStatusSlot"}
           N4 == N3 \cup {"FaultDisputeGameStatusSlotOffset"}
           N5 == N4 \cup {"FaultDisputeGameCreatedAtSlotOffset"}
           N6 == N5 \cup {"StatusDefenderWin"}
<1>1. /\ Bytes(1, "DisputeGameFactoryAddress") \in Fields(K)
      /\ Uint32(2, "DisputeGameFactoryTargetStorageSlot") \in Fields(K)
      /\ Uint32(3, "FaultDisputeGameStatusSlot") \in Fields(K)
      /\ Uint32(4, "FaultDisputeGameStatusSlotOffset") \in Fields(K)
      /\ Uint32(5, "FaultDisputeGameCreatedAtSlotOffset") \in Fields(K)
      /\ Uint32(6, "StatusDefenderWin") \in Fields(K)
  BY FieldTables DEF FaultDisputeGameConfigFields
<1>2. Brings(A, K, m, w1, N1)
  BY <1>1, BringNothing, BringBytes
<1>3. Brings(A, K, m, w2, N2)
  BY <1>1, <1>2, BringUint32
<1>4. Brings(A, K, m, w3, N3)
  BY <1>1, <1>3, BringUint32
<1>5. Brings(A, K, m, w4, N4)
  BY <1>1, <1>4, BringUint32
<1>6. Brings(A, K, m, w5, N5)
  BY <1>1, <1>5, BringUint32
<1>7. Brings(A, K, m, w6, N6)
  BY <1>1, <1>6, BringUint32
<1>8. \A f \in Fields(K) : f.name \in N6
  BY FieldNames, FieldTables DEF FaultDisputeGameConfigFields
<1>9. MarshalFaultDisputeGameConfig(m) = w6
  BY DEF MarshalFaultDisputeGameConfig, Tag
<1>10. QED
  BY <1>9, <1>8, <1>7, BringAll

\* An L1 header.
LEMMA WritesL1Header ==
  ASSUME NEW A, NEW m, Ready(A, "L1Header", m)
  PROVE  Writes(A, "L1Header", MarshalL1Header(m), m)
<1> DEFINE K == "L1Header"
           w1 == <<>> \o Delimiteds(Tag(1, 2), Owns(m.TrustedSyncCommittee))
           w2 == w1 \o Delimiteds(Tag(2, 2), Owns(m.ConsensusUpdate))
           w3 == w2 \o Delimiteds(Tag(3, 2), Owns(m.ExecutionUpdate))
           N1 == {} \cup {"TrustedSyncCommittee"}
           N2 == N1 \cup {"ConsensusUpdate"}
           N3 == N2 \cup {"ExecutionUpdate"}
<1>1. /\ External(1, "TrustedSyncCommittee") \in Fields(K)
      /\ External(2, "ConsensusUpdate") \in Fields(K)
      /\ External(3, "ExecutionUpdate") \in Fields(K)
  BY FieldTables DEF L1HeaderFields
<1>2. Brings(A, K, m, w1, N1)
  BY <1>1, BringNothing, BringExternal
<1>3. Brings(A, K, m, w2, N2)
  BY <1>1, <1>2, BringExternal
<1>4. Brings(A, K, m, w3, N3)
  BY <1>1, <1>3, BringExternal
<1>5. \A f \in Fields(K) : f.name \in N3
  BY FieldNames, FieldTables DEF L1HeaderFields
<1>6. MarshalL1Header(m) = w3
  BY DEF MarshalL1Header, Tag, MessageField, Owns
<1>7. QED
  BY <1>6, <1>5, <1>4, BringAll

\* A derivation.
LEMMA WritesDerivation ==
  ASSUME NEW A, NEW m, Ready(A, "Derivation", m)
  PROVE  Writes(A, "Derivation", MarshalDerivation(m), m)
<1> DEFINE K == "Derivation"
           w1 == <<>> \o BytesField(Tag(1, 2), m.AgreedL2OutputRoot)
           w2 == w1 \o BytesField(Tag(2, 2), m.L2OutputRoot)
           w3 == w2 \o UintField(Tag(3, 0), m.L2BlockNumber)
           N1 == {} \cup {"AgreedL2OutputRoot"}
           N2 == N1 \cup {"L2OutputRoot"}
           N3 == N2 \cup {"L2BlockNumber"}
<1>1. /\ Bytes(1, "AgreedL2OutputRoot") \in Fields(K)
      /\ Bytes(2, "L2OutputRoot") \in Fields(K)
      /\ Uint64(3, "L2BlockNumber") \in Fields(K)
  BY FieldTables DEF DerivationFields
<1>2. Brings(A, K, m, w1, N1)
  BY <1>1, BringNothing, BringBytes
<1>3. Brings(A, K, m, w2, N2)
  BY <1>1, <1>2, BringBytes
<1>4. Brings(A, K, m, w3, N3)
  BY <1>1, <1>3, BringUint64
<1>5. \A f \in Fields(K) : f.name \in N3
  BY FieldNames, FieldTables DEF DerivationFields
<1>6. MarshalDerivation(m) = w3
  BY DEF MarshalDerivation, Tag
<1>7. QED
  BY <1>6, <1>5, <1>4, BringAll

\* The proof of a dispute game.
LEMMA WritesFaultDisputeGameProof ==
  ASSUME NEW A, NEW m, Ready(A, "FaultDisputeGameProof", m)
  PROVE  Writes(A, "FaultDisputeGameProof", MarshalFaultDisputeGameProof(m), m)
<1> DEFINE K == "FaultDisputeGameProof"
           w1 == <<>> \o BytesField(Tag(1, 2), m.StateRoot)
           w2 == w1 \o Delimiteds(Tag(3, 2), Owns(m.DisputeGameFactoryAccount))
           w3 == w2 \o BytesField(Tag(4, 2), m.DisputeGameFactoryGameIdProof)
           w4 == w3 \o Delimiteds(Tag(5, 2), Owns(m.FaultDisputeGameAccount))
           w5 == w4 \o BytesField(Tag(6, 2), m.FaultDisputeGameGameStatusProof)
           w6 == w5 \o UintField(Tag(7, 0), m.FaultDisputeGameSourceGameType)
           N1 == {} \cup {"StateRoot"}
           N2 == N1 \cup {"DisputeGameFactoryAccount"}
           N3 == N2 \cup {"DisputeGameFactoryGameIdProof"}
           N4 == N3 \cup {"FaultDisputeGameAccount"}
           N5 == N4 \cup {"FaultDisputeGameGameStatusProof"}
           N6 == N5 \cup {"FaultDisputeGameSourceGameType"}
<1>1. /\ Bytes(1, "StateRoot") \in Fields(K)
      /\ External(3, "DisputeGameFactoryAccount") \in Fields(K)
      /\ Bytes(4, "DisputeGameFactoryGameIdProof") \in Fields(K)
      /\ External(5, "FaultDisputeGameAccount") \in Fields(K)
      /\ Bytes(6, "FaultDisputeGameGameStatusProof") \in Fields(K)
      /\ Uint64(7, "FaultDisputeGameSourceGameType") \in Fields(K)
  BY FieldTables DEF FaultDisputeGameProofFields
<1>2. Brings(A, K, m, w1, N1)
  BY <1>1, BringNothing, BringBytes
<1>3. Brings(A, K, m, w2, N2)
  BY <1>1, <1>2, BringExternal
<1>4. Brings(A, K, m, w3, N3)
  BY <1>1, <1>3, BringBytes
<1>5. Brings(A, K, m, w4, N4)
  BY <1>1, <1>4, BringExternal
<1>6. Brings(A, K, m, w5, N5)
  BY <1>1, <1>5, BringBytes
<1>7. Brings(A, K, m, w6, N6)
  BY <1>1, <1>6, BringUint64
<1>8. \A f \in Fields(K) : f.name \in N6
  BY FieldNames, FieldTables DEF FaultDisputeGameProofFields
<1>9. MarshalFaultDisputeGameProof(m) = w6
  BY DEF MarshalFaultDisputeGameProof, Tag, MessageField, Owns
<1>10. QED
  BY <1>9, <1>8, <1>7, BringAll

\* The client state.
LEMMA WritesClientState ==
  ASSUME NEW A, NEW m, WholeReady(A, "ClientState", m)
  PROVE  Writes(A, "ClientState", MarshalClientState(m), m)
<1> DEFINE K == "ClientState"
           e6 == [i \in DOMAIN m.L1Config |-> MarshalL1Config(m.L1Config[i])]
           e7 == [i \in DOMAIN m.FaultDisputeGameConfig |-> MarshalFaultDisputeGameConfig(m.FaultDisputeGameConfig[i])]
           w1 == <<>> \o UintField(Tag(1, 0), m.ChainId)
           w2 == w1 \o BytesField(Tag(2, 2), m.IbcStoreAddress)
           w3 == w2 \o BytesField(Tag(3, 2), m.IbcCommitmentsSlot)
           w4 == w3 \o Delimiteds(Tag(4, 2), Owns(m.LatestHeight))
           w5 == w4 \o BoolField(Tag(5, 0), m.Frozen)
           w6 == w5 \o Delimiteds(Tag(6, 2), e6)
           w7 == w6 \o Delimiteds(Tag(7, 2), e7)
           N1 == {} \cup {"ChainId"}
           N2 == N1 \cup {"IbcStoreAddress"}
           N3 == N2 \cup {"IbcCommitmentsSlot"}
           N4 == N3 \cup {"LatestHeight"}
           N5 == N4 \cup {"Frozen"}
           N6 == N5 \cup {"L1Config"}
           N7 == N6 \cup {"FaultDisputeGameConfig"}
<1>1. /\ Uint64(1, "ChainId") \in Fields(K)
      /\ Bytes(2, "IbcStoreAddress") \in Fields(K)
      /\ Bytes(3, "IbcCommitmentsSlot") \in Fields(K)
      /\ External(4, "LatestHeight") \in Fields(K)
      /\ Bool(5, "Frozen") \in Fields(K)
      /\ Message(6, "L1Config", "L1Config") \in Fields(K)
      /\ Message(7, "FaultDisputeGameConfig", "FaultDisputeGameConfig") \in Fields(K)
  BY FieldTables DEF ClientStateFields
<1>2. Ready(A, K, m)
  BY WholeIsReady
<1>3. Encodes(A, "L1Config", m.L1Config, e6)
  <2>1. NestsKind(K, 6, "L1Config", "L1Config")
    BY <1>1 DEF NestsKind
  <2>2. \A i \in DOMAIN m.L1Config : e6[i] = MarshalL1Config(m.L1Config[i])
    OBVIOUS
  <2>3. e6 = [i \in DOMAIN m.L1Config |-> e6[i]]
    OBVIOUS
  <2>4. \A x : Ready(A, "L1Config", x) => Writes(A, "L1Config", MarshalL1Config(x), x)
    BY WritesL1Config
  <2> HIDE DEF e6, K
  <2>5. QED
    BY <2>1, <2>2, <2>3, <2>4, EncodesEach DEF K
<1>4. Encodes(A, "FaultDisputeGameConfig", m.FaultDisputeGameConfig, e7)
  <2>1. NestsKind(K, 7, "FaultDisputeGameConfig", "FaultDisputeGameConfig")
    BY <1>1 DEF NestsKind
  <2>2. \A i \in DOMAIN m.FaultDisputeGameConfig : e7[i] = MarshalFaultDisputeGameConfig(m.FaultDisputeGameConfig[i])
    OBVIOUS
  <2>3. e7 = [i \in DOMAIN m.FaultDisputeGameConfig |-> e7[i]]
    OBVIOUS
  <2>4. \A x : Ready(A, "FaultDisputeGameConfig", x) => Writes(A, "FaultDisputeGameConfig", MarshalFaultDisputeGameConfig(x), x)
    BY WritesFaultDisputeGameConfig
  <2> HIDE DEF e7, K
  <2>5. QED
    BY <2>1, <2>2, <2>3, <2>4, EncodesEach DEF K
<1> HIDE DEF e6, e7
<1>5. Brings(A, K, m, w1, N1)
  BY <1>1, <1>2, BringNothing, BringUint64
<1>6. Brings(A, K, m, w2, N2)
  BY <1>1, <1>2, <1>5, BringBytes
<1>7. Brings(A, K, m, w3, N3)
  BY <1>1, <1>2, <1>6, BringBytes
<1>8. Brings(A, K, m, w4, N4)
  BY <1>1, <1>2, <1>7, BringExternal
<1>9. Brings(A, K, m, w5, N5)
  BY <1>1, <1>2, <1>8, BringBool
<1>10. Brings(A, K, m, w6, N6)
  BY <1>1, <1>2, <1>3, <1>9, BringMessage
<1>11. Brings(A, K, m, w7, N7)
  BY <1>1, <1>2, <1>4, <1>10, BringMessage
<1>12. \A f \in Fields(K) : f.name \in N7
  BY FieldNames, FieldTables DEF ClientStateFields
<1>13. MarshalClientState(m) = w7
  BY DEF MarshalClientState, Tag, MessageField, Owns, e6, e7
<1>14. QED
  BY <1>13, <1>12, <1>11, BringAll

\* A header.
LEMMA WritesHeader ==
  ASSUME NEW A, NEW m, WholeReady(A, "Header", m)
  PROVE  Writes(A, "Header", MarshalHeader(m), m)
<1> DEFINE K == "Header"
           e3 == [i \in DOMAIN m.Derivation |-> MarshalDerivation(m.Derivation[i])]
           e5 == [i \in DOMAIN m.TrustedToDeterministic |-> MarshalL1Header(m.TrustedToDeterministic[i])]
           e6 == [i \in DOMAIN m.DeterministicToLatest |-> MarshalL1Header(m.DeterministicToLatest[i])]
           w1 == <<>> \o Delimiteds(Tag(1, 2), Owns(m.TrustedHeight))
           w2 == w1 \o Delimiteds(Tag(2, 2), Owns(m.AccountUpdate))
           w3 == w2 \o Delimiteds(Tag(3, 2), e3)
           w4 == w3 \o BytesField(Tag(4, 2), m.Preimages)
           w5 == w4 \o Delimiteds(Tag(5, 2), e5)
           w6 == w5 \o Delimiteds(Tag(6, 2), e6)
           N1 == {} \cup {"TrustedHeight"}
           N2 == N1 \cup {"AccountUpdate"}
           N3 == N2 \cup {"Derivation"}
           N4 == N3 \cup {"Preimages"}
           N5 == N4 \cup {"TrustedToDeterministic"}
           N6 == N5 \cup {"DeterministicToLatest"}
<1>1. /\ External(1, "TrustedHeight") \in Fields(K)
      /\ External(2, "AccountUpdate") \in Fields(K)
      /\ Message(3, "Derivation", "Derivation") \in Fields(K)
      /\ Bytes(4, "Preimages") \in Fields(K)
      /\ MessageList(5, "TrustedToDeterministic", "L1Header") \in Fields(K)
      /\ MessageList(6, "DeterministicToLatest", "L1Header") \in Fields(K)
  BY FieldTables DEF HeaderFields
<1>2. Ready(A, K, m)
  BY WholeIsReady
<1>3. Encodes(A, "Derivation", m.Derivation, e3)
  <2>1. NestsKind(K, 3, "Derivation", "Derivation")
    BY <1>1 DEF NestsKind
  <2>2. \A i \in DOMAIN m.Derivation : e3[i] = MarshalDerivation(m.Derivation[i])
    OBVIOUS
  <2>3. e3 = [i \in DOMAIN m.Derivation |-> e3[i]]
    OBVIOUS
  <2>4. \A x : Ready(A, "Derivation", x) => Writes(A, "Derivation", MarshalDerivation(x), x)
    BY WritesDerivation
  <2> HIDE DEF e3, K
  <2>5. QED
    BY <2>1, <2>2, <2>3, <2>4, EncodesEach DEF K
<1>4. Encodes(A, "L1Header", m.TrustedToDeterministic, e5)
  <2>1. NestsKind(K, 5, "TrustedToDeterministic", "L1Header")
    BY <1>1 DEF NestsKind
  <2>2. \A i \in DOMAIN m.TrustedToDeterministic : e5[i] = MarshalL1Header(m.TrustedToDeterministic[i])
    OBVIOUS
  <2>3. e5 = [i \in DOMAIN m.TrustedToDeterministic |-> e5[i]]
    OBVIOUS
  <2>4. \A x : Ready(A, "L1Header", x) => Writes(A, "L1Header", MarshalL1Header(x), x)
    BY WritesL1Header
  <2> HIDE DEF e5, K
  <2>5. QED
    BY <2>1, <2>2, <2>3, <2>4, EncodesEach DEF K
<1>5. Encodes(A, "L1Header", m.DeterministicToLatest, e6)
  <2>1. NestsKind(K, 6, "DeterministicToLatest", "L1Header")
    BY <1>1 DEF NestsKind
  <2>2. \A i \in DOMAIN m.DeterministicToLatest : e6[i] = MarshalL1Header(m.DeterministicToLatest[i])
    OBVIOUS
  <2>3. e6 = [i \in DOMAIN m.DeterministicToLatest |-> e6[i]]
    OBVIOUS
  <2>4. \A x : Ready(A, "L1Header", x) => Writes(A, "L1Header", MarshalL1Header(x), x)
    BY WritesL1Header
  <2> HIDE DEF e6, K
  <2>5. QED
    BY <2>1, <2>2, <2>3, <2>4, EncodesEach DEF K
<1> HIDE DEF e3, e5, e6
<1>6. Brings(A, K, m, w1, N1)
  BY <1>1, <1>2, BringNothing, BringExternal
<1>7. Brings(A, K, m, w2, N2)
  BY <1>1, <1>2, <1>6, BringExternal
<1>8. Brings(A, K, m, w3, N3)
  BY <1>1, <1>2, <1>3, <1>7, BringMessage
<1>9. Brings(A, K, m, w4, N4)
  BY <1>1, <1>2, <1>8, BringBytes
<1>10. Brings(A, K, m, w5, N5)
  BY <1>1, <1>2, <1>4, <1>9, BringMessageList
<1>11. Brings(A, K, m, w6, N6)
  BY <1>1, <1>2, <1>5, <1>10, BringMessageList
<1>12. \A f \in Fields(K) : f.name \in N6
  BY FieldNames, FieldTables DEF HeaderFields
<1>13. MarshalHeader(m) = w6
  BY DEF MarshalHeader, Tag, MessageField, Owns, e3, e5, e6
<1>14. QED
  BY <1>13, <1>12, <1>11, BringAll

\* The consensus state.
LEMMA WritesConsensusState ==
  ASSUME NEW A, NEW m, Ready(A, "ConsensusState", m)
  PROVE  Writes(A, "ConsensusState", MarshalConsensusState(m), m)
<1> DEFINE K == "ConsensusState"
           w1 == <<>> \o BytesField(Tag(1, 2), m.StorageRoot)
           w2 == w1 \o UintField(Tag(2, 0), m.Timestamp)
           w3 == w2 \o BytesField(Tag(3, 2), m.OutputRoot)
           w4 == w3 \o UintField(Tag(4, 0), m.L1Slot)
           w5 == w4 \o BytesField(Tag(5, 2), m.L1CurrentSyncCommittee)
           w6 == w5 \o BytesField(Tag(6, 2), m.L1NextSyncCommittee)
           w7 == w6 \o UintField(Tag(7, 0), m.L1Timestamp)
           w8 == w7 \o UintField(Tag(8, 0), m.L1Origin)
           N1 == {} \cup {"StorageRoot"}
           N2 == N1 \cup {"Timestamp"}
           N3 == N2 \cup {"OutputRoot"}
           N4 == N3 \cup {"L1Slot"}
           N5 == N4 \cup {"L1CurrentSyncCommittee"}
           N6 == N5 \cup {"L1NextSyncCommittee"}
           N7 == N6 \cup {"L1Timestamp"}
           N8 == N7 \cup {"L1Origin"}
<1>1. /\ Bytes(1, "StorageRoot") \in Fields(K)
      /\ Uint64(2, "Timestamp") \in Fields(K)
      /\ Bytes(3, "OutputRoot") \in Fields(K)
      /\ Uint64(4, "L1Slot") \in Fields(K)
      /\ Bytes(5, "L1CurrentSyncCommittee") \in Fields(K)
      /\ Bytes(6, "L1NextSyncCommittee") \in Fields(K)
      /\ Uint64(7, "L1Timestamp") \in Fields(K)
      /\ Uint64(8, "L1Origin") \in Fields(K)
  BY FieldTables DEF ConsensusStateFields
<1>2. Brings(A, K, m, w1, N1)
  BY <1>1, BringNothing, BringBytes
<1>3. Brings(A, K, m, w2, N2)
  BY <1>1, <1>2, BringUint64
<1>4. Brings(A, K, m, w3, N3)
  BY <1>1, <1>3, BringBytes
<1>5. Brings(A, K, m, w4, N4)
  BY <1>1, <1>4, BringUint64
<1>6. Brings(A, K, m, w5, N5)
  BY <1>1, <1>5, BringBytes
<1>7. Brings(A, K, m, w6, N6)
  BY <1>1, <1>6, BringBytes
<1>8. Brings(A, K, m, w7, N7)
  BY <1>1, <1>7, BringUint64
<1>9. Brings(A, K, m, w8, N8)
  BY <1>1, <1>8, BringUint64
<1>10. \A f \in Fields(K) : f.name \in N8
  BY FieldNames, FieldTables DEF ConsensusStateFields
<1>11. MarshalConsensusState(m) = w8
  BY DEF MarshalConsensusState, Tag
<1>12. QED
  BY <1>11, <1>10, <1>9, BringAll

\* A misbehaviour of L2.
LEMMA WritesMisbehaviour ==
  ASSUME NEW A, NEW m, WholeReady(A, "Misbehaviour", m)
  PROVE  Writes(A, "Misbehaviour", MarshalMisbehaviour(m), m)
<1> DEFINE K == "Misbehaviour"
           e4 == [i \in DOMAIN m.FaultDisputeGameProof |-> MarshalFaultDisputeGameProof(m.FaultDisputeGameProof[i])]
           e5 == [i \in DOMAIN m.LatestL1Header |-> MarshalL1Header(m.LatestL1Header[i])]
           e9 == [i \in DOMAIN m.SubmittedL1Proof |-> MarshalFaultDisputeGameProof(m.SubmittedL1Proof[i])]
           w1 == <<>> \o BytesField(Tag(1, 2), m.ClientId)
           w2 == w1 \o Delimiteds(Tag(2, 2), Owns(m.TrustedHeight))
           w3 == w2 \o BytesField(Tag(3, 2), m.SuperRootProof)
           w4 == w3 \o Delimiteds(Tag(4, 2), e4)
           w5 == w4 \o Delimiteds(Tag(5, 2), e5)
           w6 == w5 \o Delimiteds(Tag(6, 2), Owns(m.FirstL2ToL1MessagePasserAccount))
           w7 == w6 \o Delimiteds(Tag(7, 2), Owns(m.LastL2ToL1MessagePasserAccount))
           w8 == w7 \o Delimiteds(Tag(8, 2), m.L2HeaderHistory)
           w9 == w8 \o Delimiteds(Tag(9, 2), e9)
           w10 == w9 \o Delimiteds(Tag(10, 2), m.L1HeaderHistory)
           N1 == {} \cup {"ClientId"}
           N2 == N1 \cup {"TrustedHeight"}
           N3 == N2 \cup {"SuperRootProof"}
           N4 == N3 \cup {"FaultDisputeGameProof"}
           N5 == N4 \cup {"LatestL1Header"}
           N6 == N5 \cup {"FirstL2ToL1MessagePasserAccount"}
           N7 == N6 \cup {"LastL2ToL1MessagePasserAccount"}
           N8 == N7 \cup {"L2HeaderHistory"}
           N9 == N8 \cup {"SubmittedL1Proof"}
           N10 == N9 \cup {"L1HeaderHistory"}
<1>1. /\ Bytes(1, "ClientId") \in Fields(K)
      /\ External(2, "TrustedHeight") \in Fields(K)
      /\ Bytes(3, "SuperRootProof") \in Fields(K)
      /\ Message(4, "FaultDisputeGameProof", "FaultDisputeGameProof") \in Fields(K)
      /\ Message(5, "LatestL1Header", "L1Header") \in Fields(K)
      /\ External(6, "FirstL2ToL1MessagePasserAccount") \in Fields(K)
      /\ External(7, "LastL2ToL1MessagePasserAccount") \in Fields(K)
      /\ BytesList(8, "L2HeaderHistory") \in Fields(K)
      /\ Message(9, "SubmittedL1Proof", "FaultDisputeGameProof") \in Fields(K)
      /\ BytesList(10, "L1HeaderHistory") \in Fields(K)
  BY FieldTables DEF MisbehaviourFields
<1>2. Ready(A, K, m)
  BY WholeIsReady
<1>3. Encodes(A, "FaultDisputeGameProof", m.FaultDisputeGameProof, e4)
  <2>1. NestsKind(K, 4, "FaultDisputeGameProof", "FaultDisputeGameProof")
    BY <1>1 DEF NestsKind
  <2>2. \A i \in DOMAIN m.FaultDisputeGameProof : e4[i] = MarshalFaultDisputeGameProof(m.FaultDisputeGameProof[i])
    OBVIOUS
  <2>3. e4 = [i \in DOMAIN m.FaultDisputeGameProof |-> e4[i]]
    OBVIOUS
  <2>4. \A x : Ready(A, "FaultDisputeGameProof", x) => Writes(A, "FaultDisputeGameProof", MarshalFaultDisputeGameProof(x), x)
    BY WritesFaultDisputeGameProof
  <2> HIDE DEF e4, K
  <2>5. QED
    BY <2>1, <2>2, <2>3, <2>4, EncodesEach DEF K
<1>4. Encodes(A, "L1Header", m.LatestL1Header, e5)
  <2>1. NestsKind(K, 5, "LatestL1Header", "L1Header")
    BY <1>1 DEF NestsKind
  <2>2. \A i \in DOMAIN m.LatestL1Header : e5[i] = MarshalL1Header(m.LatestL1Header[i])
    OBVIOUS
  <2>3. e5 = [i \in DOMAIN m.LatestL1Header |-> e5[i]]
    OBVIOUS
  <2>4. \A x : Ready(A, "L1Header", x) => Writes(A, "L1Header", MarshalL1Header(x), x)
    BY WritesL1Header
  <2> HIDE DEF e5, K
  <2>5. QED
    BY <2>1, <2>2, <2>3, <2>4, EncodesEach DEF K
<1>5. Encodes(A, "FaultDisputeGameProof", m.SubmittedL1Proof, e9)
  <2>1. NestsKind(K, 9, "SubmittedL1Proof", "FaultDisputeGameProof")
    BY <1>1 DEF NestsKind
  <2>2. \A i \in DOMAIN m.SubmittedL1Proof : e9[i] = MarshalFaultDisputeGameProof(m.SubmittedL1Proof[i])
    OBVIOUS
  <2>3. e9 = [i \in DOMAIN m.SubmittedL1Proof |-> e9[i]]
    OBVIOUS
  <2>4. \A x : Ready(A, "FaultDisputeGameProof", x) => Writes(A, "FaultDisputeGameProof", MarshalFaultDisputeGameProof(x), x)
    BY WritesFaultDisputeGameProof
  <2> HIDE DEF e9, K
  <2>5. QED
    BY <2>1, <2>2, <2>3, <2>4, EncodesEach DEF K
<1> HIDE DEF e4, e5, e9
<1>6. Brings(A, K, m, w1, N1)
  BY <1>1, <1>2, BringNothing, BringBytes
<1>7. Brings(A, K, m, w2, N2)
  BY <1>1, <1>2, <1>6, BringExternal
<1>8. Brings(A, K, m, w3, N3)
  BY <1>1, <1>2, <1>7, BringBytes
<1>9. Brings(A, K, m, w4, N4)
  BY <1>1, <1>2, <1>3, <1>8, BringMessage
<1>10. Brings(A, K, m, w5, N5)
  BY <1>1, <1>2, <1>4, <1>9, BringMessage
<1>11. Brings(A, K, m, w6, N6)
  BY <1>1, <1>2, <1>10, BringExternal
<1>12. Brings(A, K, m, w7, N7)
  BY <1>1, <1>2, <1>11, BringExternal
<1>13. Brings(A, K, m, w8, N8)
  BY <1>1, <1>2, <1>12, BringBytesList
<1>14. Brings(A, K, m, w9, N9)
  BY <1>1, <1>2, <1>5, <1>13, BringMessage
<1>15. Brings(A, K, m, w10, N10)
  BY <1>1, <1>2, <1>14, BringBytesList
<1>16. \A f \in Fields(K) : f.name \in N10
  BY FieldNames, FieldTables DEF MisbehaviourFields
<1>17. MarshalMisbehaviour(m) = w10
  BY DEF MarshalMisbehaviour, Tag, MessageField, Owns, e4, e5, e9
<1>18. QED
  BY <1>17, <1>16, <1>15, BringAll

\* Two finalized headers.
LEMMA WritesFinalizedHeaderMisbehaviour ==
  ASSUME NEW A, NEW m, Ready(A, "FinalizedHeaderMisbehaviour", m)
  PROVE  Writes(A, "FinalizedHeaderMisbehaviour", MarshalFinalizedHeaderMisbehaviour(m), m)
<1> DEFINE K == "FinalizedHeaderMisbehaviour"
           w1 == <<>> \o BytesField(Tag(1, 2), m.ClientId)
           w2 == w1 \o Delimiteds(Tag(2, 2), Owns(m.TrustedSyncCommittee))
           w3 == w2 \o Delimiteds(Tag(3, 2), Owns(m.ConsensusUpdate_1))
           w4 == w3 \o Delimiteds(Tag(4, 2), Owns(m.ConsensusUpdate_2))
           N1 == {} \cup {"ClientId"}
           N2 == N1 \cup {"TrustedSyncCommittee"}
           N3 == N2 \cup {"ConsensusUpdate_1"}
           N4 == N3 \cup {"ConsensusUpdate_2"}
<1>1. /\ Bytes(1, "ClientId") \in Fields(K)
      /\ External(2, "TrustedSyncCommittee") \in Fields(K)
      /\ External(3, "ConsensusUpdate_1") \in Fields(K)
      /\ External(4, "ConsensusUpdate_2") \in Fields(K)
  BY FieldTables DEF FinalizedHeaderMisbehaviourFields
<1>2. Brings(A, K, m, w1, N1)
  BY <1>1, BringNothing, BringBytes
<1>3. Brings(A, K, m, w2, N2)
  BY <1>1, <1>2, BringExternal
<1>4. Brings(A, K, m, w3, N3)
  BY <1>1, <1>3, BringExternal
<1>5. Brings(A, K, m, w4, N4)
  BY <1>1, <1>4, BringExternal
<1>6. \A f \in Fields(K) : f.name \in N4
  BY FieldNames, FieldTables DEF FinalizedHeaderMisbehaviourFields
<1>7. MarshalFinalizedHeaderMisbehaviour(m) = w4
  BY DEF MarshalFinalizedHeaderMisbehaviour, Tag, MessageField, Owns
<1>8. QED
  BY <1>7, <1>6, <1>5, BringAll

\* Two next sync committees.
LEMMA WritesNextSyncCommitteeMisbehaviour ==
  ASSUME NEW A, NEW m, Ready(A, "NextSyncCommitteeMisbehaviour", m)
  PROVE  Writes(A, "NextSyncCommitteeMisbehaviour", MarshalNextSyncCommitteeMisbehaviour(m), m)
<1> DEFINE K == "NextSyncCommitteeMisbehaviour"
           w1 == <<>> \o BytesField(Tag(1, 2), m.ClientId)
           w2 == w1 \o Delimiteds(Tag(2, 2), Owns(m.TrustedSyncCommittee))
           w3 == w2 \o Delimiteds(Tag(3, 2), Owns(m.ConsensusUpdate_1))
           w4 == w3 \o Delimiteds(Tag(4, 2), Owns(m.ConsensusUpdate_2))
           N1 == {} \cup {"ClientId"}
           N2 == N1 \cup {"TrustedSyncCommittee"}
           N3 == N2 \cup {"ConsensusUpdate_1"}
           N4 == N3 \cup {"ConsensusUpdate_2"}
<1>1. /\ Bytes(1, "ClientId") \in Fields(K)
      /\ External(2, "TrustedSyncCommittee") \in Fields(K)
      /\ External(3, "ConsensusUpdate_1") \in Fields(K)
      /\ External(4, "ConsensusUpdate_2") \in Fields(K)
  BY FieldTables DEF NextSyncCommitteeMisbehaviourFields
<1>2. Brings(A, K, m, w1, N1)
  BY <1>1, BringNothing, BringBytes
<1>3. Brings(A, K, m, w2, N2)
  BY <1>1, <1>2, BringExternal
<1>4. Brings(A, K, m, w3, N3)
  BY <1>1, <1>3, BringExternal
<1>5. Brings(A, K, m, w4, N4)
  BY <1>1, <1>4, BringExternal
<1>6. \A f \in Fields(K) : f.name \in N4
  BY FieldNames, FieldTables DEF NextSyncCommitteeMisbehaviourFields
<1>7. MarshalNextSyncCommitteeMisbehaviour(m) = w4
  BY DEF MarshalNextSyncCommitteeMisbehaviour, Tag, MessageField, Owns
<1>8. QED
  BY <1>7, <1>6, <1>5, BringAll

\* The configuration of the prover, its map in any order.
LEMMA WritesProverConfig ==
  ASSUME NEW A, NEW m, NEW order, Ready(A, "ProverConfig", m),
         order \in SetToSeqs(DOMAIN m.MinimalForkSched)
  PROVE  Writes(A, "ProverConfig", MarshalProverConfig(m, order), m)
<1> DEFINE K == "ProverConfig"
           w1 == <<>> \o Delimited(Tag(1, 2), m.TrustingPeriod)
           w2 == w1 \o Delimited(Tag(2, 2), m.MaxClockDrift)
           w3 == w2 \o Delimiteds(Tag(3, 2), Owns(m.RefreshThresholdRate))
           w4 == w3 \o BytesField(Tag(4, 2), m.OpNodeEndpoint)
           w5 == w4 \o BytesField(Tag(5, 2), m.L1ExecutionEndpoint)
           w6 == w5 \o BytesField(Tag(6, 2), m.L1BeaconEndpoint)
           w7 == w6 \o BytesField(Tag(7, 2), m.PreimageMakerEndpoint)
           w8 == w7 \o Delimited(Tag(8, 2), m.OpNodeTimeout)
           w9 == w8 \o Delimited(Tag(9, 2), m.PreimageMakerTimeout)
           w10 == w9 \o MapField(Tag(10, 2), m.MinimalForkSched, order)
           w11 == w10 \o UintField(Tag(11, 0), m.MaxHeaderConcurrency)
           w12 == w11 \o BytesField(Tag(12, 2), m.DisputeGameFactoryAddress)
           N1 == {} \cup {"TrustingPeriod"}
           N2 == N1 \cup {"MaxClockDrift"}
           N3 == N2 \cup {"RefreshThresholdRate"}
           N4 == N3 \cup {"OpNodeEndpoint"}
           N5 == N4 \cup {"L1ExecutionEndpoint"}
           N6 == N5 \cup {"L1BeaconEndpoint"}
           N7 == N6 \cup {"PreimageMakerEndpoint"}
           N8 == N7 \cup {"OpNodeTimeout"}
           N9 == N8 \cup {"PreimageMakerTimeout"}
           N10 == N9 \cup {"MinimalForkSched"}
           N11 == N10 \cup {"MaxHeaderConcurrency"}
           N12 == N11 \cup {"DisputeGameFactoryAddress"}
<1>1. /\ Duration(1, "TrustingPeriod") \in Fields(K)
      /\ Duration(2, "MaxClockDrift") \in Fields(K)
      /\ External(3, "RefreshThresholdRate") \in Fields(K)
      /\ Bytes(4, "OpNodeEndpoint") \in Fields(K)
      /\ Bytes(5, "L1ExecutionEndpoint") \in Fields(K)
      /\ Bytes(6, "L1BeaconEndpoint") \in Fields(K)
      /\ Bytes(7, "PreimageMakerEndpoint") \in Fields(K)
      /\ Duration(8, "OpNodeTimeout") \in Fields(K)
      /\ Duration(9, "PreimageMakerTimeout") \in Fields(K)
      /\ Map(10, "MinimalForkSched") \in Fields(K)
      /\ Uint64(11, "MaxHeaderConcurrency") \in Fields(K)
      /\ Bytes(12, "DisputeGameFactoryAddress") \in Fields(K)
  BY FieldTables DEF ProverConfigFields
<1>2. Brings(A, K, m, w1, N1)
  BY <1>1, BringNothing, BringDuration
<1>3. Brings(A, K, m, w2, N2)
  BY <1>1, <1>2, BringDuration
<1>4. Brings(A, K, m, w3, N3)
  BY <1>1, <1>3, BringExternal
<1>5. Brings(A, K, m, w4, N4)
  BY <1>1, <1>4, BringBytes
<1>6. Brings(A, K, m, w5, N5)
  BY <1>1, <1>5, BringBytes
<1>7. Brings(A, K, m, w6, N6)
  BY <1>1, <1>6, BringBytes
<1>8. Brings(A, K, m, w7, N7)
  BY <1>1, <1>7, BringBytes
<1>9. Brings(A, K, m, w8, N8)
  BY <1>1, <1>8, BringDuration
<1>10. Brings(A, K, m, w9, N9)
  BY <1>1, <1>9, BringDuration
<1>11. Brings(A, K, m, w10, N10)
  BY <1>1, <1>10, BringMap
<1>12. Brings(A, K, m, w11, N11)
  BY <1>1, <1>11, BringUint64
<1>13. Brings(A, K, m, w12, N12)
  BY <1>1, <1>12, BringBytes
<1>14. \A f \in Fields(K) : f.name \in N12
  BY FieldNames, FieldTables DEF ProverConfigFields
<1>15. MarshalProverConfig(m, order) = w12
  BY DEF MarshalProverConfig, Tag, MessageField, Owns
<1>16. QED
  BY <1>15, <1>14, <1>13, BringAll

\* What Marshal writes of a message brings it into any other one of its kind.
LEMMA EncodingWrites ==
  ASSUME NEW A, NEW kind, NEW m, NEW w, kind \in Kinds, WholeReady(A, kind, m),
         w \in ToSizedBuffer(kind, m)
  PROVE  Writes(A, kind, w, m)
<1>1. Ready(A, kind, m)
  BY WholeIsReady
<1>2. CASE kind = "L1Config"
  <2>1. w = MarshalL1Config(m)
    BY <1>2 DEF ToSizedBuffer
  <2>2. QED
    BY <1>1, <1>2, <2>1, WritesL1Config
<1>3. CASE kind = "FaultDisputeGameConfig"
  <2>1. w = MarshalFaultDisputeGameConfig(m)
    BY <1>3 DEF ToSizedBuffer
  <2>2. QED
    BY <1>1, <1>3, <2>1, WritesFaultDisputeGameConfig
<1>4. CASE kind = "ClientState"
  <2>1. w = MarshalClientState(m)
    BY <1>4 DEF ToSizedBuffer
  <2>2. QED
    BY <1>4, <2>1, WritesClientState
<1>5. CASE kind = "L1Header"
  <2>1. w = MarshalL1Header(m)
    BY <1>5 DEF ToSizedBuffer
  <2>2. QED
    BY <1>1, <1>5, <2>1, WritesL1Header
<1>6. CASE kind = "Derivation"
  <2>1. w = MarshalDerivation(m)
    BY <1>6 DEF ToSizedBuffer
  <2>2. QED
    BY <1>1, <1>6, <2>1, WritesDerivation
<1>7. CASE kind = "Header"
  <2>1. w = MarshalHeader(m)
    BY <1>7 DEF ToSizedBuffer
  <2>2. QED
    BY <1>7, <2>1, WritesHeader
<1>8. CASE kind = "ConsensusState"
  <2>1. w = MarshalConsensusState(m)
    BY <1>8 DEF ToSizedBuffer
  <2>2. QED
    BY <1>1, <1>8, <2>1, WritesConsensusState
<1>9. CASE kind = "FaultDisputeGameProof"
  <2>1. w = MarshalFaultDisputeGameProof(m)
    BY <1>9 DEF ToSizedBuffer
  <2>2. QED
    BY <1>1, <1>9, <2>1, WritesFaultDisputeGameProof
<1>10. CASE kind = "Misbehaviour"
  <2>1. w = MarshalMisbehaviour(m)
    BY <1>10 DEF ToSizedBuffer
  <2>2. QED
    BY <1>10, <2>1, WritesMisbehaviour
<1>11. CASE kind = "FinalizedHeaderMisbehaviour"
  <2>1. w = MarshalFinalizedHeaderMisbehaviour(m)
    BY <1>11 DEF ToSizedBuffer
  <2>2. QED
    BY <1>1, <1>11, <2>1, WritesFinalizedHeaderMisbehaviour
<1>12. CASE kind = "NextSyncCommitteeMisbehaviour"
  <2>1. w = MarshalNextSyncCommitteeMisbehaviour(m)
    BY <1>12 DEF ToSizedBuffer
  <2>2. QED
    BY <1>1, <1>12, <2>1, WritesNextSyncCommitteeMisbehaviour
<1>13. CASE kind = "ProverConfig"
  <2>1. PICK order \in SetToSeqs(DOMAIN m.MinimalForkSched) : w = MarshalProverConfig(m, order)
    BY <1>13 DEF ToSizedBuffer
  <2>2. QED
    BY <1>1, <1>13, <2>1, WritesProverConfig
<1>14. QED
  BY <1>2, <1>3, <1>4, <1>5, <1>6, <1>7, <1>8, <1>9, <1>10, <1>11, <1>12, <1>13, KindList

\* What Marshal returns is what was written.
LEMMA MarshalWhole ==
  ASSUME NEW kind, NEW m, NEW bytes, kind \in Kinds, IsMessage(kind, m), bytes \in Marshal(kind, m)
  PROVE  bytes \in ToSizedBuffer(kind, m) /\ Addressable(bytes)
<1>1. PICK w \in ToSizedBuffer(kind, m) :
        /\ Size(kind, m) \in Len(w)..(Pow2[Word - 1] - 1)
        /\ bytes = SubSeq([i \in 1..(Size(kind, m) - Len(w)) |-> 0] \o w, 1, Len(w))
  BY DEF Marshal
<1>2. w \in Seq(Byte) /\ Len(w) \in Nat /\ Size(kind, m) = Len(w)
  BY MessageSized DEF Sized
<1> DEFINE n == Size(kind, m) - Len(w)
           pad == [i \in 1..n |-> 0]
<1>3. n = 0
  BY <1>2
<1> HIDE DEF n
<1>4. pad = <<>>
  BY <1>3
<1> HIDE DEF pad
<1>5. SubSeq(w, 1, Len(w)) = w
  BY <1>2, StoredWhole, StoredSlice
<1>6. pad \o w = w
  BY <1>2, <1>4, ConcatEmptySeq
<1>7. bytes = SubSeq(pad \o w, 1, Len(w))
  BY <1>1 DEF pad, n
<1>8. bytes = w
  BY <1>5, <1>6, <1>7
<1>9. Addressable(w)
  <2>1. Pow2[Word - 1] \in Nat
    BY PowPositive, WireAssumption
  <2>2. QED
    BY <1>1, <1>2, <2>1 DEF Addressable
<1>10. QED
  BY <1>8, <1>9

-----------------------------------------------------------------------------
(* The fields of newer or older senders.                                   *)

\* One byte of a piece.
LEMMA StoredByte ==
  ASSUME NEW data, NEW at, NEW u, NEW i, Stored(data, at, u), i \in 0..(Len(u) - 1)
  PROVE  Stored(data, at + i, <<u[i + 1]>>)
<1> DEFINE b == u[i + 1]
           s == <<b>>
<1>1. at \in Nat /\ Len(u) \in Nat /\ Len(data) \in Nat /\ at + Len(u) <= Len(data)
  BY StoredFacts DEF Stored
<1>2. i \in Nat /\ i + 1 \in 1..Len(u) /\ at + i \in Nat /\ at + i + 1 <= Len(data)
  BY <1>1
<1>3. b \in Byte /\ data[at + (i + 1)] = b
  BY <1>2, ElementOfSeq DEF Stored
<1> HIDE DEF b
<1>4. s \in Seq(Byte) /\ Len(s) = 1 /\ s[1] = b
  BY <1>3
<1>5. at + (i + 1) = (at + i) + 1
  BY <1>1, <1>2
<1> HIDE DEF s
<1>6. \A j \in 1..1 : data[(at + i) + j] = s[j]
  BY <1>3, <1>4, <1>5
<1>7. Stored(data, at + i, s)
  BY <1>2, <1>4, <1>6 DEF Stored
<1>8. QED
  BY <1>7 DEF s, b

\* A small number takes one byte.
LEMMA SmallRead ==
  ASSUME NEW data, NEW at, NEW v, Stored(data, at, <<v>>), v \in 0..127
  PROVE  ReadVarint(data, at) = {[value |-> v, at |-> at + 1]}
<1>1. v \in Uint64Values
  <2>1. Pow2[0] = 1 /\ Pow2[0 + 7] = Pow2[0] * 128
    BY Pow128, PowRecursion, WireAssumption
  <2>2. 7 \in 0..Word /\ Word \in 0..Word /\ 7 <= Word
    BY WireAssumption
  <2>3. Pow2[7] <= Pow2[Word] /\ Pow2[Word] \in Nat
    BY <2>2, PowMonotone, UintValues
  <2>4. QED
    BY <2>1, <2>3 DEF Uint64Values
<1>2. Varint(v) = <<v>> /\ Sov(v) = 1
  BY <1>1, ByteVarint
<1>3. QED
  BY <1>1, <1>2, VarintIsRead

\* Bytes below 128 are varints of their own.
LEMMA SmallVarint ==
  ASSUME NEW u, NEW v, u \in Seq(Byte), Len(u) >= 2, u[2] = v, v \in 0..127
  PROVE  ReadVarint(u, 1) = {[value |-> v, at |-> 2]}
<1> DEFINE z == 0
           o == 1
<1>1. Stored(u, z, u) /\ o \in 0..(Len(u) - 1)
  BY StoredWhole, LenProperties
<1> HIDE DEF z, o
<1>2. Stored(u, z + o, <<u[o + 1]>>)
  BY <1>1, StoredByte
<1>3. z + o = 1 /\ o + 1 = 2
  BY DEF z, o
<1>4. Stored(u, 1, <<v>>)
  BY <1>2, <1>3
<1>5. ReadVarint(u, 1) = {[value |-> v, at |-> 1 + 1]}
  BY <1>4, SmallRead
<1>6. QED
  BY <1>5

\* Small numbers are no negative ints.
LEMMA SmallSigned == Signed(2, Word) = 2 /\ Wrap(2 + 2) = 4
<1> DEFINE p == Pow2[Word - 1]
<1>1. Pow2[0 + 7] = Pow2[0] * 128 /\ Pow2[0] = 1
  BY Pow128, PowRecursion, WireAssumption
<1>2. Pow2[7] <= p /\ p \in Nat
  <2>1. 7 \in 0..Word /\ Word - 1 \in 0..Word /\ 7 <= Word - 1
    BY WireAssumption
  <2>2. QED
    BY <2>1, PowMonotone, PowPositive
<1>3. Pow2[Word] = 2 * p
  BY PowRecursion, WireAssumption
<1> HIDE DEF p
<1>4. p >= 128 /\ 4 \in 0..(2 * p - 1) /\ 2 * p \in Nat \ {0}
  BY <1>1, <1>2
<1>5. 4 % (2 * p) = 4
  BY <1>4, ModSmall
<1>6. QED
  BY <1>2, <1>3, <1>4, <1>5 DEF Signed, Wrap, p

\* What skipOptimism does at a tag: how deep it is then, where an element whose tag ends at an
\* index ends, and what is left to do.
Deepens(val, type, d) == d = val + (IF type = 3 THEN 1 ELSE IF type = 4 THEN -1 ELSE 0)
EndsAt(data, at, type, p) ==
  \A c, t : c.data = data /\ t.type = type /\ t.at = at => Past(c, t) = {p}
Follows(at, next) == next = at + 1
PlainType(type) == type \in {0, 1, 2, 5}
Reaches(A, field, data, val, at, g) ==
  IF val = 0 THEN at = g
  ELSE at < Len(data) /\ Decodes(A, Call("skip", field, val, data, at, Len(data)), g)

\* A number is stepped over.
LEMMA EndsAfterVarint ==
  ASSUME NEW data, NEW at, NEW v, NEW p, ReadVarint(data, at) = {[value |-> v, at |-> p]}
  PROVE  EndsAt(data, at, 0, p)
<1>1. SUFFICES ASSUME NEW c, NEW t, c.data = data, t.type = 0, t.at = at
               PROVE  Past(c, t) = {p}
  BY DEF EndsAt
<1>2. Past(c, t) = {r.at : r \in ReadVarint(c.data, t.at)}
  BY <1>1, PastCases
<1>3. ReadVarint(c.data, t.at) = {[value |-> v, at |-> p]}
  BY <1>1
<1>4. Past(c, t) = {r.at : r \in {[value |-> v, at |-> p]}}
  BY <1>2, <1>3
<1>5. QED
  BY <1>4

\* A field that is no group, by what skipOptimism reads of it.
LEMMA UnknownField ==
  ASSUME NEW u, NEW num, NEW type, u \in Seq(Byte), Len(u) >= 1, u[1] = Tag(num, type),
         num \in 1..15, PlainType(type), EndsAt(u, 1, type, Len(u))
  PROVE  Skippable(u, num)
<1> DEFINE t == [num |-> num, type |-> type, at |-> 1]
           own == Call("skip", Entry, 0, u, 0, Len(u))
           z == 0
<1>1. Stored(u, z, u) /\ z \in 0..(Len(u) - 1)
  BY StoredWhole, LenProperties
<1> HIDE DEF z
<1>2. Stored(u, z + z, <<u[z + 1]>>)
  BY <1>1, StoredByte
<1>3. z + z = 0 /\ z + 1 = 1
  BY DEF z
<1>4. Stored(u, 0, <<Tag(num, type)>>)
  BY <1>2, <1>3
<1>5. ReadTag(u, 0) = {[num |-> num, type |-> type, at |-> 0 + 1]}
  BY <1>4, TagIsRead DEF PlainType
<1>6. t \in ReadTag(u, 0) /\ t.type = type /\ t.num = num /\ t.at = 1
  BY <1>5
<1>7. own.data = u
  BY DEF Call
<1> HIDE DEF t, own
<1>8. Len(u) \in Past(own, t)
  BY <1>6, <1>7 DEF EndsAt
<1>9. QED
  BY <1>6, <1>8, FieldSkippable DEF own, PlainType

\* A tag inside a group, or at one of its ends.
LEMMA GroupStep ==
  ASSUME NEW A, NEW field, NEW val, NEW data, NEW at, NEW g, NEW num, NEW type, NEW p, NEW d, NEW next,
         Stored(data, at, <<Tag(num, type)>>), Follows(at, next), num \in 1..15, type \in 0..5,
         p \in Nat, d \in Nat, Deepens(val, type, d), EndsAt(data, next, type, p),
         Reaches(A, field, data, d, p, g)
  PROVE  Decodes(A, Call("skip", field, val, data, at, Len(data)), g)
<1> DEFINE c == Call("skip", field, val, data, at, Len(data))
           t == [num |-> num, type |-> type, at |-> at + 1]
           e == [at |-> p, depth |-> d]
<1>1. /\ c.kind = "skip" /\ c.data = data /\ c.at = at /\ c.val = val /\ c.end = Len(data)
      /\ \A v, i : Moved(c, v, i) = Call("skip", field, v, data, i, Len(data))
  BY CallParts
<1>2. ReadTag(data, at) = {t} /\ t.type = type /\ t.at = at + 1
  BY TagIsRead
<1>3. e.at = p /\ e.depth = d
  OBVIOUS
<1> HIDE DEF c, t
<1>4. Past(c, t) = {p}
  BY <1>1, <1>2 DEF EndsAt, Follows
<1>5. Depth(c, t) = d
  BY <1>1, <1>2 DEF Depth, Deepens
<1>6. Elements(c) = {e}
  <2>1. Depth(c, t) \in Nat
    BY <1>5
  <2>2. Elements(c) = {[at |-> p, depth |-> Depth(c, t)]}
    BY <1>1, <1>2, <1>4, <2>1, SkipElement
  <2>3. QED
    BY <1>5, <2>2
<1> HIDE DEF e
<1>7. IF e.depth = 0 THEN e.at = g ELSE e.at < c.end /\ Decodes(A, Moved(c, e.depth, e.at), g)
  BY <1>1, <1>3 DEF Reaches
<1>8. Decodes(A, c, g)
  BY <1>1, <1>6, <1>7, DecodesSkip
<1>9. QED
  BY <1>8 DEF c

\* The fields of wire types 0, 1, 2 and 5.
LEMMA PlainUnknown ==
  ASSUME NEW n, n \in 1..15, NEW u,
         u \in {<<8*n, 1>>, <<8*n, 129, 1>>, <<8*n + 1, 8, 0, 0, 0, 0, 0, 0, 0>>, <<8*n + 2, 2, 8, 8>>,
                <<8*n + 5, 8, 0, 0, 0>>},
         u \in Seq(Byte)
  PROVE  Skippable(u, n)
<1>0. n \in 1..15 /\ u \in Seq(Byte)
  OBVIOUS
<1>1. CASE u = <<8*n, 1>>
  <2>1. Len(u) = 2 /\ u[1] = Tag(n, 0) /\ u[2] = 1 /\ 1 \in 0..127
    BY <1>1 DEF Tag
  <2>2. ReadVarint(u, 1) = {[value |-> 1, at |-> 2]}
    BY <2>1, SmallVarint
  <2>3. EndsAt(u, 1, 0, 2)
    BY <2>2, EndsAfterVarint
  <2>4. EndsAt(u, 1, 0, Len(u))
    BY <2>1, <2>3
  <2>5. PlainType(0) /\ Len(u) >= 1 /\ u[1] = Tag(n, 0)
    BY <2>1 DEF PlainType
  <2>6. QED
    BY ONLY <1>0, <2>4, <2>5, UnknownField
<1>2. CASE u = <<8*n, 129, 1>>
  <2>1. Len(u) = 3 /\ u[1] = Tag(n, 0) /\ u[2] = 129 /\ u[3] = 1
    BY <1>2 DEF Tag
  <2>2. VarintEnds(u, 1) = {3}
    <3> DEFINE w == 1 + (Word + 6) \div 7
               most == Min({3, w})
    <3>1. w \in Nat /\ w >= 3
      BY WireAssumption
    <3> HIDE DEF w
    <3>2. most \in {3, w} /\ most <= 3
      BY <3>1, MinOfTwo
    <3> HIDE DEF most
    <3>3. most = 3
      BY <3>1, <3>2
    <3>4. VarintEnds(u, 1) = {i \in 2..most : u[i] < 128}
      BY <2>1 DEF VarintEnds, most, w
    <3>5. 2..3 = {2, 3}
      OBVIOUS
    <3>6. QED
      BY <2>1, <3>3, <3>4, <3>5
  <2>3. PICK x : ReadVarint(u, 1) = {[value |-> x, at |-> 3]}
    <3>1. {j \in VarintEnds(u, 1) : \A k \in VarintEnds(u, 1) : j <= k} = {3}
      BY <2>2
    <3>2. ReadVarint(u, 1) = {[value |-> Groups(u, 1, i) % Pow2[Word], at |-> i] : i \in {3}}
      BY <3>1 DEF ReadVarint
    <3>3. QED
      BY <3>2
  <2>4. EndsAt(u, 1, 0, 3)
    BY <2>3, EndsAfterVarint
  <2>5. EndsAt(u, 1, 0, Len(u))
    BY <2>1, <2>4
  <2>6. PlainType(0) /\ Len(u) >= 1 /\ u[1] = Tag(n, 0)
    BY <2>1 DEF PlainType
  <2>7. QED
    BY ONLY <1>0, <2>5, <2>6, UnknownField
<1>3. CASE u = <<8*n + 1, 8, 0, 0, 0, 0, 0, 0, 0>>
  <2>1. Len(u) = 9 /\ u[1] = Tag(n, 1)
    BY <1>3 DEF Tag
  <2>2. EndsAt(u, 1, 1, Len(u))
    BY <2>1, PastCases DEF EndsAt
  <2>3. PlainType(1) /\ Len(u) >= 1 /\ u[1] = Tag(n, 1)
    BY <2>1 DEF PlainType
  <2>4. QED
    BY ONLY <1>0, <2>2, <2>3, UnknownField
<1>4. CASE u = <<8*n + 2, 2, 8, 8>>
  <2>1. Len(u) = 4 /\ u[1] = Tag(n, 2) /\ u[2] = 2 /\ 2 \in 0..127
    BY <1>4 DEF Tag
  <2>2. ReadVarint(u, 1) = {[value |-> 2, at |-> 2]}
    BY <2>1, SmallVarint
  <2>3. Signed(2, Word) = 2 /\ Wrap(2 + 2) = 4
    BY SmallSigned
  <2>4. EndsAt(u, 1, 2, 4)
    <3> DEFINE r == [value |-> 2, at |-> 2]
    <3>1. r.at = 2 /\ r.value = 2 /\ ReadVarint(u, 1) = {r}
      BY <2>2
    <3> HIDE DEF r
    <3>2. {x \in {r} : Signed(x.value, Word) >= 0} = {r}
      BY <2>3, <3>1
    <3>3. SUFFICES ASSUME NEW c, NEW t, c.data = u, t.type = 2, t.at = 1
                   PROVE  Past(c, t) = {4}
      BY DEF EndsAt
    <3>4. Past(c, t) = {Wrap(v.at + v.value) : v \in {x \in ReadVarint(c.data, t.at) :
                                                        Signed(x.value, Word) >= 0}}
      BY <3>3, PastCases
    <3>5. ReadVarint(c.data, t.at) = {r}
      BY <3>1, <3>3
    <3>6. Past(c, t) = {Wrap(v.at + v.value) : v \in {r}}
      BY <3>2, <3>4, <3>5
    <3>7. {Wrap(v.at + v.value) : v \in {r}} = {Wrap(r.at + r.value)}
      OBVIOUS
    <3>8. Wrap(r.at + r.value) = 4
      BY <2>3, <3>1
    <3>9. QED
      BY <3>6, <3>7, <3>8
  <2>5. EndsAt(u, 1, 2, Len(u))
    BY <2>1, <2>4
  <2>6. PlainType(2) /\ Len(u) >= 1 /\ u[1] = Tag(n, 2)
    BY <2>1 DEF PlainType
  <2>7. QED
    BY ONLY <1>0, <2>5, <2>6, UnknownField
<1>5. CASE u = <<8*n + 5, 8, 0, 0, 0>>
  <2>1. Len(u) = 5 /\ u[1] = Tag(n, 5)
    BY <1>5 DEF Tag
  <2>2. EndsAt(u, 1, 5, Len(u))
    BY <2>1, PastCases DEF EndsAt
  <2>3. PlainType(5) /\ Len(u) >= 1 /\ u[1] = Tag(n, 5)
    BY <2>1 DEF PlainType
  <2>4. QED
    BY ONLY <1>0, <2>2, <2>3, UnknownField
<1>6. QED
  BY <1>1, <1>2, <1>3, <1>4, <1>5

\* A group that holds a number and another group.
LEMMA GroupUnknown ==
  ASSUME NEW n, n \in 1..15, NEW u, u \in Seq(Byte),
         u = <<8*n + 3, 8, 9, 11, 21, 0, 0, 0, 0, 12, 8*n + 4>>
  PROVE  Skippable(u, n)
<1>1. /\ Len(u) = 11 /\ u[1] = Tag(n, 3) /\ u[2] = Tag(1, 0) /\ u[3] = 9 /\ u[4] = Tag(1, 3)
      /\ u[5] = Tag(2, 5) /\ u[10] = Tag(1, 4) /\ u[11] = Tag(n, 4)
  BY DEF Tag
<1>2. ASSUME NEW data, NEW at, Stored(data, at, u), NEW i, i \in 0..10
      PROVE  Stored(data, at + i, <<u[i + 1]>>)
  <2>1. i \in 0..(Len(u) - 1)
    BY <1>1, <1>2
  <2>2. QED
    BY <1>2, <2>1, StoredByte
<1>3. ASSUME NEW data, NEW at, Stored(data, at, u)
      PROVE  \E t : ReadTag(data, at) = {t} /\ t.num = n /\ t.type # 4
  <2> DEFINE z == 0
             t == [num |-> n, type |-> 3, at |-> at + 1]
  <2>1. at \in Nat /\ z \in 0..10 /\ at + z = at /\ z + 1 = 1
    BY <1>3, StoredFacts
  <2> HIDE DEF z
  <2>2. Stored(data, at, <<Tag(n, 3)>>)
    BY <1>1, <1>2, <1>3, <2>1
  <2>3. ReadTag(data, at) = {t} /\ t.num = n /\ t.type = 3
    BY <2>2, TagIsRead
  <2> HIDE DEF t
  <2>4. QED
    BY <2>3
<1>4. ASSUME NEW A, NEW data, NEW field, Stored(data, 0, u), Addressable(data)
      PROVE  Decodes(A, Call("skip", field, 0, data, 0, Len(data)), 11)
  <2> DEFINE z == 0
             End(val, at) == Decodes(A, Call("skip", field, val, data, at, Len(data)), 11)
  <2>1. Len(data) \in Nat /\ Len(data) >= 11 /\ z \in 0..10
    BY <1>1, <1>4, StoredFacts DEF Stored
  <2>2. \A i \in 0..10 : Stored(data, i, <<u[i + 1]>>)
    <3>1. \A i \in 0..10 : Stored(data, z + i, <<u[i + 1]>>)
      BY <1>2, <1>4
    <3>2. QED
      BY <3>1
  <2>3. /\ Stored(data, 0, <<Tag(n, 3)>>) /\ Stored(data, 1, <<Tag(1, 0)>>)
        /\ Stored(data, 2, <<9>>) /\ Stored(data, 3, <<Tag(1, 3)>>)
        /\ Stored(data, 4, <<Tag(2, 5)>>) /\ Stored(data, 9, <<Tag(1, 4)>>)
        /\ Stored(data, 10, <<Tag(n, 4)>>)
    BY <1>1, <2>2
  <2>4. /\ EndsAt(data, 11, 4, 11) /\ EndsAt(data, 10, 4, 10) /\ EndsAt(data, 5, 5, 9)
        /\ EndsAt(data, 4, 3, 4) /\ EndsAt(data, 1, 3, 1)
    BY PastCases DEF EndsAt
  <2>5. EndsAt(data, 2, 0, 3)
    <3>1. ReadVarint(data, 2) = {[value |-> 9, at |-> 3]}
      BY <2>3, SmallRead
    <3>2. QED
      BY <3>1, EndsAfterVarint
  <2>6. /\ Deepens(1, 4, 0) /\ Deepens(2, 4, 1) /\ Deepens(2, 5, 2)
        /\ Deepens(1, 3, 2) /\ Deepens(1, 0, 1) /\ Deepens(0, 3, 1)
    BY DEF Deepens
  <2>7. /\ Follows(10, 11) /\ Follows(9, 10) /\ Follows(4, 5)
        /\ Follows(3, 4) /\ Follows(1, 2) /\ Follows(0, 1)
    BY DEF Follows
  <2> HIDE DEF z
  <2>8. End(1, 10)
    <3>1. Reaches(A, field, data, 0, 11, 11)
      BY DEF Reaches
    <3>2. /\ 4 \in 0..5 /\ 11 \in Nat /\ 0 \in Nat /\ n \in 1..15 /\ 1 \in 1..15
      OBVIOUS
    <3>3. Stored(data, 10, <<Tag(n, 4)>>) /\ Follows(10, 11) /\ Deepens(1, 4, 0) /\ EndsAt(data, 11, 4, 11)
      BY <2>3, <2>4, <2>6, <2>7
    <3>4. QED
      BY ONLY <3>1, <3>2, <3>3, GroupStep
  <2>9. End(2, 9)
    <3>1. Reaches(A, field, data, 1, 10, 11)
      BY <2>1, <2>8 DEF Reaches
    <3>2. QED
      BY <2>3, <2>4, <2>5, <2>6, <2>7, <3>1, GroupStep
  <2>10. End(2, 4)
    <3>1. Reaches(A, field, data, 2, 9, 11)
      BY <2>1, <2>9 DEF Reaches
    <3>2. QED
      BY <2>3, <2>4, <2>5, <2>6, <2>7, <3>1, GroupStep
  <2>11. End(1, 3)
    <3>1. Reaches(A, field, data, 2, 4, 11)
      BY <2>1, <2>10 DEF Reaches
    <3>2. QED
      BY <2>3, <2>4, <2>5, <2>6, <2>7, <3>1, GroupStep
  <2>12. End(1, 1)
    <3>1. Reaches(A, field, data, 1, 3, 11)
      BY <2>1, <2>11 DEF Reaches
    <3>2. QED
      BY <2>3, <2>4, <2>5, <2>6, <2>7, <3>1, GroupStep
  <2>13. End(0, 0)
    <3>1. Reaches(A, field, data, 1, 1, 11)
      BY <2>1, <2>12 DEF Reaches
    <3>2. QED
      BY <2>3, <2>4, <2>5, <2>6, <2>7, <3>1, GroupStep
  <2>14. QED
    BY <2>13
<1>5. /\ u \in Seq(Byte) /\ Len(u) > 0 /\ Len(u) = 11
  BY <1>1
<1>6. \A A, data, field :
        Stored(data, 0, u) /\ Addressable(data)
        => Decodes(A, Call("skip", field, 0, data, 0, Len(data)), Len(u))
  BY <1>4, <1>5
<1>7. QED
  BY <1>3, <1>5, <1>6 DEF Skippable

\* All of them.
LEMMA FieldOfSkippable ==
  ASSUME NEW n, n \in Unknown, NEW u, u \in FieldOf(n)
  PROVE  Skippable(u, n)
<1>1. n \in 1..15 /\ u \in Seq(Byte)
  BY CodecAssumption, FieldOfBytes
<1>2. QED
  BY <1>1, PlainUnknown, GroupUnknown DEF FieldOf

-----------------------------------------------------------------------------
(* The stack, call by call.                                                *)

\* All calls but the last.
LEMMA FrontParts ==
  ASSUME NEW s, s \in Seq(Range(s)), s # <<>>
  PROVE  /\ Len(s) \in Nat \ {0} /\ Last(s) = s[Len(s)]
         /\ Front(s) \in Seq(Range(s)) /\ Front(s) \in Seq(Range(Front(s)))
         /\ Len(Front(s)) = Len(s) - 1
         /\ \A i \in 1..(Len(s) - 1) : Front(s)[i] = s[i]
<1> DEFINE n == Len(s)
           f == Front(s)
           k == n - 1
<1>1. n \in Nat \ {0} /\ DOMAIN s = 1..n
  BY EmptySeq, LenProperties
<1>2. Last(s) = s[n] /\ f = SubSeq(s, 1, k)
  BY DEF Last, Front
<1>3. \A i \in 1..k : s[i] \in Range(s)
  BY <1>1 DEF Range
<1>4. k \in Int
  BY <1>1
<1> HIDE DEF k
<1>5. /\ SubSeq(s, 1, k) \in Seq(Range(s))
      /\ Len(SubSeq(s, 1, k)) = IF 1 <= k THEN k - 1 + 1 ELSE 0
      /\ \A i \in 1..(k - 1 + 1) : SubSeq(s, 1, k)[i] = s[1 + i - 1]
  BY <1>3, <1>4, SubSeqProperties
<1>6. /\ f \in Seq(Range(s)) /\ Len(f) = n - 1
      /\ \A i \in 1..(n - 1) : f[i] = s[i]
  BY <1>1, <1>2, <1>5 DEF k
<1> HIDE DEF n, f
<1>7. f \in Seq(Range(f))
  BY <1>6, SeqOfRange
<1>8. QED
  BY <1>1, <1>2, <1>6, <1>7 DEF n, f

\* What the steps make of a stack: another call on top, one more on it, or its caller
\* on top, which is another one.
Replaced(s, c, t) == t = Append(Front(s), c)
Called(s, c, d, t) == t = Front(s) \o <<c, d>>
Returned(s, c, t) == t = Append(Front(Front(s)), c)

\* Another call on top.
LEMMA TopReplaced ==
  ASSUME NEW s, s \in Seq(Range(s)), s # <<>>, NEW c, NEW t, Replaced(s, c, t)
  PROVE  /\ Len(s) \in Nat \ {0} /\ Last(s) = s[Len(s)]
         /\ t \in Seq(Range(t)) /\ Len(t) = Len(s) /\ t[Len(s)] = c
         /\ \A i \in 1..(Len(s) - 1) : t[i] = s[i]
<1> DEFINE n == Len(s)
           f == Front(s)
<1>1. /\ n \in Nat \ {0} /\ Last(s) = s[n]
      /\ f \in Seq(Range(f)) /\ Len(f) = n - 1
      /\ \A i \in 1..(n - 1) : f[i] = s[i]
  BY FrontParts
<1> HIDE DEF n, f
<1>2. /\ t \in Seq(Range(t)) /\ Len(t) = Len(f) + 1
      /\ \A i \in 1..Len(f) : t[i] = f[i]
      /\ t[Len(f) + 1] = c
  BY <1>1, AppendAny DEF f, Replaced
<1>3. QED
  BY <1>1, <1>2 DEF n

\* One more on it.
LEMMA TopCalled ==
  ASSUME NEW s, s \in Seq(Range(s)), s # <<>>, NEW c, NEW d, NEW t, Called(s, c, d, t)
  PROVE  /\ Len(s) \in Nat \ {0} /\ Last(s) = s[Len(s)]
         /\ t \in Seq(Range(t)) /\ Len(t) = Len(s) + 1 /\ t[Len(s)] = c /\ t[Len(s) + 1] = d
         /\ \A i \in 1..(Len(s) - 1) : t[i] = s[i]
<1> DEFINE f == Front(s)
           n == Len(s)
           r == Append(f, c)
           S == Range(s) \cup {c, d}
<1>1. /\ n \in Nat \ {0} /\ Last(s) = s[n]
      /\ r \in Seq(Range(r)) /\ Len(r) = n /\ r[n] = c
      /\ \A i \in 1..(n - 1) : r[i] = s[i]
  <2>1. Replaced(s, c, r)
    BY DEF Replaced
  <2> HIDE DEF r
  <2>2. QED
    BY <2>1, TopReplaced
<1>2. f \in Seq(S) /\ c \in S /\ d \in S
  BY FrontParts, SeqMonotonic
<1> HIDE DEF S, f, n
<1>3. t = Append(r, d)
  <2>1. Append(f, c) = f \o <<c>> /\ Append(f, c) \in Seq(S)
    BY <1>2, AppendIsConcat, AppendProperties
  <2>2. Append(Append(f, c), d) = (f \o <<c>>) \o <<d>>
    BY <1>2, <2>1, AppendIsConcat
  <2>3. <<c>> \in Seq(S) /\ <<d>> \in Seq(S)
    BY <1>2, Single
  <2>4. <<c>> \o <<d>> = <<c, d>>
    BY <1>2, Pair
  <2>5. (f \o <<c>>) \o <<d>> = f \o (<<c>> \o <<d>>)
    BY <1>2, <2>3, ConcatAssociative
  <2>6. QED
    BY <2>2, <2>4, <2>5 DEF f, Called
<1> HIDE DEF r
<1>4. /\ Append(r, d) \in Seq(Range(Append(r, d)))
      /\ Len(r) \in Nat /\ Len(Append(r, d)) = Len(r) + 1
      /\ \A i \in 1..Len(r) : Append(r, d)[i] = r[i]
      /\ Append(r, d)[Len(r) + 1] = d
  BY <1>1, AppendAny
<1>5. /\ t \in Seq(Range(t)) /\ Len(t) = n + 1 /\ t[n + 1] = d
      /\ \A i \in 1..n : t[i] = r[i]
  BY <1>1, <1>3, <1>4
<1>6. QED
  BY <1>1, <1>5 DEF n

\* Its caller on top, which is another one.
LEMMA TopReturned ==
  ASSUME NEW s, s \in Seq(Range(s)), s # <<>>, Front(s) # <<>>, NEW c, NEW t, Returned(s, c, t)
  PROVE  /\ Len(s) \in Nat \ {0, 1} /\ Last(s) = s[Len(s)] /\ Last(Front(s)) = s[Len(s) - 1]
         /\ t \in Seq(Range(t)) /\ Len(t) = Len(s) - 1 /\ t[Len(s) - 1] = c
         /\ \A i \in 1..(Len(s) - 2) : t[i] = s[i]
<1> DEFINE n == Len(s)
           f == Front(s)
<1>1. /\ n \in Nat \ {0} /\ Last(s) = s[n]
      /\ f \in Seq(Range(f)) /\ f # <<>> /\ Len(f) = n - 1
      /\ \A i \in 1..(n - 1) : f[i] = s[i]
  BY FrontParts
<1> HIDE DEF n, f
<1>2. /\ Len(f) \in Nat \ {0} /\ Last(f) = f[Len(f)]
      /\ t \in Seq(Range(t)) /\ Len(t) = Len(f) /\ t[Len(f)] = c
      /\ \A i \in 1..(Len(f) - 1) : t[i] = f[i]
  <2>1. Replaced(f, c, t)
    BY DEF Returned, Replaced, f
  <2>2. QED
    BY <1>1, <2>1, TopReplaced
<1>3. n # 1 /\ Last(f) = s[n - 1]
  BY <1>1, <1>2
<1>4. \A i \in 1..(n - 2) : t[i] = s[i]
  BY <1>1, <1>2
<1>5. QED
  BY <1>1, <1>2, <1>3, <1>4 DEF n, f

-----------------------------------------------------------------------------
(* The goals of a stack: every call but the last waits for the next one to *)
(* end with its goal, and the last is in a closed set.                     *)

Goals(S, s, G, goal) ==
  /\ G[1] = goal
  /\ At(s[Len(s)], G[Len(s)]) \in S
  /\ \A i, j \in 1..Len(s) : j = i + 1 => Resumes(S, s[i], s[j], G[j], G[i])
Tracked(A, s, goal) == \E S, G : Closed(S, A) /\ Goals(S, s, G, goal)

\* A call waits for another one whatever that has done so far.
LEMMA ResumesSame ==
  ASSUME NEW S, NEW b, NEW d, NEW e, NEW x, NEW g, d.kind = e.kind, d.field = e.field,
         Resumes(S, b, d, x, g)
  PROVE  Resumes(S, b, e, x, g)
<1>1. After(b, d, x) = After(b, e, x)
  BY DEF After
<1>2. QED
  BY <1>1 DEF Resumes

\* The outermost call.
LEMMA TrackFirst ==
  ASSUME NEW A, NEW c, NEW goal, Decodes(A, c, goal)
  PROVE  Tracked(A, <<c>>, goal)
<1>1. PICK S : Closed(S, A) /\ At(c, goal) \in S
  BY DEF Decodes
<1> DEFINE G == [i \in {1} |-> goal]
           s == <<c>>
<1>2. G[1] = goal /\ Len(s) = 1 /\ s[1] = c
  OBVIOUS
<1> HIDE DEF G, s
<1>3. \A i, j \in 1..1 : j # i + 1
  OBVIOUS
<1>4. Goals(S, s, G, goal)
  BY <1>1, <1>2, <1>3 DEF Goals
<1>5. QED
  BY <1>1, <1>4 DEF Tracked, s

\* The last call goes on.
LEMMA TrackOn ==
  ASSUME NEW A, NEW S, NEW s, NEW G, NEW goal, NEW c, NEW t, Closed(S, A), Goals(S, s, G, goal),
         s \in Seq(Range(s)), s # <<>>, Replaced(s, c, t),
         c.kind = Last(s).kind, c.field = Last(s).field, At(c, G[Len(s)]) \in S
  PROVE  Tracked(A, t, goal)
<1> DEFINE n == Len(s)
<1>1. /\ n \in Nat \ {0} /\ Last(s) = s[n]
      /\ Len(t) = n /\ t[n] = c
      /\ \A i \in 1..(n - 1) : t[i] = s[i]
  BY TopReplaced
<1>2. At(t[n], G[n]) \in S
  BY <1>1
<1>3. ASSUME NEW i \in 1..n, NEW j \in 1..n, j = i + 1
      PROVE  Resumes(S, t[i], t[j], G[j], G[i])
  <2>1. Resumes(S, s[i], s[j], G[j], G[i])
    BY <1>3 DEF Goals
  <2>2. t[i] = s[i]
    BY <1>1, <1>3
  <2>3. t[j].kind = s[j].kind /\ t[j].field = s[j].field
    <3>1. CASE j = n
      BY <1>1, <3>1
    <3>2. CASE j # n
      <4>1. j \in 1..(n - 1)
        BY <1>1, <1>3, <3>2
      <4>2. QED
        BY <1>1, <4>1
    <3>3. QED
      BY <3>1, <3>2
  <2>4. QED
    BY <2>1, <2>2, <2>3, ResumesSame
<1>4. Goals(S, t, G, goal)
  BY <1>1, <1>2, <1>3 DEF Goals
<1>5. QED
  BY <1>4 DEF Tracked

\* The last call makes another one.
LEMMA TrackCall ==
  ASSUME NEW A, NEW S, NEW s, NEW G, NEW goal, NEW c, NEW d, NEW x, NEW t,
         Closed(S, A), Goals(S, s, G, goal),
         s \in Seq(Range(s)), s # <<>>, Called(s, c, d, t),
         c.kind = Last(s).kind, c.field = Last(s).field,
         At(d, x) \in S, Resumes(S, c, d, x, G[Len(s)])
  PROVE  Tracked(A, t, goal)
<1> DEFINE n == Len(s)
           m == n + 1
           H == [i \in 1..m |-> IF i = m THEN x ELSE G[i]]
<1>1. /\ n \in Nat \ {0} /\ Last(s) = s[n]
      /\ Len(t) = m /\ t[n] = c /\ t[m] = d
      /\ \A i \in 1..(n - 1) : t[i] = s[i]
  BY TopCalled
<1>2. m \in Nat /\ m > n /\ m = n + 1 /\ H[m] = x /\ \A i \in 1..n : H[i] = G[i]
  BY <1>1
<1> HIDE DEF m, H
<1>3. At(t[m], H[m]) \in S
  BY <1>1, <1>2
<1>4. ASSUME NEW i \in 1..m, NEW j \in 1..m, j = i + 1
      PROVE  Resumes(S, t[i], t[j], H[j], H[i])
  <2>1. i \in 1..n /\ H[i] = G[i]
    BY <1>1, <1>2, <1>4
  <2>2. CASE i = n
    <3>1. j = m
      BY <1>2, <1>4, <2>2
    <3>2. QED
      BY <1>1, <1>2, <2>1, <2>2, <3>1
  <2>3. CASE i # n
    <3>1. j \in 1..n /\ i \in 1..(n - 1) /\ H[j] = G[j]
      BY <1>1, <1>2, <1>4, <2>1, <2>3
    <3>2. Resumes(S, s[i], s[j], G[j], G[i])
      BY <1>4, <2>1, <3>1 DEF Goals
    <3>3. t[j].kind = s[j].kind /\ t[j].field = s[j].field
      <4>1. CASE j = n
        BY <1>1, <4>1
      <4>2. CASE j # n
        <5>1. j \in 1..(n - 1)
          BY <1>1, <3>1, <4>2
        <5>2. QED
          BY <1>1, <5>1
      <4>3. QED
        BY <4>1, <4>2
    <3>4. Resumes(S, s[i], t[j], G[j], G[i])
      BY <3>2, <3>3, ResumesSame
    <3>5. QED
      BY <1>1, <2>1, <3>1, <3>4
  <2>4. QED
    BY <2>2, <2>3
<1>5. H[1] = goal
  <2>1. 1 \in 1..n
    BY <1>1
  <2>2. QED
    BY <1>2, <2>1 DEF Goals
<1>6. Goals(S, t, H, goal)
  BY <1>1, <1>3, <1>4, <1>5 DEF Goals
<1>7. QED
  BY <1>6 DEF Tracked

\* The last call has ended with its goal.
LEMMA TrackReturn ==
  ASSUME NEW A, NEW S, NEW s, NEW G, NEW goal, NEW c, NEW t,
         Closed(S, A), Goals(S, s, G, goal),
         s \in Seq(Range(s)), s # <<>>, Front(s) # <<>>, Returned(s, c, t),
         c \in After(Last(Front(s)), Last(s), G[Len(s)])
  PROVE  Tracked(A, t, goal)
<1> DEFINE n == Len(s)
           k == n - 1
<1>1. /\ n \in Nat \ {0, 1} /\ Last(s) = s[n] /\ Last(Front(s)) = s[k]
      /\ Len(t) = k /\ t[k] = c
      /\ \A i \in 1..(n - 2) : t[i] = s[i]
  BY TopReturned
<1>2. k \in Nat \ {0} /\ n = k + 1 /\ k \in 1..n /\ n \in 1..n /\ n - 2 = k - 1
  BY <1>1
<1>3. Resumes(S, s[k], s[n], G[n], G[k])
  <2>1. \A i, j \in 1..n : j = i + 1 => Resumes(S, s[i], s[j], G[j], G[i])
    BY DEF Goals
  <2> HIDE DEF n, k
  <2>2. QED
    BY <1>2, <2>1
<1>4. c \in After(s[k], s[n], G[n])
  BY <1>1
<1> HIDE DEF k
<1>5. At(t[k], G[k]) \in S
  BY <1>1, <1>3, <1>4 DEF Resumes
<1>6. c.kind = s[k].kind /\ c.field = s[k].field
  <2>1. \A v, i : Moved(s[k], v, i).kind = s[k].kind /\ Moved(s[k], v, i).field = s[k].field
    BY DEF Moved, Call
  <2>2. QED
    BY <1>4, <2>1 DEF After
<1>7. ASSUME NEW i \in 1..k, NEW j \in 1..k, j = i + 1
      PROVE  Resumes(S, t[i], t[j], G[j], G[i])
  <2>1. i \in 1..n /\ j \in 1..n /\ i \in 1..(n - 2)
    BY <1>1, <1>2, <1>7
  <2>2. Resumes(S, s[i], s[j], G[j], G[i])
    BY <1>7, <2>1 DEF Goals
  <2>3. t[j].kind = s[j].kind /\ t[j].field = s[j].field
    <3>1. CASE j = k
      BY <1>1, <1>6, <3>1
    <3>2. CASE j # k
      <4>1. j \in 1..(n - 2)
        BY <1>2, <1>7, <3>2
      <4>2. QED
        BY <1>1, <4>1
    <3>3. QED
      BY <3>1, <3>2
  <2>4. Resumes(S, s[i], t[j], G[j], G[i])
    BY <2>2, <2>3, ResumesSame
  <2>5. QED
    BY <1>1, <2>1, <2>4
<1>8. Goals(S, t, G, goal)
  BY <1>1, <1>5, <1>7 DEF Goals
<1>9. QED
  BY <1>8 DEF Tracked

-----------------------------------------------------------------------------
(* Each step of the decoder leads where the goals say.                     *)

\* The last call is the one that takes the step.
LEMMA TopLeads ==
  ASSUME NEW A, NEW S, NEW s, NEW G, NEW goal, Closed(S, A), Goals(S, s, G, goal)
  PROVE  Leads(S, A, s[Len(s)], G[Len(s)])
<1> DEFINE c == s[Len(s)]
           g == G[Len(s)]
           r == At(c, g)
<1>1. r \in S
  BY DEF Goals
<1>2. r.call = c /\ r.goal = g
  BY DEF At
<1> HIDE DEF r, c, g
<1>3. Leads(S, A, c, g)
  BY <1>1, <1>2 DEF Closed
<1>4. QED
  BY <1>3 DEF c, g

\* A step of a loop that makes no call.
LEMMA LoopTracked ==
  ASSUME IInv, InLoop, NEW A, NEW goal, Tracked(A, calls, goal), NEW d, GoesOn(Top, d), Continue(d)
  PROVE  Tracked(A, calls', goal)
<1>1. PICK S, G : Closed(S, A) /\ Goals(S, calls, G, goal)
  BY DEF Tracked
<1>2. res = "run" /\ Top.kind # "skip" /\ Top.at < Top.end
  BY DEF InLoop
<1>3. calls # <<>> /\ calls \in Seq(Range(calls))
  BY <1>2, Runs DEF Stack
<1>4. Top = calls[Len(calls)]
  BY <1>3, FrontParts DEF Top
<1>5. Leads(S, A, Top, G[Len(calls)])
  BY <1>1, <1>4, TopLeads
<1>6. At(d, G[Len(calls)]) \in S
  BY <1>2, <1>5 DEF Leads, LoopLeads
<1>7. d.kind = Top.kind /\ d.field = Top.field
  <2>1. \A c, v, i : Moved(c, v, i).kind = c.kind /\ Moved(c, v, i).field = c.field
    BY DEF Moved, Call
  <2>2. PICK t \in Tags(Top) : GoesScalar(Top, t, d) \/ GoesString(Top, t, d) \/ GoesKey(Top, t, d)
                              \/ GoesValue(Top, t, d)
    BY DEF GoesOn
  <2>3. \E v, i : d = Moved(Top, v, i)
    BY <2>2, Zenon DEF GoesScalar, GoesString, GoesKey, GoesValue
  <2>4. QED
    BY <2>1, <2>3
<1>8. Replaced(calls, d, calls')
  BY DEF Continue, Below, Replaced
<1>9. QED
  BY <1>1, <1>3, <1>6, <1>7, <1>8, TrackOn DEF Top

\* A step of a loop that makes one.
LEMMA CallTracked ==
  ASSUME IInv, InLoop, NEW A, NEW goal, Tracked(A, calls, goal), NEW b, NEW d, Makes(Top, b, d),
         Called(calls, b, d, calls')
  PROVE  Tracked(A, calls', goal)
<1>1. PICK S, G : Closed(S, A) /\ Goals(S, calls, G, goal)
  BY DEF Tracked
<1>2. res = "run" /\ Top.kind # "skip" /\ Top.at < Top.end
  BY DEF InLoop
<1>3. calls # <<>> /\ calls \in Seq(Range(calls))
  BY <1>2, Runs DEF Stack
<1>4. Top = calls[Len(calls)]
  BY <1>3, FrontParts DEF Top
<1>5. Leads(S, A, Top, G[Len(calls)])
  BY <1>1, <1>4, TopLeads
<1>6. PICK x : At(d, x) \in S /\ Resumes(S, b, d, x, G[Len(calls)])
  BY <1>2, <1>5 DEF Leads, LoopLeads
<1>7. b.kind = Top.kind /\ b.field = Top.field
  <2>1. \A c, v, i : Moved(c, v, i).kind = c.kind /\ Moved(c, v, i).field = c.field
    BY DEF Moved, Call
  <2>2. QED
    BY <2>1 DEF Makes, MakesNested, MakesEntry, MakesSkip
<1>8. QED
  BY <1>1, <1>3, <1>6, <1>7, TrackCall DEF Top

\* A number or a flag.
LEMMA ScalarTracked ==
  ASSUME IInv, NEW A, NEW goal, Tracked(A, calls, goal), Scalar
  PROVE  Tracked(A, calls', goal)
<1>1. InLoop
  BY DEF Scalar
<1>2. PICK d : GoesOn(Top, d) /\ Continue(d)
  <2> HIDE DEF Top
  <2>1. PICK t \in Tags(Top) : \E field \in Case(Top, t) :
          /\ IsScalar(field)
          /\ \E v \in Scalars(Top, t, field) :
               Continue(Moved(Top, [Top.val EXCEPT ![field.name] = v.value], v.at))
    BY DEF Scalar
  <2>2. QED
    BY <2>1 DEF GoesOn, GoesScalar
<1>3. QED
  BY <1>1, <1>2, LoopTracked

\* Bytes.
LEMMA StringTracked ==
  ASSUME IInv, NEW A, NEW goal, Tracked(A, calls, goal), String
  PROVE  Tracked(A, calls', goal)
<1>1. InLoop
  BY DEF String
<1>2. PICK d : GoesOn(Top, d) /\ Continue(d)
  <2> HIDE DEF Top
  <2>1. PICK t \in Tags(Top) : \E field \in Case(Top, t), d \in Contents(Top, t) :
        LET bytes == Slice(Top.data, d)
            value == IF field.kind = "bytes" THEN bytes ELSE Append(Top.val[field.name], bytes)
        IN  /\ field.kind \in {"bytes", "bytes list"}
            /\ Continue(Moved(Top, [Top.val EXCEPT ![field.name] = value], d.post))
    BY DEF String
  <2>2. \E d : GoesString(Top, t, d) /\ Continue(d)
    BY <2>1 DEF GoesString
  <2>3. QED
    BY <2>2 DEF GoesOn
<1>3. QED
  BY <1>1, <1>2, LoopTracked

\* A map entry's key and its value.
LEMMA EntryTracked ==
  ASSUME IInv, NEW A, NEW goal, Tracked(A, calls, goal), EntryKey \/ EntryValue
  PROVE  Tracked(A, calls', goal)
<1>1. InLoop
  BY DEF EntryKey, EntryValue
<1>2. PICK d : GoesOn(Top, d) /\ Continue(d)
  <2> HIDE DEF Top
  <2>1. \E t \in Tags(Top) : \E d : (GoesKey(Top, t, d) \/ GoesValue(Top, t, d)) /\ Continue(d)
    <3>1. CASE EntryKey
      BY <3>1 DEF EntryKey, GoesKey
    <3>2. CASE EntryValue
      BY <3>2 DEF EntryValue, GoesValue
    <3>3. QED
      BY <3>1, <3>2
  <2>2. QED
    BY <2>1 DEF GoesOn
<1>3. QED
  BY <1>1, <1>2, LoopTracked

\* A nested message and a map's entry.
LEMMA NestedTracked ==
  ASSUME IInv, NEW A, NEW goal, Tracked(A, calls, goal), Nested \/ OpenEntry
  PROVE  Tracked(A, calls', goal)
<1>1. InLoop
  BY DEF Nested, OpenEntry
<1>2. \E b, d : Makes(Top, b, d) /\ Called(calls, b, d, calls')
  <2>1. CASE Nested
    <3> HIDE DEF Top
    <3>1. PICK t \in Tags(Top) : \E field \in Case(Top, t), d \in Contents(Top, t) :
            LET data == Slice(Top.data, d)
            IN  /\ field.kind \in {"message", "message list", "external", "duration"}
                /\ calls' = Below \o
                     <<Moved(Top, Top.val, d.post),
                       Call(field.of, field, Started(field, Top.val[field.name]), data, 0, Len(data))>>
      BY <2>1 DEF Nested
    <3>2. \E b, d : MakesNested(Top, t, b, d) /\ Called(calls, b, d, calls')
      BY <3>1 DEF MakesNested, Called, Below
    <3>3. QED
      BY <3>2 DEF Makes
  <2>2. CASE OpenEntry
    <3> HIDE DEF Top
    <3>1. PICK t \in Tags(Top) : \E field \in Case(Top, t), d \in Contents(Top, t) :
            /\ field.kind = "map"
            /\ calls' = Below \o
                 <<Moved(Top, Top.val, d.post),
                   Call(field.of, field, [key |-> <<>>, value |-> 0], Top.data, d.from, d.post)>>
      BY <2>2 DEF OpenEntry
    <3>2. \E b, d : MakesEntry(Top, t, b, d) /\ Called(calls, b, d, calls')
      BY <3>1 DEF MakesEntry, Called, Below
    <3>3. QED
      BY <3>2 DEF Makes
  <2>3. QED
    BY <2>1, <2>2
<1>3. QED
  BY <1>1, <1>2, CallTracked

\* A call that is added to the stack is made by the last one.
LEMMA AppendCalled ==
  ASSUME NEW s, s \in Seq(Range(s)), s # <<>>, NEW d
  PROVE  Called(s, Last(s), d, Append(s, d))
<1> DEFINE f == Front(s)
           c == Last(s)
           n == Len(s)
           S == Range(s) \cup {d}
           r == Append(f, c)
<1>1. /\ n \in Nat \ {0} /\ c = s[n] /\ f \in Seq(Range(s))
      /\ Len(f) = n - 1 /\ \A i \in 1..(n - 1) : f[i] = s[i]
  BY FrontParts
<1>2. DOMAIN s = 1..n
  BY LenProperties
<1>3. c \in Range(s)
  BY <1>1, <1>2 DEF Range
<1>4. f \in Seq(S) /\ c \in S /\ d \in S /\ s \in Seq(S)
  <2>1. Range(s) \subseteq S
    OBVIOUS
  <2> HIDE DEF S, f, c
  <2>2. f \in Seq(S) /\ s \in Seq(S)
    BY <1>1, <2>1, SeqMonotonic
  <2>3. QED
    BY <1>3, <2>1, <2>2 DEF S
<1> HIDE DEF S, f, c, n
<1>5. r \in Seq(S) /\ Len(r) = n /\ \A i \in 1..n : r[i] = s[i]
  <2>1. /\ r \in Seq(S) /\ Len(r) = Len(f) + 1
        /\ \A i \in 1..Len(f) : r[i] = f[i]
        /\ r[Len(f) + 1] = c
    BY <1>4, AppendProperties
  <2>2. QED
    BY <1>1, <2>1
<1>6. r = s
  <2>1. Len(s) = n
    BY DEF n
  <2>2. QED
    BY <1>4, <1>5, <2>1, SeqEqual
<1>7. Append(r, d) = f \o <<c, d>>
  <2>1. Append(f, c) = f \o <<c>> /\ Append(f, c) \in Seq(S)
    BY <1>4, AppendIsConcat, AppendProperties
  <2>2. Append(Append(f, c), d) = (f \o <<c>>) \o <<d>>
    BY <1>4, <2>1, AppendIsConcat
  <2>3. <<c>> \in Seq(S) /\ <<d>> \in Seq(S)
    BY <1>4, Single
  <2>4. <<c>> \o <<d>> = <<c, d>>
    BY <1>4, Pair
  <2>5. (f \o <<c>>) \o <<d>> = f \o (<<c>> \o <<d>>)
    BY <1>4, <2>3, ConcatAssociative
  <2>6. QED
    BY <2>2, <2>4, <2>5
<1>8. QED
  BY <1>6, <1>7 DEF Called, f, c

\* An unknown field.
LEMMA OpenSkipTracked ==
  ASSUME IInv, NEW A, NEW goal, Tracked(A, calls, goal), OpenSkip
  PROVE  Tracked(A, calls', goal)
<1>1. InLoop
  BY DEF OpenSkip
<1>2. calls # <<>> /\ calls \in Seq(Range(calls))
  BY <1>1, Runs DEF InLoop, Stack
<1> DEFINE data == SubSeq(Top.data, Top.at + 1, Len(Top.data))
           d == Call("skip", Entry, 0, data, 0, Len(data))
<1>3. calls' = Append(calls, d)
  BY DEF OpenSkip
<1>4. Makes(Top, Top, d)
  BY DEF OpenSkip, Makes, MakesSkip
<1> HIDE DEF d
<1>5. Called(calls, Top, d, calls')
  BY <1>2, <1>3, AppendCalled DEF Top
<1>6. QED
  BY <1>1, <1>4, <1>5, CallTracked

\* skipOptimism goes on.
LEMMA SkipMoreTracked ==
  ASSUME IInv, NEW A, NEW goal, Tracked(A, calls, goal), SkipMore
  PROVE  Tracked(A, calls', goal)
<1>1. PICK S, G : Closed(S, A) /\ Goals(S, calls, G, goal)
  BY DEF Tracked
<1>2. res = "run" /\ Top.kind = "skip"
  BY DEF SkipMore
<1>3. calls # <<>> /\ calls \in Seq(Range(calls)) /\ CallOK(Top)
  BY <1>2, Runs DEF Stack
<1>4. Top = calls[Len(calls)]
  BY <1>3, FrontParts DEF Top
<1>5. SkipLeads(S, Top, G[Len(calls)])
  BY <1>1, <1>2, <1>4, TopLeads DEF Leads
<1>6. PICK e \in Elements(Top) : e.depth > 0 /\ e.at < Top.end /\ Continue(Moved(Top, e.depth, e.at))
  BY DEF SkipMore
<1> DEFINE c == Moved(Top, e.depth, e.at)
<1>7. At(c, G[Len(calls)]) \in S
  <2>1. e.depth \in Nat
    BY <1>2, <1>3, ElementRead DEF CallOK, CallValue
  <2>2. e.depth # 0
    BY <1>6, <2>1
  <2>3. QED
    BY <1>5, <2>2 DEF SkipLeads
<1>8. c.kind = Top.kind /\ c.field = Top.field
  BY DEF Moved, Call
<1>9. Replaced(calls, c, calls')
  BY <1>6 DEF Continue, Below, Replaced
<1> HIDE DEF c
<1>10. QED
  BY <1>1, <1>3, <1>7, <1>8, <1>9, TrackOn DEF Top

\* A skipped field has a caller.
LEMMA SkipHasCaller ==
  ASSUME IInv, res = "run", Top.kind = "skip"
  PROVE  Below # <<>> /\ CallOK(Last(Below)) /\ CalledBy(Last(Below), Top)
<1>1. Stack(sent.kind, calls) /\ calls # <<>>
  BY Runs
<1>2. /\ Stack(sent.kind, Below)
      /\ Below = <<>> => Top.kind = sent.kind
      /\ Below # <<>> => CalledBy(Last(Below), Top)
  BY <1>1, TopAndBelow DEF Below, Top
<1>3. sent.kind # "skip"
  <2>1. sent.kind \in Kinds
    BY DEF IInv, TypeOK
  <2>2. QED
    BY <2>1, KindsApart
<1>4. Below # <<>>
  BY <1>2, <1>3
<1> HIDE DEF Below
<1>5. QED
  BY <1>2, <1>4, TopAndBelow

\* skipOptimism ends.
LEMMA SkipEndsTracked ==
  ASSUME IInv, NEW A, NEW goal, Tracked(A, calls, goal), SkipEnds
  PROVE  Tracked(A, calls', goal)
<1>1. PICK S, G : Closed(S, A) /\ Goals(S, calls, G, goal)
  BY DEF Tracked
<1>2. res = "run" /\ Top.kind = "skip"
  BY DEF SkipEnds
<1>3. calls # <<>> /\ calls \in Seq(Range(calls))
  BY <1>2, Runs DEF Stack
<1>4. Top = calls[Len(calls)] /\ Below # <<>>
  BY <1>2, <1>3, FrontParts, SkipHasCaller DEF Top
<1>5. SkipLeads(S, Top, G[Len(calls)])
  BY <1>1, <1>2, <1>4, TopLeads DEF Leads
<1> DEFINE c == Last(Below)
           val(i) == IF c.kind = "external" THEN c.val \o SubSeq(c.data, c.at + 1, i) ELSE c.val
<1>6. PICK e \in Elements(Top) :
        /\ e.depth = 0
        /\ \E i \in Resumed(c, e.at) : calls' = Append(Front(Below), Moved(c, val(i), i))
  BY DEF SkipEnds
<1>7. PICK i \in Resumed(c, e.at) : calls' = Append(Front(Below), Moved(c, val(i), i))
  BY <1>6
<1>8. e.at = G[Len(calls)]
  BY <1>5, <1>6 DEF SkipLeads
<1> DEFINE d == Moved(c, val(i), i)
<1>9. d \in After(c, Top, G[Len(calls)])
  BY <1>2, <1>7, <1>8 DEF After
<1>10. Returned(calls, d, calls')
  BY <1>7 DEF Returned, Below
<1> HIDE DEF d
<1>11. QED
  BY <1>1, <1>3, <1>4, <1>9, <1>10, TrackReturn DEF Top, Below

\* A nested call ends.
LEMMA ReturnTracked ==
  ASSUME IInv, NEW A, NEW goal, Tracked(A, calls, goal), Return
  PROVE  Tracked(A, calls', goal)
<1>1. PICK S, G : Closed(S, A) /\ Goals(S, calls, G, goal)
  BY DEF Tracked
<1>2. res = "run" /\ Top.kind # "skip" /\ Top.at >= Top.end /\ Len(calls) > 1
  BY DEF Return
<1>3. calls # <<>> /\ calls \in Seq(Range(calls)) /\ Stack(sent.kind, calls)
  BY <1>2, Runs DEF Stack
<1>4. Below # <<>>
  <2> DEFINE n == Len(calls)
  <2>1. n > 1 /\ n \in Nat /\ (Below = <<>> => n = 1)
    BY <1>2, <1>3, TopAndBelow DEF Below
  <2> HIDE DEF n
  <2>2. QED
    BY <2>1
<1>5. Top = calls[Len(calls)]
  BY <1>3, FrontParts DEF Top
<1>6. Top.val = G[Len(calls)]
  BY <1>1, <1>2, <1>5, TopLeads DEF Leads
<1> DEFINE c == Last(Below)
           name == Top.field.name
           d == Moved(c, [c.val EXCEPT ![name] = Filled(c.val[name], Top)], c.at)
<1>7. calls' = Append(Front(Below), d)
  BY DEF Return
<1>8. d \in After(c, Top, G[Len(calls)])
  <2> DEFINE x == [field |-> Top.field, val |-> G[Len(calls)]]
  <2>1. Filled(c.val[name], Top) = Filled(c.val[name], x)
    BY <1>6 DEF Filled
  <2>2. QED
    BY <1>2, <2>1 DEF After
<1>9. Returned(calls, d, calls')
  BY <1>7 DEF Returned, Below
<1> HIDE DEF d
<1>10. QED
  BY <1>1, <1>3, <1>4, <1>8, <1>9, TrackReturn DEF Top, Below

\* The outermost call ends with the goal.
LEMMA DoneTracked ==
  ASSUME IInv, NEW A, NEW goal, Tracked(A, calls, goal), Done
  PROVE  got' = goal
<1>1. PICK S, G : Closed(S, A) /\ Goals(S, calls, G, goal)
  BY DEF Tracked
<1>2. res = "run" /\ Len(calls) = 1 /\ Top.at >= Top.end /\ got' = Top.val
  BY DEF Done
<1>3. calls # <<>> /\ calls \in Seq(Range(calls)) /\ Stack(sent.kind, calls)
  BY <1>2, Runs DEF Stack
<1>4. Top = calls[Len(calls)]
  BY <1>3, FrontParts DEF Top
<1>5. Top.kind # "skip"
  <2>1. Top.kind = sent.kind /\ sent.kind \in Kinds
    BY <1>2, <1>3, TopAndBelow DEF Top, IInv, TypeOK
  <2>2. QED
    BY <2>1, KindsApart
<1>6. Top.val = G[Len(calls)]
  BY <1>1, <1>2, <1>4, <1>5, TopLeads DEF Leads
<1>7. QED
  BY <1>1, <1>2, <1>6 DEF Goals

\* Unmarshal does not fail, unless it may.
LEMMA NoFailure ==
  ASSUME IInv, NEW A, NEW goal, Tracked(A, calls, goal), ~A.fails
  PROVE  ~Malformed /\ ~SkipFails
<1>1. PICK S, G : Closed(S, A) /\ Goals(S, calls, G, goal)
  BY DEF Tracked
<1>2. ASSUME Malformed PROVE FALSE
  <2>1. res = "run" /\ Top.kind # "skip" /\ Top.at < Top.end /\ Stuck(Top)
    BY <1>2 DEF Malformed, InLoop, Stuck
  <2>2. calls # <<>> /\ calls \in Seq(Range(calls))
    BY <2>1, Runs DEF Stack
  <2>3. Top = calls[Len(calls)]
    BY <2>2, FrontParts DEF Top
  <2>4. QED
    BY <1>1, <2>1, <2>3, TopLeads DEF Leads, LoopLeads
<1>3. ASSUME SkipFails PROVE FALSE
  <2>1. res = "run" /\ Top.kind = "skip"
    BY <1>3 DEF SkipFails
  <2>2. calls # <<>> /\ calls \in Seq(Range(calls)) /\ CallOK(Top)
    BY <2>1, Runs DEF Stack
  <2>3. Top = calls[Len(calls)] /\ Below # <<>>
    BY <2>1, <2>2, FrontParts, SkipHasCaller DEF Top
  <2> DEFINE g == G[Len(calls)]
             b == Last(Below)
  <2>4. SkipLeads(S, Top, g)
    BY <1>1, <2>1, <2>3, TopLeads DEF Leads
  <2>5. PICK e \in Elements(Top) : TRUE
    BY <2>4 DEF SkipLeads
  <2>6. IF e.depth = 0 THEN Resumed(b, e.at) = {} ELSE e.at >= Top.end
    BY <1>3 DEF SkipFails
  <2>7. IF e.depth = 0 THEN e.at = g ELSE e.at < Top.end
    BY <2>4 DEF SkipLeads
  <2>8. e.at \in Nat /\ Top.end \in Nat
    BY <2>1, <2>2, ElementRead, LenProperties DEF CallOK, CallValue
  <2>9. Resumed(b, g) # {}
    <3>1. /\ Len(calls) \in Nat \ {0, 1} /\ Last(calls) = calls[Len(calls)]
          /\ b = calls[Len(calls) - 1]
      <4>1. Returned(calls, b, Append(Front(Front(calls)), b))
        BY DEF Returned
      <4>2. QED
        BY <2>2, <2>3, <4>1, TopReturned DEF Below
    <3> DEFINE n == Len(calls)
               k == n - 1
    <3>2. k \in 1..n /\ n \in 1..n /\ n = k + 1
      <4>1. n \in Nat /\ n # 0 /\ n # 1
        BY <3>1
      <4> HIDE DEF n
      <4>2. QED
        BY ONLY <4>1
    <3>3. \A i, j \in 1..n : j = i + 1 => Resumes(S, calls[i], calls[j], G[j], G[i])
      BY <1>1 DEF Goals
    <3>4. b = calls[k]
      BY <3>1
    <3> HIDE DEF n, k
    <3>5. Resumes(S, calls[k], calls[n], G[n], G[k])
      BY <3>2, <3>3
    <3>6. After(b, Top, g) # {}
      BY <2>3, <3>4, <3>5 DEF Resumes, n
    <3>7. QED
      BY <2>1, <3>6 DEF After
  <2>10. QED
    BY <2>6, <2>7, <2>8, <2>9
<1>4. QED
  BY <1>2, <1>3

\* Nor is an external message refused, if it is one of those that are accepted.
LEMMA NoRefusal ==
  ASSUME IInv, NEW A, NEW goal, Tracked(A, calls, goal), A.takes \subseteq Payloads
  PROVE  ~Refused
<1>1. PICK S, G : Closed(S, A) /\ Goals(S, calls, G, goal)
  BY DEF Tracked
<1>2. ASSUME Refused PROVE FALSE
  <2>1. res = "run" /\ Top.kind = "external" /\ Top.data \notin Payloads
    BY <1>2 DEF Refused
  <2>2. calls # <<>> /\ calls \in Seq(Range(calls))
    BY <2>1, Runs DEF Stack
  <2>3. Top = calls[Len(calls)]
    BY <2>2, FrontParts DEF Top
  <2>4. QED
    BY <1>1, <2>1, <2>3, TopLeads DEF Leads
<1>3. QED
  BY <1>2

-----------------------------------------------------------------------------
(* What is read depends on no more bytes than were read.                   *)

\* Two buffers begin with the same n bytes.
Agree(d, e, n) ==
  /\ d \in Seq(Byte) /\ e \in Seq(Byte) /\ n \in Nat /\ n <= Len(d) /\ n <= Len(e)
  /\ \A i \in 1..n : d[i] = e[i]

\* Where a varint may end.
LEMMA EndsAre ==
  ASSUME NEW data, NEW at, data \in Seq(Byte), at \in Nat
  PROVE  \A j : j \in VarintEnds(data, at)
                  <=> j \in (at + 1)..Len(data) /\ j <= at + (Word + 6) \div 7 /\ data[j] < 128
<1> DEFINE k == (Word + 6) \div 7
           E == VarintEnds(data, at)
           x == at + k
           m == Min({Len(data), x})
<1>1. k \in Nat /\ Len(data) \in Nat
  BY WireAssumption, LenProperties
<1>2. x \in Nat /\ x = at + k
  BY <1>1
<1> HIDE DEF k
<1>3. \A j : j \in E <=> j \in (at + 1)..m /\ data[j] < 128
  BY DEF VarintEnds, k
<1> HIDE DEF x, E
<1>4. LET z == Min({Len(data), x})
      IN  z \in Nat /\ z <= Len(data) /\ z <= x /\ z \in {Len(data), x}
  BY <1>1, <1>2, MinOfTwo
<1> HIDE DEF m
<1>5. m \in Nat /\ m <= Len(data) /\ m <= x /\ m \in {Len(data), x}
  BY <1>4 DEF m
<1>6. \A j : j \in (at + 1)..m <=> j \in (at + 1)..Len(data) /\ j <= x
  BY <1>1, <1>2, <1>5
<1>7. \A j : j \in E <=> j \in (at + 1)..Len(data) /\ j <= at + k /\ data[j] < 128
  BY <1>2, <1>3, <1>6
<1>8. QED
  BY <1>7 DEF E, k

\* A varint.
LEMMA VarintAgrees ==
  ASSUME NEW d, NEW e, NEW n, NEW at, NEW r, Agree(d, e, n), at \in Nat, r \in ReadVarint(d, at),
         r.at <= n
  PROVE  ReadVarint(e, at) = {r}
<1> DEFINE D == VarintEnds(d, at)
           E == VarintEnds(e, at)
           k == (Word + 6) \div 7
<1>1. PICK x \in {i \in D : \A j \in D : i <= j} :
        r = [value |-> Groups(d, at, x) % Pow2[Word], at |-> x]
  BY DEF ReadVarint
<1>2. r.at = x /\ x <= n
  BY <1>1
<1>3. /\ d \in Seq(Byte) /\ e \in Seq(Byte) /\ n \in Nat
      /\ Len(d) \in Nat /\ Len(e) \in Nat /\ n <= Len(d) /\ n <= Len(e)
      /\ \A i \in 1..n : d[i] = e[i]
  BY LenProperties DEF Agree
<1>4. /\ \A j : j \in D <=> j \in (at + 1)..Len(d) /\ j <= at + k /\ d[j] < 128
      /\ \A j : j \in E <=> j \in (at + 1)..Len(e) /\ j <= at + k /\ e[j] < 128
  BY <1>3, EndsAre
<1>5. k \in Nat
  BY WireAssumption
<1>6. ReadVarint(e, at) =
        {[value |-> Groups(e, at, j) % Pow2[Word], at |-> j] : j \in {i \in E : \A l \in E : i <= l}}
  BY DEF ReadVarint
<1> HIDE DEF D, E, k
<1>7. x \in (at + 1)..n /\ x \in Nat /\ x <= at + k /\ d[x] < 128 /\ d[x] = e[x]
  BY <1>1, <1>2, <1>3, <1>4
<1>8. x \in E
  BY <1>3, <1>4, <1>7
<1>9. \A l \in E : x <= l
  <2>1. SUFFICES ASSUME NEW l \in E, l < x PROVE FALSE
    BY <1>3, <1>4, <1>7
  <2>2. l \in (at + 1)..Len(d) /\ l \in 1..n /\ l <= at + k /\ e[l] < 128
    BY <1>3, <1>4, <1>7, <2>1
  <2>3. l \in D
    BY <1>3, <1>4, <2>2
  <2>4. x <= l
    BY <1>1, <2>3
  <2>5. QED
    BY <1>7, <2>1, <2>2, <2>4
<1>10. {i \in E : \A l \in E : i <= l} = {x}
  <2>1. \A l \in E : l \in Nat
    BY <1>3, <1>4
  <2>2. ASSUME NEW i \in E, \A l \in E : i <= l
        PROVE  i = x
    BY ONLY <1>8, <1>9, <2>1, <2>2
  <2>3. QED
    BY <1>8, <1>9, <2>2
<1>11. Groups(e, at, x) = Groups(d, at, x)
  <2>1. \A j \in (at + 1)..x : d[j] = e[j]
    BY <1>3, <1>7
  <2>2. [j \in (at + 1)..x |-> (d[j] % 128) * Pow2[7 * (j - at - 1)]]
          = [j \in (at + 1)..x |-> (e[j] % 128) * Pow2[7 * (j - at - 1)]]
    BY <2>1
  <2>3. QED
    BY <2>2 DEF Groups
<1>12. QED
  BY <1>1, <1>6, <1>10, <1>11

\* A tag.
LEMMA TagAgrees ==
  ASSUME NEW d, NEW e, NEW n, NEW at, NEW t, Agree(d, e, n), at \in Nat, t \in ReadTag(d, at),
         t.at <= n
  PROVE  ReadTag(e, at) = {t}
<1>1. PICK w \in ReadVarint(d, at) :
        t = [num |-> Signed((w.value \div 8) % Pow2[Half], Half), type |-> w.value % 8, at |-> w.at]
  BY DEF ReadTag
<1>2. w.at <= n
  BY <1>1
<1>3. ReadVarint(e, at) = {w}
  BY <1>2, VarintAgrees
<1>4. QED
  BY <1>1, <1>3 DEF ReadTag

\* A buffer in which the beginning of another one is stored.
LEMMA StoredAgrees ==
  ASSUME NEW data, NEW e, NEW n, data \in Seq(Byte), n \in 0..Len(data),
         Stored(e, 0, SubSeq(data, 1, n))
  PROVE  Agree(data, e, n)
<1> DEFINE w == SubSeq(data, 1, n)
<1>1. Len(data) \in Nat /\ n \in Nat /\ n <= Len(data)
  BY LenProperties
<1>2. Len(w) = n /\ \A i \in 1..n : w[i] = data[i]
  <2>1. \A i \in 1..n : data[i] \in Byte
    BY <1>1, ElementOfSeq
  <2>2. /\ Len(SubSeq(data, 1, n)) = IF 1 <= n THEN n - 1 + 1 ELSE 0
        /\ \A i \in 1..(n - 1 + 1) : SubSeq(data, 1, n)[i] = data[1 + i - 1]
    BY <1>1, <2>1, SubSeqProperties
  <2>3. QED
    BY <1>1, <2>2
<1> HIDE DEF w
<1>3. /\ e \in Seq(Byte) /\ 0 + Len(w) <= Len(e) /\ \A i \in 1..Len(w) : e[0 + i] = w[i]
  BY DEF Stored, w
<1>4. \A i \in 1..n : data[i] = e[i]
  BY <1>1, <1>2, <1>3
<1>5. QED
  BY <1>1, <1>2, <1>3, <1>4 DEF Agree

\* The sum of an index and a length that is no negative int, if it is none itself.
LEMMA WrapForward ==
  ASSUME NEW a, NEW v, a \in Nat, a < Pow2[Word - 1], v \in Uint64Values, Signed(v, Word) >= 0,
         Wrap(a + v) >= 0
  PROVE  Wrap(a + v) = a + v /\ v \in Nat
<1> DEFINE p == Pow2[Word - 1]
           s == a + v
<1>1. p \in Nat \ {0} /\ Pow2[Word] = 2 * p
  BY PowRecursion, PowPositive, WireAssumption
<1>2. v \in Nat /\ v < 2 * p /\ a < p
  BY <1>1 DEF Uint64Values
<1>3. v < p
  <2>1. CASE v >= p
    <3>1. Signed(v, Word) = v - 2 * p
      BY <1>1, <2>1 DEF Signed
    <3>2. QED
      BY <1>1, <1>2, <3>1
  <2>2. QED
    BY <1>1, <1>2, <2>1
<1>4. s \in 0..(Pow2[Word] - 1) /\ Pow2[Word] \in Nat \ {0} /\ s \in Nat
  BY <1>1, <1>2, <1>3
<1>5. s % Pow2[Word] = s
  BY <1>4, ModSmall
<1>6. Wrap(s) = IF s >= p THEN s - 2 * p ELSE s
  BY <1>1, <1>5 DEF Wrap, Signed
<1>7. s < 2 * p
  BY <1>1, <1>4
<1> HIDE DEF p
<1>8. Wrap(s) >= 0
  OBVIOUS
<1> HIDE DEF s
<1>9. Wrap(s) = s
  BY <1>1, <1>4, <1>6, <1>7, <1>8
<1>10. QED
  BY <1>2, <1>9 DEF s

\* Where an element ends, past its tag and its length.
LEMMA PastBound ==
  ASSUME NEW c, NEW t, NEW p, c.data \in Seq(Byte), c.at \in 0..Len(c.data), Addressable(c.data),
         t \in ReadTag(c.data, c.at), p \in Past(c, t), p >= 0
  PROVE  /\ c.at < t.at /\ t.at \in Nat /\ t.at <= p /\ t.type \in 0..7
         /\ t.type = 0 => \E v \in ReadVarint(c.data, t.at) : p = v.at
         /\ t.type = 2 => \E v \in ReadVarint(c.data, t.at) :
              p = Wrap(v.at + v.value) /\ Signed(v.value, Word) >= 0 /\ v.at <= p
<1>1. Len(c.data) \in Nat /\ c.at \in Nat
  BY LenProperties
<1>2. t.type \in 0..7 /\ t.at \in (c.at + 1)..Len(c.data) /\ t.at \in Nat /\ c.at < t.at
  <2>1. t.type \in 0..7 /\ t.at \in (c.at + 1)..Len(c.data)
    BY TagRead
  <2>2. QED
    BY <1>1, <2>1
<1>3. t.at \in 0..Len(c.data)
  BY <1>1, <1>2
<1>4. ASSUME NEW v, v \in ReadVarint(c.data, t.at)
      PROVE  v.value \in Uint64Values /\ v.at \in (t.at + 1)..Len(c.data)
  BY <1>3, <1>4, VarintRead
<1>5. CASE t.type = 0
  <2>1. PICK v \in ReadVarint(c.data, t.at) : p = v.at
    BY <1>5, PastCases
  <2>2. t.at <= p
    BY <1>1, <1>2, <1>4, <2>1
  <2>3. QED
    BY <1>2, <1>5, <2>1, <2>2
<1>6. CASE t.type = 2
  <2>1. PICK v \in ReadVarint(c.data, t.at) : p = Wrap(v.at + v.value) /\ Signed(v.value, Word) >= 0
    BY <1>6, PastCases
  <2>2. v.value \in Uint64Values /\ v.at \in (t.at + 1)..Len(c.data)
    BY <1>4, <2>1
  <2>3. v.at \in Nat /\ v.at < Pow2[Word - 1]
    <3>1. Pow2[Word - 1] \in Nat
      BY PowPositive, WireAssumption
    <3>2. QED
      BY <1>1, <1>2, <2>2, <3>1 DEF Addressable
  <2>4. p = v.at + v.value /\ v.value \in Nat
    <3> DEFINE a == v.at
               l == v.value
    <3>1. a \in Nat /\ a < Pow2[Word - 1] /\ l \in Uint64Values /\ Signed(l, Word) >= 0
          /\ p = Wrap(a + l)
      BY <2>1, <2>2, <2>3
    <3> HIDE DEF a, l
    <3>2. Wrap(a + l) >= 0
      BY <3>1
    <3>3. p = a + l /\ l \in Nat
      BY <3>1, <3>2, WrapForward
    <3>4. QED
      BY <3>3 DEF a, l
  <2>5. v.at <= p /\ t.at <= p
    BY <1>1, <1>2, <2>2, <2>3, <2>4
  <2>6. QED
    BY <1>2, <1>6, <2>1, <2>5
<1>7. CASE t.type \notin {0, 2}
  <2>1. p \in {t.at, t.at + 4, t.at + 8}
    BY <1>2, <1>7, PastCases
  <2>2. t.at <= p
    BY <1>2, <2>1
  <2>3. QED
    BY <1>2, <1>7, <2>2
<1>8. QED
  BY <1>5, <1>6, <1>7

\* The same element is read of any buffer that begins with the same bytes.
LEMMA PastAgrees ==
  ASSUME NEW c, NEW d, NEW t, NEW p, NEW n, c.data \in Seq(Byte), c.at \in 0..Len(c.data),
         Addressable(c.data), t \in ReadTag(c.data, c.at), p \in Past(c, t), p >= 0, p <= n,
         Agree(c.data, d.data, n)
  PROVE  Past(d, t) = {p}
<1>1. /\ c.at < t.at /\ t.at \in Nat /\ t.at <= p /\ t.type \in 0..7
      /\ t.type = 0 => \E v \in ReadVarint(c.data, t.at) : p = v.at
      /\ t.type = 2 => \E v \in ReadVarint(c.data, t.at) :
           p = Wrap(v.at + v.value) /\ Signed(v.value, Word) >= 0 /\ v.at <= p
  BY PastBound
<1>2. n \in Nat
  BY DEF Agree
<1>3. CASE t.type = 0
  <2>1. PICK v \in ReadVarint(c.data, t.at) : p = v.at
    BY <1>1, <1>3
  <2>2. ReadVarint(d.data, t.at) = {v}
    BY <1>1, <2>1, VarintAgrees
  <2>3. Past(d, t) = {x.at : x \in ReadVarint(d.data, t.at)}
    BY <1>3, PastCases
  <2>4. QED
    BY <2>1, <2>2, <2>3
<1>4. CASE t.type = 2
  <2>1. PICK v \in ReadVarint(c.data, t.at) :
          p = Wrap(v.at + v.value) /\ Signed(v.value, Word) >= 0 /\ v.at <= p
    BY <1>1, <1>4
  <2>2. v.at \in Int /\ p \in Int
    <3>1. Len(c.data) \in Nat /\ t.at \in 0..Len(c.data)
      <4>1. t.at \in (c.at + 1)..Len(c.data) /\ Len(c.data) \in Nat
        BY TagRead, LenProperties
      <4>2. QED
        BY <1>1, <4>1
    <3>2. v.at \in (t.at + 1)..Len(c.data) /\ v.value \in Nat
      BY <2>1, <3>1, VarintRead, UintValues
    <3>3. v.at \in Int /\ v.value \in Int
      BY <1>1, <3>1, <3>2
    <3> DEFINE a == v.at
               l == v.value
    <3>4. a \in Int /\ l \in Int /\ p = Wrap(a + l)
      BY <2>1, <3>3
    <3> HIDE DEF a, l
    <3>5. p \in Int
      BY <3>4, WrapType
    <3>6. QED
      BY <3>3, <3>5
  <2>3. v.at <= n
    BY <1>2, <2>1, <2>2
  <2>4. ReadVarint(d.data, t.at) = {v}
    BY <1>1, <2>1, <2>3, VarintAgrees
  <2>5. Past(d, t) = {Wrap(x.at + x.value) : x \in {r \in ReadVarint(d.data, t.at) :
                                                  Signed(r.value, Word) >= 0}}
    BY <1>4, PastCases
  <2>6. {r \in ReadVarint(d.data, t.at) : Signed(r.value, Word) >= 0} = {v}
    BY <2>1, <2>4
  <2>7. QED
    BY <2>1, <2>5, <2>6
<1>5. CASE t.type \notin {0, 2}
  <2>1. t.type = 1 \/ t.type \in {3, 4} \/ t.type = 5 \/ t.type \in {6, 7}
    BY <1>1, <1>5
  <2>2. QED
    BY <2>1, PastCases
<1>6. QED
  BY <1>3, <1>4, <1>5

\* A step of skipOptimism is the same in any buffer that begins with the bytes up to
\* where the element ends.
LEMMA ElementLocal ==
  ASSUME NEW c, NEW e, NEW n, NEW d, c.data \in Seq(Byte), c.at \in 0..Len(c.data), c.val \in Nat,
         Addressable(c.data), e \in Elements(c), e.at <= n, Agree(c.data, d.data, n),
         d.at = c.at, d.val = c.val
  PROVE  /\ Elements(d) = {e}
         /\ e.at \in Nat /\ e.depth \in Nat /\ c.at < e.at
         /\ \E t \in ReadTag(c.data, c.at) : t.at <= e.at
<1>1. e.at \in Nat /\ e.depth \in Nat
  BY ElementRead
<1>2. PICK t \in ReadTag(c.data, c.at) : \E i \in Past(c, t) : e = [at |-> i, depth |-> Depth(c, t)]
  BY DEF Elements
<1>3. PICK p \in Past(c, t) : e = [at |-> p, depth |-> Depth(c, t)]
  BY <1>2
<1>4. e.at = p /\ e.depth = Depth(c, t)
  BY <1>3
<1>5. p \in Nat /\ p >= 0 /\ p <= n /\ n \in Nat
  BY <1>1, <1>4 DEF Agree
<1>6. c.at < t.at /\ t.at \in Nat /\ t.at <= p
  BY <1>5, PastBound
<1>7. c.at \in Nat /\ t.at <= n
  BY <1>5, <1>6
<1>8. ReadTag(d.data, d.at) = {t}
  BY <1>7, TagAgrees
<1>9. Past(d, t) = {p}
  BY <1>5, PastAgrees
<1>10. Depth(d, t) = Depth(c, t)
  BY DEF Depth
<1>11. Elements(d) = {[at |-> p, depth |-> Depth(d, t)]}
  <2>1. Depth(d, t) \in Nat
    BY <1>1, <1>4, <1>10
  <2>2. QED
    BY <1>5, <1>8, <1>9, <2>1, SkipElement
<1>12. QED
  BY <1>1, <1>3, <1>4, <1>5, <1>6, <1>7, <1>10, <1>11

-----------------------------------------------------------------------------
(* What the decoder makes of any bytes can be written again: the external  *)
(* messages in it are ones a decoder takes as they are.                    *)

AnyPlain == PlainIn(Strict(Seq(Byte)))

\* A field, a message and the value of a call that hold no others.
PlainField(f, v) ==
  /\ FieldFrom(AnyPlain, f, v)
  /\ f.kind \in {"message", "message list"} => \A i \in DOMAIN v : FlatFrom(AnyPlain, f.of, v[i])
PlainMessage(kind, m) == \A f \in Fields(kind) : PlainField(f, m[f.name])
PlainValue(kind, v) ==
  /\ kind \in Kinds => PlainMessage(kind, v)
  /\ kind = "external" => Plain(v)

\* A message holds no others.
LEMMA PlainIsFrom ==
  ASSUME NEW kind, NEW m
  PROVE  PlainMessage(kind, m) <=> From(AnyPlain, kind, m)
  BY DEF PlainMessage, PlainField, From

\* Nor do the messages that may be nested, by their own fields.
LEMMA SimplePlain ==
  ASSUME NEW kind, NEW m, kind \in Simple
  PROVE  FlatFrom(AnyPlain, kind, m) <=> PlainMessage(kind, m)
<1>1. \A f \in Fields(kind) : f.kind \notin {"message", "message list"}
  BY SimpleFields
<1>2. QED
  BY <1>1 DEF FlatFrom, PlainMessage, PlainField

\* Plain bytes are one of them.
LEMMA PlainAny ==
  ASSUME NEW w
  PROVE  w \in AnyPlain <=> Plain(w)
  BY DEF AnyPlain, PlainIn, Plain, Strict

\* A field of another kind holds no external messages.
LEMMA OtherPlain ==
  ASSUME NEW f, NEW v, f.kind \notin {"external", "duration", "message", "message list"}
  PROVE  PlainField(f, v)
  BY DEF PlainField, FieldFrom

\* Nothing holds none.
LEMMA EmptyPlain ==
  ASSUME NEW f
  PROVE  PlainField(f, <<>>)
<1>1. DOMAIN <<>> = {} /\ Range(<<>>) = {}
  BY DEF Range
<1>2. <<>> \in AnyPlain
  BY PlainNothing, PlainAny
<1>3. QED
  BY <1>1, <1>2 DEF PlainField, FieldFrom

\* Nor does a message without anything in it.
LEMMA ZeroPlain ==
  ASSUME NEW kind
  PROVE  PlainMessage(kind, Zero(kind))
<1>1. ASSUME NEW f \in Fields(kind) PROVE PlainField(f, Zero(kind)[f.name])
  <2>1. FieldNamed(kind, f.name) = f
    BY NamesDistinct DEF FieldNamed
  <2>2. Zero(kind)[f.name] = ZeroOf(f)
    BY <2>1 DEF Zero, Names
  <2>3. CASE IsScalar(f)
    <3>1. f.kind \notin {"external", "duration", "message", "message list"}
      BY <2>3 DEF IsScalar
    <3>2. QED
      BY <2>2, <3>1, OtherPlain
  <2>4. CASE ~IsScalar(f)
    <3>1. f.kind \notin {"uint64", "uint32"} /\ f.kind # "bool"
      BY <2>4 DEF IsScalar
    <3>2. ZeroOf(f) = <<>>
      BY <2>4, <3>1, Zenon DEF ZeroOf
    <3>3. QED
      BY <2>2, <3>2, EmptyPlain
  <2>5. QED
    BY <2>3, <2>4
<1>2. QED
  BY <1>1 DEF PlainMessage

\* A field is given another value.
LEMMA PlainUpdated ==
  ASSUME NEW kind, NEW m, NEW f, NEW v, IsMessage(kind, m), PlainMessage(kind, m),
         f \in Fields(kind), PlainField(f, v)
  PROVE  PlainMessage(kind, [m EXCEPT ![f.name] = v])
<1> DEFINE n == [m EXCEPT ![f.name] = v]
<1>1. DOMAIN m = Names(kind)
  <2>1. m = [name \in Names(kind) |-> m[name]]
    BY MessageFits
  <2>2. QED
    BY <2>1
<1>2. ASSUME NEW g \in Fields(kind) PROVE PlainField(g, n[g.name])
  <2>1. g.name \in DOMAIN m
    BY <1>1 DEF Names
  <2>2. CASE g = f
    BY <2>1, <2>2
  <2>3. CASE g # f
    <3>1. g.name # f.name
      BY <2>3, NamesDistinct
    <3>2. n[g.name] = m[g.name]
      BY <2>1, <3>1
    <3>3. PlainField(g, m[g.name])
      BY DEF PlainMessage
    <3>4. QED
      BY <3>2, <3>3
  <2>4. QED
    BY <2>2, <2>3
<1> HIDE DEF n
<1>3. PlainMessage(kind, n)
  BY <1>2 DEF PlainMessage
<1>4. QED
  BY <1>3 DEF n

\* What a nested call starts from.
LEMMA StartedPlain ==
  ASSUME NEW f, NEW old, Wellformed(f), Fits(f, old), PlainField(f, old),
         f.kind \in {"message", "message list", "external", "duration"}
  PROVE  PlainValue(f.of, Started(f, old))
<1>1. CASE f.kind = "message list"
  <2>1. f.of \in Simple /\ Started(f, old) = Zero(f.of)
    BY <1>1 DEF Wellformed, Started
  <2>2. QED
    BY <2>1, ZeroPlain, KindsApart DEF PlainValue
<1>2. CASE f.kind = "message"
  <2>1. f.of \in Simple
    BY <1>2 DEF Wellformed
  <2>2. CASE old = <<>>
    <3>1. Started(f, old) = Zero(f.of)
      BY <1>2, <2>2 DEF Started
    <3>2. QED
      BY <2>1, <3>1, ZeroPlain, KindsApart DEF PlainValue
  <2>3. CASE old # <<>>
    <3>1. Started(f, old) = Head(old)
      BY <1>2, <2>3 DEF Started
    <3>2. old \in Seq(Range(old))
      BY <1>2 DEF Fits, IsValue
    <3>3. 1 \in DOMAIN old /\ Head(old) = old[1]
      BY <2>3, <3>2, HeadIsFirst
    <3>4. \A i \in DOMAIN old : FlatFrom(AnyPlain, f.of, old[i])
      BY <1>2 DEF PlainField
    <3>5. FlatFrom(AnyPlain, f.of, Head(old))
      BY <3>3, <3>4
    <3>6. PlainMessage(f.of, Head(old))
      BY <2>1, <3>5, SimplePlain
    <3>7. QED
      BY <2>1, <3>1, <3>6, KindsApart DEF PlainValue
  <2>4. QED
    BY <2>2, <2>3
<1>3. CASE f.kind = "external"
  <2>1. f.of = "external" /\ f.of \notin Kinds
    BY <1>3, KindsApart DEF Wellformed
  <2>2. Plain(Started(f, old))
    <3>1. CASE old = <<>>
      <4>1. Started(f, old) = <<>>
        BY <1>3, <3>1 DEF Started
      <4>2. QED
        BY <4>1, PlainNothing
    <3>2. CASE old # <<>>
      <4>1. old \in Seq(Seq(Byte))
        BY <1>3 DEF Fits, IsValue
      <4>2. 1 \in DOMAIN old /\ Head(old) = old[1]
        BY <3>2, <4>1, HeadIsFirst
      <4>3. Range(old) \subseteq AnyPlain
        BY <1>3 DEF PlainField, FieldFrom
      <4>4. Head(old) \in AnyPlain
        BY <4>2, <4>3 DEF Range
      <4>5. Started(f, old) = Head(old)
        BY <1>3, <3>2 DEF Started
      <4>6. QED
        BY <4>4, <4>5, PlainAny
    <3>3. QED
      BY <3>1, <3>2
  <2>3. QED
    BY <2>1, <2>2 DEF PlainValue
<1>4. CASE f.kind = "duration"
  <2>1. f.of = "external" /\ f.of \notin Kinds
    BY <1>4, KindsApart DEF Wellformed
  <2>2. Started(f, old) = <<>>
    BY <1>4 DEF Started
  <2>3. QED
    BY <2>1, <2>2, PlainNothing DEF PlainValue
<1>5. QED
  BY <1>1, <1>2, <1>3, <1>4

\* What a field holds after a nested call.
LEMMA FilledPlain ==
  ASSUME NEW c, NEW old, Wellformed(c.field), Fits(c.field, old), PlainField(c.field, old),
         c.field.kind \notin {"uint64", "uint32", "bool", "bytes", "bytes list"},
         PlainValue(c.field.of, c.val)
  PROVE  PlainField(c.field, Filled(old, c))
<1> DEFINE v == c.val
           f == c.field
<1>1. CASE f.kind = "message"
  <2>1. f.of \in Simple
    BY <1>1 DEF Wellformed
  <2>2. FlatFrom(AnyPlain, f.of, v)
    BY <2>1, SimplePlain, KindsApart DEF PlainValue
  <2>3. Filled(old, c) = <<v>>
    BY <1>1 DEF Filled
  <2> HIDE DEF v, f
  <2>4. DOMAIN <<v>> = {1} /\ <<v>>[1] = v
    <3>1. v \in {v}
      OBVIOUS
    <3>2. QED
      BY <3>1, Single
  <2>5. PlainField(f, <<v>>)
    BY <1>1, <2>2, <2>4 DEF PlainField, FieldFrom
  <2>6. QED
    BY <2>3, <2>5 DEF f
<1>2. CASE f.kind \in {"external", "duration"}
  <2>1. v \in AnyPlain
    BY <1>2, PlainAny DEF Wellformed, PlainValue
  <2>2. CASE f.kind = "external"
    <3>1. Filled(old, c) = <<v>>
      BY <2>2 DEF Filled
    <3> HIDE DEF v, f
    <3>2. Range(<<v>>) \subseteq AnyPlain
      <4>1. DOMAIN <<v>> = {1} /\ <<v>>[1] = v
        BY <2>1, Single
      <4>2. QED
        BY <2>1, <4>1 DEF Range
    <3>3. PlainField(f, <<v>>)
      BY <2>2, <3>2 DEF PlainField, FieldFrom
    <3>4. QED
      BY <3>1, <3>3 DEF f
  <2>3. CASE f.kind = "duration"
    <3>1. Filled(old, c) = v
      BY <2>3 DEF Filled
    <3> HIDE DEF v
    <3>2. QED
      BY <2>1, <2>3, <3>1 DEF PlainField, FieldFrom
  <2>4. QED
    BY <1>2, <2>2, <2>3
<1>3. CASE f.kind = "message list"
  <2>1. f.of \in Simple
    BY <1>3 DEF Wellformed
  <2>2. FlatFrom(AnyPlain, f.of, v)
    BY <2>1, SimplePlain, KindsApart DEF PlainValue
  <2>3. Filled(old, c) = Append(old, v)
    BY <1>3 DEF Filled
  <2>4. old \in Seq(Range(old))
    BY <1>3 DEF Fits, IsValue
  <2>5. \A i \in DOMAIN old : FlatFrom(AnyPlain, f.of, old[i])
    BY <1>3 DEF PlainField
  <2> DEFINE n == Append(old, v)
  <2> HIDE DEF v, f
  <2>6. /\ Len(old) \in Nat /\ DOMAIN n = 1..(Len(old) + 1)
        /\ \A i \in 1..Len(old) : n[i] = old[i]
        /\ n[Len(old) + 1] = v
    BY <2>4, AppendAny
  <2>7. DOMAIN old = 1..Len(old)
    BY <2>4, LenProperties
  <2> HIDE DEF n
  <2>8. \A i \in DOMAIN n : FlatFrom(AnyPlain, f.of, n[i])
    <3>1. \A l \in Nat : \A i \in 1..(l + 1) : i = l + 1 \/ i \in 1..l
      BY ONLY TRUE
    <3>2. \A i \in 1..(Len(old) + 1) : i = Len(old) + 1 \/ i \in 1..Len(old)
      BY <2>6, <3>1
    <3>3. QED
      BY <2>2, <2>5, <2>6, <2>7, <3>2
  <2>9. PlainField(f, n)
    BY <1>3, <2>8 DEF PlainField, FieldFrom
  <2>10. QED
    BY <2>3, <2>9 DEF n, f
<1>4. CASE f.kind = "map"
  BY <1>4, OtherPlain
<1>5. QED
  BY <1>1, <1>2, <1>3, <1>4 DEF Wellformed, FieldKinds

-----------------------------------------------------------------------------
(* A call of skipOptimism by an external message: whatever it reads is a   *)
(* field that any other decoder steps over in the same way.                *)

\* A buffer that begins with what was stepped over, and more than that, would have led
\* to the same call.
SameSkip(c) ==
  \A A, data, field, g, n :
    /\ n \in Nat /\ c.at < n /\ Agree(c.data, data, n) /\ Addressable(data)
    /\ Decodes(A, Call("skip", field, c.val, data, c.at, Len(data)), g)
    => Decodes(A, Call("skip", field, 0, data, 0, Len(data)), g)

\* The tag it began with is that of a field.
TagPassed(c) ==
  /\ \A t \in ReadTag(c.data, 0) : t.num > 0 /\ t.type # 4
  /\ c.at # 0 => \E t \in ReadTag(c.data, 0) : t.at <= c.at

\* A call of skipOptimism works on the rest of the buffer of the external message that made it.
Skipping(b, c) ==
  /\ c.end = Len(c.data)
  /\ c.data = SubSeq(b.data, b.at + 1, Len(b.data))
  /\ TagPassed(c) /\ SameSkip(c)
Linked(b, c) == c.kind = "skip" /\ b.kind = "external" => Skipping(b, c)

\* The beginning of a buffer, and the rest of it.
LEMMA Split ==
  ASSUME NEW w, NEW n, w \in Seq(Byte), n \in 0..Len(w)
  PROVE  /\ SubSeq(w, 1, n) \in Seq(Byte) /\ Len(SubSeq(w, 1, n)) = n
         /\ SubSeq(w, n + 1, Len(w)) \in Seq(Byte)
         /\ w = SubSeq(w, 1, n) \o SubSeq(w, n + 1, Len(w))
<1> DEFINE l == Len(w)
           z == 0
<1>1. n \in Nat /\ n <= l /\ l \in Nat /\ z \in Nat /\ z <= n /\ z + 1 = 1
  BY LenProperties
<1> HIDE DEF z
<1>2. /\ SubSeq(w, z + 1, n) \in Seq(Byte) /\ SubSeq(w, n + 1, Len(w)) \in Seq(Byte)
      /\ SubSeq(w, z + 1, Len(w)) = SubSeq(w, z + 1, n) \o SubSeq(w, n + 1, Len(w))
  BY <1>1, Tails DEF l
<1>3. \A j \in 1..l : w[j] \in Byte
  BY <1>1, ElementOfSeq
<1>4. SubSeq(w, 1, l) = w
  <2>1. /\ SubSeq(w, 1, l) \in Seq(Byte)
        /\ Len(SubSeq(w, 1, l)) = IF 1 <= l THEN l - 1 + 1 ELSE 0
        /\ \A j \in 1..(l - 1 + 1) : SubSeq(w, 1, l)[j] = w[1 + j - 1]
    BY <1>1, <1>3, SubSeqProperties
  <2>2. Len(SubSeq(w, 1, l)) = l /\ \A j \in 1..l : SubSeq(w, 1, l)[j] = w[j]
    BY <1>1, <2>1
  <2>3. QED
    BY <2>1, <2>2, SeqEqual DEF l
<1>5. Len(SubSeq(w, 1, n)) = n
  <2>1. \A j \in 1..n : w[j] \in Byte
    BY <1>1, <1>3
  <2>2. Len(SubSeq(w, 1, n)) = IF 1 <= n THEN n - 1 + 1 ELSE 0
    BY <1>1, <2>1, SubSeqProperties
  <2>3. QED
    BY <1>1, <2>2
<1>6. QED
  BY <1>1, <1>2, <1>4, <1>5 DEF l

\* The rest of a buffer lies at its end.
LEMMA TailStored ==
  ASSUME NEW w, NEW n, w \in Seq(Byte), n \in 0..Len(w)
  PROVE  Stored(w, n, SubSeq(w, n + 1, Len(w)))
<1> DEFINE v == SubSeq(w, 1, n)
           t == SubSeq(w, n + 1, Len(w))
           a == v \o t
           z == 0
<1>1. v \in Seq(Byte) /\ Len(v) = n /\ t \in Seq(Byte) /\ w = a
  BY Split
<1> HIDE DEF v, t
<1>2. Stored(w, z, w) /\ n \in Nat /\ z + n = n
  <2>1. Len(w) \in Nat
    BY LenProperties
  <2>2. QED
    BY <2>1, StoredWhole
<1> HIDE DEF a, z
<1>3. Stored(w, z, a)
  BY <1>1, <1>2
<1>4. Stored(w, z + Len(v), t)
  BY <1>1, <1>3, StoredParts DEF a
<1>5. QED
  BY <1>1, <1>2, <1>4 DEF t

\* The beginning of a piece is a piece.
LEMMA BeginningStored ==
  ASSUME NEW data, NEW at, NEW w, NEW n, Stored(data, at, w), n \in 0..Len(w)
  PROVE  Stored(data, at, SubSeq(w, 1, n)) /\ Len(SubSeq(w, 1, n)) = n
<1> DEFINE v == SubSeq(w, 1, n)
           t == SubSeq(w, n + 1, Len(w))
           a == v \o t
<1>1. w \in Seq(Byte)
  BY StoredFacts
<1>2. v \in Seq(Byte) /\ Len(v) = n /\ t \in Seq(Byte) /\ w = a
  BY <1>1, Split
<1> HIDE DEF v, t, a
<1>3. Stored(data, at, a)
  BY <1>2
<1>4. Stored(data, at, v)
  BY <1>2, <1>3, StoredParts DEF a
<1>5. QED
  BY <1>2, <1>4 DEF v

\* At first nothing was stepped over.
LEMMA SkippingFirst ==
  ASSUME NEW b, NEW t, CallOK(b), b.kind = "external", t \in Tags(b), Skipped(b, t)
  PROVE  LET data == SubSeq(b.data, b.at + 1, Len(b.data))
         IN  Skipping(b, Call("skip", Entry, 0, data, 0, Len(data)))
<1> DEFINE data == SubSeq(b.data, b.at + 1, Len(b.data))
           c == Call("skip", Entry, 0, data, 0, Len(data))
<1>1. c.val = 0 /\ c.data = data /\ c.at = 0 /\ c.end = Len(data)
  BY DEF Call
<1> HIDE DEF c
<1>2. b.data \in Seq(Byte) /\ b.at \in 0..Len(b.data) /\ Len(b.data) \in Nat
  BY LenProperties DEF CallOK
<1>3. Stored(b.data, b.at, data)
  BY <1>2, TailStored
<1>4. TagPassed(c)
  <2>1. ASSUME NEW r \in ReadTag(data, 0) PROVE r.num > 0 /\ r.type # 4
    <3>1. ReadTag(b.data, b.at) = {[num |-> r.num, type |-> r.type, at |-> b.at + r.at]}
      BY <1>3, <2>1, TagLocal
    <3>2. t \in ReadTag(b.data, b.at) /\ t.type # 4 /\ t.num > 0
      BY DEF Tags
    <3>3. t.num = r.num /\ t.type = r.type
      BY <3>1, <3>2
    <3>4. QED
      BY <3>2, <3>3
  <2>2. QED
    BY <1>1, <2>1 DEF TagPassed
<1>5. SameSkip(c)
  BY <1>1 DEF SameSkip
<1>6. Skipping(b, c)
  BY <1>1, <1>4, <1>5 DEF Skipping
<1>7. QED
  BY <1>6 DEF c

\* It goes on to the next element.
LEMMA SkippingMore ==
  ASSUME NEW b, NEW c, NEW e, CallOK(c), c.kind = "skip", Addressable(c.data), Skipping(b, c),
         e \in Elements(c), e.depth # 0, e.at < c.end
  PROVE  Skipping(b, Moved(c, e.depth, e.at))
<1> DEFINE m == Moved(c, e.depth, e.at)
<1>1. m.val = e.depth /\ m.data = c.data /\ m.at = e.at /\ m.end = c.end /\ m.kind = c.kind
  BY DEF Moved, Call
<1> HIDE DEF m
<1>2. /\ c.data \in Seq(Byte) /\ c.at \in 0..Len(c.data) /\ c.val \in Nat
      /\ Len(c.data) \in Nat /\ c.at \in Nat
  BY LenProperties DEF CallOK, CallValue
<1>3. /\ e.at \in Nat /\ e.depth \in Nat /\ c.at < e.at
      /\ \E t \in ReadTag(c.data, c.at) : t.at <= e.at
  <2>1. e.at \in Nat
    BY <1>2, ElementRead
  <2>2. e.at <= e.at /\ Agree(c.data, c.data, e.at)
    <3>1. e.at <= Len(c.data)
      BY <1>2, <2>1 DEF Skipping
    <3>2. QED
      BY <1>2, <2>1, <3>1 DEF Agree
  <2>3. QED
    BY <1>2, <2>2, ElementLocal
<1>4. TagPassed(m)
  <2>1. \E t \in ReadTag(c.data, 0) : t.at <= e.at
    <3>1. CASE c.at = 0
      BY <1>3, <3>1
    <3>2. CASE c.at # 0
      <4>1. PICK t \in ReadTag(c.data, 0) : t.at <= c.at
        BY <3>2 DEF Skipping, TagPassed
      <4>2. t.at \in Int
        <5>1. 0 \in 0..Len(c.data)
          BY <1>2
        <5>2. t.at \in (0 + 1)..Len(c.data)
          BY <1>2, <5>1, TagRead
        <5>3. QED
          BY <5>2
      <4>3. t.at <= e.at
        BY <1>2, <1>3, <4>1, <4>2
      <4>4. QED
        BY <4>3
    <3>3. QED
      BY <3>1, <3>2
  <2>2. QED
    BY <1>1, <2>1 DEF TagPassed, Skipping
<1>5. ASSUME NEW A, NEW data, NEW field, NEW g, NEW n, n \in Nat, e.at < n, Agree(c.data, data, n),
             Addressable(data),
             Decodes(A, Call("skip", field, e.depth, data, e.at, Len(data)), g)
      PROVE  Decodes(A, Call("skip", field, 0, data, 0, Len(data)), g)
  <2> DEFINE d == Call("skip", field, c.val, data, c.at, Len(data))
             f == Call("skip", field, e.depth, data, e.at, Len(data))
  <2>1. /\ d.kind = "skip" /\ d.data = data /\ d.at = c.at /\ d.val = c.val /\ d.end = Len(data)
        /\ Moved(d, e.depth, e.at) = f
    BY DEF Call, Moved
  <2> HIDE DEF d
  <2>2. Decodes(A, f, g)
    BY <1>5
  <2> HIDE DEF f
  <2>3. e.at <= n /\ c.at < n /\ e.at < Len(data)
    <3>1. n <= Len(data) /\ Len(data) \in Nat
      BY <1>5, LenProperties DEF Agree
    <3>2. QED
      BY <1>2, <1>3, <1>5, <3>1
  <2>4. Elements(d) = {e}
    <3>1. Agree(c.data, d.data, n) /\ d.at = c.at /\ d.val = c.val /\ e.at <= n
      BY <1>5, <2>1, <2>3
    <3>2. QED
      BY ONLY CodecAssumption, WireAssumption, <1>2, <3>1, Addressable(c.data), e \in Elements(c), ElementLocal
  <2>5. Decodes(A, d, g)
    BY <2>1, <2>2, <2>3, <2>4, DecodesSkip
  <2>6. SameSkip(c)
    BY DEF Skipping
  <2>7. QED
    BY <1>5, <2>3, <2>5, <2>6 DEF SameSkip, d
<1>6. SameSkip(m)
  BY <1>1, <1>5 DEF SameSkip
<1>7. Skipping(b, m)
  BY <1>1, <1>4, <1>6 DEF Skipping
<1>8. QED
  BY <1>7 DEF m

\* It ends: what was stepped over is plain.
LEMMA SkippingEnds ==
  ASSUME NEW b, NEW c, NEW e, CallOK(c), c.kind = "skip", Addressable(c.data), Skipping(b, c),
         e \in Elements(c), e.depth = 0, e.at <= Len(c.data)
  PROVE  Plain(SubSeq(c.data, 1, e.at))
<1> DEFINE u == SubSeq(c.data, 1, e.at)
           l == e.at
<1>1. /\ c.data \in Seq(Byte) /\ c.at \in 0..Len(c.data) /\ c.val \in Nat
      /\ Len(c.data) \in Nat /\ c.at \in Nat
  BY LenProperties DEF CallOK, CallValue
<1>2. l \in Nat /\ l \in 0..Len(c.data) /\ l <= Len(c.data)
  <2>1. e.at \in Nat
    BY <1>1, ElementRead
  <2>2. QED
    BY <1>1, <2>1
<1>3. /\ c.at < l /\ \E t \in ReadTag(c.data, c.at) : t.at <= l
  <2>1. l <= l /\ Agree(c.data, c.data, l)
    BY <1>1, <1>2 DEF Agree
  <2>2. QED
    BY <1>1, <2>1, ElementLocal
<1>4. u \in Seq(Byte) /\ Len(u) = l
  <2>1. \A j \in 1..l : c.data[j] \in Byte
    BY <1>1, <1>2, ElementOfSeq
  <2>2. SubSeq(c.data, 1, l) \in Seq(Byte) /\ Len(SubSeq(c.data, 1, l)) = IF 1 <= l THEN l - 1 + 1 ELSE 0
    BY <1>2, <2>1, SubSeqProperties
  <2>3. QED
    BY <1>2, <2>2
<1>5. PICK t \in ReadTag(c.data, 0) : t.at <= l
  <2>1. CASE c.at = 0
    BY <1>3, <2>1
  <2>2. CASE c.at # 0
    <3>1. PICK t \in ReadTag(c.data, 0) : t.at <= c.at
      BY <2>2 DEF Skipping, TagPassed
    <3>2. t.at \in Int
      <4>1. 0 \in 0..Len(c.data)
        BY <1>1
      <4>2. t.at \in (0 + 1)..Len(c.data)
        BY <1>1, <4>1, TagRead
      <4>3. QED
        BY <4>2
    <3>3. t.at <= l
      BY <1>1, <1>2, <1>3, <3>1, <3>2
    <3>4. QED
      BY <3>3
  <2>3. QED
    BY <2>1, <2>2
<1>6. t.num > 0 /\ t.type # 4 /\ t.num \in Int
  <2>1. 0 \in 0..Len(c.data)
    BY <1>1
  <2>2. t.num \in Int
    BY <1>1, <2>1, TagRead
  <2>3. QED
    BY <2>2 DEF Skipping, TagPassed
<1>7. ASSUME NEW data, Stored(data, 0, u)
      PROVE  Agree(c.data, data, l)
  BY <1>1, <1>2, <1>7, StoredAgrees
<1>8. t \in ReadTag(u, 0)
  <2>1. Agree(c.data, u, l)
    BY <1>4, <1>7, StoredWhole
  <2> HIDE DEF u, l
  <2>2. ReadTag(u, 0) = {t}
    <3> DEFINE z == 0
    <3>1. z \in Nat /\ t \in ReadTag(c.data, z)
      BY <1>5
    <3> HIDE DEF z
    <3>2. ReadTag(u, z) = {t}
      BY <1>5, <2>1, <3>1, TagAgrees
    <3>3. QED
      BY <3>2 DEF z
  <2>3. QED
    BY <2>2
<1> HIDE DEF u
<1>9. ASSUME NEW data, NEW at, Stored(data, at, u)
      PROVE  \E r : ReadTag(data, at) = {r} /\ r.num = t.num /\ r.type # 4
  <2> DEFINE r == [num |-> t.num, type |-> t.type, at |-> at + t.at]
  <2>1. ReadTag(data, at) = {r} /\ r.num = t.num /\ r.type = t.type
    BY <1>8, <1>9, TagLocal
  <2> HIDE DEF r
  <2>2. QED
    BY <1>6, <2>1
<1>10. ASSUME NEW A, NEW data, NEW field, Stored(data, 0, u), Addressable(data)
       PROVE  Decodes(A, Call("skip", field, 0, data, 0, Len(data)), Len(u))
  <2> DEFINE d == Call("skip", field, c.val, data, c.at, Len(data))
  <2>1. d.kind = "skip" /\ d.data = data /\ d.at = c.at /\ d.val = c.val
    BY DEF Call
  <2> HIDE DEF d
  <2>2. Agree(c.data, data, l) /\ e.at <= l
    BY <1>2, <1>7, <1>10
  <2>3. Elements(d) = {e}
    BY <1>1, <2>1, <2>2, ElementLocal
  <2>4. Decodes(A, d, l)
    BY <2>1, <2>3, DecodesSkip
  <2>5. SameSkip(c)
    BY DEF Skipping
  <2>6. QED
    BY <1>2, <1>3, <1>4, <1>10, <2>2, <2>4, <2>5 DEF SameSkip, d
<1>11. Skippable(u, t.num)
  BY <1>2, <1>3, <1>1, <1>4, <1>9, <1>10 DEF Skippable
<1>12. Ignores("external", t.num)
  <2>1. Fields("external") = {}
    BY KindsApart DEF Fields
  <2>2. QED
    BY <1>6, <2>1 DEF Ignores
<1>13. ASSUME NEW A, NEW a, a \in Seq(Byte) PROVE Carries(A, "external", u, a, a \o u)
  <2>1. Carries(A, "external", u, a, IF "external" = "external" THEN a \o u ELSE a)
    BY <1>11, <1>12, UnknownCarries
  <2>2. QED
    BY <2>1
<1>14. Plain(u)
  BY <1>4, <1>13 DEF Plain
<1>15. QED
  BY <1>14 DEF u

-----------------------------------------------------------------------------
(* The stack holds nothing but plain external messages, whatever the bytes *)
(* are.                                                                    *)

CallPlain(c) == Addressable(c.data) /\ PlainValue(c.kind, c.val)
PlainStack(s) ==
  /\ \A i \in 1..Len(s) : CallPlain(s[i])
  /\ \A i, j \in 1..Len(s) : j = i + 1 => Linked(s[i], s[j])

\* Any call may have made one as well as the other.
Alike(c, d) == \A b : Linked(b, c) => Linked(b, d)

\* A call that is not of skipOptimism.
LEMMA OthersAlike ==
  ASSUME NEW c, NEW d, d.kind # "skip"
  PROVE  Alike(c, d)
  BY DEF Alike, Linked

\* Another call on top.
LEMMA PlainReplaced ==
  ASSUME NEW s, NEW c, NEW t, s \in Seq(Range(s)), s # <<>>, PlainStack(s), Replaced(s, c, t),
         CallPlain(c), Alike(Last(s), c)
  PROVE  PlainStack(t)
<1> DEFINE n == Len(s)
<1>1. /\ n \in Nat \ {0} /\ Last(s) = s[n]
      /\ Len(t) = n /\ t[n] = c
      /\ \A i \in 1..(n - 1) : t[i] = s[i]
  BY TopReplaced
<1>2. /\ \A i \in 1..n : CallPlain(s[i])
      /\ \A i, j \in 1..n : j = i + 1 => Linked(s[i], s[j])
  BY DEF PlainStack
<1> HIDE DEF n
<1>3. ASSUME NEW i \in 1..n PROVE CallPlain(t[i])
  <2>1. CASE i = n
    BY <1>1, <2>1
  <2>2. CASE i # n
    <3>1. i \in 1..(n - 1)
      BY <1>1, <2>2
    <3>2. QED
      BY <1>1, <1>2, <3>1
  <2>3. QED
    BY <2>1, <2>2
<1>4. ASSUME NEW i \in 1..n, NEW j \in 1..n, j = i + 1 PROVE Linked(t[i], t[j])
  <2>1. Linked(s[i], s[j]) /\ i \in 1..(n - 1) /\ t[i] = s[i]
    BY <1>1, <1>2, <1>4
  <2>2. CASE j = n
    <3>1. Linked(s[i], s[n]) /\ t[j] = c
      BY <1>1, <2>1, <2>2
    <3>2. Linked(s[i], c)
      BY <1>1, <3>1 DEF Alike
    <3>3. QED
      BY <2>1, <3>1, <3>2
  <2>3. CASE j # n
    <3>1. j \in 1..(n - 1)
      BY <1>1, <2>3
    <3>2. QED
      BY <1>1, <2>1, <3>1
  <2>4. QED
    BY <2>2, <2>3
<1>5. QED
  BY <1>1, <1>3, <1>4 DEF PlainStack

\* One more on it.
LEMMA PlainCalled ==
  ASSUME NEW s, NEW c, NEW d, NEW t, s \in Seq(Range(s)), s # <<>>, PlainStack(s), Called(s, c, d, t),
         CallPlain(c), CallPlain(d), Alike(Last(s), c), Linked(c, d)
  PROVE  PlainStack(t)
<1> DEFINE n == Len(s)
           m == n + 1
<1>1. /\ n \in Nat \ {0} /\ Last(s) = s[n]
      /\ Len(t) = m /\ t[n] = c /\ t[m] = d
      /\ \A i \in 1..(n - 1) : t[i] = s[i]
  BY TopCalled
<1>2. /\ \A i \in 1..n : CallPlain(s[i])
      /\ \A i, j \in 1..n : j = i + 1 => Linked(s[i], s[j])
  BY DEF PlainStack
<1>3. m \in Nat /\ m = n + 1
  BY <1>1
<1> HIDE DEF n, m
<1>4. ASSUME NEW i \in 1..m PROVE CallPlain(t[i])
  <2>1. CASE i = n \/ i = m
    BY <1>1, <2>1
  <2>2. CASE i # n /\ i # m
    <3>1. i \in 1..(n - 1) /\ i \in 1..n
      BY <1>1, <1>3, <2>2
    <3>2. QED
      BY <1>1, <1>2, <3>1
  <2>3. QED
    BY <2>1, <2>2
<1>5. ASSUME NEW i \in 1..m, NEW j \in 1..m, j = i + 1 PROVE Linked(t[i], t[j])
  <2>1. CASE j = m
    <3>1. i = n
      BY <1>1, <1>3, <1>5, <2>1
    <3>2. QED
      BY <1>1, <2>1, <3>1
  <2>2. CASE j # m
    <3>1. i \in 1..(n - 1) /\ i \in 1..n /\ j \in 1..n
      BY <1>1, <1>3, <1>5, <2>2
    <3>2. Linked(s[i], s[j]) /\ t[i] = s[i]
      BY <1>1, <1>2, <1>5, <3>1
    <3>3. CASE j = n
      <4>1. Linked(s[i], s[n]) /\ t[j] = c
        BY <1>1, <3>2, <3>3
      <4>2. Linked(s[i], c)
        BY <1>1, <4>1 DEF Alike
      <4>3. QED
        BY <3>2, <4>1, <4>2
    <3>4. CASE j # n
      <4>1. j \in 1..(n - 1)
        BY <1>1, <3>1, <3>4
      <4>2. QED
        BY <1>1, <3>2, <4>1
    <3>5. QED
      BY <3>3, <3>4
  <2>3. QED
    BY <2>1, <2>2
<1>6. QED
  BY <1>1, <1>4, <1>5 DEF PlainStack

\* Its caller on top, which goes on.
LEMMA PlainReturned ==
  ASSUME NEW s, NEW c, NEW t, s \in Seq(Range(s)), s # <<>>, Front(s) # <<>>, PlainStack(s),
         Returned(s, c, t), CallPlain(c), Alike(Last(Front(s)), c)
  PROVE  PlainStack(t)
<1> DEFINE n == Len(s)
           k == n - 1
<1>1. /\ n \in Nat \ {0, 1} /\ Last(Front(s)) = s[k]
      /\ Len(t) = k /\ t[k] = c
      /\ \A i \in 1..(n - 2) : t[i] = s[i]
  BY TopReturned
<1>2. /\ \A i \in 1..n : CallPlain(s[i])
      /\ \A i, j \in 1..n : j = i + 1 => Linked(s[i], s[j])
  BY DEF PlainStack
<1>3. k \in Nat \ {0} /\ n = k + 1 /\ n - 2 = k - 1
  BY <1>1
<1> HIDE DEF n, k
<1>4. ASSUME NEW i \in 1..k PROVE CallPlain(t[i])
  <2>1. CASE i = k
    BY <1>1, <2>1
  <2>2. CASE i # k
    <3>1. i \in 1..(n - 2) /\ i \in 1..n
      BY <1>1, <1>3, <2>2
    <3>2. QED
      BY <1>1, <1>2, <3>1
  <2>3. QED
    BY <2>1, <2>2
<1>5. ASSUME NEW i \in 1..k, NEW j \in 1..k, j = i + 1 PROVE Linked(t[i], t[j])
  <2>1. i \in 1..(n - 2) /\ i \in 1..n /\ j \in 1..n
    BY <1>1, <1>3, <1>5
  <2>2. Linked(s[i], s[j]) /\ t[i] = s[i]
    BY <1>1, <1>2, <1>5, <2>1
  <2>3. CASE j = k
    <3>1. Linked(s[i], s[k]) /\ t[j] = c
      BY <1>1, <2>2, <2>3
    <3>2. Linked(s[i], c)
      BY <1>1, <3>1 DEF Alike
    <3>3. QED
      BY <2>2, <3>1, <3>2
  <2>4. CASE j # k
    <3>1. j \in 1..(n - 2)
      BY <1>1, <1>3, <1>5, <2>4
    <3>2. QED
      BY <1>1, <2>2, <3>1
  <2>5. QED
    BY <2>3, <2>4
<1>6. QED
  BY <1>1, <1>4, <1>5 DEF PlainStack

\* No call.
LEMMA PlainEmpty == PlainStack(<<>>)
<1>1. Len(<<>>) = 0
  BY EmptySeq
<1>2. 1..0 = {}
  OBVIOUS
<1>3. QED
  BY <1>1, <1>2 DEF PlainStack

\* A part of a slice is no longer than the slice.
LEMMA PartAddressable ==
  ASSUME NEW data, NEW m, NEW n, data \in Seq(Byte), Addressable(data), m \in Nat, n \in 0..Len(data)
  PROVE  Addressable(SubSeq(data, m + 1, n))
<1> DEFINE l == Len(data)
           i == m + 1
           k == n - i + 1
<1>1. l \in Nat /\ i \in 1..(m + 1) /\ i \in Int /\ n \in Int /\ i >= 1 /\ n <= l /\ k \in Int /\ k <= l
  BY LenProperties
<1>2. \A j \in i..n : data[j] \in Byte
  BY <1>1, ElementOfSeq
<1>3. Pow2[Word - 1] \in Nat /\ l < Pow2[Word - 1]
  BY PowPositive, WireAssumption DEF Addressable
<1> HIDE DEF i, l
<1>4. Len(SubSeq(data, i, n)) = IF i <= n THEN n - i + 1 ELSE 0
  BY <1>1, <1>2, SubSeqProperties
<1> HIDE DEF k
<1>5. Len(SubSeq(data, i, n)) <= l /\ Len(SubSeq(data, i, n)) \in Int
  BY <1>1, <1>4 DEF k, l
<1>6. Len(SubSeq(data, i, n)) < Pow2[Word - 1]
  BY <1>1, <1>3, <1>5
<1>7. QED
  BY <1>6 DEF Addressable, i

-----------------------------------------------------------------------------
(* Each step keeps the stack plain.                                        *)

\* The topmost call.
LEMMA TopPlain ==
  ASSUME IInv, res = "run", PlainStack(calls)
  PROVE  /\ calls # <<>> /\ calls \in Seq(Range(calls))
         /\ CallOK(Top) /\ CallPlain(Top) /\ Addressable(Top.data) /\ Top.data \in Seq(Byte)
<1>1. calls # <<>> /\ calls \in Seq(Range(calls)) /\ CallOK(Top)
  BY Runs DEF Stack
<1>2. Top = calls[Len(calls)] /\ Len(calls) \in Nat \ {0}
  BY <1>1, FrontParts DEF Top
<1>3. Len(calls) \in 1..Len(calls)
  BY <1>2
<1>4. CallPlain(Top)
  BY <1>2, <1>3 DEF PlainStack
<1>5. QED
  BY <1>1, <1>4 DEF CallPlain, CallOK

\* A call goes on with another value.
LEMMA GoesOnPlain ==
  ASSUME IInv, res = "run", PlainStack(calls), NEW v, NEW i, Top.kind # "skip",
         PlainValue(Top.kind, v), Continue(Moved(Top, v, i))
  PROVE  PlainStack(calls')
<1>1. calls # <<>> /\ calls \in Seq(Range(calls)) /\ Addressable(Top.data)
  BY TopPlain
<1> DEFINE c == Moved(Top, v, i)
<1>2. c.kind = Top.kind /\ c.data = Top.data /\ c.val = v
  BY DEF Moved, Call
<1>3. Replaced(calls, c, calls')
  BY DEF Continue, Below, Replaced
<1> HIDE DEF c
<1>4. CallPlain(c)
  BY <1>1, <1>2 DEF CallPlain
<1>5. Alike(Last(calls), c)
  BY <1>2, OthersAlike
<1>6. QED
  BY <1>1, <1>3, <1>4, <1>5, PlainReplaced

\* A call makes another one.
LEMMA CallsPlain ==
  ASSUME IInv, res = "run", PlainStack(calls), NEW i, NEW d, Top.kind # "skip", d.kind # "skip",
         CallPlain(d), calls' = Below \o <<Moved(Top, Top.val, i), d>>
  PROVE  PlainStack(calls')
<1>1. calls # <<>> /\ calls \in Seq(Range(calls)) /\ CallPlain(Top)
  BY TopPlain
<1> DEFINE c == Moved(Top, Top.val, i)
<1>2. c.kind = Top.kind /\ c.data = Top.data /\ c.val = Top.val
  BY DEF Moved, Call
<1>3. Called(calls, c, d, calls')
  BY DEF Called, Below
<1> HIDE DEF c
<1>4. CallPlain(c)
  BY <1>1, <1>2 DEF CallPlain
<1>5. Alike(Last(calls), c) /\ Linked(c, d)
  BY <1>2, OthersAlike DEF Linked
<1>6. QED
  BY <1>1, <1>3, <1>4, <1>5, PlainCalled

\* The field a tag leads to holds no others.
LEMMA FieldIsPlain ==
  ASSUME NEW c, NEW t, NEW f, CallOK(c), CallPlain(c), t \in Tags(c), f \in Case(c, t)
  PROVE  /\ f \in Fields(c.kind) /\ c.kind \in Kinds /\ IsMessage(c.kind, c.val)
         /\ PlainMessage(c.kind, c.val) /\ PlainField(f, c.val[f.name])
         /\ Wellformed(f) /\ Fits(f, c.val[f.name])
<1>1. /\ f \in Fields(c.kind) /\ c.kind \in Kinds /\ IsMessage(c.kind, c.val)
      /\ Wellformed(f) /\ Fits(f, c.val[f.name])
  BY FieldRead
<1>2. PlainMessage(c.kind, c.val)
  BY <1>1 DEF CallPlain, PlainValue
<1>3. QED
  BY <1>1, <1>2 DEF PlainMessage

\* A number, a flag or bytes.
LEMMA OtherUpdated ==
  ASSUME NEW c, NEW t, NEW f, NEW v, CallOK(c), CallPlain(c), t \in Tags(c), f \in Case(c, t),
         f.kind \notin {"external", "duration", "message", "message list"}
  PROVE  PlainValue(c.kind, [c.val EXCEPT ![f.name] = v])
<1>1. /\ f \in Fields(c.kind) /\ c.kind \in Kinds /\ IsMessage(c.kind, c.val)
      /\ PlainMessage(c.kind, c.val)
  BY FieldIsPlain
<1>2. PlainField(f, v)
  BY OtherPlain
<1>3. PlainMessage(c.kind, [c.val EXCEPT ![f.name] = v])
  BY <1>1, <1>2, PlainUpdated
<1>4. QED
  BY <1>1, <1>3, KindsApart DEF PlainValue

\* A scalar that was read is plain.
LEMMA ScalarPlain ==
  ASSUME IInv, PlainStack(calls), Scalar
  PROVE  PlainStack(calls')
<1>1. res = "run" /\ Top.kind # "skip"
  BY DEF Scalar, InLoop
<1>2. CallOK(Top) /\ CallPlain(Top)
  BY <1>1, TopPlain
<1>3. PICK t \in Tags(Top) : \E field \in Case(Top, t) :
        /\ IsScalar(field)
        /\ \E v \in Scalars(Top, t, field) :
             Continue(Moved(Top, [Top.val EXCEPT ![field.name] = v.value], v.at))
  BY DEF Scalar
<1>4. PICK field \in Case(Top, t) :
        /\ IsScalar(field)
        /\ \E v \in Scalars(Top, t, field) :
             Continue(Moved(Top, [Top.val EXCEPT ![field.name] = v.value], v.at))
  BY <1>3
<1>5. PICK v \in Scalars(Top, t, field) :
        Continue(Moved(Top, [Top.val EXCEPT ![field.name] = v.value], v.at))
  BY <1>4
<1> HIDE DEF Top
<1>6. field.kind \notin {"external", "duration", "message", "message list"}
  BY <1>4 DEF IsScalar
<1>7. PlainValue(Top.kind, [Top.val EXCEPT ![field.name] = v.value])
  BY <1>2, <1>6, OtherUpdated
<1>8. QED
  BY <1>1, <1>5, <1>7, GoesOnPlain

\* A string that was read is plain.
LEMMA StringPlain ==
  ASSUME IInv, PlainStack(calls), String
  PROVE  PlainStack(calls')
<1>1. res = "run" /\ Top.kind # "skip"
  BY DEF String, InLoop
<1>2. CallOK(Top) /\ CallPlain(Top)
  BY <1>1, TopPlain
<1>3. PICK t \in Tags(Top) : \E field \in Case(Top, t), d \in Contents(Top, t) :
        LET bytes == Slice(Top.data, d)
            value == IF field.kind = "bytes" THEN bytes ELSE Append(Top.val[field.name], bytes)
        IN  /\ field.kind \in {"bytes", "bytes list"}
            /\ Continue(Moved(Top, [Top.val EXCEPT ![field.name] = value], d.post))
  BY DEF String
<1>4. PICK field \in Case(Top, t), d \in Contents(Top, t) :
        LET bytes == Slice(Top.data, d)
            value == IF field.kind = "bytes" THEN bytes ELSE Append(Top.val[field.name], bytes)
        IN  /\ field.kind \in {"bytes", "bytes list"}
            /\ Continue(Moved(Top, [Top.val EXCEPT ![field.name] = value], d.post))
  BY <1>3
<1> HIDE DEF Top
<1> DEFINE bytes == Slice(Top.data, d)
           value == IF field.kind = "bytes" THEN bytes ELSE Append(Top.val[field.name], bytes)
<1>5. Continue(Moved(Top, [Top.val EXCEPT ![field.name] = value], d.post))
  BY <1>4
<1> HIDE DEF value
<1>6. PlainValue(Top.kind, [Top.val EXCEPT ![field.name] = value])
  BY <1>2, <1>4, OtherUpdated
<1>7. QED
  BY <1>1, <1>5, <1>6, GoesOnPlain

\* A map's entry holds none.
LEMMA EntryPlain ==
  ASSUME IInv, PlainStack(calls), EntryKey \/ EntryValue
  PROVE  PlainStack(calls')
<1>1. res = "run" /\ Top.kind = "MapEntry"
  BY DEF EntryKey, EntryValue, InLoop
<1>2. \E v, i : Continue(Moved(Top, v, i))
  <2> HIDE DEF Top
  <2>1. CASE EntryKey
    BY <2>1 DEF EntryKey
  <2>2. CASE EntryValue
    BY <2>2 DEF EntryValue
  <2>3. QED
    BY <2>1, <2>2
<1>3. PICK v, i : Continue(Moved(Top, v, i))
  BY <1>2
<1>4. \A w : PlainValue("MapEntry", w)
  BY KindsApart DEF PlainValue
<1> HIDE DEF Top
<1>5. PlainValue(Top.kind, v) /\ Top.kind # "skip"
  BY <1>1, <1>4
<1>6. QED
  BY <1>1, <1>3, <1>5, GoesOnPlain

\* A nested message, an external one or a duration.
LEMMA NestedPlain ==
  ASSUME IInv, PlainStack(calls), Nested
  PROVE  PlainStack(calls')
<1>1. res = "run" /\ Top.kind # "skip"
  BY DEF Nested, InLoop
<1>2. CallOK(Top) /\ CallPlain(Top) /\ Addressable(Top.data) /\ Top.data \in Seq(Byte)
  BY <1>1, TopPlain
<1>3. PICK t \in Tags(Top) : \E field \in Case(Top, t), d \in Contents(Top, t) :
        LET data == Slice(Top.data, d)
        IN  /\ field.kind \in {"message", "message list", "external", "duration"}
            /\ calls' = Below \o
                 <<Moved(Top, Top.val, d.post),
                   Call(field.of, field, Started(field, Top.val[field.name]), data, 0, Len(data))>>
  BY DEF Nested
<1>4. PICK field \in Case(Top, t), d \in Contents(Top, t) :
        LET data == Slice(Top.data, d)
        IN  /\ field.kind \in {"message", "message list", "external", "duration"}
            /\ calls' = Below \o
                 <<Moved(Top, Top.val, d.post),
                   Call(field.of, field, Started(field, Top.val[field.name]), data, 0, Len(data))>>
  BY <1>3
<1> HIDE DEF Top, Below
<1> DEFINE data == Slice(Top.data, d)
           old == Top.val[field.name]
           c == Call(field.of, field, Started(field, old), data, 0, Len(data))
<1>5. Wellformed(field) /\ Fits(field, old) /\ PlainField(field, old)
  BY <1>2, FieldIsPlain
<1>6. d.from \in 0..Len(Top.data) /\ d.post \in 0..Len(Top.data)
  BY <1>2, ContentsRead
<1>7. Addressable(data)
  <2>1. d.from \in Nat
    BY <1>6
  <2>2. QED
    BY <1>2, <1>6, <2>1, PartAddressable DEF Slice
<1>8. PlainValue(field.of, Started(field, old))
  BY <1>4, <1>5, StartedPlain
<1>9. c.kind = field.of /\ c.data = data /\ c.val = Started(field, old)
  BY DEF Call
<1>10. calls' = Below \o <<Moved(Top, Top.val, d.post), c>>
  BY <1>4
<1> HIDE DEF data, old, c
<1>11. CallPlain(c)
  BY <1>7, <1>8, <1>9 DEF CallPlain
<1>12. c.kind # "skip"
  <2>1. field.of \in Simple \/ field.of = "external"
    BY <1>4, <1>5 DEF Wellformed
  <2>2. QED
    BY <1>9, <2>1, KindsApart
<1>13. QED
  BY <1>1, <1>10, <1>11, <1>12, CallsPlain

\* A map's entry.
LEMMA OpenEntryPlain ==
  ASSUME IInv, PlainStack(calls), OpenEntry
  PROVE  PlainStack(calls')
<1>1. res = "run" /\ Top.kind # "skip"
  BY DEF OpenEntry, InLoop
<1>2. CallOK(Top) /\ CallPlain(Top) /\ Addressable(Top.data)
  BY <1>1, TopPlain
<1>3. PICK t \in Tags(Top) : \E field \in Case(Top, t), d \in Contents(Top, t) :
        /\ field.kind = "map"
        /\ calls' = Below \o
             <<Moved(Top, Top.val, d.post),
               Call(field.of, field, [key |-> <<>>, value |-> 0], Top.data, d.from, d.post)>>
  BY DEF OpenEntry
<1>4. PICK field \in Case(Top, t), d \in Contents(Top, t) :
        /\ field.kind = "map"
        /\ calls' = Below \o
             <<Moved(Top, Top.val, d.post),
               Call(field.of, field, [key |-> <<>>, value |-> 0], Top.data, d.from, d.post)>>
  BY <1>3
<1> HIDE DEF Top, Below
<1> DEFINE c == Call(field.of, field, [key |-> <<>>, value |-> 0], Top.data, d.from, d.post)
<1>5. field.of = "MapEntry"
  <2>1. Wellformed(field)
    BY <1>2, FieldIsPlain
  <2>2. QED
    BY <1>4, <2>1 DEF Wellformed
<1>6. c.kind = "MapEntry" /\ c.data = Top.data
  BY <1>5 DEF Call
<1>7. calls' = Below \o <<Moved(Top, Top.val, d.post), c>>
  BY <1>4
<1> HIDE DEF c
<1>8. CallPlain(c)
  BY <1>2, <1>6, KindsApart DEF CallPlain, PlainValue
<1>9. QED
  BY <1>1, <1>6, <1>7, <1>8, CallsPlain

\* An unknown field.
LEMMA OpenSkipPlain ==
  ASSUME IInv, PlainStack(calls), OpenSkip
  PROVE  PlainStack(calls')
<1>1. res = "run" /\ Top.kind # "skip"
  BY DEF OpenSkip, InLoop
<1>2. /\ calls # <<>> /\ calls \in Seq(Range(calls))
      /\ CallOK(Top) /\ CallPlain(Top) /\ Addressable(Top.data) /\ Top.data \in Seq(Byte)
  BY <1>1, TopPlain
<1> DEFINE data == SubSeq(Top.data, Top.at + 1, Len(Top.data))
           d == Call("skip", Entry, 0, data, 0, Len(data))
<1>3. calls' = Append(calls, d)
  BY DEF OpenSkip
<1>4. d.kind = "skip" /\ d.data = data
  BY DEF Call
<1>5. PICK t \in Tags(Top) : Skipped(Top, t)
  BY DEF OpenSkip
<1>6. Linked(Top, d)
  BY <1>2, <1>5, SkippingFirst DEF Linked
<1> HIDE DEF d
<1>7. Called(calls, Top, d, calls')
  BY <1>2, <1>3, AppendCalled DEF Top
<1>8. Addressable(data)
  <2>1. Top.at \in Nat /\ Len(Top.data) \in 0..Len(Top.data)
    BY <1>2, LenProperties DEF CallOK
  <2>2. QED
    BY <1>2, <2>1, PartAddressable
<1>9. CallPlain(d)
  BY <1>4, <1>8, KindsApart DEF CallPlain, PlainValue
<1>10. Alike(Last(calls), Top)
  BY DEF Alike, Top
<1>11. QED
  BY <1>2, <1>6, <1>7, <1>9, <1>10, PlainCalled

\* skipOptimism goes on.
LEMMA SkipMorePlain ==
  ASSUME IInv, PlainStack(calls), SkipMore
  PROVE  PlainStack(calls')
<1>1. res = "run" /\ Top.kind = "skip"
  BY DEF SkipMore
<1>2. /\ calls # <<>> /\ calls \in Seq(Range(calls))
      /\ CallOK(Top) /\ Addressable(Top.data)
  BY <1>1, TopPlain
<1>3. PICK e \in Elements(Top) : e.depth > 0 /\ e.at < Top.end /\ Continue(Moved(Top, e.depth, e.at))
  BY DEF SkipMore
<1>4. e.depth # 0
  <2>1. e.depth \in Nat
    BY <1>1, <1>2, ElementRead DEF CallOK, CallValue
  <2>2. QED
    BY <1>3, <2>1
<1> DEFINE c == Moved(Top, e.depth, e.at)
<1>5. c.kind = Top.kind /\ c.data = Top.data
  BY DEF Moved, Call
<1>6. Replaced(calls, c, calls')
  BY <1>3 DEF Continue, Below, Replaced
<1>7. Alike(Top, c)
  <2>1. ASSUME NEW b, Skipping(b, Top) PROVE Skipping(b, c)
    BY <1>1, <1>2, <1>3, <1>4, <2>1, SkippingMore
  <2>2. QED
    BY <1>1, <2>1 DEF Alike, Linked
<1> HIDE DEF c
<1>8. CallPlain(c)
  BY <1>1, <1>2, <1>5, KindsApart DEF CallPlain, PlainValue
<1>9. QED
  BY <1>2, <1>6, <1>7, <1>8, PlainReplaced DEF Top

-----------------------------------------------------------------------------
(* Numbers below a word's range.                                           *)

\* An index that is less than the range of a word and no negative int.
LEMMA WrapSmall ==
  ASSUME NEW a, NEW b, a \in Nat, b \in Nat, a + b < Pow2[Word], Wrap(a + b) >= 0
  PROVE  Wrap(a + b) = a + b
<1> DEFINE p == Pow2[Word - 1]
           s == a + b
<1>1. p \in Nat \ {0} /\ Pow2[Word] = 2 * p
  BY PowRecursion, PowPositive, WireAssumption
<1>2. s \in 0..(Pow2[Word] - 1) /\ Pow2[Word] \in Nat \ {0} /\ s \in Nat
  BY <1>1
<1>3. s % Pow2[Word] = s
  BY <1>2, ModSmall
<1>4. Wrap(s) = IF s >= p THEN s - 2 * p ELSE s
  BY <1>1, <1>3 DEF Wrap, Signed
<1>5. s < 2 * p
  BY <1>1, <1>2
<1> HIDE DEF p
<1>6. Wrap(s) >= 0
  OBVIOUS
<1> HIDE DEF s
<1>7. Wrap(s) = s
  BY <1>1, <1>2, <1>4, <1>5, <1>6
<1>8. QED
  BY <1>7 DEF s

\* An index of a slice is less than half the range of a word, whatever it is computed from.
LEMMA WrapHalf ==
  ASSUME NEW x, NEW y, x \in Nat, y \in Nat
  PROVE  Wrap(x + y) < Pow2[Word - 1]
<1> DEFINE p == Pow2[Word - 1]
           r == (x + y) % Pow2[Word]
<1>1. p \in Nat \ {0} /\ Pow2[Word] = 2 * p
  BY PowRecursion, PowPositive, WireAssumption
<1>2. r \in 0..(2 * p - 1)
  BY <1>1
<1>3. Wrap(x + y) = IF r >= p THEN r - 2 * p ELSE r
  BY <1>1 DEF Wrap, Signed
<1> HIDE DEF p, r
<1>4. (IF r >= p THEN r - 2 * p ELSE r) < p
  BY <1>1, <1>2
<1>5. QED
  BY <1>3, <1>4 DEF p

\* An element ends at most eight bytes past the end of the slice, or at an int that was
\* computed from a length.
LEMMA ElementBound ==
  ASSUME NEW c, NEW e, c.data \in Seq(Byte), c.at \in 0..Len(c.data), c.val \in Nat, e \in Elements(c)
  PROVE  e.at \in Nat /\ (e.at <= Len(c.data) + 8 \/ e.at < Pow2[Word - 1])
<1>1. PICK t \in ReadTag(c.data, c.at) : \E i \in Past(c, t) : e = [at |-> i, depth |-> Depth(c, t)]
  BY DEF Elements
<1>2. PICK i \in Past(c, t) : e = [at |-> i, depth |-> Depth(c, t)]
  BY <1>1
<1>3. e.at = i /\ e.at \in Nat
  BY <1>2, ElementRead
<1>4. t.type \in 0..7 /\ t.at \in (c.at + 1)..Len(c.data) /\ Len(c.data) \in Nat
  BY TagRead, LenProperties
<1>5. t.at \in Nat /\ t.at \in 0..Len(c.data) /\ t.at <= Len(c.data)
  BY <1>4
<1>6. ASSUME NEW v \in ReadVarint(c.data, t.at)
      PROVE  v.at \in Nat /\ v.at <= Len(c.data) /\ v.value \in Nat
  <2>1. v.at \in (t.at + 1)..Len(c.data) /\ v.value \in Nat
    BY <1>5, VarintRead, UintValues
  <2>2. QED
    BY <1>4, <1>5, <2>1
<1>7. CASE t.type = 0
  <2>1. PICK v \in ReadVarint(c.data, t.at) : i = v.at
    BY <1>7, PastCases
  <2>2. i <= Len(c.data) + 8
    BY <1>4, <1>6, <2>1
  <2>3. QED
    BY <1>3, <2>2
<1>8. CASE t.type = 2
  <2>1. PICK v \in ReadVarint(c.data, t.at) : i = Wrap(v.at + v.value)
    BY <1>8, PastCases
  <2>2. i < Pow2[Word - 1]
    BY <1>6, <2>1, WrapHalf
  <2>3. QED
    BY <1>3, <2>2
<1>9. CASE t.type \notin {0, 2}
  <2>1. i \in {t.at + 8, t.at, t.at + 4}
    BY <1>4, <1>9, PastCases
  <2>2. i <= Len(c.data) + 8
    BY <1>4, <1>5, <2>1
  <2>3. QED
    BY <1>3, <2>2
<1>10. QED
  BY <1>7, <1>8, <1>9

\* The sum of an index and such a length is below the range of a word.
LEMMA BelowWord ==
  ASSUME NEW n, NEW a, NEW k, NEW b, n \in Nat, a \in Nat, k \in Nat, b \in Nat,
         a + k = n, n < Pow2[Word - 1], b <= k + 8 \/ b < Pow2[Word - 1]
  PROVE  a + b < Pow2[Word]
<1> DEFINE p == Pow2[Word - 1]
<1>1. p \in Nat \ {0} /\ Pow2[Word] = 2 * p
  BY PowRecursion, PowPositive, WireAssumption
<1>2. Pow2[3] <= p /\ Pow2[3] = 8
  <2>1. Pow2[3] = 8
    BY PowRecursion, WireAssumption
  <2>2. QED
    BY <2>1, PowMonotone, WireAssumption
<1> HIDE DEF p
<1>3. a + b < 2 * p
  BY <1>1, <1>2 DEF p
<1>4. QED
  BY <1>1, <1>3

-----------------------------------------------------------------------------
(* What an external message holds when its call ends.                      *)

\* An external message steps over no more than what skipOptimism read.
LEMMA StepsOver ==
  ASSUME NEW c, NEW d, NEW e, NEW i, CallOK(c), c.kind = "external", CallOK(d), d.kind = "skip",
         Addressable(c.data), Skipping(c, d), e \in Elements(d), i \in Resumed(c, e.at)
  PROVE  /\ i = c.at + e.at /\ i \in 0..Len(c.data) /\ e.at \in 0..Len(d.data)
         /\ c.at \in Nat /\ e.at \in Nat
<1> DEFINE n == Len(c.data)
           k == Len(d.data)
           a == c.at
           b == e.at
<1>1. /\ c.data \in Seq(Byte) /\ a \in 0..n /\ n \in Nat /\ a \in Nat /\ a <= n /\ n < Pow2[Word - 1]
      /\ d.data \in Seq(Byte) /\ d.at \in 0..Len(d.data) /\ d.val \in Nat /\ k \in Nat
  BY LenProperties DEF CallOK, CallValue, Addressable
<1>2. a + k = n
  <2>1. Stored(c.data, a, d.data)
    BY <1>1, TailStored DEF Skipping
  <2>2. /\ SubSeq(c.data, 1, a) \in Seq(Byte) /\ Len(SubSeq(c.data, 1, a)) = a
        /\ d.data \in Seq(Byte)
        /\ c.data = SubSeq(c.data, 1, a) \o d.data
    <3> DEFINE y == c.data
    <3>1. y \in Seq(Byte) /\ a \in 0..Len(y)
      BY <1>1
    <3>2. d.data = SubSeq(y, a + 1, Len(y))
      BY DEF Skipping
    <3> HIDE DEF y, a
    <3>3. /\ SubSeq(y, 1, a) \in Seq(Byte) /\ Len(SubSeq(y, 1, a)) = a
          /\ y = SubSeq(y, 1, a) \o SubSeq(y, a + 1, Len(y))
      BY <3>1, Split
    <3>4. QED
      BY <1>1, <3>2, <3>3 DEF y
  <2> DEFINE v == SubSeq(c.data, 1, a)
             w == d.data
  <2>3. v \in Seq(Byte) /\ w \in Seq(Byte) /\ Len(v) = a /\ c.data = v \o w
    BY <2>2
  <2> HIDE DEF v, w
  <2>4. Len(v \o w) = Len(v) + Len(w)
    BY <2>3, Concat
  <2>5. QED
    BY <2>3, <2>4 DEF w
<1>3. b \in Nat /\ (b <= k + 8 \/ b < Pow2[Word - 1])
  BY <1>1, ElementBound
<1>4. i = Wrap(a + b) /\ i >= 0 /\ i <= n
  <2>1. c.kind # "MapEntry"
    BY KindsApart
  <2>2. QED
    BY <2>1 DEF Resumed
<1> HIDE DEF n, k, a, b
<1>5. a + b < Pow2[Word]
  BY <1>1, <1>2, <1>3, BelowWord
<1>6. i = a + b
  BY <1>1, <1>3, <1>4, <1>5, WrapSmall
<1>7. i \in 0..n /\ b \in 0..k
  BY <1>1, <1>2, <1>3, <1>4, <1>6
<1>8. QED
  BY <1>1, <1>3, <1>6, <1>7 DEF n, k, a, b

\* What it keeps of it is plain.
LEMMA BytesKept ==
  ASSUME NEW c, NEW d, NEW e, NEW i, CallOK(c), c.kind = "external", CallOK(d), d.kind = "skip",
         Addressable(c.data), Addressable(d.data), Skipping(c, d), e \in Elements(d), e.depth = 0,
         i \in Resumed(c, e.at)
  PROVE  Plain(SubSeq(c.data, c.at + 1, i))
<1> DEFINE u == SubSeq(d.data, 1, e.at)
<1>1. /\ i = c.at + e.at /\ i \in 0..Len(c.data) /\ e.at \in 0..Len(d.data)
      /\ c.at \in Nat /\ e.at \in Nat
  BY StepsOver
<1>2. e.at <= Len(d.data)
  <2>1. Len(d.data) \in Nat
    BY LenProperties DEF CallOK
  <2>2. QED
    BY <1>1, <2>1
<1>3. Plain(u)
  BY <1>2, SkippingEnds
<1>4. Stored(c.data, c.at, u) /\ Len(u) = e.at
  <2>1. c.data \in Seq(Byte) /\ c.at \in 0..Len(c.data)
    BY DEF CallOK
  <2>2. Stored(c.data, c.at, d.data)
    BY <2>1, TailStored DEF Skipping
  <2>3. QED
    BY <1>1, <2>2, BeginningStored
<1> HIDE DEF u
<1>5. SubSeq(c.data, c.at + 1, c.at + Len(u)) = u
  BY <1>4, StoredSlice
<1>6. QED
  BY <1>1, <1>3, <1>4, <1>5

\* The value of an external message, and of any other, after an unknown field.
LEMMA ValueAfterSkip ==
  ASSUME NEW c, NEW d, NEW e, NEW i, CallOK(c), CallPlain(c), CallOK(d), CallPlain(d), d.kind = "skip",
         Linked(c, d), e \in Elements(d), e.depth = 0, i \in Resumed(c, e.at)
  PROVE  PlainValue(c.kind, IF c.kind = "external" THEN c.val \o SubSeq(c.data, c.at + 1, i) ELSE c.val)
<1>1. CASE c.kind = "external"
  <2>1. Plain(SubSeq(c.data, c.at + 1, i))
    BY <1>1, BytesKept DEF CallPlain, Linked
  <2>2. Plain(c.val)
    BY <1>1 DEF CallPlain, PlainValue
  <2>3. Plain(c.val \o SubSeq(c.data, c.at + 1, i))
    BY <2>1, <2>2, PlainConcat
  <2>4. QED
    BY <1>1, <2>3, KindsApart DEF PlainValue
<1>2. CASE c.kind # "external"
  BY <1>2 DEF CallPlain
<1>3. QED
  BY <1>1, <1>2

\* The topmost call has a caller, which is plain and linked to it.
LEMMA CallerPlain ==
  ASSUME IInv, res = "run", PlainStack(calls), Below # <<>>
  PROVE  /\ CallOK(Last(Below)) /\ CalledBy(Last(Below), Top) /\ CallPlain(Last(Below))
         /\ Linked(Last(Below), Top)
         /\ \A c, t : Returned(calls, c, t) /\ CallPlain(c) /\ c.kind # "skip" => PlainStack(t)
<1>1. calls # <<>> /\ calls \in Seq(Range(calls)) /\ Stack(sent.kind, calls)
  BY Runs DEF Stack
<1>2. CallOK(Last(Below)) /\ CalledBy(Last(Below), Top)
  BY <1>1, TopAndBelow DEF Below, Top
<1> DEFINE t == Append(Front(Front(calls)), 0)
           n == Len(calls)
           k == n - 1
<1>3. Returned(calls, 0, t)
  BY DEF Returned
<1> HIDE DEF t
<1>4. n \in Nat \ {0, 1} /\ Top = calls[n] /\ Last(Below) = calls[k]
  BY <1>1, <1>3, TopReturned DEF Below, Top
<1> HIDE DEF n
<1>5. k \in 1..n /\ n \in 1..n /\ n = k + 1
  BY <1>4
<1> HIDE DEF k
<1>6. CallPlain(Last(Below)) /\ Linked(Last(Below), Top)
  BY <1>4, <1>5 DEF PlainStack, n
<1>7. ASSUME NEW c, NEW s, Returned(calls, c, s), CallPlain(c), c.kind # "skip"
      PROVE  PlainStack(s)
  BY <1>1, <1>7, OthersAlike, PlainReturned DEF Below
<1>8. QED
  BY <1>2, <1>6, <1>7

\* skipOptimism ends.
LEMMA SkipEndsPlain ==
  ASSUME IInv, PlainStack(calls), SkipEnds
  PROVE  PlainStack(calls')
<1>1. res = "run" /\ Top.kind = "skip"
  BY DEF SkipEnds
<1>2. Below # <<>>
  BY <1>1, SkipHasCaller
<1>3. CallOK(Top) /\ CallPlain(Top)
  BY <1>1, TopPlain
<1> DEFINE c == Last(Below)
           val(i) == IF c.kind = "external" THEN c.val \o SubSeq(c.data, c.at + 1, i) ELSE c.val
<1>4. /\ CallOK(c) /\ CalledBy(c, Top) /\ CallPlain(c) /\ Linked(c, Top)
      /\ \A b, t : Returned(calls, b, t) /\ CallPlain(b) /\ b.kind # "skip" => PlainStack(t)
  BY <1>1, <1>2, CallerPlain
<1>5. PICK e \in Elements(Top) :
        /\ e.depth = 0
        /\ \E i \in Resumed(c, e.at) : calls' = Append(Front(Below), Moved(c, val(i), i))
  BY DEF SkipEnds
<1>6. PICK i \in Resumed(c, e.at) : calls' = Append(Front(Below), Moved(c, val(i), i))
  BY <1>5
<1> DEFINE b == Moved(c, val(i), i)
<1>7. b.kind = c.kind /\ b.data = c.data /\ b.val = val(i)
  BY DEF Moved, Call
<1>8. Returned(calls, b, calls')
  BY <1>6 DEF Returned, Below
<1>9. PlainValue(c.kind, val(i))
  <2> HIDE DEF c
  <2>1. i \in Resumed(c, e.at) /\ e.depth = 0
    BY <1>5
  <2>2. QED
    BY <1>1, <1>3, <1>4, <2>1, ValueAfterSkip
<1> HIDE DEF b, val
<1>10. CallPlain(b)
  BY <1>4, <1>7, <1>9 DEF CallPlain
<1>11. b.kind # "skip"
  BY <1>1, <1>4, <1>7 DEF CalledBy
<1>12. QED
  BY <1>4, <1>8, <1>10, <1>11

\* A nested call ends.
LEMMA ReturnPlain ==
  ASSUME IInv, PlainStack(calls), Return
  PROVE  PlainStack(calls')
<1>1. res = "run" /\ Top.kind # "skip" /\ Len(calls) > 1
  BY DEF Return
<1>2. CallOK(Top) /\ CallPlain(Top) /\ Stack(sent.kind, calls) /\ calls # <<>>
  BY <1>1, Runs, TopPlain
<1>3. Below # <<>>
  <2> DEFINE n == Len(calls)
  <2>1. n > 1 /\ n \in Nat /\ (Below = <<>> => n = 1)
    BY <1>1, <1>2, TopAndBelow DEF Below
  <2> HIDE DEF n
  <2>2. QED
    BY <2>1
<1> DEFINE c == Last(Below)
           top == Top
           f == top.field
           old == c.val[f.name]
           v == [c.val EXCEPT ![f.name] = Filled(old, top)]
           b == Moved(c, v, c.at)
<1>4. /\ CallOK(c) /\ CalledBy(c, top) /\ CallPlain(c)
      /\ \A d, t : Returned(calls, d, t) /\ CallPlain(d) /\ d.kind # "skip" => PlainStack(t)
  BY <1>1, <1>3, CallerPlain
<1>5. Returned(calls, b, calls')
  BY DEF Return, Returned, Below
<1>6. b.kind = c.kind /\ b.data = c.data /\ b.val = v
  BY DEF Moved, Call
<1>7. CallOK(top) /\ CallPlain(top) /\ top.kind # "skip"
  BY <1>1, <1>2
<1> HIDE DEF c, top, old, b
<1>8. /\ f \in Fields(c.kind) /\ top.kind = f.of
      /\ f.kind \notin {"uint64", "uint32", "bool", "bytes", "bytes list"}
  BY <1>4, <1>7 DEF CalledBy
<1>9. c.kind \in Kinds
  BY <1>8 DEF Fields
<1>10. IsMessage(c.kind, c.val) /\ PlainMessage(c.kind, c.val)
  BY <1>4, <1>9 DEF CallOK, CallValue, CallPlain, PlainValue
<1>11. Fits(f, old) /\ Wellformed(f) /\ PlainField(f, old)
  <2>1. Fits(f, old) /\ Wellformed(f)
    BY <1>8, <1>10, MessageFits, FieldsWellformed DEF old
  <2>2. PlainField(f, old)
    BY <1>8, <1>10 DEF PlainMessage, old
  <2>3. QED
    BY <2>1, <2>2
<1>12. PlainValue(f.of, top.val)
  BY <1>7, <1>8 DEF CallPlain
<1>13. PlainField(f, Filled(old, top))
  BY <1>8, <1>11, <1>12, FilledPlain
<1>14. PlainMessage(c.kind, v)
  BY <1>8, <1>10, <1>13, PlainUpdated
<1> HIDE DEF v, f
<1>15. PlainValue(c.kind, v)
  BY <1>9, <1>14, KindsApart DEF PlainValue
<1>16. CallPlain(b) /\ b.kind # "skip"
  BY <1>4, <1>6, <1>9, <1>15, KindsApart DEF CallPlain
<1>17. QED
  BY <1>4, <1>5, <1>16

\* Unmarshal returns what holds no others.
LEMMA DonePlain ==
  ASSUME IInv, PlainStack(calls), Done
  PROVE  PlainMessage(sent.kind, got')
<1>1. res = "run" /\ Len(calls) = 1 /\ got' = Top.val
  BY DEF Done
<1>2. CallPlain(Top) /\ Stack(sent.kind, calls) /\ calls # <<>>
  BY <1>1, Runs, TopPlain
<1>3. Top.kind = sent.kind
  BY <1>1, <1>2, TopAndBelow DEF Top
<1>4. sent.kind \in Kinds
  BY DEF IInv, TypeOK
<1> HIDE DEF Top
<1>5. QED
  BY <1>1, <1>2, <1>3, <1>4 DEF CallPlain, PlainValue

\* Unmarshal starts from nothing.
LEMMA UnmarshalPlain ==
  ASSUME IInv, Addressable(buf), Unmarshal
  PROVE  PlainStack(calls')
<1> DEFINE c == Call(sent.kind, Entry, Zero(sent.kind), buf, 0, Len(buf))
<1>1. calls' = <<c>>
  BY DEF Unmarshal
<1>2. c.kind = sent.kind /\ c.data = buf /\ c.val = Zero(sent.kind)
  BY DEF Call
<1>3. sent.kind \in Kinds
  BY DEF IInv, TypeOK
<1> HIDE DEF c
<1>4. CallPlain(c)
  BY <1>2, <1>3, ZeroPlain, KindsApart DEF CallPlain, PlainValue
<1>5. Len(<<c>>) = 1 /\ <<c>>[1] = c
  OBVIOUS
<1>6. \A i \in 1..1 : i = 1
  OBVIOUS
<1>7. \A i, j \in 1..1 : j # i + 1
  OBVIOUS
<1> DEFINE s == <<c>>
<1>8. Len(s) = 1 /\ s[1] = c /\ calls' = s
  BY <1>1, <1>5
<1> HIDE DEF s
<1>9. PlainStack(s)
  BY <1>4, <1>6, <1>7, <1>8 DEF PlainStack
<1>10. QED
  BY <1>8, <1>9

-----------------------------------------------------------------------------
(* What comes of a message, in the first pass and in the second.           *)

\* The message the bytes of the first pass stand for, unless they were cut or damaged,
\* and the one that Unmarshal is to return.
Whole == edit.what \in {"none", "join", "extend"}
Meant == IF edit.what = "join" THEN JoinedMessage(sent.kind, sent.msg, edit.with) ELSE sent.msg
Goal == IF pass = 1 THEN Meant ELSE first
Followed == pass = 2 \/ Whole

\* The external messages that are accepted; nothing else makes the decoder fail.
Taken == Strict(IF pass = 1 THEN Payloads ELSE Seq(Byte))

\* The bytes stand for the goal, and the decoder is on its way to it.
Leading ==
  /\ res # "error"
  /\ res = "ok" => got = Goal
  /\ res = "wire" => Carries(Taken, sent.kind, buf, Zero(sent.kind), Goal)
  /\ res = "run" => Tracked(Taken, calls, Goal)

\* What was read, so far, can be written again.
Rewritable ==
  /\ PlainStack(calls)
  /\ res = "wire" => Addressable(buf)
  /\ res = "ok" => PlainMessage(sent.kind, got)
  /\ pass = 2 => PlainMessage(sent.kind, first)

\* What was sent is one of the messages offered, nothing happens to the buffer before it
\* is written, and the second pass writes what the first one stood for.
Origin ==
  /\ sent \in Offered
  /\ res = "send" /\ pass = 1 => edit.what = "none"
  /\ pass = 2 /\ Whole => first = Meant

\* The inductive invariant.
FInv ==
  /\ IInv
  /\ Rewritable
  /\ Origin
  /\ Followed => Leading

\* It holds at first.
LEMMA InitFInv == Init => FInv
<1> SUFFICES ASSUME Init PROVE FInv
  OBVIOUS
<1>1. IInv
  BY InitIInv
<1>2. Rewritable
  BY PlainEmpty DEF Init, Rewritable
<1>3. Origin
  BY DEF Init, Origin
<1>4. Leading
  BY DEF Init, Leading
<1>5. QED
  BY <1>1, <1>2, <1>3, <1>4 DEF FInv

\* What Marshal writes of a message brings it into any other one of its kind.
LEMMA MarshalWrites ==
  ASSUME NEW A, NEW kind, NEW m, NEW bytes, kind \in Kinds, WholeReady(A, kind, m),
         bytes \in Marshal(kind, m)
  PROVE  Writes(A, kind, bytes, m) /\ Addressable(bytes)
<1>1. bytes \in ToSizedBuffer(kind, m) /\ Addressable(bytes)
  BY MarshalWhole DEF WholeReady
<1>2. QED
  BY <1>1, EncodingWrites

\* Into an empty one, it is the message.
LEMMA MarshalCarries ==
  ASSUME NEW A, NEW kind, NEW m, NEW bytes, kind \in Kinds, WholeReady(A, kind, m),
         bytes \in Marshal(kind, m)
  PROVE  Carries(A, kind, bytes, Zero(kind), m) /\ Addressable(bytes)
<1>1. Writes(A, kind, bytes, m) /\ Addressable(bytes)
  BY MarshalWrites
<1> DEFINE z == Zero(kind)
<1>2. IsMessage(kind, z) /\ JoinedMessage(kind, z, m) = m
  BY ZeroMessage, ZeroJoined DEF WholeReady
<1> HIDE DEF z
<1>3. Carries(A, kind, bytes, z, m)
  BY <1>1, <1>2 DEF Writes
<1>4. QED
  BY <1>1, <1>3 DEF z

\* The messages offered, and those that hold plain external messages, can be written.
LEMMA OfferedReady ==
  ASSUME NEW o, o \in Offered
  PROVE  /\ o.kind \in Kinds /\ IsMessage(o.kind, o.msg)
         /\ WholeReady(Strict(Payloads), o.kind, o.msg) /\ WholeReady(Lax(Payloads), o.kind, o.msg)
<1>1. o.kind \in Kinds /\ IsMessage(o.kind, o.msg)
  BY CodecAssumption
<1>2. From(Payloads, o.kind, o.msg) /\ \A w \in Payloads : IsEncoding(w)
  BY PayloadAssumption
<1>3. PlainIn(Strict(Payloads)) = Payloads /\ PlainIn(Lax(Payloads)) = Payloads
  BY <1>2, EncodingPlain DEF PlainIn, Strict, Lax
<1>4. QED
  BY <1>1, <1>2, <1>3 DEF WholeReady

\* A plain message can be written and read.
LEMMA PlainReady ==
  ASSUME NEW kind, NEW m, IsMessage(kind, m), PlainMessage(kind, m)
  PROVE  WholeReady(Strict(Seq(Byte)), kind, m)
  BY PlainIsFrom DEF WholeReady, AnyPlain

\* What is written in a pass can be.
LEMMA GoalReady ==
  ASSUME FInv, res = "send"
  PROVE  /\ Goal = IF pass = 1 THEN sent.msg ELSE first
         /\ sent.kind \in Kinds /\ WholeReady(Taken, sent.kind, Goal)
<1>1. sent.kind \in Kinds /\ pass \in 1..2
  BY DEF FInv, IInv, TypeOK
<1>2. CASE pass = 1
  <2>1. Goal = sent.msg /\ Taken = Strict(Payloads)
    BY <1>2 DEF FInv, Origin, Goal, Meant, Taken
  <2>2. WholeReady(Strict(Payloads), sent.kind, sent.msg)
    BY OfferedReady DEF FInv, Origin
  <2>3. QED
    BY <1>1, <1>2, <2>1, <2>2
<1>3. CASE pass = 2
  <2>1. Goal = first /\ Taken = Strict(Seq(Byte)) /\ pass # 1
    BY <1>3 DEF Goal, Taken
  <2>2. WholeReady(Strict(Seq(Byte)), sent.kind, first)
    BY <1>3, PlainReady DEF FInv, IInv, TypeOK, Rewritable
  <2>3. QED
    BY <1>1, <2>1, <2>2
<1>4. QED
  BY <1>1, <1>2, <1>3

-----------------------------------------------------------------------------
(* Each action keeps what is followed.                                     *)

\* Marshal.
LEMMA EncodeFollows ==
  ASSUME FInv, Encode
  PROVE  FInv'
<1>1. IInv'
  BY EncodeKeeps DEF FInv
<1>2. /\ res = "send" /\ res' = "wire"
      /\ sent' = sent /\ edit' = edit /\ pass' = pass /\ calls' = calls /\ got' = got /\ first' = first
      /\ buf' \in Marshal(sent.kind, IF pass = 1 THEN sent.msg ELSE first)
  BY DEF Encode
<1>3. Goal' = Goal /\ Taken' = Taken /\ Meant' = Meant /\ Whole' = Whole /\ (Followed' <=> Followed)
  BY <1>2 DEF Goal, Taken, Meant, Whole, Followed
<1>4. /\ buf' \in Marshal(sent.kind, Goal)
      /\ sent.kind \in Kinds /\ WholeReady(Taken, sent.kind, Goal)
  BY <1>2, GoalReady
<1>5. Carries(Taken, sent.kind, buf', Zero(sent.kind), Goal) /\ Addressable(buf')
  BY <1>4, MarshalCarries
<1>6. Rewritable'
  BY <1>2, <1>5 DEF FInv, Rewritable
<1>7. Origin'
  BY <1>2, <1>3 DEF FInv, Origin
<1> HIDE DEF Goal, Taken
<1>8. Leading'
  <2>1. Carries(Taken', sent'.kind, buf', Zero(sent'.kind), Goal')
    BY <1>2, <1>3, <1>5
  <2>2. QED
    BY <1>2, <2>1 DEF Leading
<1>9. QED
  BY <1>1, <1>6, <1>7, <1>8 DEF FInv

\* Unmarshal starts.
LEMMA UnmarshalFollows ==
  ASSUME FInv, Unmarshal
  PROVE  FInv'
<1>1. IInv'
  BY UnmarshalKeeps DEF FInv
<1> DEFINE c == Call(sent.kind, Entry, Zero(sent.kind), buf, 0, Len(buf))
<1>2. /\ res = "wire" /\ res' = "run" /\ calls' = <<c>>
      /\ sent' = sent /\ edit' = edit /\ pass' = pass /\ got' = got /\ first' = first
  BY DEF Unmarshal
<1>3. Goal' = Goal /\ Taken' = Taken /\ Meant' = Meant /\ Whole' = Whole /\ (Followed' <=> Followed)
  BY <1>2 DEF Goal, Taken, Meant, Whole, Followed
<1>4. Addressable(buf) /\ buf \in Seq(Byte) /\ sent.kind \in Kinds
  BY <1>2 DEF FInv, Rewritable, IInv, TypeOK
<1>5. PlainStack(calls')
  BY <1>4, UnmarshalPlain DEF FInv
<1>6. ASSUME Followed PROVE Tracked(Taken, calls', Goal)
  <2> DEFINE z == Zero(sent.kind)
             kind == sent.kind
  <2>1. Carries(Taken, kind, buf, z, Goal)
    BY <1>2, <1>6 DEF FInv, Leading
  <2>2. kind # "skip" /\ kind # "external"
    BY <1>4, KindsApart
  <2> HIDE DEF z, kind, Taken, Goal
  <2>3. Decodes(Taken, Call(kind, Entry, z, buf, 0, Len(buf)), Goal)
    BY <1>4, <2>1, <2>2, CarriesWhole
  <2>4. Decodes(Taken, c, Goal)
    BY <2>3 DEF kind, z
  <2> HIDE DEF c
  <2>5. QED
    BY <1>2, <2>4, TrackFirst
<1>7. Rewritable'
  BY <1>2, <1>5 DEF FInv, Rewritable
<1>8. Origin'
  BY <1>2, <1>3 DEF FInv, Origin
<1> HIDE DEF Goal, Taken
<1>9. ASSUME Followed PROVE Leading'
  <2>1. Tracked(Taken', calls', Goal')
    BY <1>3, <1>6, <1>9
  <2>2. QED
    BY <1>2, <2>1 DEF Leading
<1> HIDE DEF Followed
<1>10. QED
  BY <1>1, <1>3, <1>7, <1>8, <1>9 DEF FInv

\* A step of the loops.
LEMMA RunFollows ==
  ASSUME FInv, IInv', Running, res = "run", PlainStack(calls'),
         Followed => Tracked(Taken, calls', Goal)
  PROVE  FInv'
<1>1. /\ res' = "run"
      /\ sent' = sent /\ edit' = edit /\ pass' = pass /\ got' = got /\ first' = first
  BY DEF Running
<1>2. Goal' = Goal /\ Taken' = Taken /\ Meant' = Meant /\ Whole' = Whole /\ (Followed' <=> Followed)
  BY <1>1 DEF Goal, Taken, Meant, Whole, Followed
<1>3. Rewritable'
  BY <1>1 DEF FInv, Rewritable
<1>4. Origin'
  BY <1>1, <1>2 DEF FInv, Origin
<1> HIDE DEF Goal, Taken
<1>5. ASSUME Followed PROVE Leading'
  <2>1. Tracked(Taken', calls', Goal')
    BY <1>2, <1>5
  <2>2. QED
    BY <1>1, <2>1 DEF Leading
<1> HIDE DEF Followed
<1>6. QED
  BY <1>2, <1>3, <1>4, <1>5 DEF FInv

\* All of them.
LEMMA LoopFollows ==
  ASSUME FInv, Scalar \/ String \/ Nested \/ OpenEntry \/ EntryKey \/ EntryValue
  PROVE  FInv'
<1>1. res = "run" /\ Running
  BY DEF Scalar, String, Nested, OpenEntry, EntryKey, EntryValue, InLoop
<1>2. IInv /\ PlainStack(calls) /\ (Followed => Tracked(Taken, calls, Goal))
  BY <1>1 DEF FInv, Rewritable, Leading
<1>3. IInv'
  BY <1>2, ScalarKeeps, StringKeeps, NestedKeeps, OpenEntryKeeps, EntryKeyKeeps, EntryValueKeeps
<1>4. PlainStack(calls')
  BY <1>2, ScalarPlain, StringPlain, NestedPlain, OpenEntryPlain, EntryPlain
<1>5. Followed => Tracked(Taken, calls', Goal)
  BY <1>2, ScalarTracked, StringTracked, NestedTracked, EntryTracked
<1>6. QED
  BY <1>1, <1>3, <1>4, <1>5, RunFollows

\* A step of the decoder that keeps the stack following what was written.
LEMMA StackFollows ==
  ASSUME FInv, OpenSkip \/ SkipMore \/ SkipEnds \/ Return
  PROVE  FInv'
<1>1. res = "run" /\ Running
  BY DEF OpenSkip, SkipMore, SkipEnds, Return, InLoop
<1>2. IInv /\ PlainStack(calls) /\ (Followed => Tracked(Taken, calls, Goal))
  BY <1>1 DEF FInv, Rewritable, Leading
<1>3. IInv'
  BY <1>2, OpenSkipKeeps, SkipMoreKeeps, SkipEndsKeeps, ReturnKeeps
<1>4. PlainStack(calls')
  BY <1>2, OpenSkipPlain, SkipMorePlain, SkipEndsPlain, ReturnPlain
<1>5. Followed => Tracked(Taken, calls', Goal)
  BY <1>2, OpenSkipTracked, SkipMoreTracked, SkipEndsTracked, ReturnTracked
<1>6. QED
  BY <1>1, <1>3, <1>4, <1>5, RunFollows

\* An error: only of bytes that are not followed.
LEMMA FailFollows ==
  ASSUME FInv, Malformed \/ Refused \/ SkipFails
  PROVE  FInv'
<1>1. res = "run" /\ Fail
  BY DEF Malformed, Refused, SkipFails, InLoop
<1>2. IInv /\ (Followed => Tracked(Taken, calls, Goal))
  BY <1>1 DEF FInv, Leading
<1>3. IInv'
  BY <1>1, <1>2, FailKeeps
<1>4. ~Followed
  <2>1. SUFFICES ASSUME Followed PROVE FALSE
    OBVIOUS
  <2>2. Tracked(Taken, calls, Goal)
    BY <1>2, <2>1
  <2>3. ~Malformed /\ ~SkipFails
    <3>1. ~Taken.fails
      BY DEF Taken, Strict
    <3>2. QED
      BY <1>2, <2>2, <3>1, NoFailure
  <2>4. ASSUME Refused PROVE FALSE
    <3>1. Taken.takes \subseteq Payloads
      BY <2>4 DEF Refused, Taken, Strict
    <3>2. QED
      BY <1>2, <2>2, <2>4, <3>1, NoRefusal
  <2>5. QED
    BY <2>3, <2>4
<1>5. /\ res' = "error" /\ calls' = <<>>
      /\ sent' = sent /\ edit' = edit /\ pass' = pass /\ got' = got /\ first' = first
  BY <1>1 DEF Fail
<1>6. Meant' = Meant /\ Whole' = Whole /\ (Followed' <=> Followed)
  BY <1>5 DEF Meant, Whole, Followed
<1>7. Rewritable'
  BY <1>5, PlainEmpty DEF FInv, Rewritable
<1>8. Origin'
  BY <1>5, <1>6 DEF FInv, Origin
<1> HIDE DEF Followed
<1>9. QED
  BY <1>3, <1>4, <1>6, <1>7, <1>8 DEF FInv

\* Unmarshal returns.
LEMMA DoneFollows ==
  ASSUME FInv, Done
  PROVE  FInv'
<1>1. /\ res = "run" /\ res' = "ok" /\ calls' = <<>>
      /\ sent' = sent /\ edit' = edit /\ pass' = pass /\ first' = first
  BY DEF Done
<1>2. IInv /\ PlainStack(calls) /\ (Followed => Tracked(Taken, calls, Goal))
  BY <1>1 DEF FInv, Rewritable, Leading
<1>3. IInv'
  BY <1>2, DoneKeeps
<1>4. PlainMessage(sent.kind, got')
  BY <1>2, DonePlain
<1>5. Goal' = Goal /\ Taken' = Taken /\ Meant' = Meant /\ Whole' = Whole /\ (Followed' <=> Followed)
  BY <1>1 DEF Goal, Taken, Meant, Whole, Followed
<1>6. Rewritable'
  BY <1>1, <1>4, PlainEmpty DEF FInv, Rewritable
<1>7. Origin'
  BY <1>1, <1>5 DEF FInv, Origin
<1>8. ASSUME Followed PROVE Leading'
  <2>1. got' = Goal
    BY <1>2, <1>8, DoneTracked
  <2>2. QED
    BY <1>1, <1>5, <2>1 DEF Leading
<1> HIDE DEF Followed
<1>9. QED
  BY <1>3, <1>5, <1>6, <1>7, <1>8 DEF FInv

\* The second pass starts from what the first one returned.
LEMMA AgainFollows ==
  ASSUME FInv, Again
  PROVE  FInv'
<1>1. /\ res = "ok" /\ res' = "send" /\ pass = 1 /\ pass' = 2 /\ first' = got /\ calls' = calls
      /\ sent' = sent /\ edit' = edit
  BY DEF Again
<1>2. IInv'
  BY <1>1, AgainKeeps DEF FInv
<1>3. Meant' = Meant /\ Whole' = Whole
  BY <1>1 DEF Meant, Whole
<1>4. Rewritable'
  BY <1>1 DEF FInv, Rewritable
<1>5. Whole => got = Meant
  BY <1>1 DEF FInv, Followed, Leading, Goal
<1>6. Origin'
  BY <1>1, <1>3, <1>5 DEF FInv, Origin
<1>7. Leading'
  BY <1>1 DEF Leading
<1>8. QED
  BY <1>2, <1>4, <1>6, <1>7 DEF FInv

-----------------------------------------------------------------------------
(* What happens to the bytes on the way.                                   *)

\* What happens to the buffer of the first pass.
LEMMA EditedFollows ==
  ASSUME FInv, NEW what, NEW with, NEW bytes, what \in {"cut", "join", "extend", "corrupt"},
         bytes \in Seq(Byte), Edited(what, with, bytes),
         what = "join" => Carries(Strict(Payloads), sent.kind, bytes, Zero(sent.kind),
                                  JoinedMessage(sent.kind, sent.msg, with)),
         what = "extend" => Carries(Strict(Payloads), sent.kind, bytes, Zero(sent.kind), sent.msg)
  PROVE  FInv'
<1>1. IInv'
  BY EditedKeeps DEF FInv
<1>2. /\ res = "wire" /\ res' = "wire" /\ pass = 1 /\ pass' = 1 /\ calls' = calls /\ buf' = bytes
      /\ sent' = sent /\ edit'.what = what /\ edit'.with = with /\ first' = first
      /\ Addressable(bytes)
  BY DEF Edited
<1>3. Rewritable'
  BY <1>2 DEF FInv, Rewritable
<1>4. Origin'
  BY <1>2 DEF FInv, Origin
<1>5. Taken' = Strict(Payloads)
  BY <1>2 DEF Taken
<1>6. CASE what = "join"
  <2>1. Goal' = JoinedMessage(sent.kind, sent.msg, with)
    BY <1>2, <1>6 DEF Goal, Meant
  <2> HIDE DEF Goal, Taken
  <2>2. Carries(Taken', sent'.kind, buf', Zero(sent'.kind), Goal')
    BY <1>2, <1>5, <1>6, <2>1
  <2>3. Leading'
    BY <1>2, <2>2 DEF Leading
  <2>4. QED
    BY <1>1, <1>3, <1>4, <2>3 DEF FInv
<1>7. CASE what = "extend"
  <2>1. Goal' = sent.msg
    BY <1>2, <1>7 DEF Goal, Meant
  <2> HIDE DEF Goal, Taken
  <2>2. Carries(Taken', sent'.kind, buf', Zero(sent'.kind), Goal')
    BY <1>2, <1>5, <1>7, <2>1
  <2>3. Leading'
    BY <1>2, <2>2 DEF Leading
  <2>4. QED
    BY <1>1, <1>3, <1>4, <2>3 DEF FInv
<1>8. CASE what \in {"cut", "corrupt"}
  <2>1. ~Followed'
    BY <1>2, <1>8 DEF Followed, Whole
  <2> HIDE DEF Followed
  <2>2. QED
    BY <1>1, <1>3, <1>4, <2>1 DEF FInv
<1>9. QED
  BY <1>6, <1>7, <1>8

\* The buffer before anything happens to it.
LEMMA BeforeEdit ==
  ASSUME FInv, res = "wire", pass = 1, edit.what = "none"
  PROVE  /\ buf \in Seq(Byte) /\ sent.kind \in Kinds /\ IsMessage(sent.kind, sent.msg)
         /\ Carries(Strict(Payloads), sent.kind, buf, Zero(sent.kind), sent.msg)
<1>1. buf \in Seq(Byte) /\ sent.kind \in Kinds /\ IsMessage(sent.kind, sent.msg)
  BY DEF FInv, IInv, TypeOK
<1>2. Goal = sent.msg /\ Taken = Strict(Payloads) /\ Followed
  BY DEF Goal, Meant, Taken, Followed, Whole
<1> HIDE DEF Goal, Taken, Followed
<1>3. Carries(Taken, sent.kind, buf, Zero(sent.kind), Goal)
  BY <1>2 DEF FInv, Leading
<1>4. QED
  BY <1>1, <1>2, <1>3

\* Another message follows.
LEMMA JoinFollows ==
  ASSUME FInv, NEW other, other \in Offered, Join(other)
  PROVE  FInv'
<1>1. PICK bytes \in Marshal(other.kind, other.msg) : Edited("join", other.msg, buf \o bytes)
  BY DEF Join
<1>2. other.kind = sent.kind /\ res = "wire" /\ pass = 1 /\ edit.what = "none"
  BY <1>1 DEF Join, Edited
<1> DEFINE kind == sent.kind
           m == sent.msg
           n == other.msg
           z == Zero(kind)
           both == JoinedMessage(kind, m, n)
<1>3. buf \in Seq(Byte) /\ kind \in Kinds /\ IsMessage(kind, m) /\ Carries(Strict(Payloads), kind, buf, z, m)
  BY <1>2, BeforeEdit
<1>4. WholeReady(Strict(Payloads), kind, n)
  BY <1>2, OfferedReady
<1>5. bytes \in Marshal(kind, n)
  BY <1>1, <1>2
<1> HIDE DEF kind, m, n, z
<1>6. Writes(Strict(Payloads), kind, bytes, n)
  BY <1>3, <1>4, <1>5, MarshalWrites
<1>7. bytes \in Seq(Byte) /\ Carries(Strict(Payloads), kind, bytes, m, both)
  BY <1>3, <1>6 DEF Writes
<1> HIDE DEF both
<1>8. Carries(Strict(Payloads), kind, buf \o bytes, z, both)
  BY <1>3, <1>7, CarriesConcat
<1>9. buf \o bytes \in Seq(Byte)
  BY <1>3, <1>7, Concat
<1>10. Edited("join", n, buf \o bytes)
  BY <1>1 DEF n
<1>11. "join" \in {"cut", "join", "extend", "corrupt"} /\ "join" # "extend"
  OBVIOUS
<1>12. ASSUME NEW w, w \in Seq(Byte), Carries(Strict(Payloads), kind, w, z, both), Edited("join", n, w)
       PROVE  FInv'
  BY <1>11, <1>12, EditedFollows DEF kind, z, m, both
<1>13. QED
  BY <1>8, <1>9, <1>10, <1>12

\* An unknown field comes before or after.
LEMMA ExtendFollows ==
  ASSUME FInv, NEW n, n \in Unknown, Extend(n)
  PROVE  FInv'
<1>1. PICK bytes \in FieldOf(n) :
        Edited("extend", Nil, bytes \o buf) \/ Edited("extend", Nil, buf \o bytes)
  BY DEF Extend
<1>2. res = "wire" /\ pass = 1 /\ edit.what = "none"
  BY <1>1 DEF Edited
<1> DEFINE kind == sent.kind
           m == sent.msg
           z == Zero(kind)
<1>3. buf \in Seq(Byte) /\ kind \in Kinds /\ Carries(Strict(Payloads), kind, buf, z, m)
  BY <1>2, BeforeEdit
<1>4. n \in 1..15 /\ Skippable(bytes, n) /\ bytes \in Seq(Byte)
  BY CodecAssumption, FieldOfSkippable, FieldOfBytes
<1>5. Ignores(kind, n) /\ kind # "external"
  <2>1. \A f \in Fields(kind) : f.num # n
    BY DEF Extend
  <2>2. kind \notin {"external", "MapEntry", "skip"}
    BY <1>3, KindsApart
  <2>3. n \in Nat \ {0}
    BY <1>4
  <2>4. QED
    BY <2>1, <2>2, <2>3 DEF Ignores
<1> HIDE DEF kind, m, z
<1>6. ASSUME NEW a PROVE Carries(Strict(Payloads), kind, bytes, a, a)
  <2>1. Carries(Strict(Payloads), kind, bytes, a, IF kind = "external" THEN a \o bytes ELSE a)
    BY <1>4, <1>5, UnknownCarries
  <2>2. QED
    BY <1>5, <2>1
<1>7. Carries(Strict(Payloads), kind, bytes \o buf, z, m) /\ Carries(Strict(Payloads), kind, buf \o bytes, z, m)
  BY <1>3, <1>4, <1>6, CarriesConcat
<1>8. bytes \o buf \in Seq(Byte) /\ buf \o bytes \in Seq(Byte)
  BY <1>3, <1>4, Concat
<1>9. "extend" \in {"cut", "join", "extend", "corrupt"} /\ "join" # "extend"
  OBVIOUS
<1>10. ASSUME NEW w, w \in Seq(Byte), Carries(Strict(Payloads), kind, w, z, m), Edited("extend", Nil, w)
       PROVE  FInv'
  BY <1>9, <1>10, EditedFollows DEF kind, z, m
<1>11. CASE Edited("extend", Nil, bytes \o buf)
  BY <1>7, <1>8, <1>10, <1>11
<1>12. CASE Edited("extend", Nil, buf \o bytes)
  BY <1>7, <1>8, <1>10, <1>12
<1>13. QED
  BY <1>1, <1>11, <1>12

-----------------------------------------------------------------------------
(* The inductive invariant, and what it says of the runs.                  *)

\* Whatever happens to the buffer.
LEMMA WiredFollows ==
  ASSUME FInv, Wired
  PROVE  FInv'
<1>1. buf \in Seq(Byte)
  BY DEF FInv, IInv, TypeOK
<1>2. Len(buf) \in Nat /\ DOMAIN buf = 1..Len(buf)
  BY <1>1, LenProperties
<1>3. CASE \E n \in 0..Len(buf) : Cut(n)
  <2>1. PICK n \in 0..Len(buf) : Cut(n)
    BY <1>3
  <2>2. SubSeq(buf, 0 + 1, n) \in Seq(Byte) /\ 0 + 1 = 1
    BY <1>1, PartOfBytes
  <2> DEFINE w == SubSeq(buf, 1, n)
  <2>3. w \in Seq(Byte) /\ Edited("cut", Nil, w)
    BY <2>1, <2>2 DEF Cut
  <2> HIDE DEF w
  <2>4. QED
    BY <2>3, EditedFollows
<1>4. CASE \E other \in Offered : Join(other)
  BY <1>4, JoinFollows
<1>5. CASE \E n \in Unknown : Extend(n)
  BY <1>5, ExtendFollows
<1>6. CASE \E i \in DOMAIN buf, byte \in Damage : Corrupt(i, byte)
  <2>1. PICK i \in DOMAIN buf, byte \in Damage : Corrupt(i, byte)
    BY <1>6
  <2>2. byte \in Byte /\ i \in 1..Len(buf)
    BY <1>2, CodecAssumption
  <2>3. [buf EXCEPT ![i] = byte] \in Seq(Byte)
    BY <1>1, <2>2, ExceptSeq
  <2>4. Edited("corrupt", Nil, [buf EXCEPT ![i] = byte])
    BY <2>1 DEF Corrupt
  <2>5. QED
    BY <2>3, <2>4, EditedFollows
<1>7. QED
  BY <1>3, <1>4, <1>5, <1>6 DEF Wired

\* Every step.
LEMMA FollowsAlways ==
  ASSUME FInv, [Next]_vars
  PROVE  FInv'
<1>1. CASE Wired
  BY <1>1, WiredFollows
<1>2. CASE Decode
  BY <1>2, EncodeFollows, UnmarshalFollows, LoopFollows, StackFollows, FailFollows, DoneFollows,
     AgainFollows
     DEF Decode
<1>3. CASE UNCHANGED vars \/ Terminated
  <2>1. /\ sent' = sent /\ edit' = edit /\ buf' = buf /\ pass' = pass /\ calls' = calls
        /\ res' = res /\ got' = got /\ first' = first
    BY <1>3 DEF Terminated, vars
  <2>2. IInv'
    BY <1>3, Invariance DEF FInv, Terminated
  <2>3. Goal' = Goal /\ Taken' = Taken /\ Meant' = Meant /\ Whole' = Whole /\ (Followed' <=> Followed)
    BY <2>1 DEF Goal, Taken, Meant, Whole, Followed
  <2>4. Rewritable'
    BY <2>1 DEF FInv, Rewritable
  <2>5. Origin'
    BY <2>1, <2>3 DEF FInv, Origin
  <2> HIDE DEF Goal, Taken
  <2>6. ASSUME Leading PROVE Leading'
    <3>1. res = "wire" => Carries(Taken', sent'.kind, buf', Zero(sent'.kind), Goal')
      BY <2>1, <2>3, <2>6 DEF Leading
    <3>2. res = "run" => Tracked(Taken', calls', Goal')
      BY <2>1, <2>3, <2>6 DEF Leading
    <3>3. QED
      BY <2>1, <2>3, <2>6, <3>1, <3>2 DEF Leading
  <2> HIDE DEF Followed
  <2>7. QED
    BY <2>2, <2>3, <2>4, <2>5, <2>6 DEF FInv
<1>4. QED
  BY <1>1, <1>2, <1>3 DEF Next

\* It always holds.
LEMMA SpecFollows == Spec => []FInv
<1>1. FInv /\ [Next]_vars => FInv'
  BY FollowsAlways
<1>2. QED
  BY <1>1, InitFInv, PTL DEF Spec

-----------------------------------------------------------------------------
\* What is sent is what is received, in both passes, whatever the message, its kind and the
\* order of its map's entries.
THEOREM WhatIsSent == Spec => []RoundTrip
<1>1. FInv => RoundTrip
  <2>1. SUFFICES ASSUME FInv, edit.what = "none" PROVE res # "error" /\ (res = "ok" => got = sent.msg)
    BY DEF RoundTrip
  <2>2. Followed /\ Meant = sent.msg /\ Goal = sent.msg
    BY <2>1 DEF Followed, Whole, Meant, Goal, FInv, Origin, IInv, TypeOK
  <2> HIDE DEF Followed, Goal
  <2>3. QED
    BY <2>1, <2>2 DEF FInv, Leading
<1>2. QED
  BY <1>1, SpecFollows, PTL

\* A field that no decoder knows is stepped over, whatever its number, its wire type and what
\* it holds, and before the message as well as after it.
THEOREM NewerFieldsSkipped == Spec => []UnknownSkipped
<1>1. FInv => UnknownSkipped
  <2>1. SUFFICES ASSUME FInv, edit.what = "extend" PROVE res # "error" /\ (res = "ok" => got = sent.msg)
    BY DEF UnknownSkipped
  <2>2. Followed /\ Meant = sent.msg /\ Goal = sent.msg
    BY <2>1 DEF Followed, Whole, Meant, Goal, FInv, Origin, IInv, TypeOK
  <2> HIDE DEF Followed, Goal
  <2>3. QED
    BY <2>1, <2>2 DEF FInv, Leading
<1>2. QED
  BY <1>1, SpecFollows, PTL

\* Two messages of a kind in one buffer are merged.
THEOREM JoinedAreMerged == Spec => []LastWins
<1>1. FInv => LastWins
  <2>1. SUFFICES ASSUME FInv, edit.what = "join"
                 PROVE  /\ res # "error"
                        /\ res = "ok" => got = Merged(sent.kind, sent.msg, edit.with, MergedFlat)
    BY DEF LastWins
  <2> DEFINE both == JoinedMessage(sent.kind, sent.msg, edit.with)
  <2>2. Merged(sent.kind, sent.msg, edit.with, MergedFlat) = both
    BY MergedIsJoined
  <2>3. Meant = both
    BY <2>1 DEF Meant
  <2> HIDE DEF both, Meant
  <2>4. Followed /\ Goal = both
    BY <2>1, <2>3 DEF Followed, Whole, Goal, FInv, Origin, IInv, TypeOK
  <2> HIDE DEF Followed, Goal
  <2>5. res # "error" /\ (res = "ok" => got = both)
    BY <2>1, <2>4 DEF FInv, Leading
  <2>6. QED
    BY <2>2, <2>5
<1>2. QED
  BY <1>1, SpecFollows, PTL

\* Whatever the bytes were, cut and damaged ones included, what Unmarshal made of them is
\* written and read again without change.
THEOREM ReadAgain == Spec => []Stable
<1>1. FInv => Stable
  <2>1. SUFFICES ASSUME FInv, pass = 2 PROVE res # "error" /\ (res = "ok" => got = first)
    BY DEF Stable
  <2>2. Followed /\ Goal = first
    BY <2>1 DEF Followed, Goal
  <2> HIDE DEF Followed, Goal
  <2>3. QED
    BY <2>1, <2>2 DEF FInv, Leading
<1>2. QED
  BY <1>1, SpecFollows, PTL

-----------------------------------------------------------------------------
(* A buffer that lost its tail.                                            *)

\* The decoder of what is left: what it takes for external messages is what was written of
\* them, and it may fail.
Partial == Lax(Payloads)
First(v) == Call(sent.kind, Entry, v, buf, 0, Len(buf))

\* What is written can be cut anywhere, what is left of it is on its way to a part of what was
\* sent or to an error, and such a part is what the second pass writes.
Lossy ==
  /\ res = "wire" /\ pass = 1 /\ edit.what = "none" =>
       Breaks(Partial, sent.kind, buf, Zero(sent.kind), sent.msg)
  /\ edit.what = "cut" /\ pass = 1 /\ res = "wire" =>
       \E v : Partly(sent.kind, v, sent.msg) /\ Decodes(Partial, First(Zero(sent.kind)), v)
  /\ edit.what = "cut" /\ pass = 1 /\ res = "run" =>
       \E v : Partly(sent.kind, v, sent.msg) /\ Tracked(Partial, calls, v)
  /\ edit.what = "cut" /\ pass = 1 /\ res = "ok" => Partly(sent.kind, got, sent.msg)
  /\ edit.what = "cut" /\ pass = 2 => Partly(sent.kind, first, sent.msg)

\* The inductive invariant.
CInv == FInv /\ Lossy

\* Marshal.
LEMMA EncodeLossy ==
  ASSUME CInv, Encode
  PROVE  Lossy'
<1>1. /\ res = "send" /\ res' = "wire" /\ sent' = sent /\ edit' = edit /\ pass' = pass /\ first' = first
      /\ buf' \in Marshal(sent.kind, IF pass = 1 THEN sent.msg ELSE first)
  BY DEF Encode
<1>2. sent \in Offered /\ (pass = 1 => edit.what = "none")
  BY <1>1 DEF CInv, FInv, Origin
<1> DEFINE kind == sent.kind
           m == sent.msg
<1>3. ASSUME pass = 1 PROVE Breaks(Partial, kind, buf', Zero(kind), m)
  <2>1. buf' \in Marshal(kind, m) /\ kind \in Kinds /\ IsMessage(kind, m) /\ WholeReady(Partial, kind, m)
    BY <1>1, <1>2, <1>3, OfferedReady DEF Partial
  <2>2. Writes(Partial, kind, buf', m)
    BY <2>1, MarshalWrites
  <2>3. Partial.fails
    BY DEF Partial, Lax
  <2> HIDE DEF kind, m
  <2>4. QED
    BY <2>1, <2>2, <2>3 DEF Writes
<1>4. Partial' = Partial
  BY DEF Partial
<1> HIDE DEF Partial
<1>5. pass = 1 => Breaks(Partial', sent'.kind, buf', Zero(sent'.kind), sent'.msg)
  BY <1>1, <1>3, <1>4
<1>6. edit.what = "cut" /\ pass = 2 => Partly(sent'.kind, first', sent'.msg)
  BY <1>1 DEF CInv, Lossy
<1>7. QED
  BY <1>1, <1>2, <1>5, <1>6 DEF Lossy

\* The beginning of what was written.
LEMMA BeginningBegins ==
  ASSUME NEW w, NEW n, w \in Seq(Byte), n \in 0..Len(w)
  PROVE  Begins(SubSeq(w, 1, n), w)
<1> DEFINE v == SubSeq(w, 1, n)
<1>1. Len(w) \in Nat /\ n \in Nat /\ n <= Len(w)
  BY LenProperties
<1>2. Stored(w, 0, w) /\ 0 \in Nat
  BY StoredWhole
<1>3. Stored(w, 0, v) /\ Len(v) = n
  BY <1>2, BeginningStored
<1> HIDE DEF v
<1>4. v \in Seq(Byte) /\ \A i \in 1..n : w[0 + i] = v[i]
  BY <1>3, StoredFacts DEF Stored
<1>5. \A i \in 1..n : v[i] = w[i]
  <2>1. \A i \in 1..n : 0 + i = i
    BY <1>1
  <2>2. QED
    BY <1>4, <2>1
<1>6. QED
  BY <1>1, <1>3, <1>4, <1>5 DEF Begins, v

\* The tail is lost.
LEMMA CutLossy ==
  ASSUME CInv, NEW n \in 0..Len(buf), Cut(n)
  PROVE  Lossy'
<1> DEFINE w == SubSeq(buf, 1, n)
<1>1. /\ res = "wire" /\ res' = "wire" /\ pass = 1 /\ pass' = 1 /\ edit.what = "none" /\ edit'.what = "cut"
      /\ sent' = sent /\ buf' = w
  BY DEF Cut, Edited
<1>2. /\ buf \in Seq(Byte) /\ Addressable(buf) /\ sent.kind \in Kinds
      /\ Breaks(Partial, sent.kind, buf, Zero(sent.kind), sent.msg)
  BY <1>1 DEF CInv, Lossy, FInv, Rewritable, IInv, TypeOK
<1>3. Begins(w, buf) /\ Stored(buf, 0, buf)
  BY <1>2, BeginningBegins, StoredWhole
<1> HIDE DEF w
<1>4. Len(w) \in Nat /\ Len(buf) \in Nat /\ Len(w) <= Len(buf)
  BY <1>3, LenProperties DEF Begins
<1>5. 0 <= Len(w) /\ Len(w) <= 0 + Len(buf)
  BY <1>4
<1>6. \E v : /\ Partly(sent.kind, v, sent.msg)
             /\ Decodes(Partial, Call(sent.kind, Entry, Zero(sent.kind), w, 0, Len(w)), v)
  BY <1>2, <1>3, <1>5 DEF Breaks
<1>7. Partial' = Partial /\ First(Zero(sent.kind))' = Call(sent.kind, Entry, Zero(sent.kind), w, 0, Len(w))
  BY <1>1 DEF Partial, First
<1> HIDE DEF Partial
<1>8. \E v : Partly(sent'.kind, v, sent'.msg) /\ Decodes(Partial', First(Zero(sent.kind))', v)
  BY <1>1, <1>6, <1>7
<1>9. QED
  BY <1>1, <1>8 DEF Lossy

\* Whatever else happens to the buffer.
LEMMA WiredLossy ==
  ASSUME CInv, Wired
  PROVE  Lossy'
<1>1. CASE \E n \in 0..Len(buf) : Cut(n)
  BY <1>1, CutLossy
<1>2. CASE ~(\E n \in 0..Len(buf) : Cut(n))
  <2>1. \E with, bytes : \E what \in {"join", "extend", "corrupt"} : Edited(what, with, bytes)
    BY <1>2 DEF Wired, Join, Extend, Corrupt
  <2>2. edit'.what \in {"join", "extend", "corrupt"}
    BY <2>1 DEF Edited
  <2>3. QED
    BY <2>2 DEF Lossy
<1>3. QED
  BY <1>1, <1>2

\* Unmarshal starts.
LEMMA UnmarshalLossy ==
  ASSUME CInv, Unmarshal
  PROVE  Lossy'
<1> DEFINE c == First(Zero(sent.kind))
<1>1. /\ res = "wire" /\ res' = "run" /\ calls' = <<c>>
      /\ sent' = sent /\ edit' = edit /\ pass' = pass /\ first' = first
  BY DEF Unmarshal, First
<1> HIDE DEF c
<1>2. ASSUME edit.what = "cut", pass = 1
      PROVE  \E v : Partly(sent.kind, v, sent.msg) /\ Tracked(Partial, calls', v)
  <2>1. PICK v : Partly(sent.kind, v, sent.msg) /\ Decodes(Partial, c, v)
    BY <1>1, <1>2 DEF CInv, Lossy, c
  <2>2. Tracked(Partial, calls', v)
    BY <1>1, <2>1, TrackFirst
  <2>3. QED
    BY <2>1, <2>2
<1>3. Partial' = Partial
  BY DEF Partial
<1> HIDE DEF Partial
<1>4. edit.what = "cut" /\ pass = 1 => \E v : Partly(sent'.kind, v, sent'.msg) /\ Tracked(Partial', calls', v)
  BY <1>1, <1>2, <1>3
<1>5. edit.what = "cut" /\ pass = 2 => Partly(sent'.kind, first', sent'.msg)
  BY <1>1 DEF CInv, Lossy
<1>6. QED
  BY <1>1, <1>4, <1>5 DEF Lossy

\* A step of the loops.
LEMMA RunLossy ==
  ASSUME CInv, \/ Scalar \/ String \/ Nested \/ OpenEntry \/ EntryKey \/ EntryValue
               \/ OpenSkip \/ SkipMore \/ SkipEnds \/ Return
  PROVE  Lossy'
<1>1. res = "run" /\ Running
  BY DEF Scalar, String, Nested, OpenEntry, EntryKey, EntryValue, OpenSkip, SkipMore, SkipEnds, Return,
         InLoop
<1>2. /\ res' = "run" /\ sent' = sent /\ edit' = edit /\ pass' = pass /\ first' = first
  BY <1>1 DEF Running
<1>3. IInv
  BY DEF CInv, FInv
<1>4. ASSUME NEW v, Tracked(Partial, calls, v) PROVE Tracked(Partial, calls', v)
  BY <1>3, <1>4, ScalarTracked, StringTracked, NestedTracked, EntryTracked, OpenSkipTracked,
     SkipMoreTracked, SkipEndsTracked, ReturnTracked
<1>5. Partial' = Partial
  BY DEF Partial
<1> HIDE DEF Partial
<1>6. edit.what = "cut" /\ pass = 1 => \E v : Partly(sent'.kind, v, sent'.msg) /\ Tracked(Partial', calls', v)
  <2>1. SUFFICES ASSUME edit.what = "cut", pass = 1
                 PROVE  \E v : Partly(sent.kind, v, sent.msg) /\ Tracked(Partial, calls', v)
    BY <1>2, <1>5
  <2>2. PICK v : Partly(sent.kind, v, sent.msg) /\ Tracked(Partial, calls, v)
    BY <1>1, <2>1 DEF CInv, Lossy
  <2>3. QED
    BY <1>4, <2>2
<1>7. edit.what = "cut" /\ pass = 2 => Partly(sent'.kind, first', sent'.msg)
  BY <1>2 DEF CInv, Lossy
<1>8. QED
  BY <1>2, <1>6, <1>7 DEF Lossy

\* Unmarshal returns, or fails, or its result is written again.
LEMMA EndLossy ==
  ASSUME CInv, Done \/ Malformed \/ Refused \/ SkipFails \/ Again
  PROVE  Lossy'
<1>1. CASE Done
  <2>1. /\ res = "run" /\ res' = "ok" /\ sent' = sent /\ edit' = edit /\ pass' = pass /\ first' = first
    BY <1>1 DEF Done
  <2>2. ASSUME edit.what = "cut", pass = 1 PROVE Partly(sent'.kind, got', sent'.msg)
    <3>1. PICK v : Partly(sent.kind, v, sent.msg) /\ Tracked(Partial, calls, v)
      BY <2>1, <2>2 DEF CInv, Lossy
    <3>2. got' = v
      BY <1>1, <3>1, DoneTracked DEF CInv, FInv
    <3>3. QED
      BY <2>1, <3>1, <3>2
  <2>3. edit.what = "cut" /\ pass = 2 => Partly(sent'.kind, first', sent'.msg)
    BY <2>1 DEF CInv, Lossy
  <2>4. QED
    BY <2>1, <2>2, <2>3 DEF Lossy
<1>2. CASE Malformed \/ Refused \/ SkipFails
  <2>1. /\ res' = "error" /\ sent' = sent /\ edit' = edit /\ pass' = pass /\ first' = first
    BY <1>2 DEF Malformed, Refused, SkipFails, Fail
  <2>2. edit.what = "cut" /\ pass = 2 => Partly(sent'.kind, first', sent'.msg)
    BY <2>1 DEF CInv, Lossy
  <2>3. QED
    BY <2>1, <2>2 DEF Lossy
<1>3. CASE Again
  <2>1. /\ res = "ok" /\ res' = "send" /\ pass = 1 /\ pass' = 2 /\ first' = got
        /\ sent' = sent /\ edit' = edit
    BY <1>3 DEF Again
  <2>2. edit.what = "cut" => Partly(sent'.kind, first', sent'.msg)
    BY <2>1 DEF CInv, Lossy
  <2>3. QED
    BY <2>1, <2>2 DEF Lossy
<1>4. QED
  BY <1>1, <1>2, <1>3

\* Every step.
LEMMA LossyAlways ==
  ASSUME CInv, [Next]_vars
  PROVE  CInv'
<1>1. FInv'
  BY FollowsAlways DEF CInv
<1>2. CASE Wired
  BY <1>1, <1>2, WiredLossy DEF CInv
<1>3. CASE Decode
  <2>1. Lossy'
    BY <1>3, EncodeLossy, UnmarshalLossy, RunLossy, EndLossy DEF Decode
  <2>2. QED
    BY <1>1, <2>1 DEF CInv
<1>4. CASE UNCHANGED vars \/ Terminated
  <2>1. /\ sent' = sent /\ edit' = edit /\ buf' = buf /\ pass' = pass /\ calls' = calls
        /\ res' = res /\ got' = got /\ first' = first
    BY <1>4 DEF Terminated, vars
  <2>2. Partial' = Partial /\ First(Zero(sent.kind))' = First(Zero(sent.kind))
    BY <2>1 DEF Partial, First
  <2>3. Lossy'
    BY <2>1, <2>2 DEF CInv, Lossy
  <2>4. QED
    BY <1>1, <2>3 DEF CInv
<1>5. QED
  BY <1>2, <1>3, <1>4 DEF Next

\* A message that lost its tail is refused, or what is returned lacks fields or the last
\* elements of lists and maps, and nothing else, wherever the cut is.
THEOREM CutIsRefusedOrPartial == Spec => []CutIsPartial
<1>1. Init => CInv
  BY InitFInv DEF Init, CInv, Lossy
<1>2. CInv /\ [Next]_vars => CInv'
  BY LossyAlways
<1>3. CInv => CutIsPartial
  <2>1. SUFFICES ASSUME CInv, edit.what = "cut", res = "ok" PROVE Partly(sent.kind, got, sent.msg)
    BY DEF CutIsPartial, Partly
  <2>2. pass \in 1..2
    BY <2>1 DEF CInv, FInv, IInv, TypeOK
  <2>3. CASE pass = 1
    BY <2>1, <2>3 DEF CInv, Lossy
  <2>4. CASE pass = 2
    <3>1. got = first
      BY <2>1, <2>4 DEF CInv, FInv, Followed, Leading, Goal
    <3>2. Partly(sent.kind, first, sent.msg)
      BY <2>1, <2>4 DEF CInv, Lossy
    <3>3. QED
      BY <3>1, <3>2
  <2>5. QED
    BY <2>2, <2>3, <2>4
<1>4. QED
  BY <1>1, <1>2, <1>3, PTL DEF Spec
=============================================================================
