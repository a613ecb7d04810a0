----------------------------- MODULE CodecProofs -----------------------------
(***************************************************************************)
(* Theorems about Codec, for every width of a word and every message       *)
(* offered: Size counts what Marshal writes, the decoder never reads       *)
(* outside its slice whatever the bytes are, and what it returns is a      *)
(* message of its kind.                                                    *)
(***************************************************************************)
EXTENDS Codec, NumberLemmas, SequenceTheorems, FiniteSetTheorems

-----------------------------------------------------------------------------
(* Powers of two.                                                          *)

\* The recursion that defines them has a solution.
LEMMA PowExists ==
  \E pow : pow = [n \in 0..Word |-> IF n = 0 THEN 1 ELSE 2 * pow[n - 1]]
<1> DEFINE Solves(f, k) == f = [n \in 0..k |-> IF n = 0 THEN 1 ELSE 2 * f[n - 1]]
           S == {k \in Nat : \E f : Solves(f, k)}
<1>1. 0 \in S
  <2>1. Solves([n \in 0..0 |-> 1], 0)
    OBVIOUS
  <2>2. QED
    BY <2>1
<1>2. ASSUME NEW k \in Nat, k \in S PROVE k + 1 \in S
  <2>1. PICK f : Solves(f, k)
    BY <1>2
  <2> DEFINE g == [n \in 0..(k + 1) |-> IF n = k + 1 THEN 2 * f[k] ELSE f[n]]
  <2>2. ASSUME NEW n \in 0..(k + 1)
        PROVE  g[n] = IF n = 0 THEN 1 ELSE 2 * g[n - 1]
    <3>1. CASE n = k + 1
      <4>1. g[n] = 2 * f[k] /\ g[n - 1] = f[k] /\ n # 0
        BY <3>1
      <4>2. QED
        BY <4>1
    <3>2. CASE n # k + 1
      <4>1. n \in 0..k /\ g[n] = f[n]
        BY <3>2
      <4>2. f[n] = IF n = 0 THEN 1 ELSE 2 * f[n - 1]
        BY <2>1, <4>1
      <4>3. n # 0 => g[n - 1] = f[n - 1]
        BY <4>1
      <4>4. QED
        BY <4>1, <4>2, <4>3
    <3>3. QED
      BY <3>1, <3>2
  <2>3. Solves(g, k + 1)
    BY <2>2
  <2> HIDE DEF g, Solves
  <2>4. QED
    BY <2>3
<1>3. Word \in S
  <2> HIDE DEF S
  <2>1. QED
    BY <1>1, <1>2, Induction, WireAssumption
<1>4. QED
  BY <1>3

\* So they are what the recursion says.
LEMMA PowRecursion ==
  /\ DOMAIN Pow2 = 0..Word
  /\ \A n \in 0..Word : Pow2[n] = IF n = 0 THEN 1 ELSE 2 * Pow2[n - 1]
<1> DEFINE Solves(f) == f = [n \in 0..Word |-> IF n = 0 THEN 1 ELSE 2 * f[n - 1]]
           pow == CHOOSE f : Solves(f)
<1>1. Pow2 = [n \in 0..Word |-> pow[n]]
  BY DEF Pow2
<1>2. Solves(pow)
  <2>1. \E f : Solves(f)
    BY PowExists
  <2>2. QED
    BY <2>1
<1> HIDE DEF pow
<1>3. \A n \in 0..Word : pow[n] = IF n = 0 THEN 1 ELSE 2 * pow[n - 1]
  BY <1>2
<1>4. \A n \in 0..Word : n # 0 => n - 1 \in 0..Word
  BY WireAssumption
<1>5. QED
  BY <1>1, <1>3, <1>4

\* They are positive numbers.
LEMMA PowPositive == \A n \in 0..Word : Pow2[n] \in Nat \ {0}
<1> DEFINE S == {n \in Nat : n <= Word => Pow2[n] \in Nat \ {0}}
<1>1. 0 \in S
  BY PowRecursion, WireAssumption
<1>2. ASSUME NEW n \in Nat, n \in S PROVE n + 1 \in S
  <2>1. n + 1 <= Word => Pow2[n + 1] = 2 * Pow2[n]
    BY PowRecursion, WireAssumption
  <2>2. QED
    BY <1>2, <2>1, WireAssumption
<1>3. \A n \in Nat : n \in S
  <2> HIDE DEF S
  <2>1. QED
    BY <1>1, <1>2, Induction
<1>4. QED
  BY <1>3, WireAssumption

\* The power of a sum is the product of the powers.
LEMMA PowSum ==
  ASSUME NEW m \in Nat, NEW n \in Nat, m + n <= Word
  PROVE  Pow2[m + n] = Pow2[m] * Pow2[n]
<1> DEFINE S == {k \in Nat : m + k <= Word => Pow2[m + k] = Pow2[m] * Pow2[k]}
<1>1. 0 \in S
  BY PowRecursion, PowPositive, WireAssumption
<1>2. ASSUME NEW k \in Nat, k \in S PROVE k + 1 \in S
  <2>1. SUFFICES ASSUME m + (k + 1) <= Word
                 PROVE  Pow2[m + (k + 1)] = Pow2[m] * Pow2[k + 1]
    OBVIOUS
  <2>2. Pow2[m + (k + 1)] = 2 * Pow2[m + k] /\ Pow2[k + 1] = 2 * Pow2[k]
    <3>1. ASSUME NEW j \in 0..Word, j # 0 PROVE Pow2[j] = 2 * Pow2[j - 1]
      BY <3>1, PowRecursion
    <3>2. /\ m + (k + 1) \in 0..Word /\ m + (k + 1) # 0 /\ (m + (k + 1)) - 1 = m + k
          /\ k + 1 \in 0..Word /\ k + 1 # 0 /\ (k + 1) - 1 = k
      BY <2>1, WireAssumption
    <3>3. QED
      BY <3>1, <3>2
  <2>3. Pow2[m + k] = Pow2[m] * Pow2[k]
    BY <1>2, <2>1, WireAssumption
  <2>4. Pow2[m] \in Nat /\ Pow2[k] \in Nat
    BY <2>1, PowPositive, WireAssumption
  <2>5. QED
    BY <2>2, <2>3, <2>4
<1>3. \A k \in Nat : k \in S
  <2> HIDE DEF S
  <2>1. QED
    BY <1>1, <1>2, Induction
<1>4. QED
  BY <1>3

\* They grow.
LEMMA PowMonotone ==
  ASSUME NEW m \in 0..Word, NEW n \in 0..Word, m <= n
  PROVE  Pow2[m] <= Pow2[n]
<1>1. Pow2[m + (n - m)] = Pow2[m] * Pow2[n - m]
  BY PowSum, WireAssumption
<1>2. Pow2[m] \in Nat /\ Pow2[n - m] \in Nat \ {0}
  BY PowPositive, WireAssumption
<1>3. Pow2[m] * (Pow2[n - m] - 1) \in Nat
  BY <1>2, ProductNat
<1>4. Pow2[m] * Pow2[n - m] = Pow2[m] * (Pow2[n - m] - 1) + Pow2[m]
  BY <1>2
<1>5. m + (n - m) = n
  BY WireAssumption
<1>6. QED
  BY <1>1, <1>2, <1>3, <1>4, <1>5

-----------------------------------------------------------------------------
(* Sums.                                                                   *)

\* The recursion behind SumFunctionOnSet.
Pick(s) == CHOOSE x \in s : TRUE
Sums(f, g, D) ==
  f = [s \in SUBSET D |-> IF s = {} THEN 0 ELSE g[Pick(s)] + f[s \ {Pick(s)}]]

\* An element is picked, and what is left has one element less.
LEMMA PickElement ==
  ASSUME NEW s, IsFiniteSet(s), s # {}
  PROVE  /\ Pick(s) \in s
         /\ IsFiniteSet(s \ {Pick(s)})
         /\ Cardinality(s) \in Nat \ {0}
         /\ Cardinality(s \ {Pick(s)}) = Cardinality(s) - 1
<1>1. Pick(s) \in s
  BY DEF Pick
<1>2. Cardinality(s) \in Nat /\ Cardinality(s) # 0
  BY FS_CardinalityType, FS_EmptySet
<1>3. QED
  BY <1>1, <1>2, FS_RemoveElement

\* The recursion has a solution on a finite set.
LEMMA SumsExist ==
  ASSUME NEW g, NEW D, IsFiniteSet(D)
  PROVE  \E f : Sums(f, g, D)
<1> DEFINE Small(k) == {s \in SUBSET D : Cardinality(s) <= k}
           Step(f, s) == IF s = {} THEN 0 ELSE g[Pick(s)] + f[s \ {Pick(s)}]
           Solves(f, k) == DOMAIN f = Small(k) /\ \A s \in Small(k) : f[s] = Step(f, s)
           S == {k \in Nat : \E f : Solves(f, k)}
<1>1. \A s \in SUBSET D : IsFiniteSet(s) /\ Cardinality(s) \in Nat /\ Cardinality(s) <= Cardinality(D)
  BY FS_Subset, FS_CardinalityType
<1>2. 0 \in S
  <2> DEFINE f == [s \in Small(0) |-> 0]
  <2>1. \A s \in Small(0) : s = {}
    BY <1>1, FS_EmptySet
  <2>2. Solves(f, 0)
    BY <2>1
  <2> HIDE DEF f, Solves
  <2>3. QED
    BY <2>2
<1>3. ASSUME NEW k \in Nat, k \in S PROVE k + 1 \in S
  <2>1. PICK f : Solves(f, k)
    BY <1>3
  <2> DEFINE h == [s \in Small(k + 1) |-> Step(f, s)]
  <2>2. ASSUME NEW s \in Small(k + 1), s # {}
        PROVE  s \ {Pick(s)} \in Small(k) /\ s \ {Pick(s)} \in Small(k + 1)
    <3>1. IsFiniteSet(s) /\ s \in SUBSET D /\ Cardinality(s) <= k + 1
      BY <1>1
    <3>2. s \ {Pick(s)} \in SUBSET D
      BY <3>1
    <3>3. Cardinality(s) \in Nat \ {0} /\ Cardinality(s \ {Pick(s)}) = Cardinality(s) - 1
      BY <2>2, <3>1, PickElement
    <3>4. QED
      BY <3>1, <3>2, <3>3
  <2>3. ASSUME NEW s \in Small(k) PROVE s \in Small(k + 1) /\ h[s] = f[s]
    <3>1. s \in Small(k + 1)
      BY <1>1
    <3>2. h[s] = Step(f, s) /\ f[s] = Step(f, s)
      BY <2>1, <3>1
    <3>3. QED
      BY <3>1, <3>2
  <2>4. ASSUME NEW s \in Small(k + 1) PROVE h[s] = Step(h, s)
    <3>1. h[s] = Step(f, s)
      OBVIOUS
    <3>2. s # {} => h[s \ {Pick(s)}] = f[s \ {Pick(s)}]
      BY <2>2, <2>3
    <3> HIDE DEF h, Small
    <3>3. QED
      BY <3>1, <3>2
  <2>5. Solves(h, k + 1)
    BY <2>4
  <2> HIDE DEF h, Solves
  <2>6. QED
    BY <2>5
<1>4. Cardinality(D) \in S
  <2>1. Cardinality(D) \in Nat
    BY FS_CardinalityType
  <2> HIDE DEF S
  <2>2. QED
    BY <1>2, <1>3, <2>1, Induction
<1>5. PICK f : Solves(f, Cardinality(D))
  BY <1>4
<1>6. Small(Cardinality(D)) = SUBSET D
  BY <1>1
<1> DEFINE h == [s \in SUBSET D |-> f[s]]
<1>7. \A s \in SUBSET D : h[s] = Step(f, s)
  BY <1>5, <1>6
<1>8. \A s \in SUBSET D : s \ {Pick(s)} \in SUBSET D
  OBVIOUS
<1>9. \A s \in SUBSET D : h[s] = IF s = {} THEN 0 ELSE g[Pick(s)] + h[s \ {Pick(s)}]
  BY <1>7, <1>8
<1>10. h = [s \in SUBSET D |-> IF s = {} THEN 0 ELSE g[Pick(s)] + h[s \ {Pick(s)}]]
  BY <1>9
<1>11. QED
  BY <1>10 DEF Sums

\* Its solutions on two sets agree on the subsets of both.
LEMMA SumsAgree ==
  ASSUME NEW g, NEW D, IsFiniteSet(D), NEW E \in SUBSET D,
         NEW f, Sums(f, g, D), NEW h, Sums(h, g, E)
  PROVE  \A s \in SUBSET E : f[s] = h[s]
<1> DEFINE S == {k \in Nat : \A s \in SUBSET E : Cardinality(s) = k => f[s] = h[s]}
<1>1. \A s \in SUBSET E :
        /\ IsFiniteSet(s)
        /\ f[s] = IF s = {} THEN 0 ELSE g[Pick(s)] + f[s \ {Pick(s)}]
        /\ h[s] = IF s = {} THEN 0 ELSE g[Pick(s)] + h[s \ {Pick(s)}]
  BY FS_Subset DEF Sums
<1>2. 0 \in S
  <2>1. \A s \in SUBSET E : Cardinality(s) = 0 => s = {}
    BY <1>1, FS_EmptySet
  <2>2. QED
    BY <1>1, <2>1
<1>3. ASSUME NEW k \in Nat, k \in S PROVE k + 1 \in S
  <2>1. SUFFICES ASSUME NEW s \in SUBSET E, Cardinality(s) = k + 1 PROVE f[s] = h[s]
    OBVIOUS
  <2>2. s # {}
    BY <2>1, FS_EmptySet
  <2>3. s \ {Pick(s)} \in SUBSET E /\ Cardinality(s \ {Pick(s)}) = k
    <3>1. IsFiniteSet(s)
      BY <1>1
    <3>2. Cardinality(s \ {Pick(s)}) = Cardinality(s) - 1
      BY <2>2, <3>1, PickElement
    <3>3. QED
      BY <2>1, <3>2
  <2>4. f[s \ {Pick(s)}] = h[s \ {Pick(s)}]
    BY <1>3, <2>3
  <2>5. QED
    BY <1>1, <2>2, <2>4
<1>4. \A k \in Nat : k \in S
  <2> HIDE DEF S
  <2>1. QED
    BY <1>2, <1>3, Induction
<1>5. \A s \in SUBSET E : Cardinality(s) \in Nat
  BY <1>1, FS_CardinalityType
<1>6. QED
  BY <1>4, <1>5

\* The sum over a finite set is one of its solutions.
LEMMA SumIsSolution ==
  ASSUME NEW g, NEW D, IsFiniteSet(D)
  PROVE  \E f : Sums(f, g, D) /\ SumFunctionOnSet(g, D) = f[D]
<1> DEFINE f == CHOOSE f : Sums(f, g, D)
<1>1. Sums(f, g, D)
  <2>1. \E h : Sums(h, g, D)
    BY SumsExist
  <2>2. QED
    BY <2>1
<1>2. SumFunctionOnSet(g, D) = f[D]
  BY DEF SumFunctionOnSet, FoldFunctionOnSet, MapThenFoldSet, Sums, Pick
<1> HIDE DEF f
<1>3. QED
  BY <1>1, <1>2

\* A sum is unfolded at the element that is picked.
LEMMA SumUnfold ==
  ASSUME NEW g, NEW D, IsFiniteSet(D)
  PROVE  SumFunctionOnSet(g, D) =
           IF D = {} THEN 0 ELSE g[Pick(D)] + SumFunctionOnSet(g, D \ {Pick(D)})
<1>1. PICK f : Sums(f, g, D) /\ SumFunctionOnSet(g, D) = f[D]
  BY SumIsSolution
<1>2. f[D] = IF D = {} THEN 0 ELSE g[Pick(D)] + f[D \ {Pick(D)}]
  BY <1>1 DEF Sums
<1>3. ASSUME D # {}
      PROVE  f[D \ {Pick(D)}] = SumFunctionOnSet(g, D \ {Pick(D)})
  <2> DEFINE E == D \ {Pick(D)}
  <2>1. IsFiniteSet(E) /\ E \in SUBSET D
    BY <1>3, PickElement
  <2>2. PICK h : Sums(h, g, E) /\ SumFunctionOnSet(g, E) = h[E]
    BY <2>1, SumIsSolution
  <2>3. E \in SUBSET E
    OBVIOUS
  <2> HIDE DEF E
  <2>4. \A s \in SUBSET E : f[s] = h[s]
    BY <1>1, <2>1, <2>2, SumsAgree
  <2>5. QED
    BY <2>2, <2>3, <2>4 DEF E
<1>4. QED
  BY <1>1, <1>2, <1>3

\* A sum of numbers is a number, and it can be unfolded at any element.
LEMMA SumNat ==
  ASSUME NEW g, NEW D, IsFiniteSet(D), \A x \in D : g[x] \in Nat
  PROVE  /\ SumFunctionOnSet(g, D) \in Nat
         /\ \A x \in D : SumFunctionOnSet(g, D) = g[x] + SumFunctionOnSet(g, D \ {x})
<1> DEFINE Good(E) ==
             /\ SumFunctionOnSet(g, E) \in Nat
             /\ \A x \in E : SumFunctionOnSet(g, E) = g[x] + SumFunctionOnSet(g, E \ {x})
           S == {k \in Nat : \A E \in SUBSET D : IsFiniteSet(E) /\ Cardinality(E) <= k => Good(E)}
<1>1. 0 \in S
  <2>1. SUFFICES ASSUME NEW E \in SUBSET D, IsFiniteSet(E), Cardinality(E) <= 0 PROVE Good(E)
    OBVIOUS
  <2>2. E = {}
    BY <2>1, FS_EmptySet, FS_CardinalityType
  <2>3. SumFunctionOnSet(g, {}) = 0
    BY SumUnfold, FS_EmptySet
  <2>4. QED
    BY <2>2, <2>3
<1>2. ASSUME NEW k \in Nat, k \in S PROVE k + 1 \in S
  <2>1. SUFFICES ASSUME NEW E \in SUBSET D, IsFiniteSet(E), Cardinality(E) <= k + 1, E # {}
                 PROVE  Good(E)
    <3>1. ASSUME NEW E \in SUBSET D, E = {} PROVE Good(E)
      <4>1. SumFunctionOnSet(g, {}) = 0
        BY SumUnfold, FS_EmptySet
      <4>2. QED
        BY <3>1, <4>1
    <3> HIDE DEF Good
    <3>2. QED
      BY <3>1
  <2> DEFINE p == Pick(E)
  <2>2. p \in E
    BY <2>1, PickElement
  <2>3. ASSUME NEW x \in E
        PROVE  /\ E \ {x} \in SUBSET D /\ IsFiniteSet(E \ {x}) /\ Cardinality(E \ {x}) <= k
               /\ Good(E \ {x})
    <3>1. /\ IsFiniteSet(E \ {x}) /\ Cardinality(E \ {x}) = Cardinality(E) - 1
          /\ Cardinality(E) \in Nat
      BY <2>1, FS_RemoveElement, FS_CardinalityType
    <3>2. E \ {x} \in SUBSET D /\ Cardinality(E \ {x}) <= k
      BY <2>1, <3>1
    <3> HIDE DEF Good
    <3>3. QED
      BY <1>2, <3>1, <3>2
  <2>4. SumFunctionOnSet(g, E) = g[p] + SumFunctionOnSet(g, E \ {p})
    BY <2>1, SumUnfold
  <2>5. \A x \in E : g[x] \in Nat /\ SumFunctionOnSet(g, E \ {x}) \in Nat
    BY <2>3
  <2>6. ASSUME NEW x \in E PROVE SumFunctionOnSet(g, E) = g[x] + SumFunctionOnSet(g, E \ {x})
    <3>1. CASE x = p
      BY <2>4, <3>1
    <3>2. CASE x # p
      <4>1. x \in E \ {p} /\ p \in E \ {x} /\ (E \ {p}) \ {x} = (E \ {x}) \ {p}
        BY <2>2, <3>2
      <4>2. SumFunctionOnSet(g, E \ {p}) = g[x] + SumFunctionOnSet(g, (E \ {p}) \ {x})
        BY <2>2, <2>3, <4>1
      <4>3. SumFunctionOnSet(g, E \ {x}) = g[p] + SumFunctionOnSet(g, (E \ {x}) \ {p})
        BY <2>3, <4>1
      <4>4. SumFunctionOnSet(g, (E \ {p}) \ {x}) \in Int
        <5>1. /\ IsFiniteSet((E \ {p}) \ {x})
              /\ Cardinality((E \ {p}) \ {x}) = Cardinality(E \ {p}) - 1
              /\ Cardinality(E \ {p}) \in Nat /\ Cardinality(E \ {p}) <= k
          BY <2>2, <2>3, <4>1, FS_RemoveElement, FS_CardinalityType
        <5>2. Good((E \ {p}) \ {x})
          <6>1. (E \ {p}) \ {x} \in SUBSET D /\ Cardinality((E \ {p}) \ {x}) <= k
            BY <5>1
          <6> HIDE DEF Good
          <6>2. QED
            BY <1>2, <5>1, <6>1
        <5>3. QED
          BY <5>2
      <4>5. g[x] \in Nat /\ g[p] \in Nat
        BY <2>2, <2>5
      <4> DEFINE r == SumFunctionOnSet(g, (E \ {p}) \ {x})
      <4>6. SumFunctionOnSet(g, E) = g[p] + (g[x] + r)
        BY <2>4, <4>2
      <4>7. SumFunctionOnSet(g, E \ {x}) = g[p] + r
        BY <4>1, <4>3
      <4>8. \A a, b \in Nat, c \in Int : a + (b + c) = b + (a + c)
        OBVIOUS
      <4>9. r \in Int
        BY <4>4
      <4> HIDE DEF p, r
      <4>10. QED
        BY <4>5, <4>6, <4>7, <4>8, <4>9
    <3>3. QED
      BY <3>1, <3>2
  <2>7. SumFunctionOnSet(g, E) \in Nat
    BY <2>2, <2>4, <2>5
  <2>8. QED
    BY <2>6, <2>7
<1>3. \A k \in Nat : k \in S
  <2> HIDE DEF S
  <2>1. QED
    BY <1>1, <1>2, Induction
<1>4. Cardinality(D) \in Nat /\ D \in SUBSET D
  BY FS_CardinalityType
<1>5. Good(D)
  <2> HIDE DEF Good
  <2>1. QED
    BY <1>3, <1>4
<1>6. QED
  BY <1>5

\* The empty sum.
LEMMA SumEmpty == \A g : SumFunctionOnSet(g, {}) = 0
  BY SumUnfold, FS_EmptySet

\* A sum with one element more.
LEMMA SumAdd ==
  ASSUME NEW g, NEW D, IsFiniteSet(D), NEW y, y \notin D, \A x \in D \cup {y} : g[x] \in Nat
  PROVE  SumFunctionOnSet(g, D \cup {y}) = g[y] + SumFunctionOnSet(g, D)
<1>1. IsFiniteSet(D \cup {y}) /\ (D \cup {y}) \ {y} = D
  BY FS_AddElement
<1>2. QED
  BY <1>1, SumNat

-----------------------------------------------------------------------------
(* Sequences.                                                              *)

\* A function on 1..n is a sequence of length n.
LEMMA FunctionIsSeq ==
  ASSUME NEW T, NEW n \in Nat, NEW s \in [1..n -> T]
  PROVE  s \in Seq(T) /\ Len(s) = n
  OBVIOUS

\* The recursion behind FlattenSeq has a solution.
LEMMA FlattenExists ==
  ASSUME NEW s, NEW n \in Nat
  PROVE  \E f : f = [i \in 1..n |-> IF i = 1 THEN s[i] ELSE f[i - 1] \o s[i]]
<1> DEFINE Solves(f, k) == f = [i \in 1..k |-> IF i = 1 THEN s[i] ELSE f[i - 1] \o s[i]]
           S == {k \in Nat : \E f : Solves(f, k)}
<1>1. 0 \in S
  <2> DEFINE f == [i \in 1..0 |-> 0]
  <2>1. Solves(f, 0)
    OBVIOUS
  <2> HIDE DEF f, Solves
  <2>2. QED
    BY <2>1
<1>2. ASSUME NEW k \in Nat, k \in S PROVE k + 1 \in S
  <2>1. PICK f : Solves(f, k)
    BY <1>2
  <2> DEFINE h == [i \in 1..(k + 1) |->
                     IF i = k + 1 THEN IF i = 1 THEN s[i] ELSE f[k] \o s[i] ELSE f[i]]
  <2>2. ASSUME NEW i \in 1..(k + 1)
        PROVE  h[i] = IF i = 1 THEN s[i] ELSE h[i - 1] \o s[i]
    <3>1. CASE i = k + 1
      <4>1. h[i] = IF i = 1 THEN s[i] ELSE f[k] \o s[i]
        BY <3>1
      <4>2. i # 1 => h[i - 1] = f[k]
        BY <3>1
      <4> HIDE DEF h
      <4>3. QED
        BY <4>1, <4>2
    <3>2. CASE i # k + 1
      <4>1. i \in 1..k /\ h[i] = f[i]
        BY <3>2
      <4>2. f[i] = IF i = 1 THEN s[i] ELSE f[i - 1] \o s[i]
        BY <2>1, <4>1
      <4>3. i # 1 => h[i - 1] = f[i - 1]
        BY <4>1
      <4> HIDE DEF h
      <4>4. QED
        BY <4>1, <4>2, <4>3
    <3>3. QED
      BY <3>1, <3>2
  <2>3. Solves(h, k + 1)
    BY <2>2
  <2> HIDE DEF h, Solves
  <2>4. QED
    BY <2>3
<1>3. n \in S
  <2> HIDE DEF S
  <2>1. QED
    BY <1>1, <1>2, Induction
<1>4. QED
  BY <1>3

\* The keys in some order, each once, and the lengths of a sequence's elements under
\* the keys in that order.
Lists(order, n, keys) ==
  /\ order \in [1..n -> keys]
  /\ \A i, j \in 1..n : order[i] = order[j] => i = j
  /\ \A k \in keys : \E i \in 1..n : k = order[i]
Lengths(g, order, s) == \A i \in 1..Len(s) : g[order[i]] = Len(s[i])

\* FlattenSeq yields a sequence as long as the elements together.
LEMMA Flattened ==
  ASSUME NEW T, NEW s \in Seq(Seq(T)), NEW g, NEW keys, NEW order,
         Lists(order, Len(s), keys), Lengths(g, order, s)
  PROVE  /\ FlattenSeq(s) \in Seq(T)
         /\ Len(FlattenSeq(s)) = SumFunctionOnSet(g, keys)
<1> USE DEF Lists, Lengths
<1> DEFINE Keys(k) == {order[i] : i \in 1..k}
<1>1. keys = Keys(Len(s))
  <2>1. \A k \in keys : k \in Keys(Len(s))
    OBVIOUS
  <2>2. \A k \in Keys(Len(s)) : k \in keys
    OBVIOUS
  <2> HIDE DEF Keys
  <2>3. QED
    BY <2>1, <2>2
<1>2. Len(s) \in Nat /\ \A i \in 1..Len(s) : s[i] \in Seq(T)
  BY LenProperties, ElementOfSeq
<1>3. CASE Len(s) = 0
  <2>1. s = <<>> /\ FlattenSeq(s) = <<>>
    BY <1>3, EmptySeq DEF FlattenSeq
  <2>2. Keys(Len(s)) = {}
    BY <1>3
  <2>3. <<>> \in Seq(T) /\ Len(<<>>) = 0
    BY EmptySeq
  <2>4. SumFunctionOnSet(g, {}) = 0
    BY SumEmpty
  <2>5. SumFunctionOnSet(g, Keys(Len(s))) = 0
    BY <2>2, <2>4
  <2> HIDE DEF Keys
  <2>6. QED
    BY <1>1, <2>1, <2>3, <2>5
<1>4. CASE Len(s) # 0
  <2> DEFINE Solves(f) == f = [i \in 1..Len(s) |-> IF i = 1 THEN s[i] ELSE f[i - 1] \o s[i]]
             flatten == CHOOSE f : Solves(f)
  <2>1. FlattenSeq(s) = flatten[Len(s)]
    BY <1>4 DEF FlattenSeq
  <2>2. Solves(flatten)
    <3>1. \E f : Solves(f)
      BY <1>2, FlattenExists
    <3>2. QED
      BY <3>1
  <2> HIDE DEF flatten
  <2>3. \A i \in 1..Len(s) : flatten[i] = IF i = 1 THEN s[i] ELSE flatten[i - 1] \o s[i]
    BY <2>2
  <2> HIDE DEF Solves
  <2> DEFINE Good(k) == /\ flatten[k] \in Seq(T)
                        /\ IsFiniteSet(Keys(k))
                        /\ Len(flatten[k]) = SumFunctionOnSet(g, Keys(k))
             S == {k \in Nat : k + 1 \in 1..Len(s) => Good(k + 1)}
  <2>4. \A i \in 1..Len(s) : g[order[i]] \in Nat /\ Len(s[i]) \in Nat
    BY <1>2, LenProperties
  <2>5. 0 \in S
    <3>1. flatten[1] = s[1] /\ s[1] \in Seq(T)
      BY <1>2, <1>4, <2>3
    <3>2. Keys(1) = {} \cup {order[1]}
      OBVIOUS
    <3>3. IsFiniteSet({}) /\ IsFiniteSet(Keys(1))
      <4>1. IsFiniteSet({})
        BY FS_EmptySet
      <4>2. IsFiniteSet({} \cup {order[1]})
        BY <4>1, FS_AddElement
      <4>3. QED
        BY <3>2, <4>1, <4>2
    <3>4. 1 \in 1..Len(s)
      BY <1>2, <1>4
    <3>5. SumFunctionOnSet(g, {} \cup {order[1]}) = g[order[1]] + SumFunctionOnSet(g, {})
      BY <2>4, <3>3, <3>4, SumAdd
    <3>6. SumFunctionOnSet(g, Keys(1)) = g[order[1]]
      <4>1. SumFunctionOnSet(g, {}) = 0 /\ g[order[1]] \in Nat
        BY <2>4, <3>4, SumEmpty
      <4>2. \A x \in Nat : x + 0 = x
        OBVIOUS
      <4>3. SumFunctionOnSet(g, {} \cup {order[1]}) = g[order[1]]
        BY <3>5, <4>1, <4>2
      <4>4. QED
        BY <3>2, <4>3
    <3>7. Good(1)
      BY <3>1, <3>3, <3>4, <3>6
    <3> HIDE DEF Good
    <3>8. QED
      BY <3>7
  <2>6. ASSUME NEW k \in Nat, k \in S PROVE k + 1 \in S
    <3> DEFINE m == k + 1
    <3>1. SUFFICES ASSUME m + 1 \in 1..Len(s) PROVE Good(m + 1)
      OBVIOUS
    <3>2. m \in 1..Len(s) /\ m + 1 # 1 /\ (m + 1) - 1 = m
      BY <1>2, <3>1
    <3>3. Good(m)
      BY <2>6, <3>2
    <3> HIDE DEF m
    <3>4. flatten[m + 1] = flatten[m] \o s[m + 1]
      BY <2>3, <3>1, <3>2
    <3>5. s[m + 1] \in Seq(T)
      BY <1>2, <3>1
    <3>6. /\ flatten[m + 1] \in Seq(T)
          /\ Len(flatten[m + 1]) = Len(flatten[m]) + Len(s[m + 1])
      <4>1. flatten[m] \in Seq(T)
        BY <3>3
      <4>2. QED
        BY <3>4, <3>5, <4>1, ConcatProperties
    <3>7. Keys(m + 1) = Keys(m) \cup {order[m + 1]}
      BY <3>2
    <3>8. order[m + 1] \notin Keys(m)
      BY <1>2, <3>1, <3>2
    <3>9. \A x \in Keys(m) \cup {order[m + 1]} : g[x] \in Nat
      <4>1. \A i \in 1..m : i \in 1..Len(s)
        BY <1>2, <3>2
      <4>2. QED
        BY <2>4, <3>1, <4>1
    <3>10. IsFiniteSet(Keys(m))
      BY <3>3
    <3>11. /\ IsFiniteSet(Keys(m + 1))
           /\ SumFunctionOnSet(g, Keys(m + 1)) = g[order[m + 1]] + SumFunctionOnSet(g, Keys(m))
      <4> HIDE DEF Keys
      <4>1. QED
        BY ONLY <3>7, <3>8, <3>9, <3>10, FS_AddElement, SumAdd
    <3>12. Len(flatten[m]) = SumFunctionOnSet(g, Keys(m)) /\ Len(flatten[m]) \in Nat
      BY <3>3, LenProperties
    <3>13. g[order[m + 1]] = Len(s[m + 1]) /\ Len(s[m + 1]) \in Nat
      BY <2>4, <3>1
    <3> HIDE DEF Keys
    <3>14. QED
      BY <3>6, <3>11, <3>12, <3>13
  <2>7. \A k \in Nat : k \in S
    <3> HIDE DEF S
    <3>1. QED
      BY <2>5, <2>6, Induction
  <2>8. Len(s) - 1 \in Nat /\ (Len(s) - 1) + 1 = Len(s) /\ Len(s) \in 1..Len(s)
    BY <1>2, <1>4
  <2>9. Good(Len(s))
    <3> HIDE DEF Good
    <3>1. QED
      BY <2>7, <2>8
  <2> HIDE DEF Keys
  <2>10. QED
    BY <1>1, <2>1, <2>9
<1>5. QED
  BY <1>3, <1>4

-----------------------------------------------------------------------------
(* Written fields and their sizes.                                         *)

\* The number of bits of a number, at most those of a word.
LEMMA Len64Type == \A x : Len64(x) \in 0..Word
<1> SUFFICES ASSUME NEW x PROVE Len64(x) \in 0..Word
  OBVIOUS
<1> DEFINE B == {n \in 0..(Word - 1) : x >= Pow2[n]}
<1>1. IsFiniteSet(0..(Word - 1)) /\ Cardinality(0..(Word - 1)) = Word
  <2>1. 0 \in Int /\ Word - 1 \in Int
    BY WireAssumption
  <2>2. /\ IsFiniteSet(0..(Word - 1))
        /\ Cardinality(0..(Word - 1)) = IF 0 > Word - 1 THEN 0 ELSE (Word - 1) - 0 + 1
    BY <2>1, FS_Interval
  <2>3. QED
    BY <2>2, WireAssumption
<1>2. IsFiniteSet(B) /\ Cardinality(B) <= Cardinality(0..(Word - 1))
  <2>1. B \in SUBSET (0..(Word - 1))
    OBVIOUS
  <2> HIDE DEF B
  <2>2. QED
    BY <1>1, <2>1, FS_Subset
<1>3. Cardinality(B) \in Nat
  BY <1>2, FS_CardinalityType
<1>4. QED
  BY <1>1, <1>2, <1>3, WireAssumption DEF Len64

\* A varint has as many groups of seven bits as fit into a word.
LEMMA SovType ==
  ASSUME NEW v
  PROVE  /\ Sov(v) \in Nat
         /\ \A i \in 1..Sov(v) : i - 1 \in Nat /\ 7 * (i - 1) \in 0..Word
<1> DEFINE l == Len64(IF v = 0 THEN 1 ELSE v)
<1>1. l \in 0..Word
  BY Len64Type
<1>2. Sov(v) = (l + 6) \div 7
  BY DEF Sov
<1> HIDE DEF l
<1>3. Sov(v) \in Nat /\ 7 * Sov(v) <= l + 6
  BY <1>1, <1>2, WireAssumption
<1>4. QED
  BY <1>1, <1>3, WireAssumption

\* What is left of a number is a number.
LEMMA RestType ==
  ASSUME NEW v \in Nat, NEW i \in Nat, 7 * i \in 0..Word
  PROVE  Rest(v, i) \in Nat
<1>1. Pow2[7 * i] \in Nat \ {0}
  BY PowPositive
<1>2. QED
  BY <1>1, DivMod DEF Rest

\* A varint is written as bytes, in the space Sov allots.
LEMMA VarintBytes ==
  ASSUME NEW v \in Nat
  PROVE  Varint(v) \in Seq(Byte) /\ Len(Varint(v)) = Sov(v) /\ Sov(v) \in Nat
<1>1. Sov(v) \in Nat
  BY SovType
<1>2. ASSUME NEW i \in 1..Sov(v)
      PROVE  (IF Rest(v, i - 1) >= 128 THEN 128 + (Rest(v, i - 1) % 128)
              ELSE Rest(v, i - 1)) \in Byte
  <2>1. Rest(v, i - 1) \in Nat
    BY SovType, RestType
  <2>2. QED
    BY <2>1 DEF Byte
<1>3. Varint(v) \in [1..Sov(v) -> Byte]
  BY <1>2 DEF Varint
<1>4. QED
  BY <1>1, <1>3

\* Concatenation of bytes.
LEMMA Concat ==
  \A a, b \in Seq(Byte) :
    /\ a \o b \in Seq(Byte)
    /\ Len(a \o b) = Len(a) + Len(b)
    /\ Len(a) \in Nat /\ Len(b) \in Nat
  BY ConcatProperties, LenProperties

\* A tag is one byte, a flag another.
LEMMA TagBytes ==
  ASSUME NEW tag \in Byte, NEW b \in Byte
  PROVE  /\ <<tag>> \in Seq(Byte) /\ Len(<<tag>>) = 1
         /\ <<tag, b>> \in Seq(Byte) /\ Len(<<tag, b>>) = 2
  OBVIOUS

\* A delimited element.
LEMMA DelimitedBytes ==
  ASSUME NEW tag \in Byte, NEW bytes \in Seq(Byte)
  PROVE  /\ Delimited(tag, bytes) \in Seq(Byte)
         /\ Len(Delimited(tag, bytes)) = DelimitedSize(Len(bytes))
         /\ DelimitedSize(Len(bytes)) \in Nat
<1>1. Len(bytes) \in Nat
  BY LenProperties
<1>2. /\ Varint(Len(bytes)) \in Seq(Byte) /\ Len(Varint(Len(bytes))) = Sov(Len(bytes))
      /\ Sov(Len(bytes)) \in Nat
  BY <1>1, VarintBytes
<1>3. <<tag>> \in Seq(Byte) /\ Len(<<tag>>) = 1
  BY TagBytes
<1>4. /\ <<tag>> \o Varint(Len(bytes)) \in Seq(Byte)
      /\ Len(<<tag>> \o Varint(Len(bytes))) = 1 + Sov(Len(bytes))
  BY <1>2, <1>3, Concat
<1>5. /\ Delimited(tag, bytes) \in Seq(Byte)
      /\ Len(Delimited(tag, bytes)) = (1 + Sov(Len(bytes))) + Len(bytes)
  BY <1>4, Concat DEF Delimited
<1>6. QED
  BY <1>1, <1>2, <1>5 DEF DelimitedSize

\* Bytes and strings, left out when empty.
LEMMA BytesFieldBytes ==
  ASSUME NEW tag \in Byte, NEW bytes \in Seq(Byte)
  PROVE  /\ BytesField(tag, bytes) \in Seq(Byte)
         /\ Len(BytesField(tag, bytes)) = BytesSize(bytes)
         /\ BytesSize(bytes) \in Nat
<1>1. <<>> \in Seq(Byte) /\ Len(<<>>) = 0
  BY EmptySeq
<1>2. QED
  BY <1>1, DelimitedBytes DEF BytesField, BytesSize

\* Numbers, left out when zero.
LEMMA UintFieldBytes ==
  ASSUME NEW tag \in Byte, NEW v \in Nat
  PROVE  /\ UintField(tag, v) \in Seq(Byte)
         /\ Len(UintField(tag, v)) = UintSize(v)
         /\ UintSize(v) \in Nat
<1>1. <<>> \in Seq(Byte) /\ Len(<<>>) = 0
  BY EmptySeq
<1>2. <<tag>> \in Seq(Byte) /\ Len(<<tag>>) = 1
  BY TagBytes
<1>3. Varint(v) \in Seq(Byte) /\ Len(Varint(v)) = Sov(v) /\ Sov(v) \in Nat
  BY VarintBytes
<1>4. <<tag>> \o Varint(v) \in Seq(Byte) /\ Len(<<tag>> \o Varint(v)) = 1 + Sov(v)
  BY <1>2, <1>3, Concat
<1>5. QED
  BY <1>1, <1>3, <1>4 DEF UintField, UintSize

\* Flags, left out when false.
LEMMA BoolFieldBytes ==
  ASSUME NEW tag \in Byte, NEW b
  PROVE  /\ BoolField(tag, b) \in Seq(Byte)
         /\ Len(BoolField(tag, b)) = BoolSize(b)
         /\ BoolSize(b) \in Nat
<1>1. <<>> \in Seq(Byte) /\ Len(<<>>) = 0
  BY EmptySeq
<1>2. <<tag, 1>> \in Seq(Byte) /\ Len(<<tag, 1>>) = 2
  <2>1. 1 \in Byte
    BY DEF Byte
  <2>2. QED
    BY <2>1, TagBytes
<1>3. QED
  BY <1>1, <1>2 DEF BoolField, BoolSize

\* A slice: the size is the sum of the sizes of its elements, each with its length.
LEMMA DelimitedsBytes ==
  ASSUME NEW tag \in Byte, NEW elements \in Seq(Seq(Byte)), NEW sizes,
         DOMAIN sizes = DOMAIN elements,
         \A i \in DOMAIN elements : sizes[i] = DelimitedSize(Len(elements[i]))
  PROVE  /\ Delimiteds(tag, elements) \in Seq(Byte)
         /\ Len(Delimiteds(tag, elements)) = SumFunction(sizes)
         /\ SumFunction(sizes) \in Nat
<1> DEFINE n == Len(elements)
           s == [i \in DOMAIN elements |-> Delimited(tag, elements[i])]
<1>1. n \in Nat /\ DOMAIN elements = 1..n /\ \A i \in 1..n : elements[i] \in Seq(Byte)
  BY LenProperties, ElementOfSeq
<1>2. \A i \in 1..n : s[i] \in Seq(Byte) /\ Len(s[i]) = sizes[i] /\ sizes[i] \in Nat
  BY <1>1, DelimitedBytes
<1>3. s \in Seq(Seq(Byte)) /\ Len(s) = n
  <2>1. s \in [1..n -> Seq(Byte)]
    BY <1>1, <1>2
  <2> HIDE DEF s, n
  <2>2. QED
    BY <1>1, <2>1, FunctionIsSeq
<1> DEFINE order == [i \in 1..n |-> i]
<1>4. Lists(order, Len(s), DOMAIN sizes)
  BY <1>1, <1>3 DEF Lists
<1>5. Lengths(sizes, order, s)
  BY <1>1, <1>2, <1>3 DEF Lengths
<1>6. Delimiteds(tag, elements) = FlattenSeq(s)
  BY DEF Delimiteds
<1> HIDE DEF s, order, n
<1>7. /\ FlattenSeq(s) \in Seq(Byte)
      /\ Len(FlattenSeq(s)) = SumFunctionOnSet(sizes, DOMAIN sizes)
  BY <1>3, <1>4, <1>5, Flattened
<1>8. FlattenSeq(s) \in Seq(Byte) /\ Len(FlattenSeq(s)) = SumFunction(sizes)
  BY <1>7 DEF SumFunction
<1>9. QED
  BY <1>6, <1>8, LenProperties

\* An order of a finite set's elements lists them.
LEMMA OrderLists ==
  ASSUME NEW S, IsFiniteSet(S), NEW order \in SetToSeqs(S)
  PROVE  order \in Seq(S) /\ Len(order) = Cardinality(S) /\ Lists(order, Len(order), S)
<1> DEFINE n == Cardinality(S)
<1>1. n \in Nat
  BY FS_CardinalityType
<1>2. order \in [1..n -> S] /\ \A i, j \in 1..n : i # j => order[i] # order[j]
  BY DEF SetToSeqs
<1>3. order \in Injection(1..n, S)
  BY <1>2 DEF Injection, IsInjective
<1>4. IsFiniteSet(1..n) /\ Cardinality(1..n) = n
  BY <1>1, FS_Interval
<1> HIDE DEF n
<1>5. order \in Surjection(1..n, S)
  BY <1>3, <1>4, FS_Injection DEF n
<1>6. order \in Seq(S) /\ Len(order) = n
  BY <1>1, <1>2, FunctionIsSeq
<1>7. Lists(order, n, S)
  BY <1>2, <1>5 DEF Lists, Surjection
<1>8. QED
  BY <1>6, <1>7 DEF n

\* A map, its entries in any order.
LEMMA MapFieldBytes ==
  ASSUME NEW tag \in Byte, NEW map, IsFiniteSet(DOMAIN map),
         \A k \in DOMAIN map : k \in Seq(Byte) /\ map[k] \in Nat,
         NEW order \in SetToSeqs(DOMAIN map)
  PROVE  /\ MapField(tag, map, order) \in Seq(Byte)
         /\ Len(MapField(tag, map, order)) = MapSize(map)
         /\ MapSize(map) \in Nat
<1> DEFINE n == Len(order)
           entry(k) == Delimited(\h0a, k) \o <<\h10>> \o Varint(map[k])
           size(k) == DelimitedSize(DelimitedSize(Len(k)) + 1 + Sov(map[k]))
           entries == [i \in DOMAIN order |-> entry(order[i])]
           s == [i \in DOMAIN entries |-> Delimited(tag, entries[i])]
           sizes == [k \in DOMAIN map |-> size(k)]
<1>1. order \in Seq(DOMAIN map) /\ Lists(order, n, DOMAIN map)
  BY OrderLists
<1>2. n \in Nat /\ DOMAIN order = 1..n /\ \A i \in 1..n : order[i] \in DOMAIN map
  BY <1>1, LenProperties, ElementOfSeq
<1>3. ASSUME NEW k \in DOMAIN map
      PROVE  /\ Delimited(tag, entry(k)) \in Seq(Byte)
             /\ Len(Delimited(tag, entry(k))) = size(k)
             /\ size(k) \in Nat
  <2>1. \h0a \in Byte /\ \h10 \in Byte
    BY DEF Byte
  <2>2. k \in Seq(Byte) /\ map[k] \in Nat
    OBVIOUS
  <2>3. /\ Delimited(\h0a, k) \in Seq(Byte)
        /\ Len(Delimited(\h0a, k)) = DelimitedSize(Len(k)) /\ DelimitedSize(Len(k)) \in Nat
    BY <2>1, <2>2, DelimitedBytes
  <2>4. <<\h10>> \in Seq(Byte) /\ Len(<<\h10>>) = 1
    BY <2>1, TagBytes
  <2>5. /\ Varint(map[k]) \in Seq(Byte) /\ Len(Varint(map[k])) = Sov(map[k])
        /\ Sov(map[k]) \in Nat
    BY <2>2, VarintBytes
  <2>6. /\ Delimited(\h0a, k) \o <<\h10>> \in Seq(Byte)
        /\ Len(Delimited(\h0a, k) \o <<\h10>>) = DelimitedSize(Len(k)) + 1
    BY <2>3, <2>4, Concat
  <2>7. /\ entry(k) \in Seq(Byte)
        /\ Len(entry(k)) = DelimitedSize(Len(k)) + 1 + Sov(map[k])
    BY <2>5, <2>6, Concat
  <2> HIDE DEF entry
  <2>8. /\ Delimited(tag, entry(k)) \in Seq(Byte)
        /\ Len(Delimited(tag, entry(k))) = DelimitedSize(Len(entry(k)))
        /\ DelimitedSize(Len(entry(k))) \in Nat
    BY <2>7, DelimitedBytes
  <2>9. QED
    BY <2>7, <2>8
<1> HIDE DEF entry, size, n
<1>4. DOMAIN s = 1..n /\ \A i \in 1..n : s[i] = Delimited(tag, entry(order[i]))
  BY <1>2
<1>5. \A i \in 1..n : s[i] \in Seq(Byte) /\ Len(s[i]) = sizes[order[i]]
  BY <1>2, <1>3, <1>4
<1>6. s \in [1..n -> Seq(Byte)]
  BY <1>4, <1>5
<1>7. MapField(tag, map, order) = FlattenSeq(s)
  BY DEF MapField, Delimiteds, entry
<1>8. MapSize(map) = SumFunctionOnSet(sizes, DOMAIN map)
  BY DEF MapSize, SumFunction, size
<1> HIDE DEF s, entries, sizes
<1>9. s \in Seq(Seq(Byte)) /\ Len(s) = n
  BY <1>2, <1>6, FunctionIsSeq
<1>10. Lists(order, Len(s), DOMAIN map) /\ Lengths(sizes, order, s)
  BY <1>1, <1>5, <1>9 DEF Lengths
<1>11. /\ FlattenSeq(s) \in Seq(Byte)
       /\ Len(FlattenSeq(s)) = SumFunctionOnSet(sizes, DOMAIN map)
  BY <1>9, <1>10, Flattened
<1>12. QED
  BY <1>7, <1>8, <1>11, LenProperties

-----------------------------------------------------------------------------
(* Messages: what Marshal writes is bytes, as many as Size counts.         *)

Sized(bytes, size) == bytes \in Seq(Byte) /\ Len(bytes) = size /\ size \in Nat

\* External messages.
LEMMA ExternalSized ==
  ASSUME NEW tag \in Byte, NEW ms \in Seq(Seq(Byte))
  PROVE  Sized(MessageField(tag, ms, Own), DelimitedsSize(ms, OwnSize))
<1> DEFINE es == [i \in DOMAIN ms |-> ms[i]]
           sizes == [i \in DOMAIN ms |-> DelimitedSize(Len(ms[i]))]
<1>1. es = ms
  BY LenProperties
<1>2. MessageField(tag, ms, Own) = Delimiteds(tag, es)
  BY DEF MessageField, Own
<1>3. DelimitedsSize(ms, OwnSize) = SumFunction(sizes)
  BY DEF DelimitedsSize, OwnSize
<1>4. DOMAIN sizes = DOMAIN ms /\ \A i \in DOMAIN ms : sizes[i] = DelimitedSize(Len(ms[i]))
  OBVIOUS
<1> HIDE DEF es, sizes
<1>5. QED
  BY <1>1, <1>2, <1>3, <1>4, DelimitedsBytes DEF Sized

\* Messages of one kind in a field, if each is sized.
LEMMA NestedSized ==
  ASSUME NEW tag \in Byte, NEW ms, ms \in Seq(Range(ms)), NEW es, NEW sizes,
         DOMAIN es = DOMAIN ms, DOMAIN sizes = DOMAIN ms,
         es = [i \in DOMAIN es |-> es[i]],
         \A i \in DOMAIN ms : es[i] \in Seq(Byte) /\ sizes[i] = DelimitedSize(Len(es[i]))
  PROVE  Sized(Delimiteds(tag, es), SumFunction(sizes))
<1>1. Len(ms) \in Nat /\ DOMAIN ms = 1..Len(ms)
  BY LenProperties
<1>2. es \in [1..Len(ms) -> Seq(Byte)]
  BY <1>1
<1>3. es \in Seq(Seq(Byte))
  BY <1>1, <1>2, FunctionIsSeq
<1>4. QED
  BY <1>3, DelimitedsBytes DEF Sized

\* What IsValue says of a field that holds no messages.
Leaf(field, v) ==
  /\ field.kind = "uint64" => v \in Uint64Values
  /\ field.kind = "uint32" => v \in Uint32Values
  /\ field.kind = "bool" => v \in BOOLEAN
  /\ field.kind \in {"bytes", "duration"} => v \in Seq(Byte)
  /\ field.kind \in {"bytes list", "external"} => v \in Seq(Seq(Byte))
  /\ field.kind = "map" =>
       /\ IsFiniteSet(DOMAIN v) /\ v \in [DOMAIN v -> Uint64Values]
       /\ \A k \in DOMAIN v : k \in Seq(Byte)

\* The numbers of the wire are numbers.
LEMMA UintValues ==
  /\ Pow2[Word] \in Nat \ {0} /\ Pow2[Half] \in Nat \ {0}
  /\ Uint64Values \subseteq Nat /\ Uint32Values \subseteq Nat
<1>1. Pow2[Word] \in Nat \ {0} /\ Pow2[Half] \in Nat \ {0}
  BY PowPositive, WireAssumption
<1>2. QED
  BY <1>1 DEF Uint64Values, Uint32Values

\* The same by the constructor of the field.
LEMMA LeafOf ==
  ASSUME NEW m, NEW num, NEW name
  PROVE  /\ Leaf(Uint64(num, name), m[Uint64(num, name).name]) => m[name] \in Nat
         /\ Leaf(Uint32(num, name), m[Uint32(num, name).name]) => m[name] \in Nat
         /\ Leaf(Bytes(num, name), m[Bytes(num, name).name]) => m[name] \in Seq(Byte)
         /\ Leaf(Duration(num, name), m[Duration(num, name).name]) => m[name] \in Seq(Byte)
         /\ Leaf(BytesList(num, name), m[BytesList(num, name).name]) => m[name] \in Seq(Seq(Byte))
         /\ Leaf(External(num, name), m[External(num, name).name]) => m[name] \in Seq(Seq(Byte))
         /\ Leaf(Map(num, name), m[Map(num, name).name]) =>
              /\ IsFiniteSet(DOMAIN m[name])
              /\ \A k \in DOMAIN m[name] : k \in Seq(Byte) /\ m[name][k] \in Nat
  BY UintValues DEF Leaf, Uint64, Uint32, Bytes, Duration, BytesList, External, Map, Field

\* The fields, by how they are written.
LEMMA FieldSized ==
  /\ \A tag \in Byte, v \in Seq(Byte) :
       /\ Sized(BytesField(tag, v), BytesSize(v))
       /\ Sized(Delimited(tag, v), DelimitedSize(Len(v)))
  /\ \A tag \in Byte, v \in Nat : Sized(UintField(tag, v), UintSize(v))
  /\ \A tag \in Byte : \A v : Sized(BoolField(tag, v), BoolSize(v))
  BY BytesFieldBytes, DelimitedBytes, UintFieldBytes, BoolFieldBytes DEF Sized

\* Two pieces of a message.
LEMMA SizedConcat ==
  \A a, b, m, n : Sized(a, m) /\ Sized(b, n) => Sized(a \o b, m + n)
  BY Concat DEF Sized

\* A message whose fields hold no messages, a field of such messages, and what IsValue
\* says of it.
LeafMessage(kind, m) == \A f \in Fields(kind) : Leaf(f, m[f.name])
Nest(kind, ms) == ms \in Seq(Range(ms)) /\ \A i \in DOMAIN ms : LeafMessage(kind, ms[i])
Holds(field, v) == field.kind \in {"message", "message list"} => Nest(field.of, v)

\* The fields of each kind.
LEMMA FieldTables ==
  /\ Fields("L1Config") = L1ConfigFields
  /\ Fields("FaultDisputeGameConfig") = FaultDisputeGameConfigFields
  /\ Fields("ClientState") = ClientStateFields
  /\ Fields("L1Header") = L1HeaderFields
  /\ Fields("Derivation") = DerivationFields
  /\ Fields("Header") = HeaderFields
  /\ Fields("ConsensusState") = ConsensusStateFields
  /\ Fields("FaultDisputeGameProof") = FaultDisputeGameProofFields
  /\ Fields("Misbehaviour") = MisbehaviourFields
  /\ Fields("FinalizedHeaderMisbehaviour") = FinalizedHeaderMisbehaviourFields
  /\ Fields("NextSyncCommitteeMisbehaviour") = NextSyncCommitteeMisbehaviourFields
  /\ Fields("ProverConfig") = ProverConfigFields
  BY DEF Fields, FieldsOf, Kinds

\* A field of messages, by its constructor.
LEMMA HoldsOf ==
  ASSUME NEW m, NEW num, NEW name, NEW of
  PROVE  /\ Holds(Message(num, name, of), m[Message(num, name, of).name]) => Nest(of, m[name])
         /\ Holds(MessageList(num, name, of), m[MessageList(num, name, of).name]) =>
              Nest(of, m[name])
  BY DEF Holds, Message, MessageList, Field

\* A slice of bytes.
LEMMA ListSized ==
  ASSUME NEW tag \in Byte, NEW v \in Seq(Seq(Byte))
  PROVE  Sized(Delimiteds(tag, v), DelimitedsSize(v, OwnSize))
<1> DEFINE sizes == [i \in DOMAIN v |-> DelimitedSize(Len(v[i]))]
<1>1. DelimitedsSize(v, OwnSize) = SumFunction(sizes)
  BY DEF DelimitedsSize, OwnSize
<1>2. DOMAIN sizes = DOMAIN v /\ \A i \in DOMAIN v : sizes[i] = DelimitedSize(Len(v[i]))
  OBVIOUS
<1> HIDE DEF sizes
<1>3. QED
  BY <1>1, <1>2, DelimitedsBytes DEF Sized

\* A field that is a map, its entries in any order.
LEMMA MapSized ==
  ASSUME NEW tag \in Byte, NEW v, IsFiniteSet(DOMAIN v),
         \A k \in DOMAIN v : k \in Seq(Byte) /\ v[k] \in Nat,
         NEW order \in SetToSeqs(DOMAIN v)
  PROVE  Sized(MapField(tag, v, order), MapSize(v))
  BY MapFieldBytes DEF Sized

\* What MarshalToSizedBuffer writes of L1Config, which is nested in others.
LEMMA L1ConfigSized ==
  ASSUME NEW m, \A f \in L1ConfigFields : Leaf(f, m[f.name])
  PROVE  Sized(MarshalL1Config(m), SizeL1Config(m))
<1>1. /\ m.GenesisValidatorsRoot \in Seq(Byte)
      /\ m.MinSyncCommitteeParticipants \in Nat
      /\ m.GenesisTime \in Nat
      /\ m.ForkParameters \in Seq(Seq(Byte))
      /\ m.SecondsPerSlot \in Nat
      /\ m.SlotsPerEpoch \in Nat
      /\ m.EpochsPerSyncCommitteePeriod \in Nat
      /\ m.TrustLevel \in Seq(Seq(Byte))
      /\ m.TrustingPeriod \in Seq(Byte)
      /\ m.MaxClockDrift \in Seq(Byte)
  BY LeafOf DEF L1ConfigFields
<1>2. {\h0a, \h10, \h18, \h22, \h28, \h30, \h38, \h42, \h4a, \h52} \subseteq Byte
  BY DEF Byte
<1>3. /\ Sized(BytesField(\h0a, m.GenesisValidatorsRoot), BytesSize(m.GenesisValidatorsRoot))
      /\ Sized(UintField(\h10, m.MinSyncCommitteeParticipants),
               UintSize(m.MinSyncCommitteeParticipants))
      /\ Sized(UintField(\h18, m.GenesisTime), UintSize(m.GenesisTime))
      /\ Sized(MessageField(\h22, m.ForkParameters, Own),
               DelimitedsSize(m.ForkParameters, OwnSize))
      /\ Sized(UintField(\h28, m.SecondsPerSlot), UintSize(m.SecondsPerSlot))
      /\ Sized(UintField(\h30, m.SlotsPerEpoch), UintSize(m.SlotsPerEpoch))
      /\ Sized(UintField(\h38, m.EpochsPerSyncCommitteePeriod),
               UintSize(m.EpochsPerSyncCommitteePeriod))
      /\ Sized(MessageField(\h42, m.TrustLevel, Own), DelimitedsSize(m.TrustLevel, OwnSize))
      /\ Sized(Delimited(\h4a, m.TrustingPeriod), DelimitedSize(Len(m.TrustingPeriod)))
      /\ Sized(Delimited(\h52, m.MaxClockDrift), DelimitedSize(Len(m.MaxClockDrift)))
  BY <1>1, <1>2, FieldSized, ExternalSized
<1>4. QED
  BY ONLY <1>3, SizedConcat DEF MarshalL1Config, SizeL1Config

\* A field that is a pointer to L1Config or a slice of it.
LEMMA L1ConfigNested ==
  ASSUME NEW tag \in Byte, NEW ms, Nest("L1Config", ms)
  PROVE  Sized(MessageField(tag, ms, MarshalL1Config), DelimitedsSize(ms, SizeL1Config))
<1> DEFINE es == [i \in DOMAIN ms |-> MarshalL1Config(ms[i])]
           sizes == [i \in DOMAIN ms |-> DelimitedSize(SizeL1Config(ms[i]))]
<1>1. \A i \in DOMAIN ms : Sized(MarshalL1Config(ms[i]), SizeL1Config(ms[i]))
  BY L1ConfigSized, FieldTables DEF Nest, LeafMessage
<1>2. \A i \in DOMAIN ms : es[i] \in Seq(Byte) /\ sizes[i] = DelimitedSize(Len(es[i]))
  BY <1>1 DEF Sized
<1>3. /\ DOMAIN es = DOMAIN ms /\ DOMAIN sizes = DOMAIN ms
      /\ es = [i \in DOMAIN es |-> es[i]]
  OBVIOUS
<1>4. ms \in Seq(Range(ms))
  BY DEF Nest
<1>5. MessageField(tag, ms, MarshalL1Config) = Delimiteds(tag, es)
  BY DEF MessageField
<1>6. DelimitedsSize(ms, SizeL1Config) = SumFunction(sizes)
  BY DEF DelimitedsSize
<1> HIDE DEF es, sizes
<1>7. QED
  BY <1>2, <1>3, <1>4, <1>5, <1>6, NestedSized

\* What MarshalToSizedBuffer writes of FaultDisputeGameConfig, which is nested in others.
LEMMA FaultDisputeGameConfigSized ==
  ASSUME NEW m, \A f \in FaultDisputeGameConfigFields : Leaf(f, m[f.name])
  PROVE  Sized(MarshalFaultDisputeGameConfig(m), SizeFaultDisputeGameConfig(m))
<1>1. /\ m.DisputeGameFactoryAddress \in Seq(Byte)
      /\ m.DisputeGameFactoryTargetStorageSlot \in Nat
      /\ m.FaultDisputeGameStatusSlot \in Nat
      /\ m.FaultDisputeGameStatusSlotOffset \in Nat
      /\ m.FaultDisputeGameCreatedAtSlotOffset \in Nat
      /\ m.StatusDefenderWin \in Nat
  BY LeafOf DEF FaultDisputeGameConfigFields
<1>2. {\h0a, \h10, \h18, \h20, \h28, \h30} \subseteq Byte
  BY DEF Byte
<1>3. /\ Sized(BytesField(\h0a, m.DisputeGameFactoryAddress),
               BytesSize(m.DisputeGameFactoryAddress))
      /\ Sized(UintField(\h10, m.DisputeGameFactoryTargetStorageSlot),
               UintSize(m.DisputeGameFactoryTargetStorageSlot))
      /\ Sized(UintField(\h18, m.FaultDisputeGameStatusSlot),
               UintSize(m.FaultDisputeGameStatusSlot))
      /\ Sized(UintField(\h20, m.FaultDisputeGameStatusSlotOffset),
               UintSize(m.FaultDisputeGameStatusSlotOffset))
      /\ Sized(UintField(\h28, m.FaultDisputeGameCreatedAtSlotOffset),
               UintSize(m.FaultDisputeGameCreatedAtSlotOffset))
      /\ Sized(UintField(\h30, m.StatusDefenderWin), UintSize(m.StatusDefenderWin))
  BY <1>1, <1>2, FieldSized
<1>4. QED
  BY ONLY <1>3, SizedConcat DEF MarshalFaultDisputeGameConfig, SizeFaultDisputeGameConfig

\* A field that is a pointer to FaultDisputeGameConfig or a slice of it.
LEMMA FaultDisputeGameConfigNested ==
  ASSUME NEW tag \in Byte, NEW ms, Nest("FaultDisputeGameConfig", ms)
  PROVE  Sized(MessageField(tag, ms, MarshalFaultDisputeGameConfig), DelimitedsSize(ms, SizeFaultDisputeGameConfig))
<1> DEFINE es == [i \in DOMAIN ms |-> MarshalFaultDisputeGameConfig(ms[i])]
           sizes == [i \in DOMAIN ms |-> DelimitedSize(SizeFaultDisputeGameConfig(ms[i]))]
<1>1. \A i \in DOMAIN ms : Sized(MarshalFaultDisputeGameConfig(ms[i]), SizeFaultDisputeGameConfig(ms[i]))
  BY FaultDisputeGameConfigSized, FieldTables DEF Nest, LeafMessage
<1>2. \A i \in DOMAIN ms : es[i] \in Seq(Byte) /\ sizes[i] = DelimitedSize(Len(es[i]))
  BY <1>1 DEF Sized
<1>3. /\ DOMAIN es = DOMAIN ms /\ DOMAIN sizes = DOMAIN ms
      /\ es = [i \in DOMAIN es |-> es[i]]
  OBVIOUS
<1>4. ms \in Seq(Range(ms))
  BY DEF Nest
<1>5. MessageField(tag, ms, MarshalFaultDisputeGameConfig) = Delimiteds(tag, es)
  BY DEF MessageField
<1>6. DelimitedsSize(ms, SizeFaultDisputeGameConfig) = SumFunction(sizes)
  BY DEF DelimitedsSize
<1> HIDE DEF es, sizes
<1>7. QED
  BY <1>2, <1>3, <1>4, <1>5, <1>6, NestedSized

\* What MarshalToSizedBuffer writes of L1Header, which is nested in others.
LEMMA L1HeaderSized ==
  ASSUME NEW m, \A f \in L1HeaderFields : Leaf(f, m[f.name])
  PROVE  Sized(MarshalL1Header(m), SizeL1Header(m))
<1>1. /\ m.TrustedSyncCommittee \in Seq(Seq(Byte))
      /\ m.ConsensusUpdate \in Seq(Seq(Byte))
      /\ m.ExecutionUpdate \in Seq(Seq(Byte))
  BY LeafOf DEF L1HeaderFields
<1>2. {\h0a, \h12, \h1a} \subseteq Byte
  BY DEF Byte
<1>3. /\ Sized(MessageField(\h0a, m.TrustedSyncCommittee, Own),
               DelimitedsSize(m.TrustedSyncCommittee, OwnSize))
      /\ Sized(MessageField(\h12, m.ConsensusUpdate, Own),
               DelimitedsSize(m.ConsensusUpdate, OwnSize))
      /\ Sized(MessageField(\h1a, m.ExecutionUpdate, Own),
               DelimitedsSize(m.ExecutionUpdate, OwnSize))
  BY <1>1, <1>2, FieldSized, ExternalSized
<1>4. QED
  BY ONLY <1>3, SizedConcat DEF MarshalL1Header, SizeL1Header

\* A field that is a pointer to L1Header or a slice of it.
LEMMA L1HeaderNested ==
  ASSUME NEW tag \in Byte, NEW ms, Nest("L1Header", ms)
  PROVE  Sized(MessageField(tag, ms, MarshalL1Header), DelimitedsSize(ms, SizeL1Header))
<1> DEFINE es == [i \in DOMAIN ms |-> MarshalL1Header(ms[i])]
           sizes == [i \in DOMAIN ms |-> DelimitedSize(SizeL1Header(ms[i]))]
<1>1. \A i \in DOMAIN ms : Sized(MarshalL1Header(ms[i]), SizeL1Header(ms[i]))
  BY L1HeaderSized, FieldTables DEF Nest, LeafMessage
<1>2. \A i \in DOMAIN ms : es[i] \in Seq(Byte) /\ sizes[i] = DelimitedSize(Len(es[i]))
  BY <1>1 DEF Sized
<1>3. /\ DOMAIN es = DOMAIN ms /\ DOMAIN sizes = DOMAIN ms
      /\ es = [i \in DOMAIN es |-> es[i]]
  OBVIOUS
<1>4. ms \in Seq(Range(ms))
  BY DEF Nest
<1>5. MessageField(tag, ms, MarshalL1Header) = Delimiteds(tag, es)
  BY DEF MessageField
<1>6. DelimitedsSize(ms, SizeL1Header) = SumFunction(sizes)
  BY DEF DelimitedsSize
<1> HIDE DEF es, sizes
<1>7. QED
  BY <1>2, <1>3, <1>4, <1>5, <1>6, NestedSized

\* What MarshalToSizedBuffer writes of Derivation, which is nested in others.
LEMMA DerivationSized ==
  ASSUME NEW m, \A f \in DerivationFields : Leaf(f, m[f.name])
  PROVE  Sized(MarshalDerivation(m), SizeDerivation(m))
<1>1. /\ m.AgreedL2OutputRoot \in Seq(Byte)
      /\ m.L2OutputRoot \in Seq(Byte)
      /\ m.L2BlockNumber \in Nat
  BY LeafOf DEF DerivationFields
<1>2. {\h0a, \h12, \h18} \subseteq Byte
  BY DEF Byte
<1>3. /\ Sized(BytesField(\h0a, m.AgreedL2OutputRoot), BytesSize(m.AgreedL2OutputRoot))
      /\ Sized(BytesField(\h12, m.L2OutputRoot), BytesSize(m.L2OutputRoot))
      /\ Sized(UintField(\h18, m.L2BlockNumber), UintSize(m.L2BlockNumber))
  BY <1>1, <1>2, FieldSized
<1>4. QED
  BY ONLY <1>3, SizedConcat DEF MarshalDerivation, SizeDerivation

\* A field that is a pointer to Derivation or a slice of it.
LEMMA DerivationNested ==
  ASSUME NEW tag \in Byte, NEW ms, Nest("Derivation", ms)
  PROVE  Sized(MessageField(tag, ms, MarshalDerivation), DelimitedsSize(ms, SizeDerivation))
<1> DEFINE es == [i \in DOMAIN ms |-> MarshalDerivation(ms[i])]
           sizes == [i \in DOMAIN ms |-> DelimitedSize(SizeDerivation(ms[i]))]
<1>1. \A i \in DOMAIN ms : Sized(MarshalDerivation(ms[i]), SizeDerivation(ms[i]))
  BY DerivationSized, FieldTables DEF Nest, LeafMessage
<1>2. \A i \in DOMAIN ms : es[i] \in Seq(Byte) /\ sizes[i] = DelimitedSize(Len(es[i]))
  BY <1>1 DEF Sized
<1>3. /\ DOMAIN es = DOMAIN ms /\ DOMAIN sizes = DOMAIN ms
      /\ es = [i \in DOMAIN es |-> es[i]]
  OBVIOUS
<1>4. ms \in Seq(Range(ms))
  BY DEF Nest
<1>5. MessageField(tag, ms, MarshalDerivation) = Delimiteds(tag, es)
  BY DEF MessageField
<1>6. DelimitedsSize(ms, SizeDerivation) = SumFunction(sizes)
  BY DEF DelimitedsSize
<1> HIDE DEF es, sizes
<1>7. QED
  BY <1>2, <1>3, <1>4, <1>5, <1>6, NestedSized

\* What MarshalToSizedBuffer writes of FaultDisputeGameProof, which is nested in others.
LEMMA FaultDisputeGameProofSized ==
  ASSUME NEW m, \A f \in FaultDisputeGameProofFields : Leaf(f, m[f.name])
  PROVE  Sized(MarshalFaultDisputeGameProof(m), SizeFaultDisputeGameProof(m))
<1>1. /\ m.StateRoot \in Seq(Byte)
      /\ m.DisputeGameFactoryAccount \in Seq(Seq(Byte))
      /\ m.DisputeGameFactoryGameIdProof \in Seq(Byte)
      /\ m.FaultDisputeGameAccount \in Seq(Seq(Byte))
      /\ m.FaultDisputeGameGameStatusProof \in Seq(Byte)
      /\ m.FaultDisputeGameSourceGameType \in Nat
  BY LeafOf DEF FaultDisputeGameProofFields
<1>2. {\h0a, \h1a, \h22, \h2a, \h32, \h38} \subseteq Byte
  BY DEF Byte
<1>3. /\ Sized(BytesField(\h0a, m.StateRoot), BytesSize(m.StateRoot))
      /\ Sized(MessageField(\h1a, m.DisputeGameFactoryAccount, Own),
               DelimitedsSize(m.DisputeGameFactoryAccount, OwnSize))
      /\ Sized(BytesField(\h22, m.DisputeGameFactoryGameIdProof),
               BytesSize(m.DisputeGameFactoryGameIdProof))
      /\ Sized(MessageField(\h2a, m.FaultDisputeGameAccount, Own),
               DelimitedsSize(m.FaultDisputeGameAccount, OwnSize))
      /\ Sized(BytesField(\h32, m.FaultDisputeGameGameStatusProof),
               BytesSize(m.FaultDisputeGameGameStatusProof))
      /\ Sized(UintField(\h38, m.FaultDisputeGameSourceGameType),
               UintSize(m.FaultDisputeGameSourceGameType))
  BY <1>1, <1>2, FieldSized, ExternalSized
<1>4. QED
  BY ONLY <1>3, SizedConcat DEF MarshalFaultDisputeGameProof, SizeFaultDisputeGameProof

\* A field that is a pointer to FaultDisputeGameProof or a slice of it.
LEMMA FaultDisputeGameProofNested ==
  ASSUME NEW tag \in Byte, NEW ms, Nest("FaultDisputeGameProof", ms)
  PROVE  Sized(MessageField(tag, ms, MarshalFaultDisputeGameProof), DelimitedsSize(ms, SizeFaultDisputeGameProof))
<1> DEFINE es == [i \in DOMAIN ms |-> MarshalFaultDisputeGameProof(ms[i])]
           sizes == [i \in DOMAIN ms |-> DelimitedSize(SizeFaultDisputeGameProof(ms[i]))]
<1>1. \A i \in DOMAIN ms : Sized(MarshalFaultDisputeGameProof(ms[i]), SizeFaultDisputeGameProof(ms[i]))
  BY FaultDisputeGameProofSized, FieldTables DEF Nest, LeafMessage
<1>2. \A i \in DOMAIN ms : es[i] \in Seq(Byte) /\ sizes[i] = DelimitedSize(Len(es[i]))
  BY <1>1 DEF Sized
<1>3. /\ DOMAIN es = DOMAIN ms /\ DOMAIN sizes = DOMAIN ms
      /\ es = [i \in DOMAIN es |-> es[i]]
  OBVIOUS
<1>4. ms \in Seq(Range(ms))
  BY DEF Nest
<1>5. MessageField(tag, ms, MarshalFaultDisputeGameProof) = Delimiteds(tag, es)
  BY DEF MessageField
<1>6. DelimitedsSize(ms, SizeFaultDisputeGameProof) = SumFunction(sizes)
  BY DEF DelimitedsSize
<1> HIDE DEF es, sizes
<1>7. QED
  BY <1>2, <1>3, <1>4, <1>5, <1>6, NestedSized

\* What MarshalToSizedBuffer writes of ClientState, the messages nested in it included.
LEMMA ClientStateSized ==
  ASSUME NEW m, \A f \in ClientStateFields : Leaf(f, m[f.name]) /\ Holds(f, m[f.name])
  PROVE  Sized(MarshalClientState(m), SizeClientState(m))
<1>1. /\ m.ChainId \in Nat
      /\ m.IbcStoreAddress \in Seq(Byte)
      /\ m.IbcCommitmentsSlot \in Seq(Byte)
      /\ m.LatestHeight \in Seq(Seq(Byte))
      /\ Nest("L1Config", m.L1Config)
      /\ Nest("FaultDisputeGameConfig", m.FaultDisputeGameConfig)
  BY LeafOf, HoldsOf DEF ClientStateFields
<1>2. {\h08, \h12, \h1a, \h22, \h28, \h32, \h3a} \subseteq Byte
  BY DEF Byte
<1>3. /\ Sized(UintField(\h08, m.ChainId), UintSize(m.ChainId))
      /\ Sized(BytesField(\h12, m.IbcStoreAddress), BytesSize(m.IbcStoreAddress))
      /\ Sized(BytesField(\h1a, m.IbcCommitmentsSlot), BytesSize(m.IbcCommitmentsSlot))
      /\ Sized(MessageField(\h22, m.LatestHeight, Own),
               DelimitedsSize(m.LatestHeight, OwnSize))
      /\ Sized(BoolField(\h28, m.Frozen), BoolSize(m.Frozen))
      /\ Sized(MessageField(\h32, m.L1Config, MarshalL1Config),
               DelimitedsSize(m.L1Config, SizeL1Config))
      /\ Sized(MessageField(\h3a, m.FaultDisputeGameConfig, MarshalFaultDisputeGameConfig),
               DelimitedsSize(m.FaultDisputeGameConfig, SizeFaultDisputeGameConfig))
  BY <1>1, <1>2, FieldSized, ExternalSized, FaultDisputeGameConfigNested, L1ConfigNested
<1>4. QED
  BY ONLY <1>3, SizedConcat DEF MarshalClientState, SizeClientState

\* What MarshalToSizedBuffer writes of Header, the messages nested in it included.
LEMMA HeaderSized ==
  ASSUME NEW m, \A f \in HeaderFields : Leaf(f, m[f.name]) /\ Holds(f, m[f.name])
  PROVE  Sized(MarshalHeader(m), SizeHeader(m))
<1>1. /\ m.TrustedHeight \in Seq(Seq(Byte))
      /\ m.AccountUpdate \in Seq(Seq(Byte))
      /\ Nest("Derivation", m.Derivation)
      /\ m.Preimages \in Seq(Byte)
      /\ Nest("L1Header", m.TrustedToDeterministic)
      /\ Nest("L1Header", m.DeterministicToLatest)
  BY LeafOf, HoldsOf DEF HeaderFields
<1>2. {\h0a, \h12, \h1a, \h22, \h2a, \h32} \subseteq Byte
  BY DEF Byte
<1>3. /\ Sized(MessageField(\h0a, m.TrustedHeight, Own),
               DelimitedsSize(m.TrustedHeight, OwnSize))
      /\ Sized(MessageField(\h12, m.AccountUpdate, Own),
               DelimitedsSize(m.AccountUpdate, OwnSize))
      /\ Sized(MessageField(\h1a, m.Derivation, MarshalDerivation),
               DelimitedsSize(m.Derivation, SizeDerivation))
      /\ Sized(BytesField(\h22, m.Preimages), BytesSize(m.Preimages))
      /\ Sized(MessageField(\h2a, m.TrustedToDeterministic, MarshalL1Header),
               DelimitedsSize(m.TrustedToDeterministic, SizeL1Header))
      /\ Sized(MessageField(\h32, m.DeterministicToLatest, MarshalL1Header),
               DelimitedsSize(m.DeterministicToLatest, SizeL1Header))
  BY <1>1, <1>2, FieldSized, ExternalSized, DerivationNested, L1HeaderNested
<1>4. QED
  BY ONLY <1>3, SizedConcat DEF MarshalHeader, SizeHeader

\* What MarshalToSizedBuffer writes of ConsensusState.
LEMMA ConsensusStateSized ==
  ASSUME NEW m, \A f \in ConsensusStateFields : Leaf(f, m[f.name])
  PROVE  Sized(MarshalConsensusState(m), SizeConsensusState(m))
<1>1. /\ m.StorageRoot \in Seq(Byte)
      /\ m.Timestamp \in Nat
      /\ m.OutputRoot \in Seq(Byte)
      /\ m.L1Slot \in Nat
      /\ m.L1CurrentSyncCommittee \in Seq(Byte)
      /\ m.L1NextSyncCommittee \in Seq(Byte)
      /\ m.L1Timestamp \in Nat
      /\ m.L1Origin \in Nat
  BY LeafOf DEF ConsensusStateFields
<1>2. {\h0a, \h10, \h1a, \h20, \h2a, \h32, \h38, \h40} \subseteq Byte
  BY DEF Byte
<1>3. /\ Sized(BytesField(\h0a, m.StorageRoot), BytesSize(m.StorageRoot))
      /\ Sized(UintField(\h10, m.Timestamp), UintSize(m.Timestamp))
      /\ Sized(BytesField(\h1a, m.OutputRoot), BytesSize(m.OutputRoot))
      /\ Sized(UintField(\h20, m.L1Slot), UintSize(m.L1Slot))
      /\ Sized(BytesField(\h2a, m.L1CurrentSyncCommittee),
               BytesSize(m.L1CurrentSyncCommittee))
      /\ Sized(BytesField(\h32, m.L1NextSyncCommittee), BytesSize(m.L1NextSyncCommittee))
      /\ Sized(UintField(\h38, m.L1Timestamp), UintSize(m.L1Timestamp))
      /\ Sized(UintField(\h40, m.L1Origin), UintSize(m.L1Origin))
  BY <1>1, <1>2, FieldSized
<1>4. QED
  BY ONLY <1>3, SizedConcat DEF MarshalConsensusState, SizeConsensusState

\* What MarshalToSizedBuffer writes of Misbehaviour, the messages nested in it included.
LEMMA MisbehaviourSized ==
  ASSUME NEW m, \A f \in MisbehaviourFields : Leaf(f, m[f.name]) /\ Holds(f, m[f.name])
  PROVE  Sized(MarshalMisbehaviour(m), SizeMisbehaviour(m))
<1>1. /\ m.ClientId \in Seq(Byte)
      /\ m.TrustedHeight \in Seq(Seq(Byte))
      /\ m.SuperRootProof \in Seq(Byte)
      /\ Nest("FaultDisputeGameProof", m.FaultDisputeGameProof)
      /\ Nest("L1Header", m.LatestL1Header)
      /\ m.FirstL2ToL1MessagePasserAccount \in Seq(Seq(Byte))
      /\ m.LastL2ToL1MessagePasserAccount \in Seq(Seq(Byte))
      /\ m.L2HeaderHistory \in Seq(Seq(Byte))
      /\ Nest("FaultDisputeGameProof", m.SubmittedL1Proof)
      /\ m.L1HeaderHistory \in Seq(Seq(Byte))
  BY LeafOf, HoldsOf DEF MisbehaviourFields
<1>2. {\h0a, \h12, \h1a, \h22, \h2a, \h32, \h3a, \h42, \h4a, \h52} \subseteq Byte
  BY DEF Byte
<1>3. /\ Sized(BytesField(\h0a, m.ClientId), BytesSize(m.ClientId))
      /\ Sized(MessageField(\h12, m.TrustedHeight, Own),
               DelimitedsSize(m.TrustedHeight, OwnSize))
      /\ Sized(BytesField(\h1a, m.SuperRootProof), BytesSize(m.SuperRootProof))
      /\ Sized(MessageField(\h22, m.FaultDisputeGameProof, MarshalFaultDisputeGameProof),
               DelimitedsSize(m.FaultDisputeGameProof, SizeFaultDisputeGameProof))
      /\ Sized(MessageField(\h2a, m.LatestL1Header, MarshalL1Header),
               DelimitedsSize(m.LatestL1Header, SizeL1Header))
      /\ Sized(MessageField(\h32, m.FirstL2ToL1MessagePasserAccount, Own),
               DelimitedsSize(m.FirstL2ToL1MessagePasserAccount, OwnSize))
      /\ Sized(MessageField(\h3a, m.LastL2ToL1MessagePasserAccount, Own),
               DelimitedsSize(m.LastL2ToL1MessagePasserAccount, OwnSize))
      /\ Sized(Delimiteds(\h42, m.L2HeaderHistory),
               DelimitedsSize(m.L2HeaderHistory, OwnSize))
      /\ Sized(MessageField(\h4a, m.SubmittedL1Proof, MarshalFaultDisputeGameProof),
               DelimitedsSize(m.SubmittedL1Proof, SizeFaultDisputeGameProof))
      /\ Sized(Delimiteds(\h52, m.L1HeaderHistory),
               DelimitedsSize(m.L1HeaderHistory, OwnSize))
  BY <1>1, <1>2, FieldSized, ExternalSized, ListSized, FaultDisputeGameProofNested, L1HeaderNested
<1>4. QED
  BY ONLY <1>3, SizedConcat DEF MarshalMisbehaviour, SizeMisbehaviour

\* What MarshalToSizedBuffer writes of FinalizedHeaderMisbehaviour.
LEMMA FinalizedHeaderMisbehaviourSized ==
  ASSUME NEW m, \A f \in FinalizedHeaderMisbehaviourFields : Leaf(f, m[f.name])
  PROVE  Sized(MarshalFinalizedHeaderMisbehaviour(m), SizeFinalizedHeaderMisbehaviour(m))
<1>1. /\ m.ClientId \in Seq(Byte)
      /\ m.TrustedSyncCommittee \in Seq(Seq(Byte))
      /\ m.ConsensusUpdate_1 \in Seq(Seq(Byte))
      /\ m.ConsensusUpdate_2 \in Seq(Seq(Byte))
  BY LeafOf DEF FinalizedHeaderMisbehaviourFields
<1>2. {\h0a, \h12, \h1a, \h22} \subseteq Byte
  BY DEF Byte
<1>3. /\ Sized(BytesField(\h0a, m.ClientId), BytesSize(m.ClientId))
      /\ Sized(MessageField(\h12, m.TrustedSyncCommittee, Own),
               DelimitedsSize(m.TrustedSyncCommittee, OwnSize))
      /\ Sized(MessageField(\h1a, m.ConsensusUpdate_1, Own),
               DelimitedsSize(m.ConsensusUpdate_1, OwnSize))
      /\ Sized(MessageField(\h22, m.ConsensusUpdate_2, Own),
               DelimitedsSize(m.ConsensusUpdate_2, OwnSize))
  BY <1>1, <1>2, FieldSized, ExternalSized
<1>4. QED
  BY ONLY <1>3, SizedConcat DEF MarshalFinalizedHeaderMisbehaviour, SizeFinalizedHeaderMisbehaviour

\* What MarshalToSizedBuffer writes of NextSyncCommitteeMisbehaviour.
LEMMA NextSyncCommitteeMisbehaviourSized ==
  ASSUME NEW m, \A f \in NextSyncCommitteeMisbehaviourFields : Leaf(f, m[f.name])
  PROVE  Sized(MarshalNextSyncCommitteeMisbehaviour(m), SizeNextSyncCommitteeMisbehaviour(m))
<1>1. /\ m.ClientId \in Seq(Byte)
      /\ m.TrustedSyncCommittee \in Seq(Seq(Byte))
      /\ m.ConsensusUpdate_1 \in Seq(Seq(Byte))
      /\ m.ConsensusUpdate_2 \in Seq(Seq(Byte))
  BY LeafOf DEF NextSyncCommitteeMisbehaviourFields
<1>2. {\h0a, \h12, \h1a, \h22} \subseteq Byte
  BY DEF Byte
<1>3. /\ Sized(BytesField(\h0a, m.ClientId), BytesSize(m.ClientId))
      /\ Sized(MessageField(\h12, m.TrustedSyncCommittee, Own),
               DelimitedsSize(m.TrustedSyncCommittee, OwnSize))
      /\ Sized(MessageField(\h1a, m.ConsensusUpdate_1, Own),
               DelimitedsSize(m.ConsensusUpdate_1, OwnSize))
      /\ Sized(MessageField(\h22, m.ConsensusUpdate_2, Own),
               DelimitedsSize(m.ConsensusUpdate_2, OwnSize))
  BY <1>1, <1>2, FieldSized, ExternalSized
<1>4. QED
  BY ONLY <1>3, SizedConcat DEF MarshalNextSyncCommitteeMisbehaviour, SizeNextSyncCommitteeMisbehaviour

\* What MarshalToSizedBuffer writes of ProverConfig, the messages nested in it included.
LEMMA ProverConfigSized ==
  ASSUME NEW m, \A f \in ProverConfigFields : Leaf(f, m[f.name]),
         NEW order \in SetToSeqs(DOMAIN m.MinimalForkSched)
  PROVE  Sized(MarshalProverConfig(m, order), SizeProverConfig(m))
<1>1. /\ m.TrustingPeriod \in Seq(Byte)
      /\ m.MaxClockDrift \in Seq(Byte)
      /\ m.RefreshThresholdRate \in Seq(Seq(Byte))
      /\ m.OpNodeEndpoint \in Seq(Byte)
      /\ m.L1ExecutionEndpoint \in Seq(Byte)
      /\ m.L1BeaconEndpoint \in Seq(Byte)
      /\ m.PreimageMakerEndpoint \in Seq(Byte)
      /\ m.OpNodeTimeout \in Seq(Byte)
      /\ m.PreimageMakerTimeout \in Seq(Byte)
      /\ IsFiniteSet(DOMAIN m.MinimalForkSched)
      /\ \A k \in DOMAIN m.MinimalForkSched : k \in Seq(Byte) /\ m.MinimalForkSched[k] \in Nat
      /\ m.MaxHeaderConcurrency \in Nat
      /\ m.DisputeGameFactoryAddress \in Seq(Byte)
  BY LeafOf DEF ProverConfigFields
<1>2. {\h0a, \h12, \h1a, \h22, \h2a, \h32, \h3a, \h42, \h4a, \h52, \h58, \h62} \subseteq Byte
  BY DEF Byte
<1>3. /\ Sized(Delimited(\h0a, m.TrustingPeriod), DelimitedSize(Len(m.TrustingPeriod)))
      /\ Sized(Delimited(\h12, m.MaxClockDrift), DelimitedSize(Len(m.MaxClockDrift)))
      /\ Sized(MessageField(\h1a, m.RefreshThresholdRate, Own),
               DelimitedsSize(m.RefreshThresholdRate, OwnSize))
      /\ Sized(BytesField(\h22, m.OpNodeEndpoint), BytesSize(m.OpNodeEndpoint))
      /\ Sized(BytesField(\h2a, m.L1ExecutionEndpoint), BytesSize(m.L1ExecutionEndpoint))
      /\ Sized(BytesField(\h32, m.L1BeaconEndpoint), BytesSize(m.L1BeaconEndpoint))
      /\ Sized(BytesField(\h3a, m.PreimageMakerEndpoint), BytesSize(m.PreimageMakerEndpoint))
      /\ Sized(Delimited(\h42, m.OpNodeTimeout), DelimitedSize(Len(m.OpNodeTimeout)))
      /\ Sized(Delimited(\h4a, m.PreimageMakerTimeout),
               DelimitedSize(Len(m.PreimageMakerTimeout)))
      /\ Sized(MapField(\h52, m.MinimalForkSched, order), MapSize(m.MinimalForkSched))
      /\ Sized(UintField(\h58, m.MaxHeaderConcurrency), UintSize(m.MaxHeaderConcurrency))
      /\ Sized(BytesField(\h62, m.DisputeGameFactoryAddress),
               BytesSize(m.DisputeGameFactoryAddress))
  BY <1>1, <1>2, FieldSized, ExternalSized, MapSized
<1>4. QED
  BY ONLY <1>3, SizedConcat DEF MarshalProverConfig, SizeProverConfig

\* The kinds of messages.
LEMMA KindList ==
  Kinds = {"L1Config", "FaultDisputeGameConfig", "ClientState", "L1Header",
           "Derivation", "Header", "ConsensusState", "FaultDisputeGameProof",
           "Misbehaviour", "FinalizedHeaderMisbehaviour", "NextSyncCommitteeMisbehaviour", "ProverConfig"}
  BY DEF Kinds, FieldsOf

\* What a message of a kind holds.
LEMMA MessageFacts ==
  ASSUME NEW kind, NEW m, IsMessage(kind, m)
  PROVE  \A f \in Fields(kind) : Leaf(f, m[f.name]) /\ Holds(f, m[f.name])
<1> SUFFICES ASSUME NEW f \in Fields(kind)
             PROVE  Leaf(f, m[f.name]) /\ Holds(f, m[f.name])
  OBVIOUS
<1>1. IsValue(f, m[f.name], Flat)
  BY DEF IsMessage
<1>2. Leaf(f, m[f.name])
  BY <1>1 DEF IsValue, Leaf
<1>3. ASSUME f.kind \in {"message", "message list"}
      PROVE  Nest(f.of, m[f.name])
  <2>1. /\ m[f.name] \in Seq(Range(m[f.name]))
        /\ \A i \in DOMAIN m[f.name] : Flat(f.of, m[f.name][i])
    BY <1>1, <1>3 DEF IsValue
  <2>2. \A i \in DOMAIN m[f.name] : LeafMessage(f.of, m[f.name][i])
    BY <2>1 DEF Flat, IsValue, LeafMessage, Leaf
  <2>3. QED
    BY <2>1, <2>2 DEF Nest
<1>4. QED
  BY <1>2, <1>3 DEF Holds

\* Whatever the kind and the message, in every order of a map's entries.
LEMMA MessageSized ==
  ASSUME NEW kind \in Kinds, NEW m, IsMessage(kind, m), NEW bytes \in ToSizedBuffer(kind, m)
  PROVE  Sized(bytes, Size(kind, m))
<1>1. \A f \in Fields(kind) : Leaf(f, m[f.name]) /\ Holds(f, m[f.name])
  BY MessageFacts
<1>2. CASE kind = "L1Config"
  <2>1. bytes = MarshalL1Config(m) /\ Size(kind, m) = SizeL1Config(m)
    BY <1>2 DEF ToSizedBuffer, Size
  <2>2. QED
    BY <1>1, <1>2, <2>1, FieldTables, L1ConfigSized
<1>3. CASE kind = "FaultDisputeGameConfig"
  <2>1. bytes = MarshalFaultDisputeGameConfig(m) /\ Size(kind, m) = SizeFaultDisputeGameConfig(m)
    BY <1>3 DEF ToSizedBuffer, Size
  <2>2. QED
    BY <1>1, <1>3, <2>1, FieldTables, FaultDisputeGameConfigSized
<1>4. CASE kind = "ClientState"
  <2>1. bytes = MarshalClientState(m) /\ Size(kind, m) = SizeClientState(m)
    BY <1>4 DEF ToSizedBuffer, Size
  <2>2. QED
    BY <1>1, <1>4, <2>1, FieldTables, ClientStateSized
<1>5. CASE kind = "L1Header"
  <2>1. bytes = MarshalL1Header(m) /\ Size(kind, m) = SizeL1Header(m)
    BY <1>5 DEF ToSizedBuffer, Size
  <2>2. QED
    BY <1>1, <1>5, <2>1, FieldTables, L1HeaderSized
<1>6. CASE kind = "Derivation"
  <2>1. bytes = MarshalDerivation(m) /\ Size(kind, m) = SizeDerivation(m)
    BY <1>6 DEF ToSizedBuffer, Size
  <2>2. QED
    BY <1>1, <1>6, <2>1, FieldTables, DerivationSized
<1>7. CASE kind = "Header"
  <2>1. bytes = MarshalHeader(m) /\ Size(kind, m) = SizeHeader(m)
    BY <1>7 DEF ToSizedBuffer, Size
  <2>2. QED
    BY <1>1, <1>7, <2>1, FieldTables, HeaderSized
<1>8. CASE kind = "ConsensusState"
  <2>1. bytes = MarshalConsensusState(m) /\ Size(kind, m) = SizeConsensusState(m)
    BY <1>8 DEF ToSizedBuffer, Size
  <2>2. QED
    BY <1>1, <1>8, <2>1, FieldTables, ConsensusStateSized
<1>9. CASE kind = "FaultDisputeGameProof"
  <2>1. bytes = MarshalFaultDisputeGameProof(m) /\ Size(kind, m) = SizeFaultDisputeGameProof(m)
    BY <1>9 DEF ToSizedBuffer, Size
  <2>2. QED
    BY <1>1, <1>9, <2>1, FieldTables, FaultDisputeGameProofSized
<1>10. CASE kind = "Misbehaviour"
  <2>1. bytes = MarshalMisbehaviour(m) /\ Size(kind, m) = SizeMisbehaviour(m)
    BY <1>10 DEF ToSizedBuffer, Size
  <2>2. QED
    BY <1>1, <1>10, <2>1, FieldTables, MisbehaviourSized
<1>11. CASE kind = "FinalizedHeaderMisbehaviour"
  <2>1. bytes = MarshalFinalizedHeaderMisbehaviour(m) /\ Size(kind, m) = SizeFinalizedHeaderMisbehaviour(m)
    BY <1>11 DEF ToSizedBuffer, Size
  <2>2. QED
    BY <1>1, <1>11, <2>1, FieldTables, FinalizedHeaderMisbehaviourSized
<1>12. CASE kind = "NextSyncCommitteeMisbehaviour"
  <2>1. bytes = MarshalNextSyncCommitteeMisbehaviour(m) /\ Size(kind, m) = SizeNextSyncCommitteeMisbehaviour(m)
    BY <1>12 DEF ToSizedBuffer, Size
  <2>2. QED
    BY <1>1, <1>12, <2>1, FieldTables, NextSyncCommitteeMisbehaviourSized
<1>13. CASE kind = "ProverConfig"
  <2>1. /\ Size(kind, m) = SizeProverConfig(m)
        /\ \E order \in SetToSeqs(DOMAIN m.MinimalForkSched) :
             bytes = MarshalProverConfig(m, order)
    BY <1>13 DEF ToSizedBuffer, Size
  <2>2. \A f \in ProverConfigFields : Leaf(f, m[f.name])
    BY <1>1, <1>13, FieldTables
  <2>3. QED
    BY <2>1, <2>2, ProverConfigSized
<1>14. QED
  BY <1>2, <1>3, <1>4, <1>5, <1>6, <1>7, <1>8, <1>9, <1>10, <1>11, <1>12, <1>13, KindList

-----------------------------------------------------------------------------
(* SizeExact.                                                              *)

\* The message that was sent is one of those offered, throughout.
Sent == sent \in Offered

\* Every step leaves the message that was sent as it is.
LEMMA SentInv == Spec => []Sent
<1>1. Init => Sent
  BY DEF Init, Sent
<1>2. Sent /\ [Next]_vars => Sent'
  BY DEF Sent, Next, vars, Wired, Cut, Join, Extend, Corrupt, Edited, Decode, Encode, Unmarshal,
         Scalar, String, Nested, OpenEntry, EntryKey, EntryValue, OpenSkip, Malformed, Refused,
         SkipMore, SkipEnds, SkipFails, Return, Done, Again, Terminated, Running, Fail
<1>3. QED
  BY <1>1, <1>2, PTL DEF Spec

\* Size counts what Marshal writes, for every message of every kind, whatever it
\* holds: lists of any length, maps with any number of entries in any order.
THEOREM SizeIsExact == Spec => []SizeExact
<1>1. Sent => SizeExact
  <2>1. SUFFICES ASSUME Sent, NEW bytes \in ToSizedBuffer(sent.kind, sent.msg)
                 PROVE  Size(sent.kind, sent.msg) = Len(bytes)
    BY DEF SizeExact
  <2>2. sent.kind \in Kinds /\ IsMessage(sent.kind, sent.msg)
    BY <2>1, CodecAssumption DEF Sent
  <2>3. Sized(bytes, Size(sent.kind, sent.msg))
    BY <2>1, <2>2, MessageSized
  <2>4. QED
    BY <2>3 DEF Sized
<1>2. QED
  BY <1>1, SentInv, PTL

-----------------------------------------------------------------------------
(* Read elements.                                                          *)

\* The smaller of two numbers.
LEMMA MinOfTwo ==
  ASSUME NEW a \in Nat, NEW b \in Nat
  PROVE  /\ Min({a, b}) \in Nat /\ Min({a, b}) <= a /\ Min({a, b}) <= b
         /\ Min({a, b}) \in {a, b}
<1>1. {a, b} \in SUBSET Nat /\ {a, b} # {}
  OBVIOUS
<1>2. Min({a, b}) \in {a, b} /\ \A y \in {a, b} : Min({a, b}) <= y
  BY <1>1, MinLeast
<1>3. QED
  BY <1>2

\* A varint ends inside the buffer, after as many bytes as a word may need.
LEMMA EndsInside ==
  ASSUME NEW data \in Seq(Byte), NEW at \in 0..Len(data), NEW i \in VarintEnds(data, at)
  PROVE  i \in (at + 1)..Len(data) /\ 7 * (i - at - 1) <= Word
<1> DEFINE top == at + (Word + 6) \div 7
<1>1. Len(data) \in Nat /\ at \in Nat /\ top \in Nat
  BY LenProperties, WireAssumption
<1>2. top = at + (Word + 6) \div 7 /\ 7 * ((Word + 6) \div 7) <= Word + 6
  BY WireAssumption
<1>3. i \in (at + 1)..Min({Len(data), top})
  BY DEF VarintEnds
<1> HIDE DEF top
<1>4. Min({Len(data), top}) \in Nat /\ Min({Len(data), top}) <= Len(data) /\ Min({Len(data), top}) <= top
  BY <1>1, MinOfTwo
<1>5. i \in (at + 1)..Len(data) /\ i <= top
  BY <1>1, <1>3, <1>4
<1>6. QED
  BY <1>1, <1>2, <1>5, WireAssumption

\* The groups of seven bits make a number.
LEMMA GroupsType ==
  ASSUME NEW data \in Seq(Byte), NEW at \in Nat, NEW i \in (at + 1)..Len(data),
         7 * (i - at - 1) <= Word
  PROVE  Groups(data, at, i) \in Nat
<1> DEFINE g == [j \in (at + 1)..i |-> (data[j] % 128) * Pow2[7 * (j - at - 1)]]
<1>1. Len(data) \in Nat
  BY LenProperties
<1>2. IsFiniteSet((at + 1)..i)
  BY <1>1, FS_Interval
<1>3. ASSUME NEW j \in (at + 1)..i PROVE g[j] \in Nat
  <2>1. data[j] \in Byte
    BY <1>1, ElementOfSeq
  <2>2. data[j] % 128 \in Nat
    <3>1. \A b \in 0..255 : b % 128 \in Nat
      OBVIOUS
    <3>2. QED
      BY ONLY <2>1, <3>1 DEF Byte
  <2>3. 7 * (j - at - 1) \in 0..Word
    BY <1>1, WireAssumption
  <2>4. Pow2[7 * (j - at - 1)] \in Nat
    BY <2>3, PowPositive
  <2>5. QED
    BY <2>2, <2>4, ProductNat
<1>4. DOMAIN g = (at + 1)..i /\ Groups(data, at, i) = SumFunctionOnSet(g, DOMAIN g)
  BY DEF Groups, SumFunction
<1> HIDE DEF g
<1>5. QED
  BY <1>2, <1>3, <1>4, SumNat

\* A varint that is read is a word, and iNdEx moves on.
LEMMA VarintRead ==
  ASSUME NEW data \in Seq(Byte), NEW at \in 0..Len(data), NEW v \in ReadVarint(data, at)
  PROVE  v.value \in Uint64Values /\ v.at \in (at + 1)..Len(data)
<1>1. PICK i \in VarintEnds(data, at) :
        v = [value |-> Groups(data, at, i) % Pow2[Word], at |-> i]
  BY DEF ReadVarint
<1>2. i \in (at + 1)..Len(data) /\ 7 * (i - at - 1) <= Word
  BY EndsInside
<1>3. Groups(data, at, i) \in Nat
  BY <1>2, GroupsType
<1>4. Groups(data, at, i) % Pow2[Word] \in Uint64Values
  BY <1>3, UintValues, DivMod DEF Uint64Values
<1>5. QED
  BY <1>1, <1>2, <1>4

\* A signed word is an integer.
LEMMA SignedType ==
  /\ \A x \in Int : Signed(x, Word) \in Int /\ Signed(x, Half) \in Int
  /\ \A x \in Nat : Wrap(x) \in Int
<1>1. /\ Word - 1 \in 0..Word /\ Word \in 0..Word /\ Half - 1 \in 0..Word /\ Half \in 0..Word
  BY WireAssumption
<1>2. \A x \in Int : Signed(x, Word) \in Int /\ Signed(x, Half) \in Int
  BY <1>1, PowPositive DEF Signed
<1>3. \A x \in Nat : x % Pow2[Word] \in Int
  BY UintValues, DivMod
<1>4. QED
  BY <1>2, <1>3 DEF Wrap

\* A tag.
LEMMA TagRead ==
  ASSUME NEW data \in Seq(Byte), NEW at \in 0..Len(data), NEW t \in ReadTag(data, at)
  PROVE  t.num \in Int /\ t.type \in 0..7 /\ t.at \in (at + 1)..Len(data)
<1>1. PICK w \in ReadVarint(data, at) :
        t = [num |-> Signed((w.value \div 8) % Pow2[Half], Half), type |-> w.value % 8, at |-> w.at]
  BY DEF ReadTag
<1>2. w.value \in Nat /\ w.at \in (at + 1)..Len(data)
  BY VarintRead, UintValues
<1>3. w.value \div 8 \in Nat /\ w.value % 8 \in 0..7
  BY <1>2
<1>4. (w.value \div 8) % Pow2[Half] \in Int
  <2>1. Pow2[Half] \in Nat \ {0}
    BY PowPositive, WireAssumption
  <2>2. \A x \in Nat, p \in Nat \ {0} : x % p \in Int
    OBVIOUS
  <2>3. QED
    BY ONLY <1>3, <2>1, <2>2
<1>5. QED
  BY <1>1, <1>2, <1>3, <1>4, SignedType

\* The sum of an index and a word.
LEMMA WrapType ==
  ASSUME NEW a \in Int, NEW b \in Int
  PROVE  Wrap(a + b) \in Int
<1>1. (a + b) % Pow2[Word] \in Int
  BY UintValues
<1>2. QED
  BY <1>1, SignedType DEF Wrap

\* A length and the bytes it counts lie inside the buffer.
LEMMA DelimitedRead ==
  ASSUME NEW data \in Seq(Byte), NEW at \in 0..Len(data), NEW d \in ReadDelimited(data, at)
  PROVE  /\ d.from \in 0..Len(data) /\ d.post \in 0..Len(data)
         /\ Slice(data, d) \in Seq(Byte)
<1>1. PICK n \in ReadVarint(data, at) :
        d = [from |-> n.at, post |-> Wrap(n.at + Signed(n.value, Word))]
  BY DEF ReadDelimited
<1>2. n.value \in Nat /\ n.at \in (at + 1)..Len(data) /\ Len(data) \in Nat
  BY VarintRead, UintValues, LenProperties
<1>3. Wrap(n.at + Signed(n.value, Word)) \in Int
  <2>1. n.at \in Int /\ n.value \in Int
    BY <1>2
  <2>2. Signed(n.value, Word) \in Int
    BY ONLY <2>1, SignedType
  <2> DEFINE x == n.at
             y == Signed(n.value, Word)
  <2>3. x \in Int /\ y \in Int
    BY ONLY <2>1, <2>2
  <2> HIDE DEF x, y
  <2>4. Wrap(x + y) \in Int
    BY <2>3, WrapType
  <2>5. QED
    BY <2>4 DEF x, y
<1>4. d.post >= 0 /\ d.post <= Len(data)
  BY DEF ReadDelimited
<1>5. d.from \in 0..Len(data) /\ d.post \in 0..Len(data)
  BY <1>1, <1>2, <1>3, <1>4
<1>6. \A i \in (d.from + 1)..d.post : data[i] \in Byte
  BY <1>2, <1>5, ElementOfSeq
<1>7. Slice(data, d) \in Seq(Byte)
  BY <1>5, <1>6, SubSeqProperties DEF Slice
<1>8. QED
  BY <1>5, <1>7

-----------------------------------------------------------------------------
(* The tables of fields.                                                   *)

FieldKinds ==
  {"uint64", "uint32", "bool", "bytes", "bytes list", "duration", "external", "message",
   "message list", "map"}

\* The kinds of messages that are nested in others, and hold none themselves.
Simple == {"L1Config", "FaultDisputeGameConfig", "L1Header", "Derivation", "FaultDisputeGameProof"}

\* A case of a switch: of names what reads the bytes.
Wellformed(f) ==
  /\ f.kind \in FieldKinds
  /\ f.kind \in {"message", "message list"} => f.of \in Simple
  /\ f.kind \in {"duration", "external"} => f.of = "external"
  /\ f.kind = "map" => f.of = "MapEntry"

\* By the constructor.
LEMMA Constructors ==
  ASSUME NEW num, NEW name, NEW of \in Simple
  PROVE  /\ Wellformed(Uint64(num, name)) /\ Uint64(num, name).name = name
         /\ Wellformed(Uint32(num, name)) /\ Uint32(num, name).name = name
         /\ Wellformed(Bool(num, name)) /\ Bool(num, name).name = name
         /\ Wellformed(Bytes(num, name)) /\ Bytes(num, name).name = name
         /\ Wellformed(BytesList(num, name)) /\ BytesList(num, name).name = name
         /\ Wellformed(Duration(num, name)) /\ Duration(num, name).name = name
         /\ Wellformed(External(num, name)) /\ External(num, name).name = name
         /\ Wellformed(Map(num, name)) /\ Map(num, name).name = name
         /\ Wellformed(Message(num, name, of)) /\ Message(num, name, of).name = name
         /\ Wellformed(MessageList(num, name, of)) /\ MessageList(num, name, of).name = name
  BY DEF Wellformed, FieldKinds, Simple, Uint64, Uint32, Bool, Bytes, BytesList, Duration, External,
         Map, Message, MessageList, Field

\* No two fields of a message have the same name.
LEMMA NamesDistinct ==
  ASSUME NEW kind, NEW f \in Fields(kind), NEW g \in Fields(kind), f.name = g.name
  PROVE  f = g
<1>1. kind \in Kinds
  BY DEF Fields
<1>2. \A num, name :
        /\ Uint64(num, name).name = name /\ Uint32(num, name).name = name
        /\ Bool(num, name).name = name /\ Bytes(num, name).name = name
        /\ BytesList(num, name).name = name /\ Duration(num, name).name = name
        /\ External(num, name).name = name /\ Map(num, name).name = name
  BY Constructors DEF Simple
<1>3. \A num, name : \A of \in Simple : Message(num, name, of).name = name /\ MessageList(num, name, of).name = name
  BY Constructors
<1>4. CASE kind = "ProverConfig"
  BY <1>2, <1>4, FieldTables DEF ProverConfigFields
<1>5. CASE kind = "Misbehaviour"
  BY <1>2, <1>3, <1>5, FieldTables DEF MisbehaviourFields, Simple
<1>6. CASE kind = "L1Config"
  BY <1>2, <1>6, FieldTables DEF L1ConfigFields
<1>7. CASE kind = "ConsensusState"
  BY <1>2, <1>7, FieldTables DEF ConsensusStateFields
<1>8. CASE kind \in {"ClientState", "Header", "L1Header", "Derivation"}
  BY <1>2, <1>3, <1>8, FieldTables
     DEF ClientStateFields, HeaderFields, L1HeaderFields, DerivationFields, Simple
<1>9. CASE kind \in {"FaultDisputeGameConfig", "FaultDisputeGameProof"}
  BY <1>2, <1>9, FieldTables DEF FaultDisputeGameConfigFields, FaultDisputeGameProofFields
<1>10. CASE kind \in {"FinalizedHeaderMisbehaviour", "NextSyncCommitteeMisbehaviour"}
  BY <1>2, <1>10, FieldTables DEF FinalizedHeaderMisbehaviourFields, NextSyncCommitteeMisbehaviourFields
<1>11. QED
  BY <1>1, <1>4, <1>5, <1>6, <1>7, <1>8, <1>9, <1>10, KindList

\* Every case of every switch is well-formed.
LEMMA FieldsWellformed ==
  ASSUME NEW kind, NEW f \in Fields(kind)
  PROVE  Wellformed(f)
<1>1. kind \in Kinds
  BY DEF Fields
<1>2. \A num, name :
        /\ Wellformed(Uint64(num, name)) /\ Wellformed(Uint32(num, name)) /\ Wellformed(Bool(num, name))
        /\ Wellformed(Bytes(num, name)) /\ Wellformed(BytesList(num, name))
        /\ Wellformed(Duration(num, name)) /\ Wellformed(External(num, name)) /\ Wellformed(Map(num, name))
  BY Constructors DEF Simple
<1>3. \A num, name : \A of \in Simple : Wellformed(Message(num, name, of)) /\ Wellformed(MessageList(num, name, of))
  BY Constructors
<1> HIDE DEF Wellformed
<1>4. \A g \in L1ConfigFields \cup FaultDisputeGameConfigFields \cup L1HeaderFields \cup DerivationFields : Wellformed(g)
  BY <1>2 DEF L1ConfigFields, FaultDisputeGameConfigFields, L1HeaderFields, DerivationFields
<1>5. \A g \in ClientStateFields \cup HeaderFields : Wellformed(g)
  BY <1>2, <1>3 DEF ClientStateFields, HeaderFields, Simple
<1>6. \A g \in ConsensusStateFields \cup FaultDisputeGameProofFields \cup MisbehaviourFields : Wellformed(g)
  BY <1>2, <1>3 DEF ConsensusStateFields, FaultDisputeGameProofFields, MisbehaviourFields, Simple
<1>7. \A g \in FinalizedHeaderMisbehaviourFields \cup NextSyncCommitteeMisbehaviourFields \cup ProverConfigFields : Wellformed(g)
  BY <1>2 DEF FinalizedHeaderMisbehaviourFields, NextSyncCommitteeMisbehaviourFields, ProverConfigFields
<1>8. QED
  BY <1>1, <1>4, <1>5, <1>6, <1>7, KindList, FieldTables

\* Nested messages hold no messages.
LEMMA SimpleFields ==
  ASSUME NEW kind \in Simple, NEW f \in Fields(kind)
  PROVE  f.kind \notin {"message", "message list"}
<1>1. \A num, name :
        /\ Uint64(num, name).kind = "uint64" /\ Uint32(num, name).kind = "uint32"
        /\ Bytes(num, name).kind = "bytes" /\ Duration(num, name).kind = "duration"
        /\ External(num, name).kind = "external"
  BY DEF Uint64, Uint32, Bytes, Duration, External, Field
<1>2. CASE kind = "L1Config"
  BY <1>1, <1>2, FieldTables DEF L1ConfigFields
<1>3. CASE kind = "FaultDisputeGameConfig"
  BY <1>1, <1>3, FieldTables DEF FaultDisputeGameConfigFields
<1>4. CASE kind = "FaultDisputeGameProof"
  BY <1>1, <1>4, FieldTables DEF FaultDisputeGameProofFields
<1>5. CASE kind = "L1Header"
  BY <1>1, <1>5, FieldTables DEF L1HeaderFields
<1>6. CASE kind = "Derivation"
  BY <1>1, <1>6, FieldTables DEF DerivationFields
<1>7. QED
  BY <1>2, <1>3, <1>4, <1>5, <1>6 DEF Simple

-----------------------------------------------------------------------------
(* Values of fields and messages.                                          *)

\* What a field of a message may hold.
Fits(f, v) == IsValue(f, v, Flat)

\* A message by its fields.
LEMMA MessageFits ==
  ASSUME NEW kind, NEW m
  PROVE  IsMessage(kind, m) <=> /\ m = [name \in Names(kind) |-> m[name]]
                                /\ \A f \in Fields(kind) : Fits(f, m[f.name])
  BY DEF IsMessage, Fits

\* A message that may be nested holds no messages.
LEMMA SimpleFlat ==
  ASSUME NEW kind \in Simple, NEW m
  PROVE  Flat(kind, m) <=> IsMessage(kind, m)
<1>1. ASSUME NEW f \in Fields(kind)
      PROVE  IsValue(f, m[f.name], LAMBDA k, n : FALSE) <=> IsValue(f, m[f.name], Flat)
  BY SimpleFields DEF IsValue
<1>2. QED
  BY <1>1 DEF Flat, IsMessage

\* A field of a message is given another value.
LEMMA MessageUpdated ==
  ASSUME NEW kind, NEW m, IsMessage(kind, m), NEW f \in Fields(kind), NEW v, Fits(f, v)
  PROVE  IsMessage(kind, [m EXCEPT ![f.name] = v])
<1> DEFINE n == [m EXCEPT ![f.name] = v]
<1>1. /\ m = [name \in Names(kind) |-> m[name]] /\ DOMAIN m = Names(kind)
      /\ \A g \in Fields(kind) : Fits(g, m[g.name])
  BY MessageFits
<1>2. n = [name \in Names(kind) |-> n[name]]
  BY <1>1
<1>3. ASSUME NEW g \in Fields(kind) PROVE Fits(g, n[g.name])
  <2>1. g.name \in DOMAIN m
    BY <1>1 DEF Names
  <2>2. CASE g = f
    BY <2>1, <2>2
  <2>3. CASE g # f
    <3>1. g.name # f.name
      BY <2>3, NamesDistinct
    <3>2. n[g.name] = m[g.name]
      BY <2>1, <3>1
    <3>3. QED
      BY <1>1, <3>2
  <2>4. QED
    BY <2>2, <2>3
<1> HIDE DEF n
<1>4. IsMessage(kind, n)
  BY <1>2, <1>3, MessageFits
<1>5. QED
  BY <1>4 DEF n

\* The empty sequence is a value of every field it stands for.
LEMMA EmptyFits ==
  ASSUME NEW f, Wellformed(f), ~IsScalar(f)
  PROVE  Fits(f, <<>>)
<1>1. <<>> \in Seq(Byte) /\ <<>> \in Seq(Seq(Byte)) /\ <<>> \in Seq(Range(<<>>)) /\ Len(<<>>) = 0
  BY EmptySeq
<1>2. DOMAIN <<>> = {}
  OBVIOUS
<1>3. IsFiniteSet(DOMAIN <<>>)
  BY <1>2, FS_EmptySet
<1>4. f.kind \notin {"uint64", "uint32", "bool"}
  BY DEF IsScalar
<1>5. QED
  BY <1>1, <1>2, <1>3, <1>4 DEF Fits, IsValue, IsPointer

\* What nothing was read into is a value of the field.
LEMMA ZeroFits ==
  ASSUME NEW f, Wellformed(f)
  PROVE  Fits(f, ZeroOf(f))
<1>1. CASE f.kind \in {"uint64", "uint32"}
  <2>1. 0 \in Uint64Values /\ 0 \in Uint32Values
    BY UintValues DEF Uint64Values, Uint32Values
  <2>2. f.kind # "bool" /\ IsScalar(f)
    BY <1>1 DEF IsScalar
  <2>3. ZeroOf(f) = 0
    BY <1>1, <2>2, Zenon DEF ZeroOf
  <2>4. QED
    BY <1>1, <2>1, <2>3 DEF Fits, IsValue
<1>2. CASE f.kind = "bool"
  <2>1. f.kind \notin {"uint64", "uint32"} /\ IsScalar(f)
    BY <1>2 DEF IsScalar
  <2>2. ZeroOf(f) = FALSE
    BY <1>2, <2>1, Zenon DEF ZeroOf
  <2>3. QED
    BY <1>2, <2>2 DEF Fits, IsValue
<1>3. CASE f.kind \notin {"uint64", "uint32", "bool"}
  <2>1. ~IsScalar(f)
    BY <1>3 DEF IsScalar
  <2>2. ZeroOf(f) = <<>>
    BY <1>3, <2>1 DEF ZeroOf
  <2>3. QED
    BY <2>1, <2>2, EmptyFits
<1>4. QED
  BY <1>1, <1>2, <1>3

\* An empty message is a message.
LEMMA ZeroMessage ==
  ASSUME NEW kind
  PROVE  IsMessage(kind, Zero(kind))
<1>1. Zero(kind) = [name \in Names(kind) |-> Zero(kind)[name]]
  BY DEF Zero
<1>2. ASSUME NEW f \in Fields(kind) PROVE Fits(f, Zero(kind)[f.name])
  <2>1. FieldNamed(kind, f.name) = f
    BY NamesDistinct DEF FieldNamed
  <2>2. Zero(kind)[f.name] = ZeroOf(f)
    BY <2>1 DEF Zero, Names
  <2>3. QED
    BY <2>2, ZeroFits, FieldsWellformed
<1>3. QED
  BY <1>1, <1>2, MessageFits

-----------------------------------------------------------------------------
(* What the calls of the decoder work on.                                  *)

\* The value of a call: a message, the bytes of an external one, a map's entry, or
\* the depth of skipOptimism.
CallValue(kind, v) ==
  /\ kind \in Kinds => IsMessage(kind, v)
  /\ kind = "external" => v \in Seq(Byte)
  /\ kind = "MapEntry" => v.key \in Seq(Byte) /\ v.value \in Uint64Values
  /\ kind = "skip" => v \in Nat

\* The value of a call for a message is a message, and nothing else.
LEMMA KindsApart ==
  /\ \A kind \in Kinds : kind \notin {"external", "MapEntry", "skip"}
  /\ Simple \subseteq Kinds
  BY KindList DEF Simple

\* The first element of a sequence.
LEMMA HeadIsFirst ==
  ASSUME NEW S, NEW s \in Seq(S), s # <<>>
  PROVE  1 \in DOMAIN s /\ Head(s) = s[1]
<1>1. Len(s) \in Nat \ {0} /\ DOMAIN s = 1..Len(s)
  BY EmptySeq, LenProperties
<1>2. QED
  BY <1>1 DEF Head

\* A sequence of one element.
LEMMA Single ==
  ASSUME NEW S, NEW v \in S
  PROVE  /\ <<v>> \in Seq(S) /\ <<v>> \in Seq(Range(<<v>>))
         /\ Len(<<v>>) = 1 /\ DOMAIN <<v>> = {1} /\ <<v>>[1] = v
<1>1. <<v>> \in Seq(S) /\ Len(<<v>>) = 1 /\ DOMAIN <<v>> = {1} /\ <<v>>[1] = v
  OBVIOUS
<1>2. QED
  BY <1>1, SeqOfRange

\* A sequence of two.
LEMMA Pair ==
  ASSUME NEW S, NEW v \in S, NEW w \in S
  PROVE  <<v>> \o <<w>> = <<v, w>>
<1>1. <<v>> \in Seq(S) /\ Len(<<v>>) = 1 /\ <<v>>[1] = v
  BY Single
<1>2. <<w>> \in Seq(S) /\ Len(<<w>>) = 1 /\ <<w>>[1] = w
  BY Single
<1>3. <<v, w>> \in Seq(S) /\ Len(<<v, w>>) = 2 /\ <<v, w>>[1] = v /\ <<v, w>>[2] = w
  OBVIOUS
<1> DEFINE a == <<v>>
           b == <<w>>
           p == <<v, w>>
           ab == a \o b
<1> HIDE DEF a, b, p
<1>4. /\ ab \in Seq(S) /\ Len(ab) = Len(a) + Len(b)
      /\ \A i \in 1..(Len(a) + Len(b)) : ab[i] = IF i <= Len(a) THEN a[i] ELSE b[i - Len(a)]
  BY <1>1, <1>2, ConcatProperties DEF a, b
<1> HIDE DEF ab
<1>5. Len(a) = 1 /\ Len(b) = 1 /\ a[1] = v /\ b[1] = w
  BY <1>1, <1>2 DEF a, b
<1>6. Len(ab) = 2 /\ ab[1] = v /\ ab[2] = w
  BY <1>4, <1>5
<1>7. p \in Seq(S) /\ Len(p) = 2 /\ p[1] = v /\ p[2] = w
  BY <1>3 DEF p
<1>8. \A i \in 1..Len(ab) : ab[i] = p[i]
  BY <1>6, <1>7
<1>9. ab = p
  BY <1>4, <1>6, <1>7, <1>8, SeqEqual
<1>10. QED
  BY <1>9 DEF ab, a, b, p

\* What a nested call starts from.
LEMMA StartedValue ==
  ASSUME NEW f, Wellformed(f), NEW old, Fits(f, old),
         f.kind \in {"message", "message list", "external", "duration"}
  PROVE  CallValue(f.of, Started(f, old))
<1>1. CASE f.kind = "message list"
  <2>1. f.of \in Simple /\ Started(f, old) = Zero(f.of)
    BY <1>1 DEF Wellformed, Started
  <2>2. QED
    BY <2>1, ZeroMessage, KindsApart DEF CallValue
<1>2. CASE f.kind = "message"
  <2>1. f.of \in Simple
    BY <1>2 DEF Wellformed
  <2>2. CASE old = <<>>
    <3>1. Started(f, old) = Zero(f.of)
      BY <1>2, <2>2 DEF Started
    <3>2. QED
      BY <2>1, <3>1, ZeroMessage, KindsApart DEF CallValue
  <2>3. CASE old # <<>>
    <3>1. Started(f, old) = Head(old)
      BY <1>2, <2>3 DEF Started
    <3>2. old \in Seq(Range(old)) /\ \A i \in DOMAIN old : Flat(f.of, old[i])
      BY <1>2 DEF Fits, IsValue
    <3>3. 1 \in DOMAIN old /\ Head(old) = old[1]
      BY <2>3, <3>2, HeadIsFirst
    <3>4. IsMessage(f.of, Head(old))
      BY <2>1, <3>2, <3>3, SimpleFlat
    <3>5. QED
      BY <2>1, <3>1, <3>4, KindsApart DEF CallValue
  <2>4. QED
    BY <2>2, <2>3
<1>3. CASE f.kind = "external"
  <2>1. f.of = "external" /\ f.of \notin Kinds
    BY <1>3, KindsApart DEF Wellformed
  <2>2. old \in Seq(Seq(Byte))
    BY <1>3 DEF Fits, IsValue
  <2>3. Started(f, old) \in Seq(Byte)
    <3>1. CASE old = <<>>
      BY <1>3, <3>1, EmptySeq DEF Started
    <3>2. CASE old # <<>>
      <4>1. Head(old) \in Seq(Byte)
        BY <2>2, <3>2, HeadTailProperties
      <4>2. Started(f, old) = Head(old)
        BY <1>3, <3>2 DEF Started
      <4>3. QED
        BY <4>1, <4>2
    <3>3. QED
      BY <3>1, <3>2
  <2>4. QED
    BY <2>1, <2>3 DEF CallValue
<1>4. CASE f.kind = "duration"
  <2>1. f.of = "external" /\ f.of \notin Kinds
    BY <1>4, KindsApart DEF Wellformed
  <2>2. Started(f, old) = <<>>
    BY <1>4 DEF Started
  <2>3. QED
    BY <2>1, <2>2, EmptySeq DEF CallValue
<1>5. QED
  BY <1>1, <1>2, <1>3, <1>4

\* A sequence with one element more.
LEMMA AppendAny ==
  ASSUME NEW s, s \in Seq(Range(s)), NEW e
  PROVE  /\ Append(s, e) \in Seq(Range(Append(s, e)))
         /\ Len(s) \in Nat /\ Len(Append(s, e)) = Len(s) + 1
         /\ DOMAIN Append(s, e) = 1..(Len(s) + 1)
         /\ Append(s, e) # <<>>
         /\ \A i \in 1..Len(s) : Append(s, e)[i] = s[i]
         /\ Append(s, e)[Len(s) + 1] = e
<1> DEFINE S == Range(s) \cup {e}
<1>1. s \in Seq(S)
  BY SeqMonotonic
<1>2. e \in S
  OBVIOUS
<1> HIDE DEF S
<1>3. Append(s, e) \in Seq(S)
  BY <1>1, <1>2, AppendProperties
<1>4. Append(s, e) \in Seq(Range(Append(s, e)))
  BY <1>3, SeqOfRange
<1>5. Len(s) \in Nat
  BY LenProperties
<1>6. /\ Len(Append(s, e)) = Len(s) + 1
      /\ Append(s, e) # <<>>
      /\ \A i \in 1..Len(s) : Append(s, e)[i] = s[i]
      /\ Append(s, e)[Len(s) + 1] = e
  BY <1>1, <1>2, AppendProperties
<1>7. DOMAIN Append(s, e) = 1..(Len(s) + 1)
  BY <1>3, <1>6, LenProperties
<1>8. QED
  BY <1>4, <1>5, <1>6, <1>7

\* What a field holds after a nested call.
LEMMA FilledFits ==
  ASSUME NEW c, Wellformed(c.field), NEW old, Fits(c.field, old),
         c.field.kind \notin {"uint64", "uint32", "bool", "bytes", "bytes list"},
         CallValue(c.field.of, c.val)
  PROVE  Fits(c.field, Filled(old, c))
<1>1. CASE c.field.kind = "message"
  <2>1. c.field.of \in Simple
    BY <1>1 DEF Wellformed
  <2>2. Flat(c.field.of, c.val)
    BY <2>1, SimpleFlat, KindsApart DEF CallValue
  <2>3. Filled(old, c) = <<c.val>>
    BY <1>1 DEF Filled
  <2> DEFINE v == c.val
  <2> HIDE DEF v
  <2>4. <<v>> \in Seq(Range(<<v>>)) /\ Len(<<v>>) = 1 /\ DOMAIN <<v>> = {1} /\ <<v>>[1] = v
    <3>1. v \in {v}
      OBVIOUS
    <3>2. QED
      BY <3>1, Single
  <2>5. QED
    BY <1>1, <2>2, <2>3, <2>4 DEF Fits, IsValue, IsPointer, v
<1>2. CASE c.field.kind = "external"
  <2>1. c.val \in Seq(Byte)
    BY <1>2 DEF Wellformed, CallValue
  <2>2. Filled(old, c) = <<c.val>>
    BY <1>2 DEF Filled
  <2>3. <<c.val>> \in Seq(Seq(Byte)) /\ Len(<<c.val>>) = 1
    BY <2>1, Single
  <2>4. QED
    BY <1>2, <2>2, <2>3 DEF Fits, IsValue, IsPointer
<1>3. CASE c.field.kind = "message list"
  <2>1. c.field.of \in Simple
    BY <1>3 DEF Wellformed
  <2>2. Flat(c.field.of, c.val)
    BY <2>1, SimpleFlat, KindsApart DEF CallValue
  <2>3. Filled(old, c) = Append(old, c.val)
    BY <1>3 DEF Filled
  <2>4. old \in Seq(Range(old)) /\ \A i \in DOMAIN old : Flat(c.field.of, old[i])
    BY <1>3 DEF Fits, IsValue
  <2> DEFINE v == c.val
             n == Append(old, v)
  <2> HIDE DEF v
  <2>5. /\ n \in Seq(Range(n)) /\ Len(old) \in Nat /\ DOMAIN n = 1..(Len(old) + 1)
        /\ \A i \in 1..Len(old) : n[i] = old[i]
        /\ n[Len(old) + 1] = v
    BY <2>4, AppendAny
  <2>6. DOMAIN old = 1..Len(old)
    BY <2>4, LenProperties
  <2> HIDE DEF n
  <2>7. \A i \in DOMAIN n : Flat(c.field.of, n[i])
    <3>1. \A l \in Nat : \A i \in 1..(l + 1) : i = l + 1 \/ i \in 1..l
      BY ONLY TRUE
    <3>2. \A i \in 1..(Len(old) + 1) : i = Len(old) + 1 \/ i \in 1..Len(old)
      BY <2>5, <3>1
    <3>3. Flat(c.field.of, v)
      BY <2>2 DEF v
    <3>4. QED
      BY <2>4, <2>5, <2>6, <3>2, <3>3
  <2>8. Fits(c.field, n)
    BY <1>3, <2>5, <2>7 DEF Fits, IsValue
  <2>9. QED
    BY <2>3, <2>8 DEF n, v
<1>4. CASE c.field.kind = "duration"
  <2>1. c.val \in Seq(Byte)
    BY <1>4 DEF Wellformed, CallValue
  <2>2. Filled(old, c) = c.val
    BY <1>4 DEF Filled
  <2>3. QED
    BY <1>4, <2>1, <2>2 DEF Fits, IsValue
<1>5. CASE c.field.kind = "map"
  <2>1. c.val.key \in Seq(Byte) /\ c.val.value \in Uint64Values
    BY <1>5 DEF Wellformed, CallValue
  <2> DEFINE v == c.val.value
             key == c.val.key
             n == [k \in DOMAIN old \cup {key} |-> IF k = key THEN v ELSE old[k]]
  <2>2. Filled(old, c) = n
    BY <1>5 DEF Filled
  <2>3. /\ IsFiniteSet(DOMAIN old) /\ old \in [DOMAIN old -> Uint64Values]
        /\ \A k \in DOMAIN old : k \in Seq(Byte)
    BY <1>5 DEF Fits, IsValue
  <2>4. key \in Seq(Byte) /\ v \in Uint64Values
    BY <2>1
  <2> HIDE DEF v, key
  <2>5. DOMAIN n = DOMAIN old \cup {key}
    OBVIOUS
  <2>6. IsFiniteSet(DOMAIN n)
    BY <2>3, <2>5, FS_AddElement
  <2>7. n \in [DOMAIN n -> Uint64Values] /\ \A k \in DOMAIN n : k \in Seq(Byte)
    BY <2>3, <2>4
  <2> HIDE DEF n
  <2>8. Fits(c.field, n)
    BY <1>5, <2>6, <2>7 DEF Fits, IsValue
  <2>9. QED
    BY <2>2, <2>8
<1>6. QED
  BY <1>1, <1>2, <1>3, <1>4, <1>5 DEF Wellformed, FieldKinds

\* The bitwise or of two words is a word.
LEMMA OrType ==
  ASSUME NEW a, NEW b
  PROVE  Or(a, b) \in Uint64Values
<1> DEFINE g == [i \in 0..(Word - 1) |->
                   IF (a \div Pow2[i]) % 2 = 1 \/ (b \div Pow2[i]) % 2 = 1 THEN Pow2[i] ELSE 0]
           Good(n) == n <= Word => SumFunctionOnSet(g, 0..(n - 1)) \in 0..(Pow2[n] - 1)
           S == {n \in Nat : Good(n)}
<1>1. ASSUME NEW i \in 0..(Word - 1) PROVE g[i] \in Nat /\ g[i] <= Pow2[i]
  BY PowPositive, WireAssumption
<1>2. DOMAIN g = 0..(Word - 1) /\ Or(a, b) = SumFunctionOnSet(g, DOMAIN g)
  BY DEF Or, SumFunction
<1> HIDE DEF g
<1>3. 0 \in S
  <2>1. 0..(0 - 1) = {} /\ Pow2[0] = 1
    BY PowRecursion, WireAssumption
  <2>2. QED
    BY <2>1, SumEmpty
<1>4. ASSUME NEW n \in Nat, n \in S PROVE n + 1 \in S
  <2>1. SUFFICES ASSUME n + 1 <= Word PROVE SumFunctionOnSet(g, 0..n) \in 0..(Pow2[n + 1] - 1)
    OBVIOUS
  <2>2. SumFunctionOnSet(g, 0..(n - 1)) \in 0..(Pow2[n] - 1)
    BY <1>4, <2>1, WireAssumption
  <2>3. /\ 0..n = (0..(n - 1)) \cup {n} /\ n \notin 0..(n - 1)
        /\ \A x \in (0..(n - 1)) \cup {n} : x \in 0..(Word - 1)
    BY <2>1, WireAssumption
  <2>4. IsFiniteSet(0..(n - 1))
    BY FS_Interval
  <2>5. SumFunctionOnSet(g, 0..n) = g[n] + SumFunctionOnSet(g, 0..(n - 1))
    BY <1>1, <2>3, <2>4, SumAdd
  <2>6. Pow2[n + 1] = 2 * Pow2[n] /\ Pow2[n] \in Nat
    <3>1. n + 1 \in 0..Word /\ n + 1 # 0 /\ n \in 0..Word /\ (n + 1) - 1 = n
      BY <2>1, WireAssumption
    <3>2. Pow2[n + 1] = 2 * Pow2[(n + 1) - 1]
      BY ONLY <3>1, PowRecursion
    <3>3. QED
      BY ONLY <3>1, <3>2, PowPositive
  <2>7. g[n] \in Nat /\ g[n] <= Pow2[n]
    BY <1>1, <2>3
  <2>8. \A p, x, y \in Nat : x <= p /\ y \in 0..(p - 1) => x + y \in 0..(2 * p - 1)
    OBVIOUS
  <2>9. QED
    BY <2>2, <2>5, <2>6, <2>7, <2>8
<1>5. Word \in S
  <2> HIDE DEF S
  <2>1. \A n \in Nat : n \in S
    BY <1>3, <1>4, Induction
  <2>2. QED
    BY <2>1, WireAssumption
<1>6. QED
  BY <1>2, <1>5, WireAssumption DEF Uint64Values

\* An element skipOptimism steps over: where it ends and how deep.
LEMMA ElementRead ==
  ASSUME NEW c, c.data \in Seq(Byte), c.at \in 0..Len(c.data), c.val \in Nat, NEW e \in Elements(c)
  PROVE  e.at \in Nat /\ e.depth \in Nat
<1>1. PICK t \in ReadTag(c.data, c.at) : \E i \in Past(c, t) : e = [at |-> i, depth |-> Depth(c, t)]
  BY DEF Elements
<1>2. PICK i \in Past(c, t) : e = [at |-> i, depth |-> Depth(c, t)]
  BY <1>1
<1>3. t.type \in 0..7 /\ t.at \in (c.at + 1)..Len(c.data) /\ Len(c.data) \in Nat
  BY TagRead, LenProperties
<1>4. t.at \in Int /\ t.at \in 0..Len(c.data)
  BY <1>3
<1>5. \A v \in ReadVarint(c.data, t.at) : v.at \in Int /\ v.value \in Int
  <2>1. ASSUME NEW v \in ReadVarint(c.data, t.at)
        PROVE  v.at \in (t.at + 1)..Len(c.data) /\ v.value \in Nat
    BY <1>4, VarintRead, UintValues
  <2>2. QED
    BY <1>3, <1>4, <2>1
<1>6. i \in Int
  <2>1. CASE t.type = 0
    <3>1. t.type # 1 /\ t.type # 2 /\ t.type # 3 /\ t.type # 4 /\ t.type # 5 /\ t.type # 6 /\ t.type # 7
      BY <2>1
    <3>2. Past(c, t) = {v.at : v \in ReadVarint(c.data, t.at)}
      BY <2>1, <3>1, Zenon DEF Past
    <3>3. QED
      BY <1>2, <1>5, <3>2
  <2>2. CASE t.type = 1
    <3>1. t.type # 0 /\ t.type # 2 /\ t.type # 3 /\ t.type # 4 /\ t.type # 5 /\ t.type # 6 /\ t.type # 7
      BY <2>2
    <3>2. Past(c, t) = {t.at + 8}
      BY <2>2, <3>1, Zenon DEF Past
    <3>3. QED
      BY <1>2, <1>4, <3>2
  <2>3. CASE t.type = 2
    <3>1. t.type # 0 /\ t.type # 1 /\ t.type # 3 /\ t.type # 4 /\ t.type # 5 /\ t.type # 6 /\ t.type # 7
      BY <2>3
    <3>2. Past(c, t) = {Wrap(v.at + v.value) : v \in {r \in ReadVarint(c.data, t.at) :
                                                      Signed(r.value, Word) >= 0}}
      BY <2>3, <3>1, Zenon DEF Past
    <3>3. PICK v \in ReadVarint(c.data, t.at) : i = Wrap(v.at + v.value)
      BY <1>2, <3>2
    <3>4. QED
      BY <1>5, <3>3, WrapType
  <2>4. CASE t.type \in {3, 4}
    <3>1. t.type # 0 /\ t.type # 1 /\ t.type # 2 /\ t.type # 5 /\ t.type # 6 /\ t.type # 7
      BY <2>4
    <3>2. Past(c, t) = {t.at}
      BY <2>4, <3>1, Zenon DEF Past
    <3>3. QED
      BY <1>2, <1>4, <3>2
  <2>5. CASE t.type = 5
    <3>1. t.type # 0 /\ t.type # 1 /\ t.type # 2 /\ t.type # 3 /\ t.type # 4 /\ t.type # 6 /\ t.type # 7
      BY <2>5
    <3>2. Past(c, t) = {t.at + 4}
      BY <2>5, <3>1, Zenon DEF Past
    <3>3. QED
      BY <1>2, <1>4, <3>2
  <2>6. CASE t.type \in {6, 7}
    <3>1. t.type # 0 /\ t.type # 1 /\ t.type # 2 /\ t.type # 3 /\ t.type # 4 /\ t.type # 5
      BY <2>6
    <3>2. Past(c, t) = {}
      BY <2>6, <3>1, Zenon DEF Past
    <3>3. QED
      BY <1>2, <3>2
  <2>7. t.type \in {0, 1, 2, 3, 4, 5, 6, 7}
    BY <1>3
  <2>8. QED
    BY <2>1, <2>2, <2>3, <2>4, <2>5, <2>6, <2>7
<1>7. Depth(c, t) \in Int
  BY DEF Depth
<1>8. e.at >= 0 /\ e.depth >= 0
  BY DEF Elements
<1>9. QED
  BY <1>2, <1>6, <1>7, <1>8

\* The caller goes on inside its slice.
LEMMA ResumedInside ==
  ASSUME NEW c, c.data \in Seq(Byte), c.at \in 0..Len(c.data), c.end \in 0..Len(c.data),
         NEW n \in Nat, NEW i \in Resumed(c, n)
  PROVE  i \in 0..Len(c.data)
<1>1. Len(c.data) \in Nat /\ c.at \in Int /\ n \in Int
  BY LenProperties
<1>2. Wrap(c.at + n) \in Int
  <2> DEFINE x == c.at
  <2>1. x \in Int
    BY <1>1
  <2> HIDE DEF x
  <2>2. Wrap(x + n) \in Int
    BY <1>1, <2>1, WrapType
  <2>3. QED
    BY <2>2 DEF x
<1>3. i = Wrap(c.at + n) /\ i >= 0 /\ i <= (IF c.kind = "MapEntry" THEN c.end ELSE Len(c.data))
  BY DEF Resumed
<1>4. QED
  BY <1>1, <1>2, <1>3

\* A part of a buffer.
LEMMA PartOfBytes ==
  ASSUME NEW data \in Seq(Byte), NEW m \in Nat, NEW n \in 0..Len(data)
  PROVE  SubSeq(data, m + 1, n) \in Seq(Byte) /\ Len(SubSeq(data, m + 1, n)) \in Nat
<1>1. \A i \in (m + 1)..n : data[i] \in Byte
  BY LenProperties, ElementOfSeq
<1>2. SubSeq(data, m + 1, n) \in Seq(Byte)
  BY <1>1, SubSeqProperties, LenProperties
<1>3. QED
  BY <1>2, LenProperties

\* What Marshal returns.
LEMMA MarshalBytes ==
  ASSUME NEW kind \in Kinds, NEW m, IsMessage(kind, m), NEW bytes \in Marshal(kind, m)
  PROVE  bytes \in Seq(Byte)
<1>1. PICK w \in ToSizedBuffer(kind, m) :
        /\ Size(kind, m) \in Len(w)..(Pow2[Word - 1] - 1)
        /\ bytes = SubSeq([i \in 1..(Size(kind, m) - Len(w)) |-> 0] \o w, 1, Len(w))
  BY DEF Marshal
<1>2. w \in Seq(Byte) /\ Len(w) \in Nat /\ Size(kind, m) \in Nat
  BY MessageSized DEF Sized
<1> DEFINE n == Size(kind, m) - Len(w)
           pad == [i \in 1..n |-> 0]
<1>3. n \in Nat
  BY <1>1, <1>2
<1>4. pad \in [1..n -> Byte]
  BY DEF Byte
<1> HIDE DEF n, pad
<1>5. pad \in Seq(Byte) /\ Len(pad) = n
  BY <1>3, <1>4, FunctionIsSeq
<1>6. pad \o w \in Seq(Byte) /\ Len(pad \o w) = n + Len(w)
  BY <1>2, <1>5, Concat
<1> DEFINE b == pad \o w
<1>7. b \in Seq(Byte) /\ Len(w) \in 0..Len(b)
  BY <1>2, <1>3, <1>6
<1> HIDE DEF b
<1>8. SubSeq(b, 0 + 1, Len(w)) \in Seq(Byte) /\ 0 + 1 = 1
  BY <1>7, PartOfBytes
<1>9. bytes = SubSeq(b, 1, Len(w))
  BY <1>1 DEF b, pad, n
<1>10. QED
  BY <1>8, <1>9

-----------------------------------------------------------------------------
(* The stack of calls.                                                     *)

\* A call reads its slice from inside it, up to an index inside it, and its value is
\* of its kind.
CallOK(c) ==
  /\ c.data \in Seq(Byte)
  /\ c.at \in 0..Len(c.data)
  /\ c.end \in 0..Len(c.data)
  /\ CallValue(c.kind, c.val)

\* Who makes a call: skipOptimism is called by any other, the rest by a message with
\* the field they fill.
CalledBy(b, c) ==
  IF c.kind = "skip" THEN b.kind # "skip"
  ELSE /\ c.field \in Fields(b.kind)
       /\ c.field.kind \notin {"uint64", "uint32", "bool", "bytes", "bytes list"}
       /\ c.kind = c.field.of

\* A stack whose outermost call reads a message of a kind.
Stack(kind, s) ==
  /\ s \in Seq(Range(s))
  /\ \A i \in 1..Len(s) : CallOK(s[i])
  /\ s # <<>> => s[1].kind = kind
  /\ \A i \in 2..Len(s) : CalledBy(s[i - 1], s[i])

\* The last call and those below it.
LEMMA TopAndBelow ==
  ASSUME NEW kind, NEW s, Stack(kind, s), s # <<>>
  PROVE  /\ CallOK(Last(s))
         /\ Stack(kind, Front(s))
         /\ Len(s) = 1 => Last(s).kind = kind
         /\ Len(s) \in Nat \ {0} /\ Len(Front(s)) = Len(s) - 1
         /\ Front(s) = <<>> => Len(s) = 1 /\ Last(s).kind = kind
         /\ Front(s) # <<>> => Len(s) > 1 /\ CalledBy(Last(Front(s)), Last(s))
<1> DEFINE n == Len(s)
           f == Front(s)
<1>1. n \in Nat \ {0} /\ DOMAIN s = 1..n
  BY EmptySeq, LenProperties DEF Stack
<1>2. Last(s) = s[n] /\ f = SubSeq(s, 1, n - 1)
  BY DEF Last, Front
<1>3. \A i \in 1..(n - 1) : s[i] \in Range(s)
  BY <1>1 DEF Range
<1>4. /\ f \in Seq(Range(s)) /\ Len(f) = n - 1
      /\ \A i \in 1..(n - 1) : f[i] = s[i]
  <2>1. n - 1 \in Int
    BY <1>1
  <2> DEFINE k == n - 1
  <2> HIDE DEF k
  <2>2. /\ SubSeq(s, 1, k) \in Seq(Range(s))
        /\ Len(SubSeq(s, 1, k)) = IF 1 <= k THEN k - 1 + 1 ELSE 0
        /\ \A i \in 1..(k - 1 + 1) : SubSeq(s, 1, k)[i] = s[1 + i - 1]
    BY <1>3, <2>1, SubSeqProperties DEF k
  <2>3. QED
    BY <1>1, <1>2, <2>2 DEF k
<1> HIDE DEF n, f
<1>5. f \in Seq(Range(f))
  BY <1>4, SeqOfRange
<1>6. CallOK(Last(s))
  BY <1>1, <1>2 DEF Stack, n
<1>7. f # <<>> => f[1].kind = kind
  <2>1. f # <<>> => Len(f) \in Nat \ {0}
    BY <1>4, EmptySeq
  <2>2. f # <<>> => f[1] = s[1]
    BY <1>1, <1>4, <2>1
  <2>3. QED
    BY <2>2 DEF Stack
<1>8. \A i \in 1..Len(f) : CallOK(f[i])
  BY <1>1, <1>4 DEF Stack, n
<1>9. \A i \in 2..Len(f) : CalledBy(f[i - 1], f[i])
  <2>1. SUFFICES ASSUME NEW i \in 2..Len(f) PROVE CalledBy(f[i - 1], f[i])
    OBVIOUS
  <2>2. i \in 2..n /\ i \in 1..(n - 1) /\ i - 1 \in 1..(n - 1)
    BY <1>1, <1>4
  <2>3. f[i - 1] = s[i - 1] /\ f[i] = s[i]
    BY <1>4, <2>2
  <2>4. QED
    BY <2>2, <2>3 DEF Stack, n
<1>10. Stack(kind, f)
  BY <1>5, <1>7, <1>8, <1>9 DEF Stack
<1>11. n = 1 => Last(s).kind = kind
  BY <1>2 DEF Stack
<1>12. f = <<>> => n = 1
  BY <1>1, <1>4, EmptySeq
<1>13. f # <<>> => n > 1 /\ CalledBy(Last(f), Last(s))
  <2>1. SUFFICES ASSUME f # <<>> PROVE n > 1 /\ CalledBy(Last(f), Last(s))
    OBVIOUS
  <2>2. Len(f) \in Nat \ {0}
    BY <1>4, <2>1, EmptySeq
  <2>3. n > 1 /\ n \in 2..n /\ n - 1 \in 1..(n - 1)
    BY <1>1, <1>4, <2>2
  <2>4. Last(f) = s[n - 1]
    BY <1>4, <2>3 DEF Last
  <2>5. QED
    BY <1>2, <2>3, <2>4 DEF Stack, n
<1>14. QED
  BY <1>1, <1>4, <1>6, <1>10, <1>11, <1>12, <1>13 DEF n, f

\* A call is made.
LEMMA Pushed ==
  ASSUME NEW kind, NEW s, Stack(kind, s), NEW c, CallOK(c),
         IF s = <<>> THEN c.kind = kind ELSE CalledBy(Last(s), c)
  PROVE  /\ Stack(kind, Append(s, c)) /\ Append(s, c) # <<>>
         /\ Last(Append(s, c)) = c
<1> DEFINE t == Append(s, c)
           n == Len(s)
<1>1. s \in Seq(Range(s))
  BY DEF Stack
<1>2. /\ t \in Seq(Range(t)) /\ n \in Nat /\ Len(t) = n + 1 /\ t # <<>>
      /\ \A i \in 1..n : t[i] = s[i]
      /\ t[n + 1] = c
  BY <1>1, AppendAny
<1> HIDE DEF t, n
<1>3. \A i \in 1..(n + 1) : i = n + 1 \/ i \in 1..n
  BY <1>2
<1>4. \A i \in 1..Len(t) : CallOK(t[i])
  BY <1>2, <1>3 DEF Stack, n
<1>5. t[1].kind = kind
  <2>1. CASE s = <<>>
    <3>1. n = 0
      BY <2>1, EmptySeq DEF n
    <3>2. QED
      BY <1>2, <2>1, <3>1
  <2>2. CASE s # <<>>
    <3>1. n \in Nat \ {0}
      BY <1>1, <2>2, EmptySeq DEF n
    <3>2. t[1] = s[1]
      BY <1>2, <3>1
    <3>3. QED
      BY <2>2, <3>2 DEF Stack
  <2>3. QED
    BY <2>1, <2>2
<1>6. \A i \in 2..Len(t) : CalledBy(t[i - 1], t[i])
  <2>1. SUFFICES ASSUME NEW i \in 2..Len(t) PROVE CalledBy(t[i - 1], t[i])
    OBVIOUS
  <2>2. CASE i = n + 1
    <3>1. n \in 1..n /\ i - 1 = n /\ n # 0
      BY <1>2, <2>1, <2>2
    <3>2. s # <<>>
      BY <3>1, EmptySeq DEF n
    <3>3. t[i - 1] = Last(s) /\ t[i] = c
      BY <1>2, <2>2, <3>1 DEF Last, n
    <3>4. QED
      BY <3>2, <3>3
  <2>3. CASE i # n + 1
    <3>1. i \in 2..n /\ i \in 1..n /\ i - 1 \in 1..n
      BY <1>2, <2>1, <2>3
    <3>2. t[i - 1] = s[i - 1] /\ t[i] = s[i]
      BY <1>2, <3>1
    <3>3. QED
      BY <3>1, <3>2 DEF Stack, n
  <2>4. QED
    BY <2>2, <2>3
<1>7. Stack(kind, t)
  BY <1>2, <1>4, <1>5, <1>6 DEF Stack
<1>8. Last(t) = c
  BY <1>2 DEF Last
<1>9. QED
  BY <1>2, <1>7, <1>8 DEF t

\* A call goes on.
LEMMA WentOn ==
  ASSUME NEW kind, NEW s, Stack(kind, s), s # <<>>, NEW c, CallOK(c),
         c.kind = Last(s).kind, c.field = Last(s).field
  PROVE  /\ Stack(kind, Append(Front(s), c)) /\ Append(Front(s), c) # <<>>
         /\ Last(Append(Front(s), c)) = c
<1>1. /\ Stack(kind, Front(s))
      /\ Front(s) = <<>> => Last(s).kind = kind
      /\ Front(s) # <<>> => CalledBy(Last(Front(s)), Last(s))
  BY TopAndBelow
<1>2. Front(s) # <<>> => CalledBy(Last(Front(s)), c)
  BY <1>1 DEF CalledBy
<1>3. QED
  BY <1>1, <1>2, Pushed

\* A call goes on after the one it makes.
LEMMA WentOnAndPushed ==
  ASSUME NEW kind, NEW s, Stack(kind, s), s # <<>>, NEW c, CallOK(c),
         c.kind = Last(s).kind, c.field = Last(s).field,
         NEW d, CallOK(d), CalledBy(c, d)
  PROVE  Stack(kind, Front(s) \o <<c, d>>) /\ Front(s) \o <<c, d>> # <<>>
<1> DEFINE f == Front(s)
           t == Append(f, c)
<1>1. Stack(kind, t) /\ t # <<>> /\ Last(t) = c /\ Stack(kind, f)
  BY WentOn, TopAndBelow
<1> HIDE DEF t
<1>2. Stack(kind, Append(t, d)) /\ Append(t, d) # <<>>
  BY <1>1, Pushed
<1> USE DEF t
<1> HIDE DEF f
<1>3. f \o <<c, d>> = Append(Append(f, c), d)
  <2> DEFINE S == Range(f) \cup {c, d}
  <2>1. f \in Seq(S)
    BY <1>1, SeqMonotonic DEF Stack
  <2>2. c \in S /\ d \in S
    OBVIOUS
  <2> HIDE DEF S
  <2>3. Append(f, c) = f \o <<c>> /\ Append(f, c) \in Seq(S)
    BY <2>1, <2>2, AppendIsConcat, AppendProperties
  <2>4. Append(Append(f, c), d) = (f \o <<c>>) \o <<d>>
    BY <2>2, <2>3, AppendIsConcat
  <2>5. <<c>> \in Seq(S) /\ <<d>> \in Seq(S) /\ <<c>> \o <<d>> = <<c, d>>
    <3>1. <<c>> \in Seq(S) /\ <<d>> \in Seq(S)
      BY <2>2, Single
    <3>2. <<c>> \o <<d>> = <<c, d>>
      BY <2>2, Pair
    <3>3. QED
      BY <3>1, <3>2
  <2>6. QED
    BY <2>1, <2>4, <2>5, ConcatAssociative
<1>4. QED
  BY <1>2, <1>3 DEF f

-----------------------------------------------------------------------------
(* The invariant: the values have their types and the stack is one of calls *)
(* that can have been made.                                                *)

IInv == TypeOK /\ Stack(sent.kind, calls)

\* No call.
LEMMA EmptyStack == \A kind : Stack(kind, <<>>)
<1>1. <<>> \in Seq(Range(<<>>)) /\ Len(<<>>) = 0
  BY EmptySeq
<1>2. 1..0 = {} /\ 2..0 = {}
  OBVIOUS
<1>3. QED
  BY <1>1, <1>2 DEF Stack

\* While Unmarshal runs there is a call, and it is as it should be.
LEMMA Runs ==
  ASSUME IInv, res = "run"
  PROVE  /\ calls # <<>> /\ Stack(sent.kind, calls) /\ CallOK(Top)
         /\ got = Nil
  BY TopAndBelow DEF IInv, TypeOK, Top

\* A call that goes on.
LEMMA MovedOK ==
  ASSUME NEW c, CallOK(c), NEW v, CallValue(c.kind, v), NEW i \in 0..Len(c.data)
  PROVE  /\ CallOK(Moved(c, v, i))
         /\ Moved(c, v, i).kind = c.kind /\ Moved(c, v, i).field = c.field
<1>1. /\ Moved(c, v, i).data = c.data /\ Moved(c, v, i).at = i /\ Moved(c, v, i).end = c.end
      /\ Moved(c, v, i).val = v
      /\ Moved(c, v, i).kind = c.kind /\ Moved(c, v, i).field = c.field
  BY DEF Moved, Call
<1>2. QED
  BY <1>1 DEF CallOK

\* A tag that is legal lies in the slice.
LEMMA TagInside ==
  ASSUME NEW c, CallOK(c), NEW t \in Tags(c)
  PROVE  t.at \in 0..Len(c.data)
<1>1. t \in ReadTag(c.data, c.at) /\ c.data \in Seq(Byte) /\ c.at \in 0..Len(c.data)
  BY DEF Tags, CallOK
<1>2. t.at \in (c.at + 1)..Len(c.data) /\ Len(c.data) \in Nat
  BY <1>1, TagRead, LenProperties
<1>3. QED
  BY <1>1, <1>2

\* The case of the switch for a tag: only a message has one.
LEMMA FieldRead ==
  ASSUME NEW c, CallOK(c), NEW t \in Tags(c), NEW f \in Case(c, t)
  PROVE  /\ f \in Fields(c.kind) /\ c.kind \in Kinds /\ IsMessage(c.kind, c.val)
         /\ Wellformed(f) /\ Fits(f, c.val[f.name])
<1>1. f \in Fields(c.kind)
  BY DEF Case
<1>2. c.kind \in Kinds
  BY <1>1 DEF Fields
<1>3. IsMessage(c.kind, c.val)
  BY <1>2 DEF CallOK, CallValue
<1>4. QED
  BY <1>1, <1>2, <1>3, MessageFits, FieldsWellformed

\* The bytes of a field lie in the slice.
LEMMA ContentsRead ==
  ASSUME NEW c, CallOK(c), NEW t \in Tags(c), NEW d \in Contents(c, t)
  PROVE  /\ d.from \in 0..Len(c.data) /\ d.post \in 0..Len(c.data)
         /\ Slice(c.data, d) \in Seq(Byte)
<1>1. d \in ReadDelimited(c.data, t.at)
  BY DEF Contents
<1>2. QED
  BY <1>1, TagInside, DelimitedRead DEF CallOK

\* A number that is read is one of the field's.
LEMMA ScalarRead ==
  ASSUME NEW c, CallOK(c), NEW t \in Tags(c), NEW f, IsScalar(f), NEW v \in Scalars(c, t, f)
  PROVE  Fits(f, v.value) /\ v.at \in 0..Len(c.data)
<1>1. PICK r \in ReadVarint(c.data, t.at) :
        v = [value |-> CASE f.kind = "uint64" -> r.value
                         [] f.kind = "uint32" -> r.value % Pow2[Half]
                         [] f.kind = "bool" -> r.value # 0,
             at |-> r.at]
  BY DEF Scalars
<1>2. r.value \in Uint64Values /\ r.at \in (t.at + 1)..Len(c.data) /\ t.at \in 0..Len(c.data)
  BY TagInside, VarintRead DEF CallOK
<1>3. v.at \in 0..Len(c.data)
  <2>1. v.at = r.at
    BY <1>1
  <2>2. Len(c.data) \in Nat
    BY LenProperties DEF CallOK
  <2>3. QED
    BY <1>2, <2>1, <2>2
<1>4. Fits(f, v.value)
  <2>1. CASE f.kind = "uint64"
    <3>1. f.kind # "uint32" /\ f.kind # "bool"
      BY <2>1
    <3>2. v.value = r.value
      BY <1>1, <2>1, <3>1, Zenon
    <3>3. QED
      BY <1>2, <2>1, <3>2 DEF Fits, IsValue
  <2>2. CASE f.kind = "uint32"
    <3>1. f.kind # "uint64" /\ f.kind # "bool"
      BY <2>2
    <3>2. v.value = r.value % Pow2[Half]
      BY <1>1, <2>2, <3>1, Zenon
    <3>3. r.value % Pow2[Half] \in Uint32Values
      <4>1. r.value \in Nat /\ Pow2[Half] \in Nat \ {0}
        BY <1>2, UintValues
      <4>2. \A x \in Nat, p \in Nat \ {0} : x % p \in 0..(p - 1)
        BY DivMod
      <4>3. QED
        BY ONLY <4>1, <4>2 DEF Uint32Values
    <3>4. QED
      BY <2>2, <3>2, <3>3 DEF Fits, IsValue
  <2>3. CASE f.kind = "bool"
    <3>1. f.kind # "uint64" /\ f.kind # "uint32"
      BY <2>3
    <3>2. v.value = (r.value # 0)
      BY <1>1, <2>3, <3>1, Zenon
    <3>3. v.value \in BOOLEAN
      BY <3>2
    <3>4. QED
      BY <2>3, <3>3 DEF Fits, IsValue
  <2>4. QED
    BY <2>1, <2>2, <2>3 DEF IsScalar
<1>5. QED
  BY <1>3, <1>4

\* A step of the loops that leaves a stack behind.
LEMMA StackKept ==
  ASSUME IInv, res = "run", Running, calls' # <<>>, Stack(sent.kind, calls')
  PROVE  IInv'
<1>1. TypeOK'
  BY DEF IInv, TypeOK, Running
<1>2. Stack(sent.kind, calls)'
  BY DEF Running, Stack, CallOK, CalledBy
<1>3. QED
  BY <1>1, <1>2 DEF IInv

\* A step of the topmost call that makes no other.
LEMMA TopGoesOn ==
  ASSUME IInv, res = "run", Running, NEW v, CallValue(Top.kind, v), NEW i \in 0..Len(Top.data),
         Continue(Moved(Top, v, i))
  PROVE  IInv'
<1>1. calls # <<>> /\ Stack(sent.kind, calls) /\ CallOK(Top)
  BY Runs
<1> DEFINE c == Moved(Top, v, i)
<1>2. CallOK(c) /\ c.kind = Last(calls).kind /\ c.field = Last(calls).field
  BY <1>1, MovedOK DEF Top
<1>3. calls' = Append(Front(calls), c)
  BY DEF Continue, Below
<1> HIDE DEF c
<1>4. calls' # <<>> /\ Stack(sent.kind, calls')
  BY <1>1, <1>2, <1>3, WentOn
<1>5. QED
  BY <1>4, StackKept

\* A step that ends Unmarshal with an error.
LEMMA FailKeeps ==
  ASSUME IInv, res = "run", Fail
  PROVE  IInv'
<1>1. TypeOK'
  BY DEF IInv, TypeOK, Fail
<1>2. Stack(sent.kind, <<>>)'
  BY EmptyStack
<1>3. QED
  BY <1>1, <1>2 DEF IInv, Fail

-----------------------------------------------------------------------------
(* Each step keeps the invariant.                                          *)

\* The names and values at the start.
LEMMA InitIInv == Init => IInv
<1> SUFFICES ASSUME Init PROVE IInv
  OBVIOUS
<1>1. sent.kind \in Kinds /\ IsMessage(sent.kind, sent.msg)
  BY CodecAssumption DEF Init
<1>2. buf \in Seq(Byte)
  BY EmptySeq DEF Init
<1>3. TypeOK
  BY <1>1, <1>2 DEF Init, TypeOK
<1>4. Stack(sent.kind, calls)
  BY EmptyStack DEF Init
<1>5. QED
  BY <1>3, <1>4 DEF IInv

\* Marshal.
LEMMA EncodeKeeps == IInv /\ Encode => IInv'
<1> SUFFICES ASSUME IInv, Encode PROVE IInv'
  OBVIOUS
<1> DEFINE m == IF pass = 1 THEN sent.msg ELSE first
<1>1. sent.kind \in Kinds /\ IsMessage(sent.kind, m)
  BY DEF IInv, TypeOK
<1>2. buf' \in Marshal(sent.kind, m)
  BY DEF Encode
<1> HIDE DEF m
<1>3. buf' \in Seq(Byte)
  BY <1>1, <1>2, MarshalBytes
<1>4. TypeOK'
  BY <1>3 DEF IInv, TypeOK, Encode
<1>5. Stack(sent.kind, calls)'
  BY DEF IInv, Encode, Stack, CallOK, CalledBy
<1>6. QED
  BY <1>4, <1>5 DEF IInv

\* What happens to the buffer.
LEMMA EditedKeeps ==
  ASSUME IInv, NEW what \in {"cut", "join", "extend", "corrupt"}, NEW with, NEW bytes \in Seq(Byte),
         Edited(what, with, bytes)
  PROVE  IInv'
<1>1. edit'.what = what
  BY DEF Edited
<1>2. TypeOK'
  BY <1>1 DEF IInv, TypeOK, Edited
<1>3. Stack(sent.kind, calls)'
  BY DEF IInv, Edited, Stack, CallOK, CalledBy
<1>4. QED
  BY <1>2, <1>3 DEF IInv

\* A field whose tag takes one byte.
LEMMA FieldOfBytes ==
  ASSUME NEW n \in Unknown, NEW bytes \in FieldOf(n)
  PROVE  bytes \in Seq(Byte)
<1>1. n \in 1..15
  BY CodecAssumption
<1>2. /\ 8 * n \in Byte /\ 8 * n + 1 \in Byte /\ 8 * n + 2 \in Byte /\ 8 * n + 3 \in Byte
      /\ 8 * n + 4 \in Byte /\ 8 * n + 5 \in Byte
  BY <1>1 DEF Byte
<1>3. \A b \in {0, 1, 2, 8, 9, 11, 12, 21, 129} : b \in Byte
  BY DEF Byte
<1> DEFINE a == 8 * n
           b == 8 * n + 1
           c == 8 * n + 2
           d == 8 * n + 3
           e == 8 * n + 4
           f == 8 * n + 5
<1>4. a \in Byte /\ b \in Byte /\ c \in Byte /\ d \in Byte /\ e \in Byte /\ f \in Byte
  BY <1>2
<1>5. bytes \in {<<a, 1>>, <<a, 129, 1>>, <<b, 8, 0, 0, 0, 0, 0, 0, 0>>, <<c, 2, 8, 8>>,
                 <<d, 8, 9, 11, 21, 0, 0, 0, 0, 12, e>>, <<f, 8, 0, 0, 0>>}
  BY DEF FieldOf
<1> HIDE DEF a, b, c, d, e, f
<1>6. <<a, 1>> \in Seq(Byte)
  BY <1>3, <1>4
<1>7. <<a, 129, 1>> \in Seq(Byte)
  BY <1>3, <1>4
<1>8. <<b, 8, 0, 0, 0, 0, 0, 0, 0>> \in Seq(Byte)
  BY <1>3, <1>4
<1>9. <<c, 2, 8, 8>> \in Seq(Byte)
  BY <1>3, <1>4
<1>10. <<d, 8, 9, 11, 21, 0, 0, 0, 0, 12, e>> \in Seq(Byte)
  BY <1>3, <1>4
<1>11. <<f, 8, 0, 0, 0>> \in Seq(Byte)
  BY <1>3, <1>4
<1>12. QED
  BY <1>5, <1>6, <1>7, <1>8, <1>9, <1>10, <1>11

\* Whatever happens to the bytes, they are bytes.
LEMMA WiredKeeps == IInv /\ Wired => IInv'
<1> SUFFICES ASSUME IInv, Wired PROVE IInv'
  OBVIOUS
<1>1. buf \in Seq(Byte) /\ sent.kind \in Kinds
  BY DEF IInv, TypeOK
<1>2. Len(buf) \in Nat /\ DOMAIN buf = 1..Len(buf)
  BY <1>1, LenProperties
<1>3. CASE \E n \in 0..Len(buf) : Cut(n)
  <2>1. PICK n \in 0..Len(buf) : Cut(n)
    BY <1>3
  <2>2. SubSeq(buf, 0 + 1, n) \in Seq(Byte) /\ 0 + 1 = 1
    BY <1>1, PartOfBytes
  <2>3. Edited("cut", Nil, SubSeq(buf, 1, n))
    BY <2>1 DEF Cut
  <2>4. QED
    BY <2>2, <2>3, EditedKeeps
<1>4. CASE \E other \in Offered : Join(other)
  <2>1. PICK other \in Offered : Join(other)
    BY <1>4
  <2>2. PICK bytes \in Marshal(other.kind, other.msg) : Edited("join", other.msg, buf \o bytes)
    BY <2>1 DEF Join
  <2>3. bytes \in Seq(Byte)
    BY <2>2, CodecAssumption, MarshalBytes
  <2>4. buf \o bytes \in Seq(Byte)
    BY <1>1, <2>3, Concat
  <2>5. QED
    BY <2>2, <2>4, EditedKeeps
<1>5. CASE \E n \in Unknown : Extend(n)
  <2>1. PICK n \in Unknown : Extend(n)
    BY <1>5
  <2>2. PICK bytes \in FieldOf(n) : Edited("extend", Nil, bytes \o buf) \/ Edited("extend", Nil, buf \o bytes)
    BY <2>1 DEF Extend
  <2>3. bytes \in Seq(Byte)
    BY <2>2, FieldOfBytes
  <2>4. bytes \o buf \in Seq(Byte) /\ buf \o bytes \in Seq(Byte)
    BY <1>1, <2>3, Concat
  <2>5. QED
    BY <2>2, <2>4, EditedKeeps
<1>6. CASE \E i \in DOMAIN buf, byte \in Damage : Corrupt(i, byte)
  <2>1. PICK i \in DOMAIN buf, byte \in Damage : Corrupt(i, byte)
    BY <1>6
  <2>2. byte \in Byte /\ i \in 1..Len(buf)
    BY <1>2, CodecAssumption
  <2>3. [buf EXCEPT ![i] = byte] \in Seq(Byte)
    BY <1>1, <2>2, ExceptSeq
  <2>4. Edited("corrupt", Nil, [buf EXCEPT ![i] = byte])
    BY <2>1 DEF Corrupt
  <2>5. QED
    BY <2>3, <2>4, EditedKeeps
<1>7. QED
  BY <1>3, <1>4, <1>5, <1>6 DEF Wired

\* The call of Unmarshal.
LEMMA UnmarshalKeeps == IInv /\ Unmarshal => IInv'
<1> SUFFICES ASSUME IInv, Unmarshal PROVE IInv'
  OBVIOUS
<1> DEFINE c == Call(sent.kind, Entry, Zero(sent.kind), buf, 0, Len(buf))
<1>1. sent.kind \in Kinds /\ buf \in Seq(Byte) /\ got = Nil /\ res = "wire"
  BY DEF IInv, TypeOK, Unmarshal
<1>2. /\ c.kind = sent.kind /\ c.data = buf /\ c.at = 0 /\ c.end = Len(buf)
      /\ c.val = Zero(sent.kind)
  BY DEF Call
<1>3. CallOK(c)
  <2>1. 0 \in 0..Len(buf) /\ Len(buf) \in 0..Len(buf)
    BY <1>1, LenProperties
  <2>2. CallValue(sent.kind, Zero(sent.kind))
    BY <1>1, ZeroMessage, KindsApart DEF CallValue
  <2>3. QED
    BY <1>1, <1>2, <2>1, <2>2 DEF CallOK
<1>4. calls' = <<c>>
  BY DEF Unmarshal
<1> HIDE DEF c
<1>5. <<c>> = Append(<<>>, c)
  OBVIOUS
<1>6. Stack(sent.kind, <<c>>) /\ <<c>> # <<>>
  <2> DEFINE s == <<>>
  <2>1. s = <<>>
    OBVIOUS
  <2>2. Stack(sent.kind, s)
    BY EmptyStack
  <2> HIDE DEF s
  <2>3. IF s = <<>> THEN c.kind = sent.kind ELSE CalledBy(Last(s), c)
    BY <1>2, <2>1
  <2>4. Stack(sent.kind, Append(s, c)) /\ Append(s, c) # <<>>
    BY <1>3, <2>2, <2>3, Pushed
  <2>5. QED
    BY <1>5, <2>1, <2>4
<1>7. Stack(sent.kind, calls') /\ calls' # <<>>
  BY <1>4, <1>6
<1>8. TypeOK'
  BY <1>1, <1>7 DEF IInv, TypeOK, Unmarshal
<1>9. Stack(sent.kind, calls)'
  BY <1>7 DEF Unmarshal, Stack, CallOK, CalledBy
<1>10. QED
  BY <1>8, <1>9 DEF IInv

\* A number or a flag.
LEMMA ScalarKeeps == IInv /\ Scalar => IInv'
<1> SUFFICES ASSUME IInv, Scalar PROVE IInv'
  OBVIOUS
<1>1. res = "run" /\ Running
  BY DEF Scalar, InLoop
<1>2. CallOK(Top)
  BY <1>1, Runs
<1>3. PICK t \in Tags(Top) : \E field \in Case(Top, t) :
        /\ IsScalar(field)
        /\ \E v \in Scalars(Top, t, field) :
             Continue(Moved(Top, [Top.val EXCEPT ![field.name] = v.value], v.at))
  BY DEF Scalar
<1>4. PICK field \in Case(Top, t) :
        /\ IsScalar(field)
        /\ \E v \in Scalars(Top, t, field) :
             Continue(Moved(Top, [Top.val EXCEPT ![field.name] = v.value], v.at))
  BY <1>3
<1>5. PICK v \in Scalars(Top, t, field) :
        Continue(Moved(Top, [Top.val EXCEPT ![field.name] = v.value], v.at))
  BY <1>4
<1> HIDE DEF Top
<1>6. field \in Fields(Top.kind) /\ Top.kind \in Kinds /\ IsMessage(Top.kind, Top.val)
  BY <1>2, FieldRead
<1>7. Fits(field, v.value) /\ v.at \in 0..Len(Top.data)
  BY <1>2, <1>4, ScalarRead
<1>8. IsMessage(Top.kind, [Top.val EXCEPT ![field.name] = v.value])
  BY <1>6, <1>7, MessageUpdated
<1>9. CallValue(Top.kind, [Top.val EXCEPT ![field.name] = v.value])
  BY <1>6, <1>8, KindsApart DEF CallValue
<1>10. QED
  BY <1>1, <1>5, <1>7, <1>9, TopGoesOn

\* Bytes, and one more element of a slice of bytes.
LEMMA StringKeeps == IInv /\ String => IInv'
<1> SUFFICES ASSUME IInv, String PROVE IInv'
  OBVIOUS
<1>1. res = "run" /\ Running
  BY DEF String, InLoop
<1>2. CallOK(Top)
  BY <1>1, Runs
<1>3. PICK t \in Tags(Top) : \E field \in Case(Top, t), d \in Contents(Top, t) :
        LET bytes == Slice(Top.data, d)
            value == IF field.kind = "bytes" THEN bytes ELSE Append(Top.val[field.name], bytes)
        IN  /\ field.kind \in {"bytes", "bytes list"}
            /\ Continue(Moved(Top, [Top.val EXCEPT ![field.name] = value], d.post))
  BY DEF String
<1>4. PICK field \in Case(Top, t), d \in Contents(Top, t) :
        LET bytes == Slice(Top.data, d)
            value == IF field.kind = "bytes" THEN bytes ELSE Append(Top.val[field.name], bytes)
        IN  /\ field.kind \in {"bytes", "bytes list"}
            /\ Continue(Moved(Top, [Top.val EXCEPT ![field.name] = value], d.post))
  BY <1>3
<1> HIDE DEF Top
<1> DEFINE bytes == Slice(Top.data, d)
           old == Top.val[field.name]
           value == IF field.kind = "bytes" THEN bytes ELSE Append(old, bytes)
<1>5. /\ field \in Fields(Top.kind) /\ Top.kind \in Kinds /\ IsMessage(Top.kind, Top.val)
      /\ Fits(field, old)
  BY <1>2, FieldRead
<1>6. bytes \in Seq(Byte) /\ d.post \in 0..Len(Top.data)
  BY <1>2, ContentsRead
<1>7. Fits(field, value)
  <2>1. CASE field.kind = "bytes"
    BY <1>6, <2>1 DEF Fits, IsValue
  <2>2. CASE field.kind = "bytes list"
    <3>1. old \in Seq(Seq(Byte))
      BY <1>5, <2>2 DEF Fits, IsValue
    <3>2. Append(old, bytes) \in Seq(Seq(Byte))
      BY <1>6, <3>1, AppendProperties
    <3>3. value = Append(old, bytes)
      BY <2>2
    <3>4. QED
      BY <2>2, <3>2, <3>3 DEF Fits, IsValue
  <2>3. QED
    BY <1>4, <2>1, <2>2
<1>8. Continue(Moved(Top, [Top.val EXCEPT ![field.name] = value], d.post))
  BY <1>4
<1> HIDE DEF value
<1>9. IsMessage(Top.kind, [Top.val EXCEPT ![field.name] = value])
  BY <1>5, <1>7, MessageUpdated
<1>10. CallValue(Top.kind, [Top.val EXCEPT ![field.name] = value])
  BY <1>5, <1>9, KindsApart DEF CallValue
<1>11. QED
  BY <1>1, <1>6, <1>8, <1>10, TopGoesOn

\* A call that makes another one.
LEMMA TopCalls ==
  ASSUME IInv, res = "run", Running, NEW i \in 0..Len(Top.data), NEW d, CallOK(d),
         CalledBy(Moved(Top, Top.val, i), d),
         calls' = Below \o <<Moved(Top, Top.val, i), d>>
  PROVE  IInv'
<1>1. calls # <<>> /\ Stack(sent.kind, calls) /\ CallOK(Top)
  BY Runs
<1>2. CallValue(Top.kind, Top.val)
  BY <1>1 DEF CallOK
<1> DEFINE c == Moved(Top, Top.val, i)
<1>3. CallOK(c) /\ c.kind = Last(calls).kind /\ c.field = Last(calls).field
  BY <1>1, <1>2, MovedOK DEF Top
<1>4. calls' = Front(calls) \o <<c, d>> /\ CalledBy(c, d)
  BY DEF Below
<1> HIDE DEF c
<1>5. calls' # <<>> /\ Stack(sent.kind, calls')
  BY <1>1, <1>3, <1>4, WentOnAndPushed
<1>6. QED
  BY <1>5, StackKept

\* A nested message, an external one or a duration.
LEMMA NestedKeeps == IInv /\ Nested => IInv'
<1> SUFFICES ASSUME IInv, Nested PROVE IInv'
  OBVIOUS
<1>1. res = "run" /\ Running
  BY DEF Nested, InLoop
<1>2. CallOK(Top)
  BY <1>1, Runs
<1>3. PICK t \in Tags(Top) : \E field \in Case(Top, t), d \in Contents(Top, t) :
        LET data == Slice(Top.data, d)
        IN  /\ field.kind \in {"message", "message list", "external", "duration"}
            /\ calls' = Below \o
                 <<Moved(Top, Top.val, d.post),
                   Call(field.of, field, Started(field, Top.val[field.name]), data, 0, Len(data))>>
  BY DEF Nested
<1>4. PICK field \in Case(Top, t), d \in Contents(Top, t) :
        LET data == Slice(Top.data, d)
        IN  /\ field.kind \in {"message", "message list", "external", "duration"}
            /\ calls' = Below \o
                 <<Moved(Top, Top.val, d.post),
                   Call(field.of, field, Started(field, Top.val[field.name]), data, 0, Len(data))>>
  BY <1>3
<1> HIDE DEF Top, Below
<1> DEFINE data == Slice(Top.data, d)
           old == Top.val[field.name]
           c == Call(field.of, field, Started(field, old), data, 0, Len(data))
<1>5. field \in Fields(Top.kind) /\ Wellformed(field) /\ Fits(field, old)
  BY <1>2, FieldRead
<1>6. data \in Seq(Byte) /\ d.post \in 0..Len(Top.data)
  BY <1>2, ContentsRead
<1>7. CallValue(field.of, Started(field, old))
  BY <1>4, <1>5, StartedValue
<1>8. /\ c.kind = field.of /\ c.field = field /\ c.data = data /\ c.at = 0 /\ c.end = Len(data)
      /\ c.val = Started(field, old)
  BY DEF Call
<1>9. calls' = Below \o <<Moved(Top, Top.val, d.post), c>>
  BY <1>4
<1> HIDE DEF data, old, c
<1>10. CallOK(c)
  <2>1. 0 \in 0..Len(data) /\ Len(data) \in 0..Len(data)
    BY <1>6, LenProperties
  <2>2. QED
    BY <1>6, <1>7, <1>8, <2>1 DEF CallOK
<1>11. Moved(Top, Top.val, d.post).kind = Top.kind
  BY DEF Moved, Call
<1>12. field.of # "skip"
  <2>1. field.of \in Simple \/ field.of = "external"
    BY <1>4, <1>5 DEF Wellformed
  <2>2. QED
    BY <2>1, KindsApart
<1>13. field.kind \notin {"uint64", "uint32", "bool", "bytes", "bytes list"}
  BY <1>4
<1>14. CalledBy(Moved(Top, Top.val, d.post), c)
  BY <1>5, <1>8, <1>11, <1>12, <1>13 DEF CalledBy
<1>15. QED
  BY <1>1, <1>6, <1>9, <1>10, <1>14, TopCalls

\* A map's entry.
LEMMA OpenEntryKeeps == IInv /\ OpenEntry => IInv'
<1> SUFFICES ASSUME IInv, OpenEntry PROVE IInv'
  OBVIOUS
<1>1. res = "run" /\ Running
  BY DEF OpenEntry, InLoop
<1>2. CallOK(Top)
  BY <1>1, Runs
<1>3. PICK t \in Tags(Top) : \E field \in Case(Top, t), d \in Contents(Top, t) :
        /\ field.kind = "map"
        /\ calls' = Below \o
             <<Moved(Top, Top.val, d.post),
               Call(field.of, field, [key |-> <<>>, value |-> 0], Top.data, d.from, d.post)>>
  BY DEF OpenEntry
<1>4. PICK field \in Case(Top, t), d \in Contents(Top, t) :
        /\ field.kind = "map"
        /\ calls' = Below \o
             <<Moved(Top, Top.val, d.post),
               Call(field.of, field, [key |-> <<>>, value |-> 0], Top.data, d.from, d.post)>>
  BY <1>3
<1> HIDE DEF Top, Below
<1> DEFINE empty == [key |-> <<>>, value |-> 0]
           c == Call(field.of, field, empty, Top.data, d.from, d.post)
<1>5. field \in Fields(Top.kind) /\ Wellformed(field)
  BY <1>2, FieldRead
<1>6. d.from \in 0..Len(Top.data) /\ d.post \in 0..Len(Top.data) /\ Top.data \in Seq(Byte)
  BY <1>2, ContentsRead DEF CallOK
<1>7. field.of = "MapEntry"
  BY <1>4, <1>5 DEF Wellformed
<1>8. /\ c.kind = field.of /\ c.field = field /\ c.data = Top.data /\ c.at = d.from /\ c.end = d.post
      /\ c.val = empty
  BY DEF Call
<1>9. empty.key \in Seq(Byte) /\ empty.value \in Uint64Values
  <2>1. empty.key = <<>> /\ empty.value = 0
    OBVIOUS
  <2>2. QED
    BY <2>1, EmptySeq, UintValues DEF Uint64Values
<1>10. calls' = Below \o <<Moved(Top, Top.val, d.post), c>>
  BY <1>4
<1> HIDE DEF empty, c
<1>11. CallOK(c)
  BY <1>6, <1>7, <1>8, <1>9, KindsApart DEF CallOK, CallValue
<1>12. Moved(Top, Top.val, d.post).kind = Top.kind
  BY DEF Moved, Call
<1>13. CalledBy(Moved(Top, Top.val, d.post), c)
  BY <1>4, <1>5, <1>7, <1>8, <1>12 DEF CalledBy
<1>14. QED
  BY <1>1, <1>6, <1>10, <1>11, <1>13, TopCalls

\* The value of a map's entry.
LEMMA EntryRead ==
  ASSUME NEW key \in Seq(Byte), NEW value \in Uint64Values
  PROVE  CallValue("MapEntry", [key |-> key, value |-> value])
  BY KindsApart DEF CallValue

\* A map's entry gets its key.
LEMMA EntryKeyKeeps == IInv /\ EntryKey => IInv'
<1> SUFFICES ASSUME IInv, EntryKey PROVE IInv'
  OBVIOUS
<1>1. res = "run" /\ Running /\ Top.kind = "MapEntry"
  BY DEF EntryKey, InLoop
<1>2. CallOK(Top)
  BY <1>1, Runs
<1>3. PICK t \in Tags(Top) : \E d \in ReadDelimited(Top.data, t.at) :
        Continue(Moved(Top, [key |-> Slice(Top.data, d), value |-> Top.val.value], d.post))
  BY DEF EntryKey
<1>4. PICK d \in ReadDelimited(Top.data, t.at) :
        Continue(Moved(Top, [key |-> Slice(Top.data, d), value |-> Top.val.value], d.post))
  BY <1>3
<1> HIDE DEF Top
<1>5. t.at \in 0..Len(Top.data)
  BY <1>2, TagInside
<1>6. Slice(Top.data, d) \in Seq(Byte) /\ d.post \in 0..Len(Top.data)
  BY <1>2, <1>5, DelimitedRead DEF CallOK
<1>7. Top.val.value \in Uint64Values
  BY <1>1, <1>2 DEF CallOK, CallValue
<1>8. CallValue(Top.kind, [key |-> Slice(Top.data, d), value |-> Top.val.value])
  BY <1>1, <1>6, <1>7, EntryRead
<1>9. QED
  BY <1>1, <1>4, <1>6, <1>8, TopGoesOn

\* A map's entry gets its value.
LEMMA EntryValueKeeps == IInv /\ EntryValue => IInv'
<1> SUFFICES ASSUME IInv, EntryValue PROVE IInv'
  OBVIOUS
<1>1. res = "run" /\ Running /\ Top.kind = "MapEntry"
  BY DEF EntryValue, InLoop
<1>2. CallOK(Top)
  BY <1>1, Runs
<1>3. PICK t \in Tags(Top) : \E v \in ReadVarint(Top.data, t.at) :
        Continue(Moved(Top, [key |-> Top.val.key, value |-> Or(Top.val.value, v.value)], v.at))
  BY DEF EntryValue
<1>4. PICK v \in ReadVarint(Top.data, t.at) :
        Continue(Moved(Top, [key |-> Top.val.key, value |-> Or(Top.val.value, v.value)], v.at))
  BY <1>3
<1> HIDE DEF Top
<1>5. t.at \in 0..Len(Top.data) /\ Len(Top.data) \in Nat
  BY <1>2, TagInside, LenProperties DEF CallOK
<1>6. v.at \in (t.at + 1)..Len(Top.data)
  BY <1>2, <1>5, VarintRead DEF CallOK
<1>7. v.at \in 0..Len(Top.data)
  BY <1>5, <1>6
<1>8. Top.val.key \in Seq(Byte) /\ Or(Top.val.value, v.value) \in Uint64Values
  BY <1>1, <1>2, OrType DEF CallOK, CallValue
<1>9. CallValue(Top.kind, [key |-> Top.val.key, value |-> Or(Top.val.value, v.value)])
  BY <1>1, <1>8, EntryRead
<1>10. QED
  BY <1>1, <1>4, <1>7, <1>9, TopGoesOn

\* An unknown field.
LEMMA OpenSkipKeeps == IInv /\ OpenSkip => IInv'
<1> SUFFICES ASSUME IInv, OpenSkip PROVE IInv'
  OBVIOUS
<1>1. res = "run" /\ Running /\ Top.kind # "skip"
  BY DEF OpenSkip, InLoop
<1>2. calls # <<>> /\ Stack(sent.kind, calls) /\ CallOK(Top)
  BY <1>1, Runs
<1> DEFINE data == SubSeq(Top.data, Top.at + 1, Len(Top.data))
           c == Call("skip", Entry, 0, data, 0, Len(data))
<1>3. calls' = Append(calls, c)
  BY DEF OpenSkip
<1>4. data \in Seq(Byte)
  <2>1. Top.data \in Seq(Byte) /\ Top.at \in Nat /\ Len(Top.data) \in 0..Len(Top.data)
    BY <1>2, LenProperties DEF CallOK
  <2>2. QED
    BY <2>1, PartOfBytes
<1>5. /\ c.kind = "skip" /\ c.data = data /\ c.at = 0 /\ c.end = Len(data) /\ c.val = 0
  BY DEF Call
<1>6. CallValue("skip", 0)
  BY KindsApart DEF CallValue
<1> HIDE DEF data, c
<1>7. 0 \in 0..Len(data) /\ Len(data) \in 0..Len(data)
  BY <1>4, LenProperties
<1>8. CallOK(c)
  BY <1>4, <1>5, <1>6, <1>7 DEF CallOK
<1>9. IF calls = <<>> THEN c.kind = sent.kind ELSE CalledBy(Last(calls), c)
  BY <1>1, <1>2, <1>5 DEF CalledBy, Top
<1>10. calls' # <<>> /\ Stack(sent.kind, calls')
  BY <1>2, <1>3, <1>8, <1>9, Pushed
<1>11. QED
  BY <1>1, <1>10, StackKept

\* skipOptimism goes on to the next element of a group.
LEMMA SkipMoreKeeps == IInv /\ SkipMore => IInv'
<1> SUFFICES ASSUME IInv, SkipMore PROVE IInv'
  OBVIOUS
<1>1. res = "run" /\ Running /\ Top.kind = "skip"
  BY DEF SkipMore
<1>2. CallOK(Top)
  BY <1>1, Runs
<1>3. PICK e \in Elements(Top) : e.depth > 0 /\ e.at < Top.end /\ Continue(Moved(Top, e.depth, e.at))
  BY DEF SkipMore
<1> HIDE DEF Top
<1>4. Top.val \in Nat /\ Len(Top.data) \in Nat
  BY <1>1, <1>2, LenProperties DEF CallOK, CallValue
<1>5. e.at \in Nat /\ e.depth \in Nat
  BY <1>2, <1>4, ElementRead DEF CallOK
<1>6. e.at \in 0..Len(Top.data)
  BY <1>2, <1>3, <1>4, <1>5 DEF CallOK
<1>7. CallValue(Top.kind, e.depth)
  BY <1>1, <1>5, KindsApart DEF CallValue
<1>8. QED
  BY <1>1, <1>3, <1>6, <1>7, TopGoesOn

\* The topmost call ends and its caller goes on.
LEMMA TopReturns ==
  ASSUME IInv, res = "run", Running, Below # <<>>, NEW v, NEW i \in 0..Len(Last(Below).data),
         CallValue(Last(Below).kind, v),
         calls' = Append(Front(Below), Moved(Last(Below), v, i))
  PROVE  IInv'
<1> DEFINE b == Below
           c == Moved(Last(b), v, i)
<1>1. Stack(sent.kind, b) /\ b # <<>>
  BY Runs, TopAndBelow DEF Below
<1> HIDE DEF b, c
<1>2. CallOK(Last(b))
  BY <1>1, TopAndBelow
<1>3. CallOK(c) /\ c.kind = Last(b).kind /\ c.field = Last(b).field
  BY <1>2, MovedOK DEF b, c
<1>4. Stack(sent.kind, Append(Front(b), c)) /\ Append(Front(b), c) # <<>>
  BY <1>1, <1>3, WentOn
<1>5. calls' # <<>> /\ Stack(sent.kind, calls')
  BY <1>4 DEF b, c
<1>6. QED
  BY <1>5, StackKept

\* The unknown field ends.
LEMMA SkipEndsKeeps == IInv /\ SkipEnds => IInv'
<1> SUFFICES ASSUME IInv, SkipEnds PROVE IInv'
  OBVIOUS
<1>1. res = "run" /\ Running /\ Top.kind = "skip"
  BY DEF SkipEnds
<1>2. CallOK(Top) /\ Stack(sent.kind, calls) /\ calls # <<>>
  BY <1>1, Runs
<1>3. /\ Stack(sent.kind, Below)
      /\ Below = <<>> => Top.kind = sent.kind
      /\ Below # <<>> => CalledBy(Last(Below), Top)
  BY <1>2, TopAndBelow DEF Below, Top
<1> DEFINE c == Last(Below)
           val(i) == IF c.kind = "external" THEN c.val \o SubSeq(c.data, c.at + 1, i) ELSE c.val
<1>4. PICK e \in Elements(Top) : \E i \in Resumed(c, e.at) :
        calls' = Append(Front(Below), Moved(c, val(i), i))
  BY DEF SkipEnds
<1>5. PICK i \in Resumed(c, e.at) : calls' = Append(Front(Below), Moved(c, val(i), i))
  BY <1>4
<1>6. Below # <<>>
  <2>1. sent.kind \in Kinds
    BY DEF IInv, TypeOK
  <2>2. sent.kind # "skip"
    BY <2>1, KindsApart
  <2>3. QED
    BY <1>1, <1>3, <2>2
<1>7. CallOK(c)
  BY <1>3, <1>6, TopAndBelow
<1> HIDE DEF Top, Below
<1>8. e.at \in Nat
  BY <1>1, <1>2, ElementRead DEF CallOK, CallValue
<1> DEFINE w == val(i)
<1>9. w = IF c.kind = "external" THEN c.val \o SubSeq(c.data, c.at + 1, i) ELSE c.val
  OBVIOUS
<1>10. calls' = Append(Front(Below), Moved(c, w, i))
  BY <1>5
<1>11. i \in Resumed(c, e.at)
  OBVIOUS
<1> HIDE DEF c, val, w
<1>12. c.data \in Seq(Byte) /\ c.at \in 0..Len(c.data) /\ c.end \in 0..Len(c.data)
  BY <1>7 DEF CallOK
<1>13. i \in 0..Len(c.data)
  BY <1>8, <1>11, <1>12, ResumedInside
<1>14. CallValue(c.kind, w)
  <2>1. CASE c.kind = "external"
    <3>1. c.val \in Seq(Byte) /\ c.at \in Nat
      BY <1>7, <1>12, <2>1 DEF CallOK, CallValue
    <3>2. SubSeq(c.data, c.at + 1, i) \in Seq(Byte)
      BY <1>12, <1>13, <3>1, PartOfBytes
    <3>3. w \in Seq(Byte)
      BY <1>9, <2>1, <3>1, <3>2, Concat
    <3>4. QED
      BY <2>1, <3>3, KindsApart DEF CallValue
  <2>2. CASE c.kind # "external"
    BY <1>7, <1>9, <2>2 DEF CallOK
  <2>3. QED
    BY <2>1, <2>2
<1>15. QED
  BY <1>1, <1>6, <1>10, <1>13, <1>14, TopReturns DEF c

\* A nested call ends and its value goes into the caller's field.
LEMMA ReturnKeeps == IInv /\ Return => IInv'
<1> SUFFICES ASSUME IInv, Return PROVE IInv'
  OBVIOUS
<1>1. res = "run" /\ Running /\ Top.kind # "skip" /\ Len(calls) > 1
  BY DEF Return
<1>2. CallOK(Top) /\ Stack(sent.kind, calls) /\ calls # <<>>
  BY <1>1, Runs
<1>3. /\ Stack(sent.kind, Below)
      /\ Below = <<>> => Len(calls) = 1
      /\ Below # <<>> => CalledBy(Last(Below), Top)
  BY <1>2, TopAndBelow DEF Below, Top
<1>4. Below # <<>>
  <2> DEFINE n == Len(calls)
  <2>1. n > 1 /\ n \in Nat /\ (Below = <<>> => n = 1)
    BY <1>1, <1>2, <1>3, TopAndBelow
  <2> HIDE DEF n
  <2>2. QED
    BY <2>1
<1> DEFINE c == Last(Below)
           top == Top
           f == top.field
           old == c.val[f.name]
           v == [c.val EXCEPT ![f.name] = Filled(old, top)]
<1>5. calls' = Append(Front(Below), Moved(c, v, c.at))
  BY DEF Return
<1>6. CallOK(c)
  BY <1>3, <1>4, TopAndBelow
<1>7. CallOK(top) /\ CalledBy(c, top) /\ top.kind # "skip"
  BY <1>1, <1>2, <1>3, <1>4
<1> HIDE DEF c, top, old
<1>8. /\ f \in Fields(c.kind) /\ top.kind = f.of
      /\ f.kind \notin {"uint64", "uint32", "bool", "bytes", "bytes list"}
  BY <1>7 DEF CalledBy
<1>9. c.kind \in Kinds
  BY <1>8 DEF Fields
<1>10. IsMessage(c.kind, c.val)
  BY <1>6, <1>9 DEF CallOK, CallValue
<1>11. Fits(f, old) /\ Wellformed(f)
  BY <1>8, <1>10, MessageFits, FieldsWellformed DEF old
<1>12. CallValue(f.of, top.val)
  BY <1>7, <1>8 DEF CallOK
<1>13. Fits(f, Filled(old, top))
  BY <1>8, <1>11, <1>12, FilledFits
<1>14. IsMessage(c.kind, v)
  BY <1>8, <1>10, <1>13, MessageUpdated
<1> HIDE DEF v, f
<1>15. CallValue(c.kind, v)
  BY <1>9, <1>14, KindsApart DEF CallValue
<1>16. c.at \in 0..Len(c.data)
  BY <1>6 DEF CallOK
<1>17. QED
  BY <1>1, <1>4, <1>5, <1>15, <1>16, TopReturns DEF c

\* Unmarshal returns.
LEMMA DoneKeeps == IInv /\ Done => IInv'
<1> SUFFICES ASSUME IInv, Done PROVE IInv'
  OBVIOUS
<1>1. res = "run" /\ Len(calls) = 1
  BY DEF Done
<1>2. CallOK(Top) /\ Stack(sent.kind, calls) /\ calls # <<>>
  BY <1>1, Runs
<1>3. Top.kind = sent.kind
  BY <1>1, <1>2, TopAndBelow DEF Top
<1>4. sent.kind \in Kinds
  BY DEF IInv, TypeOK
<1>5. IsMessage(sent.kind, Top.val)
  BY <1>2, <1>3, <1>4 DEF CallOK, CallValue
<1>6. got' = Top.val
  BY DEF Done
<1> HIDE DEF Top
<1>7. IsMessage(sent.kind, got')
  BY <1>5, <1>6
<1>8. TypeOK'
  BY <1>7 DEF IInv, TypeOK, Done
<1>9. Stack(sent.kind, <<>>)'
  BY EmptyStack
<1>10. QED
  BY <1>8, <1>9 DEF IInv, Done

\* The result is written again.
LEMMA AgainKeeps == IInv /\ Again => IInv'
<1> SUFFICES ASSUME IInv, Again PROVE IInv'
  OBVIOUS
<1>1. TypeOK'
  BY DEF IInv, TypeOK, Again
<1>2. Stack(sent.kind, calls)'
  BY DEF IInv, Again, Stack, CallOK, CalledBy
<1>3. QED
  BY <1>1, <1>2 DEF IInv

\* Every step.
LEMMA Invariance == IInv /\ [Next]_vars => IInv'
<1> SUFFICES ASSUME IInv, [Next]_vars PROVE IInv'
  OBVIOUS
<1>1. CASE Wired
  BY <1>1, WiredKeeps
<1>2. CASE Decode
  <2>1. CASE Malformed \/ Refused \/ SkipFails
    <3>1. res = "run" /\ Fail
      BY <2>1 DEF Malformed, Refused, SkipFails, InLoop
    <3>2. QED
      BY <3>1, FailKeeps
  <2>2. CASE ~(Malformed \/ Refused \/ SkipFails)
    BY <1>2, <2>2, EncodeKeeps, UnmarshalKeeps, ScalarKeeps, StringKeeps, NestedKeeps, OpenEntryKeeps,
       EntryKeyKeeps, EntryValueKeeps, OpenSkipKeeps, SkipMoreKeeps, SkipEndsKeeps, ReturnKeeps,
       DoneKeeps, AgainKeeps
       DEF Decode
  <2>3. QED
    BY <2>1, <2>2
<1>3. CASE UNCHANGED vars \/ Terminated
  <2>1. UNCHANGED vars
    BY <1>3 DEF Terminated
  <2>2. TypeOK'
    BY <2>1 DEF IInv, TypeOK, vars
  <2>3. Stack(sent.kind, calls)'
    BY <2>1 DEF IInv, vars, Stack, CallOK, CalledBy
  <2>4. QED
    BY <2>2, <2>3 DEF IInv
<1>4. QED
  BY <1>1, <1>2, <1>3 DEF Next

-----------------------------------------------------------------------------
(* The theorems.                                                           *)

\* The values of every variable have their type, whatever the bytes were: what
\* Unmarshal returns is a message of its kind, with numbers within their width and
\* at most one message behind a pointer.
THEOREM TypeCorrect == Spec => []TypeOK
<1>1. IInv => TypeOK
  BY DEF IInv
<1>2. QED
  BY <1>1, InitIInv, Invariance, PTL DEF Spec

\* No call of the decoder reads outside the slice it was given, whatever the bytes
\* are and however deep the calls.
THEOREM ReadsInside == Spec => []InBounds
<1>1. IInv => InBounds
  <2>1. SUFFICES ASSUME IInv, NEW i \in DOMAIN calls
                 PROVE  calls[i].at \in 0..Len(calls[i].data)
    BY DEF InBounds
  <2>2. i \in 1..Len(calls)
    BY <2>1, LenProperties DEF IInv, Stack
  <2>3. QED
    BY <2>1, <2>2 DEF IInv, Stack, CallOK
<1>2. QED
  BY <1>1, InitIInv, Invariance, PTL DEF Spec
=============================================================================
