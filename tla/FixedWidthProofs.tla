--------------------------- MODULE FixedWidthProofs ---------------------------
(***************************************************************************)
(* Theorems about the two components whose numbers wrap.  Refresh, for     *)
(* every integer width and every configuration Validate admits whose       *)
(* fraction int64 can hold; Selector, for any range of the counter, any    *)
(* number of endpoints and any finite number of concurrent callers: each   *)
(* endpoint is given its share of the calls, to one, and one more per wrap.*)
(***************************************************************************)
EXTENDS Refresh, Selector, NumberLemmas, FiniteSetTheorems

-----------------------------------------------------------------------------
(* Refresh: the arithmetic of durationMulByFraction.                       *)

\* Wrapping a number that is not negative never makes it larger.
LEMMA WrapBelow ==
  ASSUME NEW x \in Nat
  PROVE  Wrap(x) \in -Half..(Half - 1) /\ Wrap(x) <= x
<1>1. x + Half \in Nat /\ 2 * Half \in Nat \ {0}
  BY RefreshAssumption
<1> DEFINE r == (x + Half) % (2 * Half)
<1>2. r \in 0..(2 * Half - 1) /\ r <= x + Half
  BY <1>1, DivMod, ModBelow
<1>3. Wrap(x) = r - Half
  BY DEF Wrap
<1> HIDE DEF r
<1>4. QED
  BY <1>2, <1>3, RefreshAssumption

\* Wrapping a number in range leaves it.
LEMMA WrapInRange ==
  ASSUME NEW x \in -Half..(Half - 1)
  PROVE  Wrap(x) = x
<1>1. x + Half \in 0..(2 * Half - 1) /\ 2 * Half \in Nat \ {0}
  BY RefreshAssumption
<1>2. (x + Half) % (2 * Half) = x + Half
  BY <1>1, ModSmall
<1>3. x \in Int /\ Half \in Int
  BY RefreshAssumption
<1>4. QED
  BY <1>2, <1>3 DEF Wrap

\* A fraction Validate admits and the casts leave alone.
LEMMA ValidRate ==
  ASSUME NEW c \in Config, Valid(c), c.den < Half
  PROVE  /\ c.period \in 1..(Half - 1) /\ c.num \in 1..(Half - 1) /\ c.den \in 1..(Half - 1)
         /\ Wrap(c.num) = c.num /\ Wrap(c.den) = c.den
         /\ c.period * c.num \in Nat /\ c.period * c.num <= c.period * c.den
<1>1. /\ c.period \in 1..(Half - 1) /\ c.num \in 1..(Half - 1) /\ c.den \in 1..(Half - 1)
      /\ c.num <= c.den
  BY RefreshAssumption DEF Config, Valid
<1>2. c.period \in Nat /\ c.num \in Nat /\ c.den - c.num \in Nat /\ c.den \in Nat
  BY <1>1, RefreshAssumption
<1>3. c.period * c.num \in Nat /\ c.period * (c.den - c.num) \in Nat
  BY <1>2, ProductNat
<1>4. c.period * c.den = c.period * c.num + c.period * (c.den - c.num)
  BY <1>2
<1>5. Wrap(c.num) = c.num /\ Wrap(c.den) = c.den
  BY <1>1, WrapInRange, RefreshAssumption
<1>6. c.period * c.num <= c.period * c.den
  BY <1>2, <1>3, <1>4, ProductNat
<1>7. QED
  BY <1>1, <1>3, <1>5, <1>6

\* The threshold is never above the trusting period, whether or not the product
\* wraps.
LEMMA ThresholdWithinPeriod ==
  ASSUME NEW c \in Config, Valid(c), c.den < Half
  PROVE  Threshold(c) \in Int /\ Threshold(c) <= c.period
<1> DEFINE y == Wrap(c.period * c.num)
           q == Quotient(y, c.den)
<1>1. y \in -Half..(Half - 1) /\ y <= c.period * c.num
  BY ValidRate, WrapBelow
<1>2. c.period \in Nat /\ c.den \in Nat \ {0} /\ c.period < Half
  BY ValidRate, RefreshAssumption
<1>3. c.period * c.num \in Nat /\ c.period * c.num <= c.period * c.den
  BY ValidRate
<1>4. c.period * c.den \in Nat
  BY <1>2, ProductNat
<1>5. Threshold(c) = Wrap(q)
  BY ValidRate DEF Threshold
<1> HIDE DEF y
<1>6. y <= c.period * c.den
  BY <1>1, <1>3, <1>4, RefreshAssumption
<1>7. q \in -Half..(Half - 1) /\ q <= c.period
  <2>1. CASE y >= 0
    <3>1. q = y \div c.den /\ y \in Nat
      BY <1>1, <1>2, <2>1, RefreshAssumption DEF Quotient, Size
    <3>2. y \div c.den \in Nat /\ y \div c.den <= c.period
      BY <1>2, <1>6, <3>1, DivBelow
    <3>3. QED
      BY <1>2, <3>1, <3>2, RefreshAssumption
  <2>2. CASE y < 0
    <3>1. q = -((-y) \div c.den) /\ -y \in Nat /\ -y <= Half
      BY <1>1, <1>2, <2>2, RefreshAssumption DEF Quotient, Size
    <3>2. Half * c.den = Half + Half * (c.den - 1) /\ Half * (c.den - 1) \in Nat
      BY <1>2, RefreshAssumption
    <3>3. -y <= Half * c.den
      BY <3>1, <3>2, RefreshAssumption
    <3>4. (-y) \div c.den \in Nat /\ (-y) \div c.den <= Half
      BY <1>2, <3>1, <3>3, DivBelow, RefreshAssumption
    <3>5. QED
      BY <1>2, <3>1, <3>4, RefreshAssumption
  <2>3. QED
    BY <1>1, <2>1, <2>2, RefreshAssumption
<1> HIDE DEF q
<1>8. QED
  BY <1>2, <1>5, <1>7, WrapInRange, RefreshAssumption

\* Without a wrap the threshold is the share of the period, rounded down.
LEMMA ThresholdExact ==
  ASSUME NEW c \in Config, Valid(c), c.den < Half, c.period * c.num < Half
  PROVE  Threshold(c) = (c.period * c.num) \div c.den
<1> DEFINE n == c.period * c.num
<1>1. Wrap(n) = n
  BY ValidRate, WrapInRange, RefreshAssumption
<1>2. n \in Nat /\ c.period \in Nat /\ c.den \in Nat \ {0} /\ c.period < Half
      /\ n <= c.period * c.den
  BY ValidRate, RefreshAssumption
<1>3. Threshold(c) = Wrap(Quotient(n, c.den))
  BY <1>1, ValidRate DEF Threshold
<1> HIDE DEF n
<1>4. n \div c.den \in Nat /\ n \div c.den <= c.period
  BY <1>2, DivBelow
<1>5. Quotient(n, c.den) = n \div c.den
  BY <1>2 DEF Quotient, Size
<1>6. n \div c.den \in -Half..(Half - 1)
  BY <1>2, <1>4, RefreshAssumption
<1>7. QED
  BY <1>3, <1>5, <1>6, WrapInRange DEF n

-----------------------------------------------------------------------------
(* Refresh: the inductive invariant and the theorems.                      *)

\* The outcome of the last comparison is the one its numbers call for.
Asked == pc = "update" => elapsed > Threshold(config)
Declined == pc = "fresh" => ~(elapsed > Threshold(config))

IInv == TypeOK /\ Asked /\ Declined

\* Every step keeps the invariant.
LEMMA NextIInv == IInv /\ [Next]_vars => IInv'
<1> SUFFICES ASSUME IInv, [Next]_vars PROVE IInv'
  OBVIOUS
<1> USE RefreshAssumption DEF IInv, TypeOK, Asked, Declined, Times
<1>1. ASSUME NEW t \in Times, Publish(t) PROVE IInv'
  BY <1>1 DEF Publish
<1>2. ASSUME NEW t \in Times, OtherUpdate(t) PROVE IInv'
  BY <1>2 DEF OtherUpdate
<1>3. CASE ReadClient
  BY <1>3 DEF ReadClient
<1>4. CASE Update
  BY <1>4 DEF Update
<1>5. ASSUME NEW t \in 0..latestTime, Compare(t) PROVE IInv'
  BY <1>5 DEF Compare
<1>6. CASE Fail
  BY <1>6 DEF Fail
<1>7. CASE UNCHANGED vars
  BY <1>7 DEF vars
<1>8. QED
  BY <1>1, <1>2, <1>3, <1>4, <1>5, <1>6, <1>7 DEF Next

\* The invariant holds in every state.
THEOREM Invariance == Spec => []IInv
<1>1. Init => IInv
  BY RefreshAssumption DEF Init, IInv, TypeOK, Asked, Declined, Times
<1>2. QED
  BY <1>1, NextIInv, PTL DEF Spec

\* The configuration stays valid and the timestamps and their difference stay in range,
\* for every integer width.
THEOREM TypeCorrect == Spec => []TypeOK
<1>1. IInv => TypeOK
  BY DEF IInv
<1>2. QED
  BY <1>1, Invariance, PTL

\* CheckRefreshRequired never declines a refresh with more than the trusting period
\* between the two timestamps it compares, for every integer width and every
\* configuration Validate admits with a denominator that int64 can hold.
THEOREM RefreshNotDeclined == Spec => []NotDeclined
<1>1. IInv => NotDeclined
  <2> SUFFICES ASSUME IInv, pc = "fresh", config.den < Half
               PROVE  elapsed <= config.period
    BY DEF NotDeclined, Signed
  <2>1. config \in Config /\ Valid(config) /\ elapsed \in Int
    BY RefreshAssumption DEF IInv, TypeOK
  <2>2. config.period \in Int
    BY <2>1, RefreshAssumption DEF Config
  <2>3. Threshold(config) \in Int /\ Threshold(config) <= config.period
    BY <2>1, ThresholdWithinPeriod
  <2>4. ~(elapsed > Threshold(config))
    BY DEF IInv, Declined
  <2>5. QED
    BY <2>1, <2>2, <2>3, <2>4
<1>2. QED
  BY <1>1, Invariance, PTL

\* A refresh asked for by CheckRefreshRequired is not early, unless the product of
\* trusting period and numerator wraps.
THEOREM RefreshNotEarly == Spec => []NotEarly
<1>1. ASSUME IInv, pc = "update", config.den < Half, config.period * config.num < Half
      PROVE  elapsed * config.den > config.period * config.num
  <2> DEFINE n == config.period * config.num
             b == config.den
             q == n \div b
  <2>1. n \in Nat /\ b \in Nat \ {0} /\ elapsed \in Int
    BY <1>1, ValidRate, RefreshAssumption DEF IInv, TypeOK
  <2>2. elapsed > q
    BY <1>1, ThresholdExact DEF IInv, TypeOK, Asked
  <2> HIDE DEF n, b
  <2>3. q \in Nat /\ n % b \in 0..(b - 1) /\ n = b * q + (n % b)
    BY <2>1, DivMod
  <2> HIDE DEF q
  <2>4. elapsed - (q + 1) \in Nat
    BY <2>1, <2>2, <2>3
  <2>5. b * (elapsed - (q + 1)) \in Nat
    BY <2>1, <2>4, ProductNat
  <2>6. elapsed * b = b * (elapsed - (q + 1)) + b * q + b
    BY <2>1, <2>3
  <2>7. elapsed * b > n
    BY <2>1, <2>3, <2>5, <2>6, ProductNat
  <2>8. QED
    BY <2>7 DEF n, b
<1>2. IInv => NotEarly
  BY <1>1 DEF NotEarly, Signed
<1>3. QED
  BY <1>2, Invariance, PTL

-----------------------------------------------------------------------------
(* Selector: the inductive invariant.                                      *)

\* Numbers of 1..r that are e modulo the number of endpoints; e = 0 is also the
\* remainder of the number 0, which the first round leaves out.
Uses(r, e) == (r + endpoints - e) \div endpoints - (IF e = 0 THEN 1 ELSE 0)

\* Numbers of a whole round of the counter that are e modulo the number of endpoints.
Round(e) == (Values - 1 + endpoints - e) \div endpoints

\* Endpoint e's share of the calls made so far: the rounds of the counter that are
\* complete, and the one that is not.
Rounds == calls \div Values
Share(e) == Rounds * Round(e) + Uses(counter, e)

\* Calls between the addition and the use of its result, and those bound for e.
Pending == {c \in Callers : stage[c] = "index"}
Bound(e) == {c \in Callers : stage[c] = "index" /\ value[c] % endpoints = e}

\* The counter counts the calls; every call of endpoint e's share was issued to it or
\* is on its way; and an endpoint was not issued more calls than were made.
CounterCounts == counter = calls % Values
SharesKept == \A e \in Targets : issued[e] + Cardinality(Bound(e)) = Share(e)
IssuedMade == \A e \in Targets : issued[e] + Cardinality(Bound(e)) <= calls

SelectorIInv == SelectorTypeOK /\ CounterCounts /\ SharesKept /\ IssuedMade

-----------------------------------------------------------------------------
(* Selector: arithmetic of the shares.                                     *)

\* The numbers the arithmetic is about.
LEMMA Params ==
  ASSUME SelectorTypeOK
  PROVE  /\ endpoints \in Nat \ {0} /\ Values \in Nat \ {0} /\ counter \in Nat /\ calls \in Nat
         /\ counter <= Values - 1 /\ endpoints <= Values
         /\ (\A e \in Targets : e \in Nat /\ e < endpoints)
  BY SelectorAssumption DEF SelectorTypeOK, Targets

\* One number more is one use more of its own remainder.
LEMMA UsesStep ==
  ASSUME SelectorTypeOK, NEW r \in Nat, NEW e \in Targets
  PROVE  Uses(r + 1, e) = Uses(r, e) + (IF (r + 1) % endpoints = e THEN 1 ELSE 0)
<1> DEFINE q == (r + 1) \div endpoints
           m == (r + 1) % endpoints
           n == endpoints
<1>1. n \in Nat \ {0} /\ e \in Nat /\ e < n
  BY Params
<1>2. q \in Nat /\ m \in 0..(n - 1) /\ r + 1 = n * q + m
  <2>1. r + 1 \in Nat
    OBVIOUS
  <2>2. QED
    BY <1>1, <2>1, DivMod
<1> HIDE DEF q, m, n
<1>3. n * q \in Nat /\ q * n = n * q /\ (q + 1) * n = n * q + n
  BY <1>1, <1>2
<1> DEFINE a == r + 1 + n - e
           b == r + n - e
<1>4. a \in Nat /\ b \in Nat /\ a = n * q + (m + n - e) /\ b = n * q + (m + n - e - 1)
  BY <1>1, <1>2, <1>3
<1> HIDE DEF a, b
<1>5. CASE e = 0
  <2>1. a \div n = q + 1
    <3>1. (q + 1) * n <= a /\ a < (q + 1) * n + n
      BY <1>1, <1>2, <1>3, <1>4, <1>5
    <3>2. QED
      BY <1>1, <1>2, <1>4, <3>1, QuotientIs
  <2>2. CASE m = 0
    <3>1. q * n <= b /\ b < q * n + n
      BY <1>1, <1>2, <1>3, <1>4, <1>5, <2>2
    <3>2. b \div n = q
      BY <1>1, <1>2, <1>4, <3>1, QuotientIs
    <3>3. QED
      BY <1>1, <1>2, <1>5, <2>1, <2>2, <3>2 DEF Uses, a, b, n, m
  <2>3. CASE m # 0
    <3>1. (q + 1) * n <= b /\ b < (q + 1) * n + n
      BY <1>1, <1>2, <1>3, <1>4, <1>5, <2>3
    <3>2. b \div n = q + 1
      BY <1>1, <1>2, <1>4, <3>1, QuotientIs
    <3>3. QED
      BY <1>1, <1>2, <1>5, <2>1, <2>3, <3>2 DEF Uses, a, b, n, m
  <2>4. QED
    BY <2>2, <2>3
<1>6. CASE e # 0
  <2>1. CASE m = e
    <3>1. (q + 1) * n <= a /\ a < (q + 1) * n + n /\ q * n <= b /\ b < q * n + n
      BY <1>1, <1>2, <1>3, <1>4, <1>6, <2>1
    <3>2. a \div n = q + 1 /\ b \div n = q
      BY <1>1, <1>2, <1>4, <3>1, QuotientIs
    <3>3. QED
      BY <1>1, <1>2, <1>6, <2>1, <3>2 DEF Uses, a, b, n, m
  <2>2. CASE m > e
    <3>1. (q + 1) * n <= a /\ a < (q + 1) * n + n /\ (q + 1) * n <= b /\ b < (q + 1) * n + n
      BY <1>1, <1>2, <1>3, <1>4, <1>6, <2>2
    <3>2. a \div n = q + 1 /\ b \div n = q + 1
      BY <1>1, <1>2, <1>4, <3>1, QuotientIs
    <3>3. QED
      BY <1>1, <1>2, <1>6, <2>2, <3>2 DEF Uses, a, b, n, m
  <2>3. CASE m < e
    <3>1. q * n <= a /\ a < q * n + n /\ q * n <= b /\ b < q * n + n
      BY <1>1, <1>2, <1>3, <1>4, <1>6, <2>3
    <3>2. a \div n = q /\ b \div n = q
      BY <1>1, <1>2, <1>4, <3>1, QuotientIs
    <3>3. QED
      BY <1>1, <1>2, <1>6, <2>3, <3>2 DEF Uses, a, b, n, m
  <2>4. QED
    BY <1>1, <1>2, <2>1, <2>2, <2>3
<1>7. QED
  BY <1>5, <1>6

\* Two endpoints' uses differ by one at most.
LEMMA UsesBounds ==
  ASSUME SelectorTypeOK, NEW r \in Nat, NEW e \in Targets
  PROVE  Uses(r, e) \in {r \div endpoints, r \div endpoints + 1} /\ r \div endpoints \in Nat
<1> DEFINE q == r \div endpoints
           m == r % endpoints
           n == endpoints
           b == r + n - e
<1>1. n \in Nat \ {0} /\ e \in Nat /\ e < n
  BY Params
<1>2. q \in Nat /\ m \in 0..(n - 1) /\ r = n * q + m
  BY <1>1, DivMod
<1> HIDE DEF q, m, n
<1>3. n * q \in Nat /\ q * n = n * q /\ (q + 1) * n = n * q + n
  BY <1>1, <1>2
<1>4. b \in Nat /\ b = n * q + (m + n - e)
  BY <1>1, <1>2, <1>3
<1> HIDE DEF b
<1>5. CASE m >= e
  <2>1. (q + 1) * n <= b /\ b < (q + 1) * n + n
    BY <1>1, <1>2, <1>3, <1>4, <1>5
  <2>2. b \div n = q + 1
    BY <1>1, <1>2, <1>4, <2>1, QuotientIs
  <2>3. QED
    BY <1>1, <1>2, <2>2 DEF Uses, b, n, q
<1>6. CASE m < e
  <2>1. q * n <= b /\ b < q * n + n
    BY <1>1, <1>2, <1>3, <1>4, <1>6
  <2>2. b \div n = q /\ e # 0
    BY <1>1, <1>2, <1>4, <1>6, <2>1, QuotientIs
  <2>3. QED
    BY <1>1, <1>2, <2>2 DEF Uses, b, n, q
<1>7. QED
  BY <1>1, <1>2, <1>5, <1>6

\* Two endpoints' parts of a whole round do too, and not at all if the number of
\* endpoints divides the round.
LEMMA RoundBounds ==
  ASSUME SelectorTypeOK, NEW e \in Targets
  PROVE  /\ Round(e) \in {Values \div endpoints, Values \div endpoints + 1}
         /\ Values % endpoints = 0 => Round(e) = Values \div endpoints
         /\ Values \div endpoints \in Nat
<1> DEFINE q == Values \div endpoints
           m == Values % endpoints
           n == endpoints
           b == Values - 1 + n - e
<1>1. n \in Nat \ {0} /\ e \in Nat /\ e < n /\ Values \in Nat
  BY Params
<1>2. q \in Nat /\ m \in 0..(n - 1) /\ Values = n * q + m
  BY <1>1, DivMod
<1> HIDE DEF q, m, n
<1>3. n * q \in Nat /\ q * n = n * q /\ (q + 1) * n = n * q + n
  BY <1>1, <1>2
<1>4. b \in Nat /\ b = n * q + (m + n - e - 1)
  BY <1>1, <1>2, <1>3
<1> HIDE DEF b
<1>5. CASE m > e
  <2>1. (q + 1) * n <= b /\ b < (q + 1) * n + n
    BY <1>1, <1>2, <1>3, <1>4, <1>5
  <2>2. b \div n = q + 1 /\ m # 0
    BY <1>1, <1>2, <1>4, <1>5, <2>1, QuotientIs
  <2>3. QED
    BY <1>1, <1>2, <2>2 DEF Round, b, n, q, m
<1>6. CASE m <= e
  <2>1. q * n <= b /\ b < q * n + n
    BY <1>1, <1>2, <1>3, <1>4, <1>6
  <2>2. b \div n = q
    BY <1>1, <1>2, <1>4, <2>1, QuotientIs
  <2>3. QED
    BY <1>1, <1>2, <2>2 DEF Round, b, n, q, m
<1>7. QED
  BY <1>1, <1>2, <1>5, <1>6

\* The number 0 is not counted.
LEMMA NoUses ==
  ASSUME SelectorTypeOK, NEW e \in Targets
  PROVE  Uses(0, e) = 0
<1>1. endpoints \in Nat \ {0} /\ e \in Nat /\ e < endpoints
  BY Params
<1>2. CASE e = 0
  <2>1. endpoints \div endpoints = 1
    BY <1>1, QuotientIs
  <2>2. QED
    BY <1>1, <1>2, <2>1 DEF Uses
<1>3. CASE e # 0
  <2>1. (endpoints - e) \in Nat /\ endpoints - e < endpoints
    BY <1>1, <1>3
  <2>2. (endpoints - e) \div endpoints = 0
    BY <1>1, <2>1, QuotientIs
  <2>3. 0 + endpoints - e = endpoints - e
    BY <1>1
  <2>4. QED
    BY <1>3, <2>2, <2>3 DEF Uses
<1>4. QED
  BY <1>2, <1>3

\* One call more is one more for the endpoint of the counter's new value, also when
\* the counter wraps.
LEMMA ShareStep ==
  ASSUME SelectorTypeOK, CounterCounts, endpoints' = endpoints, calls' = calls + 1,
         counter' = (counter + 1) % Values, NEW e \in Targets
  PROVE  /\ CounterCounts'
         /\ Share(e)' = Share(e) + (IF counter' % endpoints = e THEN 1 ELSE 0)
<1> DEFINE w == Rounds
           v == Values
<1>1. /\ endpoints \in Nat \ {0} /\ v \in Nat \ {0} /\ counter \in Nat /\ calls \in Nat
      /\ counter <= v - 1 /\ e \in Nat /\ e < endpoints
  BY Params
<1>2. w \in Nat /\ calls = v * w + counter
  BY <1>1, DivMod DEF Rounds, CounterCounts
<1>3. v * w \in Nat /\ w * v = v * w /\ (w + 1) * v = v * w + v
  <2> HIDE DEF w, v
  <2>1. QED
    BY <1>1, <1>2
<1>4. Round(e)' = Round(e)
  BY DEF Round
<1>5. Round(e) \in Nat
  BY RoundBounds
<1>6. Uses(counter, e)' = Uses(counter', e)
  BY DEF Uses
<1>7. CASE counter + 1 < v
  <2>1. counter' = counter + 1
    BY <1>1, <1>7, ModSmall
  <2>2. Rounds' = w
    <3>1. calls' \in Nat /\ w * v <= calls' /\ calls' < w * v + v
      BY <1>1, <1>2, <1>3, <1>7
    <3>2. calls' \div v = w
      BY <1>1, <1>2, <3>1, QuotientIs
    <3>3. QED
      BY <3>2 DEF Rounds
  <2>3. CounterCounts'
    <3>1. calls' \in Nat /\ calls' = v * (calls' \div v) + (calls' % v) /\ calls' % v \in Nat
      BY <1>1, DivMod
    <3>2. calls' % v = counter + 1
      BY <1>1, <1>2, <1>3, <2>2, <3>1 DEF Rounds
    <3>3. QED
      BY <2>1, <3>2 DEF CounterCounts
  <2>4. Uses(counter', e) = Uses(counter, e) + (IF counter' % endpoints = e THEN 1 ELSE 0)
    BY <1>1, <2>1, UsesStep
  <2> DEFINE base == w * Round(e)
  <2>5. Share(e)' = base + Uses(counter', e) /\ Share(e) = base + Uses(counter, e) /\ base \in Nat
    BY <1>2, <1>4, <1>5, <1>6, <2>2, ProductNat DEF Share
  <2>6. Uses(counter, e) \in Int
    BY <1>1, UsesBounds
  <2> HIDE DEF base, w
  <2>7. QED
    BY <2>3, <2>4, <2>5, <2>6
<1>8. CASE counter + 1 = v
  <2>1. counter' = 0 /\ counter = v - 1
    BY <1>1, <1>8
  <2>2. Rounds' = w + 1
    <3>1. calls' \in Nat /\ (w + 1) * v <= calls' /\ calls' < (w + 1) * v + v
      BY <1>1, <1>2, <1>3, <1>8
    <3>2. calls' \div v = w + 1
      BY <1>1, <1>2, <3>1, QuotientIs
    <3>3. QED
      BY <3>2 DEF Rounds
  <2>3. CounterCounts'
    <3>1. calls' \in Nat /\ calls' = v * (calls' \div v) + (calls' % v) /\ calls' % v \in Nat
      BY <1>1, DivMod
    <3>2. v * (w + 1) = v * w + v
      BY <1>1, <1>2, <1>3
    <3>3. calls' % v = 0
      BY <1>1, <1>2, <1>3, <1>8, <2>2, <3>1, <3>2 DEF Rounds
    <3>4. QED
      BY <2>1, <3>3 DEF CounterCounts
  <2>4. Uses(v - 1, e) = Round(e) - (IF e = 0 THEN 1 ELSE 0)
    BY DEF Uses, Round
  <2>5. Uses(0, e) = 0
    BY NoUses
  <2>6. counter' % endpoints = 0
    BY <1>1, <2>1, ModSmall
  <2> DEFINE base == w * Round(e)
             base1 == (w + 1) * Round(e)
  <2>7. base \in Nat /\ base1 = base + Round(e)
    BY <1>2, <1>5, ProductNat
  <2>8. Share(e)' = base1 + Uses(counter', e) /\ Share(e) = base + Uses(counter, e)
    BY <1>4, <1>6, <2>2 DEF Share
  <2> HIDE DEF base, base1, w, v
  <2>9. QED
    BY <1>1, <1>5, <2>1, <2>3, <2>4, <2>5, <2>6, <2>7, <2>8 DEF v
<1>9. QED
  BY <1>1, <1>7, <1>8

-----------------------------------------------------------------------------
(* Selector: the steps.                                                    *)

\* There are finitely many calls on their way, and no more of them are bound for one endpoint.
LEMMA FiniteSets ==
  /\ IsFiniteSet(Pending) /\ Cardinality(Pending) \in Nat
  /\ \A e : IsFiniteSet(Bound(e)) /\ Cardinality(Bound(e)) \in Nat
  /\ \A e : Cardinality(Bound(e)) <= Cardinality(Pending)
<1>1. Pending \in SUBSET Callers /\ \A e : Bound(e) \in SUBSET Pending
  BY DEF Pending, Bound
<1>2. IsFiniteSet(Pending)
  BY <1>1, SelectorAssumption, FS_Subset
<1>3. \A e : IsFiniteSet(Bound(e)) /\ Cardinality(Bound(e)) <= Cardinality(Pending)
  BY <1>1, <1>2, FS_Subset
<1>4. QED
  BY <1>2, <1>3, FS_CardinalityType

\* Add keeps the invariant.
LEMMA AddStep ==
  ASSUME SelectorIInv, NEW c \in Callers, Add(c)
  PROVE  SelectorIInv'
<1> USE DEF SelectorIInv
<1> DEFINE v == (counter + 1) % Values
<1>1. /\ stage[c] = "idle" /\ calls < MaxCalls /\ calls' = calls + 1
      /\ counter' = v
      /\ value' = [value EXCEPT ![c] = v]
      /\ stage' = [stage EXCEPT ![c] = "index"]
      /\ UNCHANGED <<endpoints, issued>>
  BY DEF Add
<1>2. /\ Values \in Nat \ {0} /\ endpoints \in Nat \ {0} /\ calls \in Nat /\ counter \in Nat
      /\ counter + 1 \in Nat /\ MaxCalls \in Nat
  BY Params, SelectorAssumption
<1>3. v \in 0..(Values - 1)
  BY <1>2, DivMod
<1> HIDE DEF v
<1>4. Targets' = Targets /\ \A e \in Targets : e \in Nat
  BY <1>1, Params DEF Targets
<1>5. SelectorTypeOK'
  <2>1. /\ value' \in [Callers -> 0..(Values - 1)]
        /\ stage' \in [Callers -> {"idle", "index"}]
    BY <1>1, <1>3 DEF SelectorTypeOK
  <2>2. calls' \in 0..MaxCalls
    BY <1>1, <1>2
  <2>3. QED
    BY <1>1, <1>3, <1>4, <2>1, <2>2 DEF SelectorTypeOK
<1>6. ASSUME NEW e \in Targets
      PROVE  /\ Cardinality(Bound(e)') = Cardinality(Bound(e)) + (IF v % endpoints = e THEN 1 ELSE 0)
             /\ Cardinality(Bound(e)) \in Nat
  <2>1. /\ c \notin Bound(e) /\ IsFiniteSet(Bound(e)) /\ Cardinality(Bound(e)) \in Nat
    BY <1>1, FiniteSets DEF Bound
  <2>2. CASE v % endpoints = e
    <3>1. Bound(e)' = Bound(e) \cup {c}
      BY <1>1, <2>2 DEF Bound, SelectorTypeOK
    <3>2. QED
      BY <2>1, <2>2, <3>1, FS_AddElement
  <2>3. CASE v % endpoints # e
    <3>1. Bound(e)' = Bound(e)
      BY <1>1, <2>3 DEF Bound, SelectorTypeOK
    <3>2. QED
      BY <2>1, <2>3, <3>1
  <2>4. QED
    BY <2>2, <2>3
<1>7. \A e \in Targets : issued[e] \in Nat
  BY <1>2 DEF SelectorTypeOK
<1>8. CounterCounts'
  <2>1. 0 \in Targets
    BY <1>2 DEF Targets
  <2>2. QED
    BY <1>1, <2>1, ShareStep DEF v
<1>9. ASSUME NEW e \in Targets
      PROVE  /\ issued'[e] + Cardinality(Bound(e)') = Share(e)'
             /\ issued'[e] + Cardinality(Bound(e)') <= calls'
  <2>1. Share(e)' = Share(e) + (IF v % endpoints = e THEN 1 ELSE 0)
    BY <1>1, ShareStep DEF v
  <2>2. issued[e] + Cardinality(Bound(e)) = Share(e) /\ issued[e] + Cardinality(Bound(e)) <= calls
    BY DEF SharesKept, IssuedMade
  <2>3. QED
    BY <1>1, <1>2, <1>6, <1>7, <2>1, <2>2
<1>10. SharesKept' /\ IssuedMade'
  BY <1>4, <1>9 DEF SharesKept, IssuedMade
<1>11. QED
  BY <1>5, <1>8, <1>10

\* Index keeps the invariant.
LEMMA IndexStep ==
  ASSUME SelectorIInv, NEW c \in Callers, Index(c)
  PROVE  SelectorIInv'
<1> USE DEF SelectorIInv
<1> DEFINE k == value[c] % endpoints
<1>1. /\ stage[c] = "index"
      /\ issued' = [issued EXCEPT ![k] = @ + 1]
      /\ stage' = [stage EXCEPT ![c] = "idle"]
      /\ UNCHANGED <<endpoints, counter, value, calls>>
  BY DEF Index
<1>2. /\ Values \in Nat \ {0} /\ endpoints \in Nat \ {0} /\ calls \in Nat /\ calls <= MaxCalls
      /\ MaxCalls \in Nat
  BY Params, SelectorAssumption DEF SelectorTypeOK
<1>3. value[c] \in Nat
  BY <1>2 DEF SelectorTypeOK
<1>4. k \in Targets
  BY <1>2, <1>3, DivMod DEF Targets
<1>5. Targets' = Targets
  BY <1>1 DEF Targets
<1>6. ASSUME NEW e \in Targets
      PROVE  /\ issued'[e] + Cardinality(Bound(e)') = issued[e] + Cardinality(Bound(e))
             /\ issued'[e] \in Nat /\ issued'[e] <= calls
  <2>1. IsFiniteSet(Bound(e)) /\ Cardinality(Bound(e)) \in Nat /\ issued[e] \in Nat
        /\ issued[e] + Cardinality(Bound(e)) <= calls
    BY FiniteSets, <1>2 DEF SelectorTypeOK, IssuedMade
  <2>2. CASE k = e
    <3>1. Bound(e)' = Bound(e) \ {c} /\ c \in Bound(e)
      BY <1>1, <2>2 DEF Bound, SelectorTypeOK
    <3>2. Cardinality(Bound(e)') = Cardinality(Bound(e)) - 1
      BY <2>1, <3>1, FS_RemoveElement
    <3>3. Cardinality(Bound(e)') \in Nat
      BY <2>1, <3>1, FS_RemoveElement, FS_CardinalityType
    <3>4. issued'[e] = issued[e] + 1
      BY <1>1, <2>2 DEF SelectorTypeOK
    <3>5. QED
      BY <1>2, <2>1, <3>2, <3>3, <3>4
  <2>3. CASE k # e
    <3>1. Bound(e)' = Bound(e)
      BY <1>1, <2>3 DEF Bound, SelectorTypeOK
    <3>2. issued'[e] = issued[e]
      BY <1>1, <2>3 DEF SelectorTypeOK
    <3>3. QED
      BY <1>2, <2>1, <3>1, <3>2
  <2>4. QED
    BY <2>2, <2>3
<1>7. SelectorTypeOK'
  <2>1. stage' \in [Callers -> {"idle", "index"}]
    BY <1>1 DEF SelectorTypeOK
  <2>2. issued' \in [Targets -> 0..MaxCalls]
    <3>1. DOMAIN issued' = Targets /\ issued' = [e \in Targets |-> issued'[e]]
      BY <1>1 DEF SelectorTypeOK
    <3>2. \A e \in Targets : issued'[e] \in 0..MaxCalls
      BY <1>2, <1>6
    <3>3. QED
      BY <3>1, <3>2
  <2>3. QED
    BY <1>1, <1>5, <2>1, <2>2 DEF SelectorTypeOK
<1>8. CounterCounts'
  BY <1>1 DEF CounterCounts
<1>9. \A e \in Targets : Share(e)' = Share(e)
  BY <1>1 DEF Share, Rounds, Round, Uses
<1>10. SharesKept' /\ IssuedMade'
  BY <1>1, <1>5, <1>6, <1>9 DEF SharesKept, IssuedMade
<1>11. QED
  BY <1>7, <1>8, <1>10

\* The invariant holds initially.
LEMMA InitSelectorIInv == SelectorInit => SelectorIInv
<1> SUFFICES ASSUME SelectorInit PROVE SelectorIInv
  OBVIOUS
<1>1. /\ endpoints \in 1..MaxEndpoints /\ counter = 0 /\ calls = 0
      /\ stage = [c \in Callers |-> "idle"] /\ value = [c \in Callers |-> 0]
      /\ issued = [e \in Targets |-> 0]
  BY DEF SelectorInit
<1>2. Values \in Nat \ {0} /\ MaxCalls \in Nat
  BY SelectorAssumption
<1>3. SelectorTypeOK
  BY <1>1, <1>2 DEF SelectorTypeOK
<1>4. \A e \in Targets : Cardinality(Bound(e)) = 0
  <2>1. \A e : Bound(e) = {}
    BY <1>1 DEF Bound
  <2>2. QED
    BY <2>1, FS_EmptySet
<1>5. 0 \div Values = 0 /\ 0 % Values = 0
  BY <1>2, QuotientIs, ModSmall
<1>6. ASSUME NEW e \in Targets PROVE Share(e) = 0
  <2>2. Round(e) \in Nat
    BY <1>3, RoundBounds
  <2>3. Uses(0, e) = 0
    BY <1>3, NoUses
  <2>4. QED
    BY <1>1, <1>5, <2>2, <2>3 DEF Share, Rounds
<1>7. CounterCounts /\ SharesKept /\ IssuedMade
  BY <1>1, <1>4, <1>5, <1>6 DEF CounterCounts, SharesKept, IssuedMade
<1>8. QED
  BY <1>3, <1>7 DEF SelectorIInv

\* Every step keeps the invariant.
LEMMA NextSelectorIInv == SelectorIInv /\ [SelectorNext]_selectorVars => SelectorIInv'
<1> SUFFICES ASSUME SelectorIInv, [SelectorNext]_selectorVars PROVE SelectorIInv'
  OBVIOUS
<1>1. CASE UNCHANGED selectorVars
  <2>1. UNCHANGED <<endpoints, counter, stage, value, issued, calls>>
    BY <1>1 DEF selectorVars
  <2>2. SelectorTypeOK' /\ CounterCounts'
    BY <2>1 DEF SelectorIInv, SelectorTypeOK, Targets, CounterCounts
  <2>3. SharesKept' /\ IssuedMade'
    BY <2>1 DEF SelectorIInv, SharesKept, IssuedMade, Targets, Bound, Share, Rounds, Round, Uses
  <2>4. QED
    BY <2>2, <2>3 DEF SelectorIInv
<1>2. QED
  BY <1>1, AddStep, IndexStep DEF SelectorNext

-----------------------------------------------------------------------------
(* Selector: the theorems.                                                 *)

\* The invariant implies Balanced.
LEMMA BalancedInv == SelectorIInv => Balanced
<1> SUFFICES ASSUME SelectorIInv, NEW e \in Targets, NEW f \in Targets
             PROVE  issued[e] - issued[f] <= 1 + Skips + Cardinality(Pending)
  BY DEF Balanced, Pending
<1> USE DEF SelectorIInv
<1>1. /\ issued[e] \in Nat /\ issued[f] \in Nat
      /\ issued[e] + Cardinality(Bound(e)) = Share(e)
      /\ issued[f] + Cardinality(Bound(f)) = Share(f)
  BY SelectorAssumption DEF SelectorTypeOK, SharesKept
<1>2. /\ Cardinality(Bound(e)) \in Nat /\ Cardinality(Bound(f)) \in Nat
      /\ Cardinality(Bound(f)) <= Cardinality(Pending) /\ Cardinality(Pending) \in Nat
  BY FiniteSets
<1>3. Rounds \in Nat
  BY Params, DivMod DEF Rounds
<1> DEFINE w == Rounds
           q == Values \div endpoints
           a == w * q
           b == counter \div endpoints
<1>4. q \in Nat /\ a \in Nat /\ w * (q + 1) = a + w
  BY <1>3, RoundBounds, ProductNat
<1>5. Uses(counter, e) \in {b, b + 1} /\ Uses(counter, f) \in {b, b + 1} /\ b \in Nat
  BY Params, UsesBounds
<1>6. Round(e) \in {q, q + 1} /\ Round(f) \in {q, q + 1}
      /\ (Values % endpoints = 0 => Round(e) = q)
  BY RoundBounds
<1>7. w * Round(e) \in {a, a + w} /\ w * Round(f) \in {a, a + w}
      /\ (Values % endpoints = 0 => w * Round(e) = a)
  BY <1>4, <1>6
<1>8. Skips = IF Values % endpoints = 0 THEN 0 ELSE w
  BY DEF Skips, Rounds
<1>9. Share(e) = w * Round(e) + Uses(counter, e) /\ Share(f) = w * Round(f) + Uses(counter, f)
  BY DEF Share
<1> DEFINE x == w * Round(e)
           y == w * Round(f)
<1> HIDE DEF w, q, a, b, x, y
<1>10. /\ x \in {a, a + w} /\ y \in {a, a + w} /\ (Values % endpoints = 0 => x = a)
       /\ Share(e) = x + Uses(counter, e) /\ Share(f) = y + Uses(counter, f)
       /\ w \in Nat
  BY <1>3, <1>7, <1>9 DEF x, y, w
<1>11. Share(e) - Share(f) <= 1 + Skips
  <2>1. CASE Values % endpoints = 0
    BY <1>4, <1>5, <1>8, <1>10, <2>1
  <2>2. CASE Values % endpoints # 0
    BY <1>4, <1>5, <1>8, <1>10, <2>2
  <2>3. QED
    BY <2>1, <2>2
<1>12. Share(e) \in Int /\ Share(f) \in Int /\ Skips \in Nat
  BY <1>4, <1>5, <1>8, <1>10
<1>13. QED
  BY <1>1, <1>2, <1>11, <1>12

\* The invariant holds in every state.
LEMMA SelectorInvariance == SelectorSpec => []SelectorIInv
  BY InitSelectorIInv, NextSelectorIInv, PTL DEF SelectorSpec

\* Every variable keeps to its values: the counter wraps, and every index is that of a
\* configured endpoint.
THEOREM SelectorTypeCorrect == SelectorSpec => []SelectorTypeOK
  BY SelectorInvariance, PTL DEF SelectorIInv

\* However concurrent callers interleave, the endpoints share the calls evenly, but for
\* one call more per wrap of the counter.
THEOREM EvenlyShared == SelectorSpec => []Balanced
<1>1. SelectorIInv => Balanced
  BY BalancedInv
<1>2. QED
  BY SelectorInvariance, <1>1, PTL
=============================================================================
