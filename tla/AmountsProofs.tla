---------------------------- MODULE AmountsProofs ---------------------------
(* What the scorer's arithmetic guarantees for every price and amount.     *)
EXTENDS Amounts, TLAPS

\* The amounts of the sweep are whole cents.
THEOREM AmountsTyped == Spec => []TypeOK
<1>1. Init => TypeOK
  BY PricesAssumption DEF Init, TypeOK
<1>2. TypeOK /\ [Next]_vars => TypeOK'
  BY DEF TypeOK, Next, vars
<1>. QED  BY <1>1, <1>2, PTL DEF Spec

\* Only an exact amount is worth more than a strong match, and no bucket is
\* worth as much as one.
LEMMA BucketsAreWeaker ==
  ASSUME NEW e \in Nat, NEW m \in Nat, m # e
  PROVE  Bucket(m, e) \in {0, 30, 60, 90}
BY DEF Bucket, Abs

\* An exact amount is near its target.
LEMMA ExactIsNear ==
  ASSUME NEW e \in Nat, NEW m \in Nat, 10000 * m \in Targets(e)
  PROVE  \E target \in Targets(e) : Near(m, target)
<1>1. 10000 * m - 10000 * m = 0
  OBVIOUS
<1>2. Near(m, 10000 * m)
  BY <1>1 DEF Near, Abs
<1>. QED  BY <1>2

LEMMA StrongMirrors ==
  ASSUME NEW e \in Nat, NEW m \in Nat
  PROVE  Plausible(m, e) <=> AmountScore(m, e) >= 95
<1>1. CASE e = 0
  BY <1>1 DEF Plausible, AmountScore
<1>2. CASE e # 0 /\ 10000 * m \in Targets(e)
  BY <1>2, ExactIsNear DEF Plausible, AmountScore
<1>3. CASE e # 0 /\ 10000 * m \notin Targets(e)
  <2>1. m # e
    BY <1>3 DEF Targets
  <2>. QED  BY <1>3, <2>1, BucketsAreWeaker DEF Plausible, AmountScore
<1>. QED  BY <1>1, <1>2, <1>3

\* _amount_matches_ccfee and the strong branch of _score_amount_ccfee, two
\* pieces of code, agree on every price and amount.
THEOREM AlwaysStrongIsPlausible == Spec => []StrongIsPlausible
<1>1. TypeOK => StrongIsPlausible
  BY StrongMirrors DEF TypeOK, StrongIsPlausible
<1>. QED  BY <1>1, AmountsTyped, PTL

\* A plausible amount is a candidate whatever else is known of the row.
THEOREM AlwaysClearsThreshold == Spec => []PlausibleClearsThreshold
<1>1. ASSUME NEW a \in {95, 100}, NEW v \in {0, 100}, NEW d \in {0, 100},
             NEW b \in {0, 2000}
      PROVE  Boosted(Weighted(a, v, d), b) > Threshold
  BY DEF Boosted, Weighted, Threshold, Perfect
<1>2. ASSUME NEW e \in Nat, NEW m \in Nat, Plausible(m, e)
      PROVE  AmountScore(m, e) \in {95, 100}
  <2>1. e # 0 /\ \E target \in Targets(e) : Near(m, target)
    BY <1>2 DEF Plausible
  <2>. QED  BY <2>1 DEF AmountScore
<1>3. TypeOK => PlausibleClearsThreshold
  BY <1>1, <1>2 DEF TypeOK, PlausibleClearsThreshold
<1>. QED  BY <1>3, AmountsTyped, PTL

\* Below the price, a cent more never scores less.
LEMMA RisesBelow ==
  ASSUME NEW e \in Nat, NEW m \in Nat, m + 1 <= e
  PROVE  AmountScore(m + 1, e) >= AmountScore(m, e)
<1>1. e # 0 /\ m # e /\ 10000 * m \notin Targets(e)
  BY DEF Targets
<1>2. AmountScore(m, e) = IF \E target \in Targets(e) : Near(m, target) THEN 95
                          ELSE Bucket(m, e)
  BY <1>1 DEF AmountScore
<1>3. Bucket(m + 1, e) >= Bucket(m, e)
  BY DEF Bucket, Abs
<1>4. Bucket(m, e) \in {0, 30, 60, 90}
  BY <1>1, BucketsAreWeaker
<1>5. CASE \E target \in Targets(e) : Near(m, target)
  <2>1. Near(m, 10000 * e)
    BY <1>5 DEF Near, Targets, Abs
  <2>2. Near(m + 1, 10000 * e)
    BY <2>1 DEF Near, Abs
  <2>3. AmountScore(m + 1, e) >= 95
    BY <2>2, <1>1 DEF AmountScore, Targets
  <2>. QED  BY <2>3, <1>2, <1>5
<1>6. CASE ~ \E target \in Targets(e) : Near(m, target)
  <2>1. AmountScore(m + 1, e) \in {100, 95, Bucket(m + 1, e)}
    BY <1>1 DEF AmountScore
  <2>. QED  BY <2>1, <1>2, <1>3, <1>4, <1>6
<1>. QED  BY <1>5, <1>6

\* Above the price with the fee, a cent more never scores more.
LEMMA FallsAbove ==
  ASSUME NEW e \in Nat, NEW m \in Nat, 10000 * m >= 10399 * e
  PROVE  AmountScore(m + 1, e) <= AmountScore(m, e)
<1>1. CASE e = 0
  BY <1>1 DEF AmountScore
<1>2. CASE e # 0
  <2>1. m >= e /\ m + 1 # e /\ 10000 * (m + 1) \notin Targets(e)
    BY <1>2 DEF Targets
  <2>2. AmountScore(m + 1, e) = IF \E target \in Targets(e) : Near(m + 1, target)
                                THEN 95 ELSE Bucket(m + 1, e)
    BY <1>2, <2>1 DEF AmountScore
  <2>3. Bucket(m + 1, e) <= Bucket(m, e)
    BY <2>1 DEF Bucket, Abs
  <2>4. Bucket(m + 1, e) \in {0, 30, 60, 90}
    BY <2>1, BucketsAreWeaker
  <2>5. CASE \E target \in Targets(e) : Near(m + 1, target)
    <3>1. Near(m + 1, 10399 * e)
      BY <2>5, <2>1 DEF Near, Targets, Abs
    <3>2. Near(m, 10399 * e)
      BY <3>1 DEF Near, Abs
    <3>3. AmountScore(m, e) >= 95
      BY <3>2, <1>2 DEF AmountScore, Targets
    <3>. QED  BY <3>3, <2>2, <2>5
  <2>6. CASE ~ \E target \in Targets(e) : Near(m + 1, target)
    <3>1. AmountScore(m, e) \in {100, 95, Bucket(m, e)}
      BY <1>2 DEF AmountScore
    <3>. QED  BY <3>1, <2>2, <2>3, <2>4, <2>6
  <2>. QED  BY <2>5, <2>6
<1>. QED  BY <1>1, <1>2

\* Coming closer to the price from below, or to the price with the fee from
\* above, never costs a row its rank: the tolerances, the fee target and the
\* buckets fit together for every price.
THEOREM NeverLosesByCloser == Spec => CloserScoresNoLess
<1>1. ASSUME TypeOK, [Next]_vars
      PROVE  /\ actual' <= expected =>
                   AmountScore(actual', expected) >= AmountScore(actual, expected)
             /\ 10000 * actual >= 10399 * expected =>
                   AmountScore(actual', expected) <= AmountScore(actual, expected)
  <2>1. CASE Next
    BY <1>1, <2>1, RisesBelow, FallsAbove DEF TypeOK, Next
  <2>2. CASE UNCHANGED vars
    <3>1. actual' = actual
      BY <2>2 DEF vars
    <3>2. AmountScore(actual, expected) \in {0, 30, 60, 90, 95, 100}
      BY <1>1, BucketsAreWeaker DEF TypeOK, AmountScore, Targets
    <3>. QED  BY <3>1, <3>2
  <2>. QED  BY <1>1, <2>1, <2>2
<1>. QED  BY <1>1, AmountsTyped, PTL DEF Spec, CloserScoresNoLess
=============================================================================
