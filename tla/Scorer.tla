------------------------------- MODULE Scorer -------------------------------
(***************************************************************************)
(* The arithmetic of confirmed_ctl/matching/scorer.py.  Amounts are cents, *)
(* compared in ten-thousandths of a cent because of the 3.99% fee; partial *)
(* scores are hundredths and a score is counted in ten-thousandths, so     *)
(* that every constant of the source is an integer.  The source computes   *)
(* in floats: a value exactly on a boundary may fall on either side there. *)
(***************************************************************************)
EXTENDS Integers

Abs(n) == IF n < 0 THEN -n ELSE n

\* The invoice amount and the one grossed up by CC_FEE_MULTIPLIER.
Targets(expected) == {10000 * expected, 10399 * expected}

\* Within $1 or 0.5% of the target.
Near(actual, target) ==
    LET diff == Abs(10000 * actual - target)
    IN  diff <= 1000000 \/ diff <= target \div 200

\* _amount_matches_ccfee
Plausible(actual, expected) ==
    expected # 0 /\ \E target \in Targets(expected) : Near(actual, target)

\* Mutant: the buckets of 5% and 15% are tested in the wrong order.
Bucket_Swapped(actual, expected) ==
    LET diff == Abs(actual - expected)
    IN  IF diff = 0 THEN 100
        ELSE IF 100 * diff <= expected THEN 90
        ELSE IF 100 * diff <= 5 * expected THEN 30
        ELSE IF 100 * diff <= 15 * expected THEN 60
        ELSE 0

\* _score_amount
Bucket(actual, expected) ==
    LET diff == Abs(actual - expected)
    IN  IF diff = 0 THEN 100
        ELSE IF 100 * diff <= expected THEN 90
        ELSE IF 100 * diff <= 5 * expected THEN 60
        ELSE IF 100 * diff <= 15 * expected THEN 30
        ELSE 0

\* Mutant: the buckets win over a strong match.
AmountScore_BucketFirst(actual, expected) ==
    IF expected = 0 THEN 0
    ELSE IF Bucket(actual, expected) > 0 THEN Bucket(actual, expected)
    ELSE IF \E target \in Targets(expected) : Near(actual, target) THEN 95
    ELSE 0

\* _score_amount_ccfee: no bucket reaches 95 unless the amount is exact.
AmountScore(actual, expected) ==
    IF expected = 0 THEN 0
    ELSE IF 10000 * actual \in Targets(expected) THEN 100
    ELSE IF \E target \in Targets(expected) : Near(actual, target) THEN 95
    ELSE Bucket(actual, expected)

\* _score_date, of the distance in days
DateScore(days) ==
    IF days <= 3 THEN <<100, 85, 65, 40>>[days + 1]
    ELSE IF days <= 5 THEN 20
    ELSE 0

\* WEIGHT_AMOUNT, WEIGHT_VENDOR, WEIGHT_DATE
Weighted(amount, vendor, date) == 50 * amount + 30 * vendor + 20 * date

Perfect == 10000

\* min(1.0, base + boost)
Boosted(base, boost) == IF base + boost > Perfect THEN Perfect ELSE base + boost

\* The minimum threshold of a candidate, exclusive.
Threshold == 1000
=============================================================================
