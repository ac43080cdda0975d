------------------------------ MODULE Amounts -------------------------------
(***************************************************************************)
(* A sweep over the amounts the scorer may be given: the price of an ad,   *)
(* and the amount of a bank row, which grows cent by cent.  The sweep has  *)
(* no counterpart in the program; it is what the properties of the pure    *)
(* functions of Scorer quantify over.                                      *)
(***************************************************************************)
EXTENDS Scorer

CONSTANT Prices   \* expected_amount, in cents

ASSUME PricesAssumption == Prices \subseteq Nat

VARIABLES expected, actual

vars == <<expected, actual>>

Init == expected \in Prices /\ actual = 0

\* Until a quarter above the price, and $3 at least.
Next ==
    /\ 4 * actual <= 5 * expected + 1200
    /\ actual' = actual + 1
    /\ UNCHANGED expected

Spec == Init /\ [][Next]_vars

\* Both amounts are whole cents.
TypeOK == expected \in Nat /\ actual \in Nat

\* _amount_matches_ccfee "mirrors the strong-match branch" of
\* _score_amount_ccfee: the near misses of a popup are exactly the rows whose
\* amount the ranking counts as a strong match.
StrongIsPlausible ==
    Plausible(actual, expected) <=> AmountScore(actual, expected) >= 95

\* An amount that comes closer to the price from below never loses score, and
\* one that moves away above the price with the fee never gains any.
CloserScoresNoLess ==
    [][/\ actual' <= expected =>
             AmountScore(actual', expected) >= AmountScore(actual, expected)
       /\ 10000 * actual >= 10399 * expected =>
             AmountScore(actual', expected) <= AmountScore(actual, expected)]_vars

\* The threshold never hides a plausible amount, whatever the vendor, the
\* date and the boost say.
PlausibleClearsThreshold ==
    \A vendor, date \in {0, 100}, boost \in {0, 2000} :
        Plausible(actual, expected) =>
            Boosted(Weighted(AmountScore(actual, expected), vendor, date), boost)
                > Threshold
=============================================================================
