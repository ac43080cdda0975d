---------------------------- MODULE MCCandidates ----------------------------
(* Instances of Candidates for TLC. *)
EXTENDS Candidates

CONSTANTS a1, a2, a3

\* $100.00 on day 20; no amount; no date.
MCAd == [a \in Ads |->
    CASE a = a1 -> [amount |-> 10000, day |-> 20]
      [] a = a2 -> [amount |-> NoAmount, day |-> 20]
      [] a = a3 -> [amount |-> 10000, day |-> NoDay]]

\* 1: the price on the last day of the window; 2: the price with the fee on
\* the day; 3: the price a day after the window; 4: not the price, but the
\* name and the day.
MCRow == <<[amount |-> 10000, day |-> 30, string |-> "paper"],
           [amount |-> 10399, day |-> 20, string |-> "paper"],
           [amount |-> 10000, day |-> 31, string |-> "paper"],
           [amount |-> 70000, day |-> 20, string |-> "paper"]>>

MCVendor == [t \in 1 .. 4 |-> [a \in Ads |-> IF t = 4 THEN 100 ELSE 0]]

MCSender == [a \in Ads |-> {"paper"}]
=============================================================================
