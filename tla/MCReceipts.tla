----------------------------- MODULE MCReceipts -----------------------------
(* Instances of Receipts for TLC. *)
EXTENDS Receipts, TLC

CONSTANTS c1, c2, c3, c4

Att(n, s) == [name |-> n, sha |-> s]

\* Two PDFs of one name; a copy of one of them under another name; a thread
\* without receipts; a PDF of another directory.
MCThread ==
    (c1 :> <<Att("receipt", "x"), Att("receipt", "y")>>)
      @@ (c2 :> <<Att("paid", "y"), Att("receipt", "z")>>)
      @@ (c3 :> <<>>)
      @@ (c4 :> <<Att("paid", "x")>>)

\* Two ads of one number confirmed in one month share their directory.
MCDir == [c \in Confs |-> IF c = c4 THEN "e" ELSE "d"]
=============================================================================
