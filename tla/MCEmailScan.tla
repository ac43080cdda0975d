----------------------------- MODULE MCEmailScan -----------------------------
(* Instances of EmailScan for TLC. *)
EXTENDS EmailScan, Alerts

CONSTANT Days   \* the look-back of every run

Cell(label, value) == [label |-> label, value |-> value]

Row(label, value) == [label |-> label, value |-> value]

\* The second alert is a batched one, with a third transaction whose amount
\* cannot be read.
MCMail == [a \in Alerts |->
    [message |-> a, received |-> 0,
     schema |-> IF a = 2 THEN "used" ELSE "card",
     rows |-> IF a # 2 THEN <<Row("amount", 5), Row("date", 1)>>
              ELSE <<Row("account", 1), Row("amount", 5),
                     Row("account", 1), Row("amount", 5), Row("on", 1),
                     Row("account", 1), Row("amount", Unreadable)>>]]

MCBlocks == [a \in Alerts |-> IF a = 2 THEN {0, 1} ELSE {0}]

\* The blocks are those that the parser finds in the mails.
ASSUME MCBlocksAreParsed ==
    \A a \in Alerts : MCBlocks[a] = {t.block : t \in ParseMessage(MCMail[a])}

MCSaas == {t \in Txns : t[1] = 1}

MCPoison == {t \in Txns : t = <<2, 1>>}

MCNoPoison == {}

MCLookback == [r \in Runs |-> Days]
=============================================================================
