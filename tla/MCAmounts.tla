----------------------------- MODULE MCAmounts ------------------------------
(* The prices and the mails swept by TLC, one sweep or the other.          *)
EXTENDS Amounts, Mails

\* None, below and at the $1 tolerance, around $200, where 0.5% passes $1, and
\* the prices of the project's own tests.
MCPrices == {0, 1, 60, 100, 101, 2500, 19900, 20000, 20100, 42500, 136800}

Row(label, values) == {[label |-> label, value |-> v] : v \in values}

MCValues == 1 .. 4

\* Amounts 1 and 2, dates 3 and 4; the preferred and the older date label.
MCRowsOf ==
    [card |-> Row("amount", {1, 2, Unreadable, Empty}) \union Row("date", {3, Unreadable})
              \union Row("when", {4}) \union Row("limit", {2}),
     ach |-> Row("amount", {1, 2, Unreadable}) \union Row("account", {1})
              \union Row("transaction date", {3, Unreadable}) \union Row("date", {4}),
     transfer |-> Row("amount", {1, Unreadable}) \union Row("transaction date", {3})
              \union Row("date", {4, Unreadable, Empty}),
     used |-> Row("account", {1}) \union Row("amount", {1, 2, Unreadable})
              \union Row("on", {3, Unreadable}) \union Row("date", {4})]

\* Two complete transactions of a batched alert, or three that take the date
\* of the mail.
MCMaxRows == [card |-> 4, ach |-> 4, transfer |-> 4, used |-> 6]

SweepInit ==
    \/ Init /\ mail = NoMail
    \/ MailInit /\ expected = 0 /\ actual = 0

SweepNext ==
    \/ mail = NoMail /\ Next /\ UNCHANGED mail
    \/ NextRow /\ UNCHANGED vars

Sweep == SweepInit /\ [][SweepNext]_<<vars, mail>>
=============================================================================
