-------------------------------- MODULE Mails --------------------------------
(***************************************************************************)
(* A sweep over the mails that may reach the parser of Alerts: the table   *)
(* grows row by row.  Like Amounts it has no counterpart in the program.   *)
(***************************************************************************)
EXTENDS Alerts

CONSTANTS Values,     \* the amounts and dates the cells of a table may hold
          RowsOf,     \* RowsOf[s]: the rows a table of schema s may have
          MaxRows     \* MaxRows[s]: bound

Schemas == {"card", "ach", "transfer", "used"}

Rows == [label : STRING, value : Values \union {Unreadable, Empty}]

\* What stands for the lack of a value is no value, and no index is a number.
ASSUME MailsAssumption ==
    /\ RowsOf \in [Schemas -> SUBSET Rows]
    /\ Missing \notin Values \union {Unreadable, Empty}
    /\ Unreadable # Empty
    /\ NoIndex \notin Nat

VARIABLE mail

NoMail == [message |-> "m", schema |-> "none", rows |-> <<>>, received |-> Missing]

\* Gmail's internalDate may be missing from a message.
MailInit ==
    \E s \in Schemas, d \in {Missing, 0} :
        mail = [NoMail EXCEPT !.schema = s, !.received = d]

NextRow ==
    /\ mail.schema # "none" /\ Len(mail.rows) < MaxRows[mail.schema]
    /\ \E r \in RowsOf[mail.schema] : mail' = [mail EXCEPT !.rows = Append(@, r)]

MailSpec == MailInit /\ [][NextRow]_mail

-----------------------------------------------------------------------------
(* Where a reader of the mail finds what belongs to one transaction.       *)

Filled(rows, i) == rows[i].value # Empty

Accounts(rows) == {i \in DOMAIN rows : Filled(rows, i) /\ rows[i].label = "account"}

\* The rows of the transaction that begins with row s.
Extent(m, s) ==
    IF m.schema # "used" THEN DOMAIN m.rows
    ELSE {i \in DOMAIN m.rows : s <= i /\ \A e \in Accounts(m.rows) : s < e => i < e}

\* The first filled row of S with the label.
Cell(rows, S, label) ==
    LET at == {i \in S : Filled(rows, i) /\ rows[i].label = label}
    IN  IF at = {} THEN Missing ELSE rows[First(at)].value

Readable(v) == v \notin {Missing, Unreadable}

\* The value of the preferred of two labels, whatever it reads.
Preferred(rows, S, a, b) ==
    IF Cell(rows, S, a) # Missing THEN Cell(rows, S, a) ELSE Cell(rows, S, b)

DateCell(m, S) ==
    IF m.schema = "card" THEN Preferred(m.rows, S, "date", "when")
    ELSE IF m.schema = "used" THEN Preferred(m.rows, S, "on", "date")
    ELSE Preferred(m.rows, S, "transaction date", "date")

DateOf(m, S) == IF Readable(DateCell(m, S)) THEN DateCell(m, S) ELSE m.received

Heads(m) == IF m.schema = "used" THEN Accounts(m.rows)
            ELSE IF m.schema = "none" THEN {} ELSE {0}

\* The transaction that begins with row s, as it is read off the table.
Reading(m, s) ==
    [block |-> Cardinality({h \in Heads(m) : h < s}),
     amount |-> Cell(m.rows, Extent(m, s), "amount"), date |-> DateOf(m, Extent(m, s))]

LaidOut ==
    {Reading(mail, s) :
        s \in {h \in Heads(mail) : /\ Readable(Reading(mail, h).amount)
                                   /\ Reading(mail, h).date # Missing}}

-----------------------------------------------------------------------------
(* Properties.                                                             *)

\* A transaction takes its amount and its date from its own rows of the table,
\* never from another transaction, a heading or a row after the first of its
\* label; none is made up, and none that can be read is dropped.
ParsedAsLaidOut ==
    {[block |-> t.block, amount |-> t.amount, date |-> t.date] :
        t \in ParseMessage(mail)} = LaidOut

\* The transactions of one mail have different keys: none is taken for another
\* one that is stored already.
KeysTellApart ==
    \A t, u \in ParseMessage(mail) : t.id = u.id => t = u

\* A cell that cannot be read costs its own transaction only: all others keep
\* their keys and their fields, so that a pass that reads more (or less) of a
\* mail than an earlier one does not store them a second time.
UnreadableCostsOne ==
    \A i \in DOMAIN mail.rows :
        LET less == ParseMessage([mail EXCEPT !.rows[i].value = Unreadable])
        IN  Filled(mail.rows, i) =>
               /\ {t.id : t \in less} \subseteq {t.id : t \in ParseMessage(mail)}
               /\ Cardinality(ParseMessage(mail) \ less) <= 1
=============================================================================
