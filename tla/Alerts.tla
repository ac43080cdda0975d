------------------------------- MODULE Alerts -------------------------------
(***************************************************************************)
(* The parsing of a BofA alert (ingest/email_scan.py parse_message) and    *)
(* the source_txn_id of what it yields (ingest/dedup.py).                  *)
(*                                                                         *)
(* A mail is the schema its subject routes to, its table rows, each a      *)
(* label and the content of the value cell, and the date Gmail received    *)
(* it.  Cells are kept up to what the regular expressions extract: an      *)
(* amount, a date, nothing (Unreadable), or no text at all (Empty).        *)
(***************************************************************************)
EXTENDS Integers, Sequences, FiniteSets

CONSTANTS Unreadable, Empty, Missing, NoIndex

\* The first row of a label counts, and of several labels the first present.
Positions(pairs, label) == {i \in DOMAIN pairs : pairs[i].label = label}

First(S) == CHOOSE i \in S : \A j \in S : i <= j

Field(pairs, labels) ==
    LET present == {n \in DOMAIN labels : Positions(pairs, labels[n]) # {}}
    IN  IF present = {} THEN Missing
        ELSE pairs[First(Positions(pairs, labels[First(present)]))].value

\* parse_amount, parse_date
Amount(pairs) ==
    LET v == Field(pairs, <<"amount">>)
    IN  IF v = Unreadable THEN Missing ELSE v

Posted(pairs, labels, received) ==
    LET v == Field(pairs, labels)
    IN  IF v \in {Missing, Unreadable} THEN received ELSE v

\* extract_pairs keeps the rows with text in both cells.
Pairs(rows) ==
    LET kept[n \in 0 .. Len(rows)] ==
            IF n = 0 THEN <<>>
            ELSE IF rows[n].value = Empty THEN kept[n - 1]
            ELSE Append(kept[n - 1], rows[n])
    IN  kept[Len(rows)]

DateLabels(schema) ==
    CASE schema = "card" -> <<"date", "when">>
      [] schema \in {"ach", "transfer"} -> <<"transaction date", "date">>
      [] schema = "used" -> <<"on", "date">>

\* Mutant: the block index is left out of the key.
SourceTxnId_Bare(message, index) == IF index = NoIndex THEN <<message>> ELSE <<message>>

SourceTxnId(message, index) ==
    IF index = NoIndex THEN <<message>> ELSE <<message, index>>

Txn(mail, pairs, index, block) ==
    [id |-> SourceTxnId(mail.message, index), block |-> block,
     amount |-> Amount(pairs),
     date |-> Posted(pairs, DateLabels(mail.schema), mail.received)]

\* Neither the amount nor the date is ever made up.
Complete(txns) == {t \in txns : t.amount # Missing /\ t.date # Missing}

ParsePaired(mail) == Complete({Txn(mail, Pairs(mail.rows), NoIndex, 0)})

\* Mutant: the rows above the first account make a block as well.
SplitBlocks_Header(pairs) ==
    LET cut[n \in 0 .. Len(pairs)] ==
            IF n = 0 THEN <<>>
            ELSE IF pairs[n].label = "account" \/ cut[n - 1] = <<>>
                 THEN Append(cut[n - 1], <<pairs[n]>>)
            ELSE [cut[n - 1] EXCEPT ![Len(cut[n - 1])] = Append(@, pairs[n])]
    IN  cut[Len(pairs)]

\* Every "account" row begins a block; what comes before the first is dropped.
SplitBlocks(pairs) ==
    LET cut[n \in 0 .. Len(pairs)] ==
            IF n = 0 THEN <<>>
            ELSE IF pairs[n].label = "account" THEN Append(cut[n - 1], <<pairs[n]>>)
            ELSE IF cut[n - 1] = <<>> THEN <<>>
            ELSE [cut[n - 1] EXCEPT ![Len(cut[n - 1])] = Append(@, pairs[n])]
    IN  cut[Len(pairs)]

\* Mutant: the blocks that can be read are numbered.
ParseUsed_Renumbers(mail) ==
    LET blocks == SplitBlocks(Pairs(mail.rows))
        read   == SelectSeq(blocks, LAMBDA b : Amount(b) # Missing)
    IN  Complete({Txn(mail, read[i], IF Len(read) > 1 THEN i - 1 ELSE NoIndex, i - 1) :
                     i \in DOMAIN read})

\* A block keeps its number when another one cannot be read.
ParseUsed(mail) ==
    LET blocks == SplitBlocks(Pairs(mail.rows))
    IN  Complete({Txn(mail, blocks[i], IF Len(blocks) > 1 THEN i - 1 ELSE NoIndex, i - 1) :
                     i \in DOMAIN blocks})

\* An unroutable subject yields nothing.
ParseMessage(mail) ==
    IF mail.schema = "none" THEN {}
    ELSE IF mail.schema = "used" THEN ParseUsed(mail)
    ELSE ParsePaired(mail)
=============================================================================
