------------------------------ MODULE Archive ------------------------------
(***************************************************************************)
(* What the download of receipts promises to the readers of the disk and   *)
(* of ad_confirmations, without runs, failures or kills                    *)
(* (confirmed_ctl/gmail/receipts.py, process_pending_receipts): a PDF is   *)
(* saved once in the directory of an ad and stays there, and the receipts  *)
(* of an ad are put on record all together, once, when all of them are in  *)
(* its directory.                                                          *)
(***************************************************************************)
CONSTANTS Confs,       \* the confirmations
          ReceiptsOf,  \* ReceiptsOf[c]: the PDFs of the mail thread of c
          Place        \* Place[c]: the directory of c

VARIABLES shelf,    \* pairs of a directory and a PDF that it holds, whole
          archive   \* archive[c]: the PDFs that Postgres names for c

kept == <<shelf, archive>>

Init == shelf = {} /\ archive = [c \in Confs |-> {}]

Save(c, x) ==
    /\ <<Place[c], x>> \notin shelf
    /\ shelf' = shelf \union {<<Place[c], x>>}
    /\ UNCHANGED archive

Record(C) ==
    /\ \A c \in C : /\ archive[c] = {}
                    /\ \A x \in ReceiptsOf[c] : <<Place[c], x>> \in shelf
    /\ archive' = [c \in Confs |-> IF c \in C THEN ReceiptsOf[c] ELSE archive[c]]
    /\ UNCHANGED shelf

Next == \/ \E c \in Confs : \E x \in ReceiptsOf[c] : Save(c, x)
        \/ \E C \in SUBSET Confs : Record(C)

Spec == Init /\ [][Next]_kept
=============================================================================
