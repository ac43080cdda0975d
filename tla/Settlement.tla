----------------------------- MODULE Settlement -----------------------------
(***************************************************************************)
(* What POST /confirm promises, without workers, popups, staff or          *)
(* failures.  Two stores matter: the CRM, where the tool names the         *)
(* transaction of an ad and marks it Done in one UPDATE, and the Postgres  *)
(* table ad_confirmations.  An ad is recorded at most once, a recorded row *)
(* is never changed or removed, and a row that reports crm_write =         *)
(* "written" follows an UPDATE of its ad and never precedes it             *)
(* (confirmed_ctl/api/routes.py, confirm_ad: "writes them to the CRM       *)
(* BEFORE committing the Postgres confirmation").                          *)
(***************************************************************************)
CONSTANTS Ads, Txns, NoTxn

VARIABLES crm,       \* the transaction of the tool's last UPDATE of an ad
          record     \* rows of ad_confirmations: [ad, txn, mode]

settled == <<crm, record>>

\* The crm_write field of a 200 answer.
Modes == {"written", "disabled", "skipped_no_txn"}

Init == crm = [a \in Ads |-> NoTxn] /\ record = {}

Write(a, t) ==
    /\ crm' = [crm EXCEPT ![a] = t]
    /\ UNCHANGED record

Record(a, t, m) ==
    /\ \A r \in record : r.ad # a
    /\ m = "written" => t # NoTxn /\ crm[a] # NoTxn
    /\ record' = record \union {[ad |-> a, txn |-> t, mode |-> m]}
    /\ UNCHANGED crm

Next == \E a \in Ads :
           \/ \E t \in Txns : Write(a, t)
           \/ \E t \in Txns \union {NoTxn}, m \in Modes : Record(a, t, m)

Spec == Init /\ [][Next]_settled
=============================================================================
