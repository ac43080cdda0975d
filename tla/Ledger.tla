------------------------------- MODULE Ledger -------------------------------
(***************************************************************************)
(* What the ingest promises to those who read bank_transactions and the    *)
(* sync log, without passes, windows or failures: a mail that carries      *)
(* several transactions is there with all of them or with none, and what a *)
(* pass adds is counted with it, in one step                               *)
(* (confirmed_ctl/ingest/email_scan.py, run_email_scan: the rows and the   *)
(* SyncLog row have one session.commit()).                                 *)
(***************************************************************************)
EXTENDS Naturals, FiniteSets

CONSTANTS Alerts, TxnsOf, Saas   \* TxnsOf[a]: the keys in the mail a

VARIABLES mailbox,  \* the alerts that have arrived
          table,    \* keys of bank_transactions
          flagged,  \* those of them with ignored
          counted   \* the sum of txns_new

ledger == <<mailbox, table, flagged, counted>>

Init == mailbox = {} /\ table = {} /\ flagged = {} /\ counted = 0

Deliver(a) ==
    /\ mailbox' = mailbox \union {a}
    /\ UNCHANGED <<table, flagged, counted>>

\* What is new of some mails is stored, flagged or not, and counted.
Store(A) ==
    LET new == (UNION {TxnsOf[a] : a \in A}) \ table
    IN  /\ table' = table \union new
        /\ flagged' \in {flagged, flagged \union (new \intersect Saas)}
        /\ counted' = counted + Cardinality(new)
        /\ UNCHANGED mailbox

Flag ==
    /\ flagged' = flagged \union (table \intersect Saas)
    /\ UNCHANGED <<mailbox, table, counted>>

Next ==
    \/ \E a \in Alerts : Deliver(a)
    \/ \E A \in SUBSET mailbox : Store(A)
    \/ Flag

Spec == Init /\ [][Next]_ledger
=============================================================================
