------------------------------- MODULE Confirm -------------------------------
(***************************************************************************)
(* POST /confirm (confirmed_ctl/api/routes.py, confirm_ad) as it runs in   *)
(* the gunicorn worker processes of confirmed-ctl-api.service, against two *)
(* stores that share no transaction: the MariaDB CRM (one ad row per ad)   *)
(* and Postgres (ad_confirmations, bank_transactions).                     *)
(*                                                                         *)
(* A tab is a popup opened with GET /candidates.  It keeps the candidates  *)
(* it was given while other tabs confirm, the ingest adds rows and the     *)
(* ignore backfill flags them; its request is then served by a worker in   *)
(* three steps: the reads, the CRM UPDATE, the Postgres COMMIT.  A COMMIT  *)
(* is one step: the flush it performs locks the bank row and then the      *)
(* unique ad key, so concurrent commits on one ad are serialised by        *)
(* Postgres and the later one meets the UNIQUE constraint.                 *)
(***************************************************************************)
EXTENDS Naturals, FiniteSets

CONSTANTS Ads, Txns, Tabs,
          Saas,        \* the transactions an ignore pattern matches
          NoAd, NoTxn, \* SQL NULL
          Workers,     \* gunicorn -w: requests served at a time
          MaxFaults,   \* bound on failures of either store and on kills
          MayGiveUp    \* may a user leave after an error answer?

ASSUME ConfirmAssumption ==
    /\ Saas \subseteq Txns
    /\ NoAd \notin Ads
    /\ NoTxn \notin Txns
    /\ Workers \in Nat \ {0}
    /\ MaxFaults \in Nat
    /\ MayGiveUp \in BOOLEAN

VARIABLES
    crmRow,   \* CRM: is the row listed (it passes the filters of the list
              \* queries), unlisted (statnews, entity or case status fail
              \* them), soft-deleted or purged (no such id)
    stat,     \* CRM: statclearancenews
    trx,      \* CRM: the transaction of the tool's last UPDATE of the row,
              \* which trxstring names (staff edits of it are not modelled)
    reopened, \* history: ads the staff set back to Confirmed since they were
              \* last Done
    conf,     \* Postgres: ad_confirmations, rows [ad, txn, mode]; mode is the
              \* crm_write that was answered, not a column
    rows,     \* Postgres: the bank_transactions ingested so far
    pointer,  \* Postgres: bank_transactions.confirmed_ad_crm_id
    ignored,  \* Postgres: rows with bank_transactions.ignored
    gate,     \* settings.CRM_WRITE_ENABLED of the running service
    tab,      \* the popups and the requests they send
    faults,   \* failures so far
    traced    \* history: ads an error log of confirm_ad names, or whose
              \* request died with its worker

crmVars == <<crmRow, stat, trx, reopened>>
pgVars  == <<conf, rows, pointer, ignored>>
vars    == <<crmVars, pgVars, gate, tab, faults, traced>>

CrmRows == {"listed", "unlisted", "deleted", "purged"}
Stats   == {"Confirmed", "Done"}
Modes   == {"written", "disabled", "skipped_no_txn"}
Serving == {"crm_write", "commit"}
Pcs     == {"closed", "popup", "received", "answered"} \union Serving
Errors  == {"crm_write_failed", "postgres_commit_failed_after_crm_write",
            "server_error", "no_answer"}
Replies == {"none", "confirmed", "already_confirmed"} \union Errors

Closed == [pc |-> "closed", ad |-> NoAd, cands |-> {}, txn |-> NoTxn,
           mode |-> "disabled", reply |-> "none"]

HasConf(a) == \E r \in conf : r.ad = a

InFlight == {s \in Tabs : tab[s].pc \in Serving}

-----------------------------------------------------------------------------
(* The lists the user interface reads.                                     *)

\* GET /unconfirmed: the clearances query minus the ids confirmed locally.
Unconfirmed ==
    {a \in Ads : crmRow[a] = "listed" /\ stat[a] = "Confirmed" /\ ~HasConf(a)}

\* GET /reconciled: the Done query joined with the local confirmations.
Reconciled ==
    {a \in Ads : crmRow[a] = "listed" /\ stat[a] = "Done" /\ HasConf(a)}

\* The two filters of get_candidate_transactions: unmatched, not ignored.
Candidates == {t \in rows : pointer[t] = NoAd /\ t \notin ignored}

-----------------------------------------------------------------------------
Init ==
    /\ crmRow = [a \in Ads |-> "listed"]
    /\ stat = [a \in Ads |-> "Confirmed"]
    /\ trx = [a \in Ads |-> NoTxn]
    /\ reopened = {}
    /\ conf = {}
    /\ rows = {}
    /\ pointer = [t \in Txns |-> NoAd]
    /\ ignored = {}
    /\ gate \in BOOLEAN
    /\ tab = [s \in Tabs |-> Closed]
    /\ faults = 0
    /\ traced = {}

(* The staff, in the CRM: mark an ad Done by hand or set it back to         *)
(* Confirmed, move it in and out of the lists (statnews, entity, case      *)
(* status, soft delete), purge its row.                                    *)

StaffMarksDone(a) ==
    /\ crmRow[a] # "purged"
    /\ stat' = [stat EXCEPT ![a] = "Done"]
    /\ reopened' = reopened \ {a}
    /\ UNCHANGED <<crmRow, trx, pgVars, gate, tab, faults, traced>>

\* statclearancenews is an enum of the CRM's own form: nothing in the CRM or
\* in the tool keeps it from going back, and trxstring stays as it was.
StaffReopens(a) ==
    /\ crmRow[a] # "purged" /\ stat[a] = "Done"
    /\ stat' = [stat EXCEPT ![a] = "Confirmed"]
    /\ reopened' = reopened \union {a}
    /\ UNCHANGED <<crmRow, trx, pgVars, gate, tab, faults, traced>>

StaffMovesRow(a, r) ==
    /\ crmRow[a] # "purged"
    /\ crmRow' = [crmRow EXCEPT ![a] = r]
    /\ UNCHANGED <<stat, trx, reopened, pgVars, gate, tab, faults, traced>>

(* The other writers of bank_transactions, each one committed transaction. *)

\* insert_transactions adds a row, flagged when an active pattern matches.
Ingest(t) ==
    /\ t \notin rows
    /\ rows' = rows \union {t}
    /\ \/ UNCHANGED ignored
       \/ t \in Saas /\ ignored' = ignored \union {t}
    /\ UNCHANGED <<crmVars, conf, pointer, gate, tab, faults, traced>>

\* apply_ignore_patterns flags every matching row, the confirmed ones too.
Backfill ==
    /\ ignored' = ignored \union (rows \intersect Saas)
    /\ UNCHANGED <<crmVars, conf, rows, pointer, gate, tab, faults, traced>>

\* CRM_WRITE_ENABLED is read at import: it changes with a restart, which
\* gunicorn performs when the requests in flight are over (or killed).
Redeploy ==
    /\ InFlight = {}
    /\ gate' = ~gate
    /\ UNCHANGED <<crmVars, pgVars, tab, faults, traced>>

-----------------------------------------------------------------------------
Becomes(s, v) == tab' = [tab EXCEPT ![s] = v]

(* The user.                                                               *)

\* GET /candidates/<ad_crm_id>: 404 unless the CRM still shows the row; the
\* filters of the lists do not apply.
OpenPopup(s, a) ==
    /\ tab[s].pc = "closed"
    /\ crmRow[a] \in {"listed", "unlisted"}
    /\ Becomes(s, [Closed EXCEPT !.pc = "popup", !.ad = a, !.cands = Candidates])
    /\ UNCHANGED <<crmVars, pgVars, gate, faults, traced>>

\* [CONFIRM & CLOSE], with one of the candidates shown or with none.
Post(s, t) ==
    /\ tab[s].pc = "popup"
    /\ t \in tab[s].cands \union {NoTxn}
    /\ Becomes(s, [tab[s] EXCEPT !.pc = "received", !.cands = {}, !.txn = t])
    /\ UNCHANGED <<crmVars, pgVars, gate, faults, traced>>

\* "retry": the same body is sent again.
Retry(s) ==
    /\ tab[s].pc = "answered" /\ tab[s].reply \in Errors
    /\ Becomes(s, [tab[s] EXCEPT !.pc = "received", !.reply = "none"])
    /\ UNCHANGED <<crmVars, pgVars, gate, faults, traced>>

Leave(s) ==
    /\ tab[s].pc = "answered"
    /\ tab[s].reply \in Errors => MayGiveUp
    /\ Becomes(s, Closed)
    /\ UNCHANGED <<crmVars, pgVars, gate, faults, traced>>

-----------------------------------------------------------------------------
(* A worker serving the request of tab s.                                  *)

Answer(s, r) ==
    Becomes(s, [tab[s] EXCEPT !.pc = "answered", !.mode = "disabled", !.reply = r])

\* Mutant: the check looks at the CRM status instead of ad_confirmations.
AlreadyConfirmed_ByStatus(s) ==
    /\ tab[s].pc = "received" /\ Cardinality(InFlight) < Workers
    /\ HasConf(tab[s].ad) \/ stat[tab[s].ad] = "Done"
    /\ Answer(s, "already_confirmed")
    /\ UNCHANGED <<crmVars, pgVars, gate, faults, traced>>

\* The idempotency check: 409.
AlreadyConfirmed(s) ==
    /\ tab[s].pc = "received" /\ Cardinality(InFlight) < Workers
    /\ HasConf(tab[s].ad)
    /\ Answer(s, "already_confirmed")
    /\ UNCHANGED <<crmVars, pgVars, gate, faults, traced>>

\* Gate on and a transaction chosen: update_ad_clearance comes first.
BeginCrmWrite(s) ==
    /\ tab[s].pc = "received" /\ Cardinality(InFlight) < Workers
    /\ ~HasConf(tab[s].ad)
    /\ gate /\ tab[s].txn # NoTxn
    /\ Becomes(s, [tab[s] EXCEPT !.pc = "crm_write"])
    /\ UNCHANGED <<crmVars, pgVars, gate, faults, traced>>

\* Gate off, or nothing to write: straight to the commit.
SkipCrmWrite(s) ==
    /\ tab[s].pc = "received" /\ Cardinality(InFlight) < Workers
    /\ ~HasConf(tab[s].ad)
    /\ ~gate \/ tab[s].txn = NoTxn
    /\ Becomes(s, [tab[s] EXCEPT !.pc = "commit",
                     !.mode = IF gate THEN "skipped_no_txn" ELSE "disabled"])
    /\ UNCHANGED <<crmVars, pgVars, gate, faults, traced>>

Fault == faults < MaxFaults /\ faults' = faults + 1

\* Mutant: the id bound where trxstring belongs.
CrmUpdate_WrongValue(s) ==
    /\ crmRow[tab[s].ad] # "purged"
    /\ stat' = [stat EXCEPT ![tab[s].ad] = "Done"]
    /\ trx' = [trx EXCEPT ![tab[s].ad] = tab[s].ad]
    /\ reopened' = reopened \ {tab[s].ad}
    /\ UNCHANGED crmRow

\* UPDATE t_e_s_t_p_e_r_m SET ... WHERE id = ad: no other condition.
CrmUpdate(s) ==
    /\ crmRow[tab[s].ad] # "purged"
    /\ stat' = [stat EXCEPT ![tab[s].ad] = "Done"]
    /\ trx' = [trx EXCEPT ![tab[s].ad] = tab[s].txn]
    /\ reopened' = reopened \ {tab[s].ad}
    /\ UNCHANGED crmRow

CrmWrites(s) ==
    /\ tab[s].pc = "crm_write"
    /\ CrmUpdate(s)
    /\ Becomes(s, [tab[s] EXCEPT !.pc = "commit", !.mode = "written"])
    /\ UNCHANGED <<pgVars, gate, faults, traced>>

\* Mutant: the update that matched no row is tried again.
CrmMatchesNoRow_Again(s) ==
    /\ tab[s].pc = "crm_write"
    /\ crmRow[tab[s].ad] = "purged"
    /\ Becomes(s, [tab[s] EXCEPT !.pc = "received"])
    /\ UNCHANGED <<crmVars, pgVars, gate, faults, traced>>

\* CrmWriteError, rowcount 0: rollback and 502.
CrmMatchesNoRow(s) ==
    /\ tab[s].pc = "crm_write"
    /\ crmRow[tab[s].ad] = "purged"
    /\ Answer(s, "crm_write_failed")
    /\ traced' = traced \union {tab[s].ad}
    /\ UNCHANGED <<crmVars, pgVars, gate, faults>>

\* Mutant: the exception is swallowed and the confirm goes on.
CrmFails_Swallowed(s) ==
    /\ tab[s].pc = "crm_write"
    /\ Fault
    /\ Becomes(s, [tab[s] EXCEPT !.pc = "commit", !.mode = "written"])
    /\ UNCHANGED <<crmVars, pgVars, gate, traced>>

\* Any other exception of the CRM call: rollback and 502.  pymysql raises
\* when the server refused the write, and also when the connection is lost
\* after the server committed it.
CrmFails(s) ==
    /\ tab[s].pc = "crm_write"
    /\ Fault
    /\ CrmUpdate(s) \/ UNCHANGED crmVars
    /\ Answer(s, "crm_write_failed")
    /\ traced' = traced \union {tab[s].ad}
    /\ UNCHANGED <<pgVars, gate>>

\* Mutants: no unique constraint; an upsert instead of an insert.
SaveConfirmation_NotUnique(s) ==
    /\ conf' = conf \union {[ad |-> tab[s].ad, txn |-> tab[s].txn,
                             mode |-> tab[s].mode]}
    /\ pointer' = IF tab[s].txn = NoTxn THEN pointer
                  ELSE [pointer EXCEPT ![tab[s].txn] = tab[s].ad]
    /\ UNCHANGED <<rows, ignored>>

SaveConfirmation_Upsert(s) ==
    /\ conf' = {r \in conf : r.ad # tab[s].ad}
                 \union {[ad |-> tab[s].ad, txn |-> tab[s].txn,
                          mode |-> tab[s].mode]}
    /\ pointer' = IF tab[s].txn = NoTxn THEN pointer
                  ELSE [pointer EXCEPT ![tab[s].txn] = tab[s].ad]
    /\ UNCHANGED <<rows, ignored>>

\* The rows the commit makes durable together.
SaveConfirmation(s) ==
    /\ ~HasConf(tab[s].ad)
    /\ conf' = conf \union {[ad |-> tab[s].ad, txn |-> tab[s].txn,
                             mode |-> tab[s].mode]}
    /\ pointer' = IF tab[s].txn = NoTxn THEN pointer
                  ELSE [pointer EXCEPT ![tab[s].txn] = tab[s].ad]
    /\ UNCHANGED <<rows, ignored>>

Commits(s) ==
    /\ tab[s].pc = "commit"
    /\ SaveConfirmation(s)
    /\ Answer(s, "confirmed")
    /\ UNCHANGED <<crmVars, gate, faults, traced>>

\* Mutant: the failure after a CRM write is not logged.
CommitError_Silent(s) ==
    /\ Answer(s, IF tab[s].mode = "written"
                 THEN "postgres_commit_failed_after_crm_write"
                 ELSE "server_error")
    /\ UNCHANGED traced

\* An exception of db.commit: CRITICAL and a controlled 500 after a CRM
\* write, an unhandled 500 otherwise.
CommitError(s) ==
    IF tab[s].mode = "written"
    THEN /\ Answer(s, "postgres_commit_failed_after_crm_write")
         /\ traced' = traced \union {tab[s].ad}
    ELSE /\ Answer(s, "server_error")
         /\ UNCHANGED traced

\* Mutant: the error path releases the bank row.
CommitMeetsUnique_Releases(s) ==
    /\ tab[s].pc = "commit"
    /\ HasConf(tab[s].ad)
    /\ CommitError(s)
    /\ tab[s].txn # NoTxn
    /\ pointer' = [pointer EXCEPT ![tab[s].txn] = NoAd]
    /\ UNCHANGED <<crmVars, conf, rows, ignored, gate, faults>>

\* uq_ad_confirmations_ad_crm_id: another request confirmed the ad after
\* this one's idempotency check.
CommitMeetsUnique(s) ==
    /\ tab[s].pc = "commit"
    /\ HasConf(tab[s].ad)
    /\ CommitError(s)
    /\ UNCHANGED <<crmVars, pgVars, gate, faults>>

\* Mutant: the two tables are committed one after the other.
CommitFails_Between(s) ==
    /\ tab[s].pc = "commit"
    /\ Fault
    /\ tab[s].txn # NoTxn
    /\ pointer' = [pointer EXCEPT ![tab[s].txn] = tab[s].ad]
    /\ CommitError(s)
    /\ UNCHANGED <<crmVars, conf, rows, ignored, gate>>

\* Postgres fails: before the commit, or after it with the answer lost.
CommitFails(s) ==
    /\ tab[s].pc = "commit"
    /\ Fault
    /\ SaveConfirmation(s) \/ UNCHANGED pgVars
    /\ CommitError(s)
    /\ UNCHANGED <<crmVars, gate>>

\* gunicorn --timeout 60, an OOM kill, a reboot: the session is closed by
\* the server, which rolls back; the client gets no answer.
WorkerKilled(s) ==
    /\ tab[s].pc \in Serving
    /\ Fault
    /\ Answer(s, "no_answer")
    /\ traced' = traced \union {tab[s].ad}
    /\ UNCHANGED <<crmVars, pgVars, gate>>

-----------------------------------------------------------------------------
Staff == \E a \in Ads : \/ StaffMarksDone(a)
                       \/ StaffReopens(a)
                       \/ \E r \in CrmRows : StaffMovesRow(a, r)

Batch == (\E t \in Txns : Ingest(t)) \/ Backfill \/ Redeploy

User(s) ==
    \/ \E a \in Ads : OpenPopup(s, a)
    \/ \E t \in Txns \union {NoTxn} : Post(s, t)
    \/ Retry(s)
    \/ Leave(s)

Reads(s) == AlreadyConfirmed(s) \/ BeginCrmWrite(s) \/ SkipCrmWrite(s)

CrmCall(s) == CrmWrites(s) \/ CrmMatchesNoRow(s) \/ CrmFails(s)

CommitCall(s) == Commits(s) \/ CommitMeetsUnique(s) \/ CommitFails(s)

Worker(s) == Reads(s) \/ CrmCall(s) \/ CommitCall(s) \/ WorkerKilled(s)

Next == Staff \/ Batch \/ \E s \in Tabs : User(s) \/ Worker(s)

Spec == Init /\ [][Next]_vars

\* The accept queue of the socket is first in, first out, so a request that
\* keeps finding a free worker is taken; both store calls have timeouts, so
\* a served request ends; and the user follows the answer's "retry".
Fairness ==
    \A s \in Tabs : /\ SF_vars(Reads(s))
                    /\ WF_vars(CrmCall(s))
                    /\ WF_vars(CommitCall(s))
                    /\ WF_vars(Retry(s))

LiveSpec == Spec /\ Fairness
-----------------------------------------------------------------------------
(* Properties.                                                             *)

TabType == [pc : Pcs, ad : Ads \union {NoAd}, cands : SUBSET Txns,
            txn : Txns \union {NoTxn}, mode : Modes, reply : Replies]

TypeOK ==
    /\ crmRow \in [Ads -> CrmRows]
    /\ stat \in [Ads -> Stats]
    /\ trx \in [Ads -> Txns \union {NoTxn}]
    /\ reopened \subseteq Ads
    /\ conf \subseteq [ad : Ads, txn : Txns \union {NoTxn}, mode : Modes]
    /\ rows \subseteq Txns
    /\ pointer \in [Txns -> Ads \union {NoAd}]
    /\ ignored \subseteq Txns
    /\ gate \in BOOLEAN
    /\ tab \in [Tabs -> TabType]
    /\ faults \in 0 .. MaxFaults
    /\ traced \subseteq Ads

\* A bank row that points at an ad is backed by that ad's confirmation, and
\* that confirmation names this very row: whatever fails or interleaves, the
\* two Postgres tables never disagree in this direction, so a transaction
\* cannot leave the candidate queue without a confirmation that consumed it.
PointerBacked ==
    \A t \in Txns :
        pointer[t] # NoAd => \E r \in conf : r.ad = pointer[t] /\ r.txn = t

\* A confirmation answered as crm_write = "written" was preceded by the CRM
\* update that names a transaction and marks its ad Done (the write ordering
\* of confirm_ad), and only the staff can take the mark back.
WasWritten(a) == trx[a] # NoTxn /\ (stat[a] = "Done" \/ a \in reopened)
WrittenWasDone == \A r \in conf : r.mode = "written" => WasWritten(r.ad)

\* What a 200 said stays true: the ad has a confirmation with the transaction
\* that tab sent, whatever other tabs, retries and failures did meanwhile.
ConfirmedIsDurable ==
    \A s \in Tabs : tab[s].reply = "confirmed" =>
        \E r \in conf : r.ad = tab[s].ad /\ r.txn = tab[s].txn

\* The CRM row of ad a was written by this tool and Postgres does not hold
\* the confirmation that belongs to it.
Discrepancy(a) ==
    trx[a] # NoTxn /\ ~ \E r \in conf : r.ad = a /\ r.txn = trx[a]

\* Every disagreement between the two stores can be traced: the request that
\* wrote the CRM is still in flight, or an error log names the ad ("Log
\* CRITICAL with the written values so it can be reconciled"), or its worker
\* was killed.  None arises silently.
DiscrepancyTraced ==
    \A a \in Ads : Discrepancy(a) =>
        \/ a \in traced
        \/ \E s \in Tabs : /\ tab[s].pc = "commit" /\ tab[s].mode = "written"
                           /\ tab[s].ad = a /\ tab[s].txn = trx[a]

\* An ad in clearance that is in neither list of the user interface is there
\* for a known reason: confirmed without a CRM write, marked Done by the
\* staff, reopened by the staff after it was Done and confirmed (a new
\* confirm of it is answered 409), or a disagreement that DiscrepancyTraced
\* accounts for.
LimboExplained ==
    \A a \in Ads :
        (crmRow[a] = "listed" /\ a \notin Unconfirmed \union Reconciled) =>
            \/ \E r \in conf : r.ad = a /\ r.mode # "written"
            \/ stat[a] = "Done" /\ trx[a] = NoTxn
            \/ stat[a] = "Confirmed" /\ a \in reopened /\ HasConf(a)
            \/ Discrepancy(a)

\* The CONSUMED-EXCLUSION INVARIANT of get_candidates: once a transaction has
\* been consumed or ignored it never becomes a candidate again.
ConsumedNeverReturns ==
    [][\A t \in rows : t \notin Candidates => t \notin Candidates']_vars

\* POST /confirm implements the abstract promise: each ad is recorded at most
\* once, rows are never altered, and a "written" row follows an UPDATE of the
\* CRM row.  What the staff do in the CRM is a stutter of it.
Promise == INSTANCE Settlement WITH crm <- trx, record <- conf
SettlementSpec == Promise!Spec

\* Every request is answered or its connection is cut.
EveryRequestEnds ==
    \A s \in Tabs : tab[s].pc \in {"received"} \union Serving
                        ~> tab[s].pc = "answered"

\* "retry is idempotent/self-healing", as far as it holds: an ad the tool
\* marked Done without a local confirmation gets one in the end, of whatever
\* transaction, as long as the user retries and the CRM row is not purged.
OrphanHeals ==
    \A a \in Ads : (trx[a] # NoTxn /\ ~HasConf(a))
                        ~> (HasConf(a) \/ crmRow[a] = "purged")

-----------------------------------------------------------------------------
(* Statements of the source that the code does not keep.                   *)

\* "retry is idempotent/self-healing": when every request that was answered
\* with an error has been retried to a final answer, the CRM and Postgres
\* agree on every ad the tool wrote.
RetriesHeal ==
    (\A s \in Tabs : tab[s].pc = "answered" => tab[s].reply \notin Errors)
    /\ InFlight = {} /\ (\A s \in Tabs : tab[s].pc # "received")
        => \A a \in Ads : ~Discrepancy(a)

\* "Link transaction back to the ad via the logical pointer": the bank row a
\* confirmation references points back at that confirmation's ad.
ConfirmationPointedBack ==
    \A r \in conf : r.txn # NoTxn => pointer[r.txn] = r.ad
=============================================================================
