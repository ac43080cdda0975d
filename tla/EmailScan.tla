------------------------------ MODULE EmailScan ------------------------------
(***************************************************************************)
(* The ingest of BofA alert e-mails (confirmed_ctl/ingest/email_scan.py,   *)
(* run_email_scan) as several processes run it on one database: the daemon *)
(* every hour and an operator's `sync`, each in one Postgres transaction   *)
(* (READ COMMITTED) that ends with its SyncLog row; beside them the        *)
(* operator adds ignore patterns and backfills (ingest/ignore.py).         *)
(*                                                                         *)
(* An alert is numbered in the order it reaches the mailbox and yields the *)
(* transactions <<alert, block>>, which is also their source_txn_id.  The  *)
(* mailbox is only read, so listing and fetching are one step.             *)
(***************************************************************************)
EXTENDS Integers, FiniteSets

CONSTANTS Alerts,   \* the alerts, 1, 2, ... in order of arrival
          Blocks,   \* Blocks[a]: the blocks of a that parse to a transaction
          Saas,     \* the transactions an ignore pattern matches
          Poison,   \* transactions whose row Postgres refuses for another
                    \* reason than its key: total_amount beyond Numeric(10,2)
          Runs, Daemon,
          Lookback, \* Lookback[r]: days, as configured or passed
          MaxDay, MaxFaults   \* bounds

AlertTxns(a) == {<<a, i>> : i \in Blocks[a]}
Txns == UNION {AlertTxns(a) : a \in Alerts}

ASSUME ScanAssumption ==
    /\ Alerts \subseteq Nat
    /\ Blocks \in [Alerts -> SUBSET Nat]
    /\ IsFiniteSet(Txns)
    /\ Saas \subseteq Txns /\ Poison \subseteq Txns
    /\ Daemon \in Runs
    /\ Lookback \in [Runs -> Nat]
    /\ MaxDay \in Nat /\ MaxFaults \in Nat

VARIABLES
    day,       \* UTC date
    sent,      \* alert -> the day it reached the mailbox, or -1
    rows,      \* Postgres: keys of bank_transactions
    ignored,   \* Postgres: keys of the rows with ignored
    patternOn, \* Postgres: ignore_memo_patterns has the Saas pattern, active
    logged,    \* Postgres: the sum of txns_new over confirmed_ctl_sync_log
               \* (source 'email-scan': rep_scan.py logs there as 'rep-scan')
    last,      \* Postgres: the latest of these rows (GET /sync/status shows it
               \* as long as no rep-scan row is younger)
    run,       \* the runs of run_email_scan
    tried,     \* has the daemon finished a pass today?
    faults,    \* failures of Gmail, of Postgres and of the processes so far
    swept      \* history: the latest backfill met no run that had loaded its
               \* patterns before the Saas pattern was added ("quiet"), or did

vars == <<day, sent, rows, ignored, patternOn, logged, last, run, tried,
          faults, swept>>

\* load: the alerts are parsed; insert: the patterns are loaded; log: only
\* the SyncLog row and the commit are left.  tx: Postgres refuses every
\* statement of a transaction after one of them failed, until the rollback.
Idle == [pc |-> "idle", found |-> {}, todo |-> {}, own |-> {},
         pats |-> FALSE, tx |-> "open", error |-> FALSE]

NoLog == [run |-> Daemon, fetched |-> 0, new |-> 0, error |-> FALSE]

\* Mutant: the two counts are subtracted the wrong way round.
SyncLog_Swapped(r) == [run |-> r, fetched |-> Cardinality(run[r].found),
               new |-> Cardinality(run[r].own) - Cardinality(run[r].found),
               error |-> run[r].error]

\* The SyncLog row of run r as it stands: txns_updated is fetched - new.
SyncLog(r) == [run |-> r, fetched |-> Cardinality(run[r].found),
               new |-> Cardinality(run[r].own), error |-> run[r].error]

Init ==
    /\ day = 0
    /\ sent = [a \in Alerts |-> -1]
    /\ rows = {} /\ ignored = {} /\ patternOn = FALSE
    /\ logged = 0 /\ last = NoLog
    /\ run = [r \in Runs |-> Idle]
    /\ tried = FALSE
    /\ faults = 0
    /\ swept = "never"

Fault == faults < MaxFaults /\ faults' = faults + 1

-----------------------------------------------------------------------------
(* The bank, the clock and the operator.                                   *)

Arrive(a) ==
    /\ sent[a] = -1
    /\ \A b \in Alerts : b < a => sent[b] # -1
    /\ sent' = [sent EXCEPT ![a] = day]
    /\ UNCHANGED <<day, rows, ignored, patternOn, logged, last, run, tried,
                   faults, swept>>

\* SYNC_INTERVAL_SECONDS is an hour: the daemon tries every day.
NextDay ==
    /\ day < MaxDay
    /\ tried /\ run[Daemon].pc = "idle"
    /\ day' = day + 1
    /\ tried' = FALSE
    /\ UNCHANGED <<sent, rows, ignored, patternOn, logged, last, run, faults,
                   swept>>

\* ignore add / seed
AddPattern ==
    /\ ~patternOn
    /\ patternOn' = TRUE
    /\ UNCHANGED <<day, sent, rows, ignored, logged, last, run, tried, faults,
                   swept>>

Stale(r) == run[r].pc \in {"insert", "log"} /\ ~run[r].pats

\* ignore backfill: flags the matching rows that are committed.
Backfill ==
    /\ patternOn
    /\ ignored' = ignored \union (rows \intersect Saas)
    /\ swept' = IF \E r \in Runs : Stale(r) THEN "raced" ELSE "quiet"
    /\ UNCHANGED <<day, sent, rows, patternOn, logged, last, run, tried, faults>>

-----------------------------------------------------------------------------
(* run_email_scan.                                                         *)

Becomes(r, v) == run' = [run EXCEPT ![r] = v]

\* Mutant: the window starts a day late.
InWindow_Late(r, a) == sent[a] # -1 /\ sent[a] > day - Lookback[r]

\* build_query: after midnight UTC of today - lookback_days.
InWindow(r, a) == sent[a] # -1 /\ sent[a] >= day - Lookback[r]

Scan(r) ==
    /\ run[r].pc = "idle"
    /\ LET found == UNION {AlertTxns(a) : a \in {b \in Alerts : InWindow(r, b)}}
       IN  Becomes(r, [Idle EXCEPT !.pc = "load", !.found = found, !.todo = found])
    /\ UNCHANGED <<day, sent, rows, ignored, patternOn, logged, last, tried,
                   faults, swept>>

\* The token, the listing or one of the messages fails: nothing is kept.
ScanFails(r) ==
    /\ run[r].pc = "idle"
    /\ Fault
    /\ Becomes(r, [Idle EXCEPT !.pc = "log", !.error = TRUE])
    /\ UNCHANGED <<day, sent, rows, ignored, patternOn, logged, last, tried,
                   swept>>

LoadPatterns(r) ==
    /\ run[r].pc = "load"
    /\ Becomes(r, [run[r] EXCEPT !.pc = "insert", !.pats = patternOn])
    /\ UNCHANGED <<day, sent, rows, ignored, patternOn, logged, last, tried,
                   faults, swept>>

\* load_active_ignore_patterns swallows the exception and returns [], but
\* it does not roll back.
LoadFails(r) ==
    /\ run[r].pc = "load"
    /\ Fault
    /\ Becomes(r, [run[r] EXCEPT !.pc = "insert", !.tx = "load_failed"])
    /\ UNCHANGED <<day, sent, rows, ignored, patternOn, logged, last, tried,
                   swept>>

\* Newest alert first, as Gmail lists them, and its blocks in order.
Before(t, u) == t[1] > u[1] \/ (t[1] = u[1] /\ t[2] < u[2])

\* Mutant: the transactions are taken in the order they are hashed.
IsNext_Unordered(r, t) == t \in run[r].todo

IsNext(r, t) ==
    t \in run[r].todo /\ \A u \in run[r].todo \ {t} : Before(t, u)

\* Another transaction has inserted the key and has not ended: Postgres
\* makes the INSERT wait for its outcome.
Held(r, t) == \E q \in Runs \ {r} : t \in run[q].own

\* Already stored: the pre-check finds it, or the unique constraint does
\* when its run committed after the pre-check.
Skip(r, t) ==
    /\ run[r].pc = "insert" /\ run[r].tx = "open"
    /\ IsNext(r, t)
    /\ t \in rows
    /\ Becomes(r, [run[r] EXCEPT !.todo = @ \ {t}])
    /\ UNCHANGED <<day, sent, rows, ignored, patternOn, logged, last, tried,
                   faults, swept>>

\* Mutants: no unique constraint; a conflict with a row in flight is skipped;
\* each row is committed on its own.
Insert_NoConstraint(r, t) ==
    /\ run[r].pc = "insert" /\ run[r].tx = "open"
    /\ IsNext(r, t)
    /\ t \notin rows \union Poison
    /\ Becomes(r, [run[r] EXCEPT !.todo = @ \ {t}, !.own = @ \union {t}])
    /\ UNCHANGED <<day, sent, rows, ignored, patternOn, logged, last, tried,
                   faults, swept>>

Insert_SkipsHeld(r, t) ==
    /\ run[r].pc = "insert" /\ run[r].tx = "open"
    /\ IsNext(r, t)
    /\ t \notin rows \union Poison
    /\ Becomes(r, [run[r] EXCEPT !.todo = @ \ {t},
                     !.own = IF Held(r, t) THEN @ ELSE @ \union {t}])
    /\ UNCHANGED <<day, sent, rows, ignored, patternOn, logged, last, tried,
                   faults, swept>>

Insert_Autocommit(r, t) ==
    /\ run[r].pc = "insert" /\ run[r].tx = "open"
    /\ IsNext(r, t)
    /\ t \notin rows \union Poison /\ ~Held(r, t)
    /\ Becomes(r, [run[r] EXCEPT !.todo = @ \ {t}, !.own = @ \union {t}])
    /\ rows' = rows \union {t}
    /\ UNCHANGED <<day, sent, ignored, patternOn, logged, last, tried,
                   faults, swept>>

Insert(r, t) ==
    /\ run[r].pc = "insert" /\ run[r].tx = "open"
    /\ IsNext(r, t)
    /\ t \notin rows \union Poison /\ ~Held(r, t)
    /\ Becomes(r, [run[r] EXCEPT !.todo = @ \ {t}, !.own = @ \union {t}])
    /\ UNCHANGED <<day, sent, rows, ignored, patternOn, logged, last, tried,
                   faults, swept>>

\* A statement raises something else than IntegrityError: the savepoint is
\* left open, and run_email_scan goes on to its SyncLog row.
StatementFails(r) ==
    /\ run[r].pc = "insert" /\ run[r].todo # {}
    /\ \/ run[r].tx # "open" /\ UNCHANGED faults
       \/ (\E t \in Poison \ rows : IsNext(r, t)) /\ UNCHANGED faults
       \/ Fault
    /\ Becomes(r, [run[r] EXCEPT !.pc = "log", !.error = TRUE,
                     !.tx = IF @ = "open" THEN "failed" ELSE @])
    /\ UNCHANGED <<day, sent, rows, ignored, patternOn, logged, last, tried,
                   swept>>

AllInserted(r) ==
    /\ run[r].pc = "insert" /\ run[r].todo = {}
    /\ Becomes(r, [run[r] EXCEPT !.pc = "log"])
    /\ UNCHANGED <<day, sent, rows, ignored, patternOn, logged, last, tried,
                   faults, swept>>
-----------------------------------------------------------------------------
(* The end of a run.                                                       *)

\* Mutant: the flags are lost.
Durable_NoFlags(r) ==
    /\ rows' = rows \union run[r].own
    /\ ignored' = ignored
    /\ logged' = logged + Cardinality(run[r].own)
    /\ last' = SyncLog(r)

\* What the commit makes durable together.
Durable(r) ==
    /\ rows' = rows \union run[r].own
    /\ ignored' = ignored \union
                    (IF run[r].pats THEN run[r].own \intersect Saas ELSE {})
    /\ logged' = logged + Cardinality(run[r].own)
    /\ last' = SyncLog(r)

\* The pass is over; the daemon logs an exception and sleeps.
Ends(r) ==
    /\ Becomes(r, Idle)
    /\ tried' = (tried \/ r = Daemon)
    /\ UNCHANGED <<day, sent, patternOn, swept>>

Finish(r) ==
    /\ run[r].pc = "log" /\ run[r].tx = "open"
    /\ Durable(r)
    /\ Ends(r)
    /\ UNCHANGED faults

\* A failed transaction (PendingRollbackError, InFailedSqlTransaction), or a
\* failure of the commit itself, possibly after it was performed: get_db
\* rolls back and the exception leaves run_email_scan.
CommitFails(r) ==
    /\ run[r].pc = "log"
    /\ \/ /\ run[r].tx # "open"
          /\ UNCHANGED <<rows, ignored, logged, last, faults>>
       \/ /\ run[r].tx = "open" /\ Fault
          /\ Durable(r) \/ UNCHANGED <<rows, ignored, logged, last>>
    /\ Ends(r)

\* The process dies; its connection closes and the transaction with it.
Killed(r) ==
    /\ run[r].pc # "idle"
    /\ Fault
    /\ Ends(r)
    /\ UNCHANGED <<rows, ignored, logged, last>>

-----------------------------------------------------------------------------
Pass(r) ==
    \/ LoadPatterns(r)
    \/ \E t \in Txns : Skip(r, t) \/ Insert(r, t)
    \/ StatementFails(r)
    \/ AllInserted(r)
    \/ Finish(r)
    \/ CommitFails(r)

Next ==
    \/ \E a \in Alerts : Arrive(a)
    \/ NextDay
    \/ AddPattern
    \/ Backfill
    \/ \E r \in Runs : Scan(r) \/ ScanFails(r) \/ LoadFails(r) \/ Pass(r)
                         \/ Killed(r)

Spec == Init /\ [][Next]_vars

\* Statements return and the daemon wakes up; the operator owes nothing.
\* An INSERT that waits is granted in turn.
Fairness == (\A r \in Runs : SF_vars(Pass(r))) /\ WF_vars(Scan(Daemon))

LiveSpec == Spec /\ Fairness
-----------------------------------------------------------------------------
(* Properties.                                                             *)

RunType == [pc : {"idle", "load", "insert", "log"}, found : SUBSET Txns,
            todo : SUBSET Txns, own : SUBSET Txns, pats : BOOLEAN,
            tx : {"open", "load_failed", "failed"}, error : BOOLEAN]

LogType == [run : Runs, fetched : Nat, new : Nat, error : BOOLEAN]

TypeOK ==
    /\ day \in 0 .. MaxDay
    /\ sent \in [Alerts -> -1 .. MaxDay]
    /\ rows \subseteq Txns /\ ignored \subseteq rows /\ patternOn \in BOOLEAN
    /\ logged \in Nat /\ last \in LogType
    /\ run \in [Runs -> RunType]
    /\ tried \in BOOLEAN
    /\ faults \in 0 .. MaxFaults
    /\ swept \in {"never", "quiet", "raced"}

\* uq_bank_transactions_source_txn: no transaction is stored twice, by two
\* runs at once or by a run that did not see the row of another.
StoredOnce ==
    \A r \in Runs : /\ run[r].own \intersect rows = {}
                    /\ \A q \in Runs \ {r} : run[r].own \intersect run[q].own = {}

\* The sync log adds up to the table: every row is counted in the txns_new of
\* exactly one SyncLog row, whatever runs overlapped or failed.
LogsAccountForRows == logged = Cardinality(rows)

\* A pass that logs success has stored everything it found: what it skipped
\* was really there, not in a transaction that was rolled back later.
SuccessMeansStored ==
    [][\A r \in Runs :
          (/\ run[r].pc = "log" /\ run'[r].pc = "idle"
           /\ last' = SyncLog(r) /\ ~run[r].error /\ faults' = faults)
             => run[r].found \subseteq rows']_vars

\* Read committed, the table and the sync log are the ledger of Ledger.tla: a
\* batched mail is never half stored, by overlapping or failing passes.
Book == INSTANCE Ledger
          WITH TxnsOf <- [a \in Alerts |-> AlertTxns(a)],
               mailbox <- {a \in Alerts : sent[a] # -1},
               table <- rows, flagged <- ignored, counted <- logged
LedgerSpec == Book!Spec

\* Pass r waits for the uncommitted row of pass q.
Waits(r, q) ==
    /\ run[r].pc = "insert" /\ run[r].tx = "open"
    /\ \E t \in run[q].own : IsNext(r, t) /\ t \notin rows

\* Passes never wait for each other in a circle, whatever its length: of any
\* passes there is one that waits for none of the others.
NoWaitCycle ==
    \A C \in (SUBSET Runs) \ {{}} : \E r \in C : \A q \in C : ~Waits(r, q)

\* A backfill that met no pass with old patterns settles the matter: every
\* matching row is flagged then, and every one stored later.
QuietBackfillHolds == swept = "quiet" => rows \intersect Saas \subseteq ignored

\* An alert leaves the daemon's window only after its transactions are
\* stored, if fewer passes fail than the window has days.
AgedOutIsStored ==
    \A a \in Alerts :
        sent[a] # -1 /\ ~InWindow(Daemon, a) => AlertTxns(a) \subseteq rows

\* Every pass ends.
PassEnds == \A r \in Runs : run[r].pc # "idle" ~> run[r].pc = "idle"

\* Every alert is ingested, if fewer passes fail than the window has days.
AlertIsStored ==
    \A a \in Alerts : sent[a] # -1 ~> AlertTxns(a) \subseteq rows

-----------------------------------------------------------------------------
(* Statements of the source that the code does not keep.                   *)

\* "logging every run to confirmed_ctl_sync_log": a pass that ends by itself
\* leaves its row there.
EveryRunLogged ==
    [][\A r \in Runs :
          (run[r].pc = "log" /\ run'[r].pc = "idle" /\ faults' = faults)
             => last' = SyncLog(r)]_vars
=============================================================================
