--------------------------- MODULE EmailScanProofs ---------------------------
(***************************************************************************)
(* Proofs about EmailScan, for any number of alerts, blocks, overlapping   *)
(* passes and failures.                                                    *)
(*                                                                         *)
(* The inductive invariant adds to the properties what a pass in progress  *)
(* has done: PassInv relates the found, pending and inserted transactions  *)
(* of one pass (what is no longer pending is stored or its own, and comes  *)
(* before what is pending), and PatternInv says which passes can still     *)
(* store an unflagged row after a quiet backfill.                          *)
(***************************************************************************)
EXTENDS EmailScan, WellFoundedInduction, FiniteSetTheorems, TLAPS

PassOK(r) ==
    /\ run[r].own \subseteq run[r].found \ run[r].todo
    /\ run[r].found \ run[r].todo \subseteq rows \union run[r].own
    /\ \A t \in run[r].found \ run[r].todo, u \in run[r].todo : Before(t, u)
    /\ run[r].todo \subseteq run[r].found
    /\ run[r].pc \in {"idle", "load"} => run[r].own = {} /\ run[r].tx = "open"
    /\ run[r].pc # "log" => ~run[r].error /\ run[r].tx # "failed"
    /\ run[r].pc = "load" => run[r].todo = run[r].found
    /\ run[r].tx = "load_failed" =>
          run[r].own = {} /\ run[r].todo = run[r].found
    /\ run[r].pc = "log" => run[r].todo = {} \/ run[r].error
    /\ run[r].pc = "log" /\ run[r].tx = "failed" => run[r].error

PassInv == \A r \in Runs : PassOK(r)

\* A pass that can still store a row of its own knows the pattern.
PatternInv ==
    swept = "quiet" =>
       /\ patternOn
       /\ \A r \in Runs : run[r].pc \in {"insert", "log"} =>
             \/ run[r].pats
             \/ run[r].tx # "open"
             \/ run[r].pc = "log" /\ run[r].own = {}

IInv == TypeOK /\ StoredOnce /\ LogsAccountForRows /\ PassInv /\ PatternInv
          /\ QuietBackfillHolds

-----------------------------------------------------------------------------
(* Facts about the data.                                                   *)

LEMMA TxnFields ==
    ASSUME NEW t \in Txns
    PROVE  t[1] \in Nat /\ t[2] \in Nat
<1>1. PICK a \in Alerts : t \in AlertTxns(a)
  BY DEF Txns
<1>2. PICK i \in Blocks[a] : t = <<a, i>>
  BY <1>1 DEF AlertTxns
<1> QED
  BY <1>2, ScanAssumption

\* Before is asymmetric.
LEMMA BeforeAsym ==
    ASSUME NEW t \in Txns, NEW u \in Txns, Before(t, u), Before(u, t)
    PROVE  FALSE
<1>1. t[1] \in Nat /\ t[2] \in Nat /\ u[1] \in Nat /\ u[2] \in Nat
  BY TxnFields
<1> QED
  BY <1>1 DEF Before

LEMMA SubsetFinite ==
    ASSUME NEW S, S \subseteq Txns
    PROVE  IsFiniteSet(S) /\ Cardinality(S) \in Nat
<1>1. IsFiniteSet(S)
  BY ScanAssumption, FS_Subset
<1> QED
  BY <1>1, FS_CardinalityType

LEMMA FoundInTxns ==
    ASSUME NEW A, A \subseteq Alerts
    PROVE  UNION {AlertTxns(a) : a \in A} \subseteq Txns
BY DEF Txns

LEMMA IdleType == Idle \in RunType
BY DEF Idle, RunType

\* One pass changes: the others keep their records.
LEMMA PassUpdate ==
    ASSUME NEW r \in Runs, NEW v, run \in [Runs -> RunType], v \in RunType,
           Becomes(r, v)
    PROVE  /\ run' \in [Runs -> RunType]
           /\ run'[r] = v
           /\ \A q \in Runs \ {r} : run'[q] = run[q]
BY DEF Becomes

-----------------------------------------------------------------------------
THEOREM InitIInv == Init => IInv
<1> SUFFICES ASSUME Init PROVE IInv
  OBVIOUS
<1> USE ScanAssumption DEF Init
<1>1. \A r \in Runs : run[r] = Idle
  OBVIOUS
<1>2. NoLog \in LogType
  BY DEF NoLog, LogType
<1>3. TypeOK
  <2>1. run \in [Runs -> RunType] /\ sent \in [Alerts -> -1 .. MaxDay]
    BY IdleType
  <2>2. patternOn \in BOOLEAN /\ tried \in BOOLEAN
    OBVIOUS
  <2>3. day \in 0 .. MaxDay /\ faults \in 0 .. MaxFaults /\ logged \in Nat
    OBVIOUS
  <2>4. rows \subseteq Txns /\ ignored \subseteq rows
    OBVIOUS
  <2> QED
    BY <1>2, <2>1, <2>2, <2>3, <2>4 DEF TypeOK
<1>4. StoredOnce
  BY <1>1 DEF StoredOnce, Idle
<1>5. LogsAccountForRows
  BY FS_EmptySet DEF LogsAccountForRows
<1>6. PassInv
  BY <1>1 DEF PassInv, PassOK, Idle
<1>7. PatternInv /\ QuietBackfillHolds
  BY DEF PatternInv, QuietBackfillHolds
<1> QED
  BY <1>3, <1>4, <1>5, <1>6, <1>7 DEF IInv

\* The operator, the bank and the clock touch no pass.
LEMMA OutsideIInv ==
    ASSUME IInv, (\E a \in Alerts : Arrive(a)) \/ NextDay \/ AddPattern \/ Backfill
    PROVE  IInv'
<1>1. run' = run /\ rows' = rows /\ logged' = logged
  BY DEF Arrive, NextDay, AddPattern, Backfill
<1>2. PassInv' /\ StoredOnce' /\ LogsAccountForRows'
  BY <1>1 DEF IInv, PassInv, PassOK, StoredOnce, LogsAccountForRows
<1>3. TypeOK' /\ PatternInv' /\ QuietBackfillHolds'
  <2> USE ScanAssumption
  <2>1. CASE \E a \in Alerts : Arrive(a)
    <3>1. sent' \in [Alerts -> -1 .. MaxDay]
      BY <2>1 DEF IInv, TypeOK, Arrive
    <3> QED
      BY <2>1, <3>1 DEF IInv, TypeOK, PatternInv, QuietBackfillHolds, Arrive
  <2>2. CASE NextDay
    <3>1. day' \in 0 .. MaxDay
      BY <2>2 DEF IInv, TypeOK, NextDay
    <3> QED
      BY <2>2, <3>1 DEF IInv, TypeOK, PatternInv, QuietBackfillHolds, NextDay
  <2>3. CASE AddPattern
    BY <2>3 DEF IInv, TypeOK, PatternInv, QuietBackfillHolds, AddPattern
  <2>4. CASE Backfill
    BY <2>4 DEF IInv, TypeOK, PatternInv, QuietBackfillHolds, Backfill, Stale
  <2> QED
    BY <2>1, <2>2, <2>3, <2>4
<1> QED
  BY <1>2, <1>3 DEF IInv

-----------------------------------------------------------------------------
(* The steps of a pass before its end: run' = [run EXCEPT ![r] = v].       *)

\* A step that changes the record of one pass to one that is as good, takes
\* no row another pass holds, and commits nothing, keeps the invariant.
LEMMA StepIInv ==
    ASSUME IInv, NEW r \in Runs, NEW v \in RunType, Becomes(r, v),
           UNCHANGED <<day, sent, rows, ignored, patternOn, logged, last, tried,
                       swept>>,
           faults' \in 0 .. MaxFaults,
           PassOK(r)',
           \A q \in Runs \ {r} : v.own \intersect run[q].own = {},
           v.own \intersect rows = {},
           swept = "quiet" /\ v.pc \in {"insert", "log"} =>
               v.pats \/ v.tx # "open" \/ (v.pc = "log" /\ v.own = {})
    PROVE  IInv'
<1>1. /\ run' \in [Runs -> RunType]
      /\ run'[r] = v
      /\ \A q \in Runs \ {r} : run'[q] = run[q]
  BY PassUpdate DEF IInv, TypeOK
<1>2. TypeOK'
  BY <1>1 DEF IInv, TypeOK
<1>3. StoredOnce'
  BY <1>1 DEF IInv, StoredOnce
<1>4. PassInv'
  BY <1>1 DEF IInv, PassInv, PassOK
<1>5. PatternInv' /\ QuietBackfillHolds' /\ LogsAccountForRows'
  BY <1>1 DEF IInv, PatternInv, QuietBackfillHolds, LogsAccountForRows
<1> QED
  BY <1>2, <1>3, <1>4, <1>5 DEF IInv

\* A failure is counted within its bound.
LEMMA FaultBound ==
    ASSUME TypeOK, Fault \/ UNCHANGED faults
    PROVE  faults' \in 0 .. MaxFaults
BY ScanAssumption DEF TypeOK, Fault

\* What the invariant says of one pass.
LEMMA OfPass ==
    ASSUME IInv, NEW r \in Runs
    PROVE  /\ run[r] \in RunType
           /\ PassOK(r)
           /\ run[r].own \intersect rows = {}
           /\ \A q \in Runs \ {r} : run[r].own \intersect run[q].own = {}
           /\ swept = "quiet" /\ run[r].pc \in {"insert", "log"} =>
                 run[r].pats \/ run[r].tx # "open"
                   \/ (run[r].pc = "log" /\ run[r].own = {})
           /\ swept = "quiet" => patternOn
BY DEF IInv, TypeOK, PassInv, StoredOnce, PatternInv

LEMMA ScanIInv ==
    ASSUME IInv, NEW r \in Runs, Scan(r) \/ ScanFails(r)
    PROVE  IInv'
<1> DEFINE found == UNION {AlertTxns(a) : a \in {b \in Alerts : InWindow(r, b)}}
           v == [Idle EXCEPT !.pc = "load", !.found = found, !.todo = found]
           w == [Idle EXCEPT !.pc = "log", !.error = TRUE]
<1>1. found \subseteq Txns
  BY FoundInTxns
<1>2. v \in RunType /\ w \in RunType
  BY <1>1 DEF Idle, RunType
<1>3. faults' \in 0 .. MaxFaults
  BY FaultBound DEF IInv, Scan, ScanFails
<1>4. CASE Scan(r)
  <2>1. Becomes(r, v)
    BY <1>4 DEF Scan
  <2> HIDE DEF v
  <2>2. run'[r] = v
    BY <1>2, <2>1, PassUpdate DEF IInv, TypeOK
  <2>3. PassOK(r)'
    BY <2>2 DEF v, PassOK, Idle
  <2>4. v.own = {} /\ v.pc = "load"
    BY DEF v, Idle
  <2> QED
    BY <1>2, <1>3, <1>4, <2>1, <2>3, <2>4, StepIInv DEF Scan
<1>5. CASE ScanFails(r)
  <2>1. Becomes(r, w)
    BY <1>5 DEF ScanFails
  <2> HIDE DEF w
  <2>2. run'[r] = w
    BY <1>2, <2>1, PassUpdate DEF IInv, TypeOK
  <2>3. PassOK(r)'
    BY <2>2 DEF w, PassOK, Idle
  <2>4. w.own = {} /\ w.pc = "log"
    BY DEF w, Idle
  <2> QED
    BY <1>2, <1>3, <1>5, <2>1, <2>3, <2>4, StepIInv DEF ScanFails
<1> QED
  BY <1>4, <1>5

LEMMA LoadIInv ==
    ASSUME IInv, NEW r \in Runs, LoadPatterns(r) \/ LoadFails(r)
    PROVE  IInv'
<1> DEFINE v == [run[r] EXCEPT !.pc = "insert", !.pats = patternOn]
           w == [run[r] EXCEPT !.pc = "insert", !.tx = "load_failed"]
<1>1. run[r] \in RunType /\ PassOK(r) /\ run[r].pc = "load"
  BY OfPass DEF LoadPatterns, LoadFails
<1>2. run[r].own = {} /\ run[r].tx = "open" /\ run[r].todo = run[r].found
      /\ ~run[r].error
  BY <1>1 DEF PassOK
<1>3. v \in RunType /\ w \in RunType
  BY <1>1 DEF RunType, IInv, TypeOK
<1>4. faults' \in 0 .. MaxFaults
  BY FaultBound DEF IInv, LoadPatterns, LoadFails
<1>5. CASE LoadPatterns(r)
  <2>1. Becomes(r, v) /\ rows' = rows
    BY <1>5 DEF LoadPatterns
  <2>2. /\ v.own = {} /\ v.todo = v.found /\ v.tx = "open" /\ v.pc = "insert"
        /\ v.pats = patternOn /\ v.error = run[r].error
    BY <1>1, <1>2 DEF RunType
  <2> HIDE DEF v
  <2>3. run'[r] = v
    BY <1>3, <2>1, PassUpdate DEF IInv, TypeOK
  <2>4. PassOK(r)'
    BY <1>2, <2>2, <2>3 DEF PassOK
  <2>5. swept = "quiet" => v.pats
    BY <2>2, OfPass
  <2> QED
    BY <1>3, <1>4, <1>5, <2>1, <2>2, <2>4, <2>5, StepIInv DEF LoadPatterns
<1>6. CASE LoadFails(r)
  <2>1. Becomes(r, w) /\ rows' = rows
    BY <1>6 DEF LoadFails
  <2>2. /\ w.own = {} /\ w.todo = w.found /\ w.tx = "load_failed"
        /\ w.pc = "insert" /\ w.error = run[r].error
    BY <1>1, <1>2 DEF RunType
  <2> HIDE DEF w
  <2>3. run'[r] = w
    BY <1>3, <2>1, PassUpdate DEF IInv, TypeOK
  <2>4. PassOK(r)'
    BY <1>2, <2>2, <2>3 DEF PassOK
  <2> QED
    BY <1>3, <1>4, <1>6, <2>1, <2>2, <2>4, StepIInv DEF LoadFails
<1> QED
  BY <1>5, <1>6

\* A transaction taken from the pending ones comes before the others, and the
\* ones taken earlier come before it.
LEMMA TakeIInv ==
    ASSUME IInv, NEW r \in Runs, NEW t \in Txns, Skip(r, t) \/ Insert(r, t)
    PROVE  IInv'
<1> DEFINE v == [run[r] EXCEPT !.todo = @ \ {t}]
           w == [run[r] EXCEPT !.todo = @ \ {t}, !.own = @ \union {t}]
<1>1. /\ run[r] \in RunType /\ PassOK(r)
      /\ run[r].pc = "insert" /\ run[r].tx = "open"
      /\ t \in run[r].todo
      /\ \A u \in run[r].todo \ {t} : Before(t, u)
  BY OfPass DEF Skip, Insert, IsNext
<1>2. v \in RunType /\ w \in RunType
  BY <1>1 DEF RunType
<1>3. faults' \in 0 .. MaxFaults
  BY FaultBound DEF IInv, Skip, Insert
<1>4. \A a \in run[r].found \ (run[r].todo \ {t}), b \in run[r].todo \ {t} :
          Before(a, b)
  BY <1>1 DEF PassOK
<1>5. CASE Skip(r, t)
  <2>1. Becomes(r, v) /\ rows' = rows /\ t \in rows
    BY <1>5 DEF Skip
  <2>2. /\ v.own = run[r].own /\ v.todo = run[r].todo \ {t}
        /\ v.found = run[r].found /\ v.tx = "open" /\ v.pc = "insert"
        /\ v.pats = run[r].pats /\ v.error = run[r].error
    BY <1>1 DEF RunType
  <2> HIDE DEF v
  <2>3. run'[r] = v
    BY <1>2, <2>1, PassUpdate DEF IInv, TypeOK
  <2>4. PassOK(r)'
    BY <1>1, <1>4, <2>1, <2>2, <2>3 DEF PassOK
  <2>5. /\ v.own \intersect rows = {}
        /\ \A q \in Runs \ {r} : v.own \intersect run[q].own = {}
        /\ swept = "quiet" => v.pats
    BY <1>1, <2>2, OfPass
  <2> QED
    BY <1>2, <1>3, <1>5, <2>1, <2>2, <2>4, <2>5, StepIInv DEF Skip
<1>6. CASE Insert(r, t)
  <2>1. Becomes(r, w) /\ rows' = rows /\ t \notin rows /\ ~Held(r, t)
    BY <1>6 DEF Insert
  <2>2. /\ w.own = run[r].own \union {t} /\ w.todo = run[r].todo \ {t}
        /\ w.found = run[r].found /\ w.tx = "open" /\ w.pc = "insert"
        /\ w.pats = run[r].pats /\ w.error = run[r].error
    BY <1>1 DEF RunType
  <2> HIDE DEF w
  <2>3. run'[r] = w
    BY <1>2, <2>1, PassUpdate DEF IInv, TypeOK
  <2>4. PassOK(r)'
    BY <1>1, <1>4, <2>1, <2>2, <2>3 DEF PassOK
  <2>5. /\ w.own \intersect rows = {}
        /\ swept = "quiet" => w.pats
    BY <1>1, <2>1, <2>2, OfPass
  <2>6. \A q \in Runs \ {r} : w.own \intersect run[q].own = {}
    BY <2>1, <2>2, OfPass DEF Held
  <2> QED
    BY <1>2, <1>3, <1>6, <2>1, <2>2, <2>4, <2>5, <2>6, StepIInv DEF Insert
<1> QED
  BY <1>5, <1>6

LEMMA ToLogIInv ==
    ASSUME IInv, NEW r \in Runs, StatementFails(r) \/ AllInserted(r)
    PROVE  IInv'
<1> DEFINE v == [run[r] EXCEPT !.pc = "log"]
           w == [run[r] EXCEPT !.pc = "log", !.error = TRUE,
                     !.tx = IF @ = "open" THEN "failed" ELSE @]
<1>1. run[r] \in RunType /\ PassOK(r) /\ run[r].pc = "insert"
  BY OfPass DEF StatementFails, AllInserted
<1>2. v \in RunType /\ w \in RunType
  BY <1>1 DEF RunType
<1>3. faults' \in 0 .. MaxFaults
  BY FaultBound DEF IInv, StatementFails, AllInserted
<1>4. /\ run[r].own \intersect rows = {}
      /\ \A q \in Runs \ {r} : run[r].own \intersect run[q].own = {}
  BY OfPass
<1>5. CASE AllInserted(r)
  <2>1. Becomes(r, v) /\ rows' = rows /\ run[r].todo = {}
    BY <1>5 DEF AllInserted
  <2>2. /\ v.own = run[r].own /\ v.todo = {} /\ v.found = run[r].found
        /\ v.tx = run[r].tx /\ v.pc = "log" /\ v.pats = run[r].pats
    BY <1>1, <2>1 DEF RunType
  <2>3. swept = "quiet" => v.pats \/ v.tx # "open"
    BY <1>1, <2>2, OfPass
  <2>4. run[r].tx # "failed"
    BY <1>1 DEF PassOK
  <2> HIDE DEF v
  <2>5. run'[r] = v
    BY <1>2, <2>1, PassUpdate DEF IInv, TypeOK
  <2>6. PassOK(r)'
    BY <1>1, <2>1, <2>2, <2>4, <2>5 DEF PassOK
  <2> QED
    BY <1>2, <1>3, <1>4, <1>5, <2>1, <2>2, <2>3, <2>6, StepIInv DEF AllInserted
<1>6. CASE StatementFails(r)
  <2>1. Becomes(r, w) /\ rows' = rows
    BY <1>6 DEF StatementFails
  <2>2. /\ w.own = run[r].own /\ w.todo = run[r].todo
        /\ w.found = run[r].found /\ w.pc = "log" /\ w.error
        /\ w.tx # "open"
        /\ w.tx = "load_failed" => run[r].tx = "load_failed"
    BY <1>1 DEF RunType
  <2> HIDE DEF w
  <2>3. run'[r] = w
    BY <1>2, <2>1, PassUpdate DEF IInv, TypeOK
  <2>4. PassOK(r)'
    BY <1>1, <2>1, <2>2, <2>3 DEF PassOK
  <2> QED
    BY <1>2, <1>3, <1>4, <1>6, <2>1, <2>2, <2>4, StepIInv DEF StatementFails
<1> QED
  BY <1>5, <1>6

-----------------------------------------------------------------------------
(* The end of a pass.                                                      *)

\* A commit: the counts add up because no other pass, and not the table,
\* holds a row of this one.
LEMMA DurableEffect ==
    ASSUME IInv, NEW r \in Runs, run[r].tx = "open", run[r].pc = "log",
           Durable(r)
    PROVE  /\ rows' = rows \union run[r].own /\ rows' \subseteq Txns
           /\ ignored' \subseteq rows'
           /\ logged' \in Nat /\ logged' = Cardinality(rows')
           /\ last' \in LogType
           /\ swept = "quiet" => rows' \intersect Saas \subseteq ignored'
<1>1. run[r] \in RunType /\ run[r].own \intersect rows = {}
  BY OfPass
<1>2. /\ run[r].own \subseteq Txns /\ run[r].found \subseteq Txns
      /\ rows \subseteq Txns /\ ignored \subseteq rows
      /\ run[r].error \in BOOLEAN
  BY <1>1 DEF RunType, IInv, TypeOK
<1>3. /\ IsFiniteSet(rows) /\ IsFiniteSet(run[r].own)
      /\ Cardinality(rows) \in Nat /\ Cardinality(run[r].own) \in Nat
      /\ Cardinality(run[r].found) \in Nat
  BY <1>2, SubsetFinite
<1>4. rows' = rows \union run[r].own /\ rows' \subseteq Txns
      /\ ignored' \subseteq rows'
  BY <1>2 DEF Durable
<1>5. logged' \in Nat /\ logged' = Cardinality(rows')
  <2>1. rows \intersect run[r].own = {}
    BY <1>1
  <2>2. Cardinality(rows \union run[r].own)
          = Cardinality(rows) + Cardinality(run[r].own)
              - Cardinality(rows \intersect run[r].own)
    BY <1>3, FS_Union
  <2>3. Cardinality(rows \union run[r].own)
          = Cardinality(rows) + Cardinality(run[r].own)
    <3>1. Cardinality(rows \intersect run[r].own) = 0
      BY <2>1, FS_EmptySet
    <3> QED
      BY <1>3, <2>2, <3>1
  <2>4. logged = Cardinality(rows)
    BY DEF IInv, LogsAccountForRows
  <2>5. logged' = Cardinality(rows) + Cardinality(run[r].own)
    BY <2>4 DEF Durable
  <2>6. logged' = Cardinality(rows')
    BY <1>4, <2>3, <2>5
  <2> QED
    BY <1>3, <2>5, <2>6
<1>6. last' \in LogType
  BY <1>2, <1>3 DEF Durable, SyncLog, LogType
<1>7. swept = "quiet" => rows' \intersect Saas \subseteq ignored'
  <2>1. swept = "quiet" => run[r].pats \/ run[r].own = {}
    BY OfPass
  <2>2. swept = "quiet" => rows \intersect Saas \subseteq ignored
    BY DEF IInv, QuietBackfillHolds
  <2> QED
    BY <2>1, <2>2 DEF Durable
<1> QED
  BY <1>4, <1>5, <1>6, <1>7

\* Whether or not its rows become durable, the pass is idle afterwards.
LEMMA EndsIInv ==
    ASSUME IInv, NEW r \in Runs, Finish(r) \/ CommitFails(r) \/ Killed(r)
    PROVE  IInv'
<1>1. Ends(r) /\ faults' \in 0 .. MaxFaults
  BY FaultBound DEF IInv, Finish, CommitFails, Killed
<1>2. \/ run[r].tx = "open" /\ run[r].pc = "log" /\ Durable(r)
      \/ UNCHANGED <<rows, ignored, logged, last>>
  BY DEF Finish, CommitFails, Killed
<1>3. /\ rows \subseteq rows' /\ rows' \subseteq rows \union run[r].own
      /\ rows' \subseteq Txns /\ ignored' \subseteq rows'
      /\ logged' \in Nat /\ logged' = Cardinality(rows') /\ last' \in LogType
      /\ swept = "quiet" => rows' \intersect Saas \subseteq ignored'
  <2>1. CASE run[r].tx = "open" /\ run[r].pc = "log" /\ Durable(r)
    BY <2>1, DurableEffect
  <2>2. CASE UNCHANGED <<rows, ignored, logged, last>>
    BY <2>2 DEF IInv, TypeOK, LogsAccountForRows, QuietBackfillHolds
  <2> QED
    BY <1>2, <2>1, <2>2
<1>4. /\ run' \in [Runs -> RunType]
      /\ run'[r] = Idle
      /\ \A q \in Runs \ {r} : run'[q] = run[q]
  BY <1>1, IdleType, PassUpdate DEF Ends, IInv, TypeOK
<1>5. TypeOK'
  <2>1. tried' \in BOOLEAN
    BY <1>1 DEF Ends, IInv, TypeOK
  <2> QED
    BY <1>1, <1>3, <1>4, <2>1 DEF Ends, IInv, TypeOK
<1>6. StoredOnce'
  BY <1>3, <1>4 DEF IInv, StoredOnce, Idle
<1>7. PassInv'
  <2> SUFFICES ASSUME NEW q \in Runs PROVE PassOK(q)'
    BY DEF PassInv
  <2>1. CASE q = r
    BY <1>4, <2>1 DEF PassOK, Idle
  <2>2. CASE q # r
    BY <1>3, <1>4, <2>2 DEF IInv, PassInv, PassOK
  <2> QED
    BY <2>1, <2>2
<1>8. PatternInv'
  BY <1>1, <1>4 DEF IInv, PatternInv, Ends, Idle
<1>9. LogsAccountForRows' /\ QuietBackfillHolds'
  BY <1>1, <1>3 DEF LogsAccountForRows, QuietBackfillHolds, Ends
<1> QED
  BY <1>5, <1>6, <1>7, <1>8, <1>9 DEF IInv

LEMMA NextIInv == IInv /\ [Next]_vars => IInv'
<1> SUFFICES ASSUME IInv, [Next]_vars PROVE IInv'
  OBVIOUS
<1>1. CASE (\E a \in Alerts : Arrive(a)) \/ NextDay \/ AddPattern \/ Backfill
  BY <1>1, OutsideIInv
<1>2. ASSUME NEW r \in Runs,
             Scan(r) \/ ScanFails(r) \/ LoadFails(r) \/ Pass(r) \/ Killed(r)
      PROVE  IInv'
  BY <1>2, ScanIInv, LoadIInv, TakeIInv, ToLogIInv, EndsIInv DEF Pass
<1>3. CASE UNCHANGED vars
  BY <1>3 DEF vars, IInv, TypeOK, StoredOnce, LogsAccountForRows, PassInv,
              PassOK, PatternInv, QuietBackfillHolds
<1> QED
  BY <1>1, <1>2, <1>3 DEF Next

LEMMA InductiveInvariant == Spec => []IInv
BY InitIInv, NextIInv, PTL DEF Spec

-----------------------------------------------------------------------------
(* The properties.                                                         *)

\* Type correctness (rows of bank_transactions, SyncLog rows, passes).
THEOREM TypeCorrect == Spec => []TypeOK
<1>1. IInv => TypeOK
  BY DEF IInv
<1> QED
  BY <1>1, InductiveInvariant, PTL

\* uq_bank_transactions_source_txn holds against overlapping passes.
THEOREM AlwaysStoredOnce == Spec => []StoredOnce
<1>1. IInv => StoredOnce
  BY DEF IInv
<1> QED
  BY <1>1, InductiveInvariant, PTL

\* The txns_new of the sync log add up to the rows of the table.
THEOREM LogsAlwaysAccount == Spec => []LogsAccountForRows
<1>1. IInv => LogsAccountForRows
  BY DEF IInv
<1> QED
  BY <1>1, InductiveInvariant, PTL

\* After a backfill that met no stale pass, no matching row is unflagged.
THEOREM QuietBackfillAlwaysHolds == Spec => []QuietBackfillHolds
<1>1. IInv => QuietBackfillHolds
  BY DEF IInv
<1> QED
  BY <1>1, InductiveInvariant, PTL

LEMMA LeastElement ==
    ASSUME NEW T, T \subseteq Nat, T # {}
    PROVE  \E x \in T : \A y \in T : x <= y
<1> DEFINE R == OpToRel(<, Nat)
<1>1. IsWellFoundedOn(R, Nat)
  BY NatLessThanWellFounded
<1>2. \A x, y \in Nat : x < y => <<x, y>> \in R
  BY DEF OpToRel
<1> HIDE DEF R
<1>3. PICK x \in T : \A y \in T : ~(<<y, x>> \in R)
  BY <1>1, WFMin
<1>4. \A y \in T : ~(y < x) /\ x \in Nat /\ y \in Nat
  BY <1>2, <1>3
<1> QED BY <1>3, <1>4

\* Of any transactions one comes last in the listing: the one with the fewest
\* after it.
LEMMA LastInListing ==
    ASSUME NEW H, H \subseteq Txns, H # {}
    PROVE  \E t \in H : \A u \in H : ~Before(t, u)
<1> DEFINE After(t) == {u \in H : Before(t, u)}
           Sizes == {Cardinality(After(t)) : t \in H}
<1>1. \A t \in H : IsFiniteSet(After(t)) /\ Cardinality(After(t)) \in Nat
  BY SubsetFinite
<1>2. PICK n \in Sizes : \A k \in Sizes : n <= k
  <2>1. Sizes \subseteq Nat /\ Sizes # {}
    BY <1>1
  <2> HIDE DEF Sizes
  <2> QED BY <2>1, LeastElement
<1>3. PICK t \in H : n = Cardinality(After(t))
  OBVIOUS
<1>4. ASSUME NEW u \in H, Before(t, u) PROVE FALSE
  <2>1. /\ t[1] \in Nat /\ t[2] \in Nat /\ u[1] \in Nat /\ u[2] \in Nat
        /\ \A x \in H : x[1] \in Nat /\ x[2] \in Nat
    BY TxnFields
  <2>2. u \in After(t) /\ u \notin After(u)
    BY <1>4, <2>1 DEF Before
  <2>3. After(u) \subseteq After(t)
    BY <1>4, <2>1 DEF Before
  <2>4. /\ Cardinality(After(u)) <= Cardinality(After(t))
        /\ Cardinality(After(t)) = Cardinality(After(u)) => After(t) = After(u)
    BY <1>1, <2>3, FS_Subset
  <2>5. Cardinality(After(u)) \in Nat /\ Cardinality(After(t)) \in Nat
    BY <1>1
  <2>6. n <= Cardinality(After(u))
    BY <1>2
  <2> HIDE DEF After
  <2> QED BY <1>3, <2>2, <2>4, <2>5, <2>6
<1> QED BY <1>4

\* Who waits is behind the one it waits for.
LEMMA WaitsBehind ==
    ASSUME IInv, NEW r \in Runs, NEW q \in Runs, Waits(r, q)
    PROVE  \A t, u \in Txns : IsNext(r, t) /\ IsNext(q, u) => Before(t, u)
<1> SUFFICES ASSUME NEW t \in Txns, NEW u \in Txns, IsNext(r, t), IsNext(q, u)
             PROVE  Before(t, u)
  OBVIOUS
<1>1. PICK x \in run[q].own : IsNext(r, x)
  BY DEF Waits
<1>2. PassOK(q) /\ run[q] \in RunType
  BY OfPass
<1>3. x \in Txns /\ Before(x, u)
  BY <1>1, <1>2 DEF PassOK, RunType, IsNext
<1>4. x = t
  BY <1>1, <1>3, BeforeAsym DEF IsNext
<1> QED BY <1>3, <1>4

\* Overlapping passes cannot deadlock in Postgres, however many there are: all
\* of them take the transactions in the order of the listing, so the one that
\* is furthest waits for none.
THEOREM NeverWaitCycle == Spec => []NoWaitCycle
<1>1. IInv => NoWaitCycle
  <2> SUFFICES ASSUME IInv, NEW C \in (SUBSET Runs) \ {{}},
                      \A r \in C : \E q \in C : Waits(r, q)
               PROVE  FALSE
    BY DEF NoWaitCycle
  <2> DEFINE H == {t \in Txns : \E r \in C : IsNext(r, t)}
  <2>1. \A r \in C : \E t \in H : IsNext(r, t)
    <3> TAKE r \in C
    <3>1. PICK q \in C : Waits(r, q)
      OBVIOUS
    <3>2. PICK t \in run[q].own : IsNext(r, t)
      BY <3>1 DEF Waits
    <3>3. run[q] \in RunType
      BY OfPass
    <3> QED BY <3>2, <3>3 DEF RunType
  <2>2. PICK t \in H : \A u \in H : ~Before(t, u)
    <3>1. H \subseteq Txns
      OBVIOUS
    <3> HIDE DEF H
    <3>2. C # {}
      OBVIOUS
    <3>3. H # {}
      BY <2>1, <3>2
    <3> QED BY <3>1, <3>3, LastInListing
  <2>3. PICK r \in C : IsNext(r, t)
    OBVIOUS
  <2>4. PICK q \in C : Waits(r, q)
    OBVIOUS
  <2>5. PICK u \in H : IsNext(q, u)
    BY <2>1
  <2>6. r \in Runs /\ q \in Runs /\ t \in Txns /\ u \in Txns
    OBVIOUS
  <2>7. Before(t, u)
    BY <2>3, <2>4, <2>5, <2>6, WaitsBehind
  <2> QED BY <2>2, <2>5, <2>7
<1> QED
  BY <1>1, InductiveInvariant, PTL

\* A pass that goes from its last phase to idle without a failure of its own
\* was committed or refused by Postgres.
LEMMA OnlyEnds ==
    ASSUME IInv, Next, NEW r \in Runs, run[r].pc = "log", run'[r].pc = "idle",
           faults' = faults
    PROVE  Finish(r) \/ CommitFails(r)
<1>1. run \in [Runs -> RunType]
  BY DEF IInv, TypeOK
<1>2. ~Fault
  BY ScanAssumption DEF Fault, IInv, TypeOK
<1>3. ASSUME NEW q \in Runs,
             Scan(q) \/ ScanFails(q) \/ LoadFails(q) \/ Killed(q)
               \/ LoadPatterns(q) \/ (\E t \in Txns : Skip(q, t) \/ Insert(q, t))
               \/ StatementFails(q) \/ AllInserted(q)
      PROVE  FALSE
  <2>1. run[q] \in RunType
    BY <1>1
  <2>2. Killed(q) => FALSE
    BY <1>2 DEF Killed
  <2>3. q # r => FALSE
    BY <1>1, <1>3, <2>2 DEF Scan, ScanFails, LoadFails, LoadPatterns, Skip,
          Insert, StatementFails, AllInserted, Becomes
  <2>4. q = r => FALSE
    BY <1>1, <1>2, <1>3, <2>1, <2>2 DEF Scan, ScanFails, LoadFails, LoadPatterns,
          Skip, Insert, StatementFails, AllInserted, Becomes, Idle, RunType
  <2> QED
    BY <2>3, <2>4
<1>4. ASSUME NEW q \in Runs, Finish(q) \/ CommitFails(q)
      PROVE  q = r
  BY <1>1, <1>4 DEF Finish, CommitFails, Ends, Becomes
<1>5. run' # run
  OBVIOUS
<1> QED
  BY <1>3, <1>4, <1>5 DEF Next, Pass, Arrive, NextDay, AddPattern, Backfill

\* A pass that logs success has stored all it found.
THEOREM SuccessAlwaysStored == Spec => SuccessMeansStored
<1>1. IInv /\ [Next]_vars =>
        [\A r \in Runs :
          (/\ run[r].pc = "log" /\ run'[r].pc = "idle"
           /\ last' = SyncLog(r) /\ ~run[r].error /\ faults' = faults)
             => run[r].found \subseteq rows']_vars
  <2> SUFFICES ASSUME IInv, Next, NEW r \in Runs, run[r].pc = "log",
                      run'[r].pc = "idle", ~run[r].error, faults' = faults
               PROVE  run[r].found \subseteq rows'
    BY DEF vars
  <2>1. PassOK(r) /\ run[r] \in RunType /\ run \in [Runs -> RunType]
    BY OfPass DEF IInv, TypeOK
  <2>2. run[r].found \subseteq rows \union run[r].own
    BY <2>1 DEF PassOK
  <2>3. CASE Finish(r)
    BY <2>2, <2>3 DEF Finish, Durable
  <2>4. CASE CommitFails(r)
    <3>1. ~Fault
      BY ScanAssumption DEF Fault, IInv, TypeOK
    <3>2. run[r].tx # "open" /\ rows' = rows
      BY <2>4, <3>1 DEF CommitFails
    <3>3. run[r].tx = "load_failed"
      BY <2>1, <3>2 DEF PassOK, RunType
    <3>4. run[r].found = {}
      BY <2>1, <3>3 DEF PassOK
    <3> QED
      BY <3>4
  <2>5. Finish(r) \/ CommitFails(r)
    BY <2>1, OnlyEnds
  <2> QED
    BY <2>3, <2>4, <2>5
<1> QED
  BY <1>1, InductiveInvariant, PTL DEF Spec, SuccessMeansStored

\* "logging every run" (email_scan.py) holds as long as Postgres refuses none of
\* the statements of a pass: Gmail may fail, and a process may be killed, as
\* often as they like. One refused statement is enough to break it, which the
\* run scan_every_run shows.
THEOREM LoggedUnlessRefused ==
    Spec /\ [](\A r \in Runs : run[r].tx = "open") => EveryRunLogged
<1>1. IInv /\ (\A r \in Runs : run[r].tx = "open") /\ [Next]_vars =>
        [\A r \in Runs :
          (run[r].pc = "log" /\ run'[r].pc = "idle" /\ faults' = faults)
             => last' = SyncLog(r)]_vars
  <2> SUFFICES ASSUME IInv, Next, NEW r \in Runs, run[r].tx = "open",
                      run[r].pc = "log", run'[r].pc = "idle", faults' = faults
               PROVE  last' = SyncLog(r)
    BY DEF vars
  <2>1. Finish(r) \/ CommitFails(r)
    BY OnlyEnds
  <2>2. ~Fault
    BY ScanAssumption DEF Fault, IInv, TypeOK
  <2>3. ~CommitFails(r)
    BY <2>2 DEF CommitFails
  <2>4. Finish(r)
    BY <2>1, <2>3
  <2> QED
    BY <2>4 DEF Finish, Durable
<1> QED
  BY <1>1, InductiveInvariant, PTL DEF Spec, EveryRunLogged

-----------------------------------------------------------------------------
(* The look-back window.                                                   *)

\* The daemon's pass in progress cannot store anything any more.
Doomed == run[Daemon].error \/ run[Daemon].tx # "open"

\* A day of the daemon's on which it has failed so far counts as spent.
Spent == IF tried \/ Doomed THEN 1 ELSE 0

\* An alert of an earlier day of which something is not stored.
Waiting(a) == sent[a] # -1 /\ sent[a] < day /\ ~ (AlertTxns(a) \subseteq rows)

\* Every day that an alert has waited costs a failure, and a pass that has not
\* failed holds all that waits.
WindowInv ==
    /\ \A a \in Alerts : sent[a] <= day
    /\ \A a \in Alerts : Waiting(a) => (day - sent[a]) - 1 + Spent <= faults
    /\ run[Daemon].pc # "idle" /\ ~Doomed =>
          \A a \in Alerts : Waiting(a) => AlertTxns(a) \subseteq run[Daemon].found

\* The case the README of the code counts on: nothing is refused for good, and
\* fewer failures than the window has days.
EnoughDays == Poison = {} /\ MaxFaults < Lookback[Daemon]

LEMMA WindowTypes ==
    ASSUME IInv
    PROVE  /\ day \in Nat /\ faults \in Nat /\ faults <= MaxFaults
           /\ MaxFaults \in Nat
           /\ Daemon \in Runs /\ Lookback[Daemon] \in Nat
           /\ sent \in [Alerts -> -1 .. MaxDay] /\ MaxDay \in Nat
           /\ run \in [Runs -> RunType] /\ tried \in BOOLEAN
  BY ScanAssumption DEF IInv, TypeOK

LEMMA NothingTooLate ==
    ASSUME IInv, WindowInv, EnoughDays, NEW a \in Alerts, Waiting(a)
    PROVE  InWindow(Daemon, a)
<1>1. /\ sent[a] \in -1 .. MaxDay /\ day \in Nat /\ faults \in Nat
      /\ MaxDay \in Nat /\ MaxFaults \in Nat
      /\ Lookback[Daemon] \in Nat /\ faults <= MaxFaults
  BY WindowTypes
<1>2. (day - sent[a]) - 1 + Spent <= faults /\ Spent \in {0, 1}
  BY DEF WindowInv, Spent
<1> QED BY <1>1, <1>2 DEF InWindow, Waiting, EnoughDays

\* A step within a day, by which no day is spent without a failure.
LEMMA WithinADay ==
    ASSUME IInv, WindowInv, UNCHANGED <<day, sent>>, rows \subseteq rows',
           faults' \in Nat,
           \/ faults' >= faults /\ (Spent' = 1 => Spent = 1)
           \/ faults' = faults + 1,
           \/ run'[Daemon].pc = "idle" \/ Doomed'
           \/ run[Daemon].pc # "idle" /\ ~Doomed
                /\ run'[Daemon].found = run[Daemon].found
    PROVE  WindowInv'
<1>1. \A a \in Alerts : Waiting(a)' => Waiting(a)
  BY DEF Waiting
<1>2. ASSUME NEW a \in Alerts, Waiting(a)'
      PROVE  (day' - sent'[a]) - 1 + Spent' <= faults'
  <2>1. (day - sent[a]) - 1 + Spent <= faults
    BY <1>1, <1>2 DEF WindowInv
  <2>2. /\ sent[a] \in -1 .. MaxDay /\ day \in Nat /\ faults \in Nat
        /\ MaxDay \in Nat
    BY WindowTypes
  <2>3. Spent \in {0, 1} /\ Spent' \in {0, 1}
    BY DEF Spent
  <2> QED BY <2>1, <2>2, <2>3
<1>3. \A a \in Alerts : sent'[a] <= day'
  BY DEF WindowInv
<1>4. run'[Daemon].pc # "idle" /\ ~Doomed' =>
          \A a \in Alerts : Waiting(a)' => AlertTxns(a) \subseteq run'[Daemon].found
  BY <1>1 DEF WindowInv
<1> QED BY <1>2, <1>3, <1>4 DEF WindowInv

\* Another process may only add rows and failures.
LEMMA OthersKeepWindow ==
    ASSUME IInv, WindowInv, UNCHANGED <<day, sent, tried>>, rows \subseteq rows',
           faults' \in Nat, faults' >= faults, run'[Daemon] = run[Daemon]
    PROVE  WindowInv'
<1>1. /\ Spent' = Spent /\ Doomed' = Doomed
  BY DEF Spent, Doomed
<1>2. CASE run[Daemon].pc # "idle" /\ ~Doomed
  BY <1>1, <1>2, WithinADay
<1>3. CASE run[Daemon].pc = "idle" \/ Doomed
  BY <1>1, <1>3, WithinADay
<1> QED BY <1>2, <1>3

LEMMA OutsideKeepsWindow ==
    ASSUME IInv, WindowInv,
           (\E a \in Alerts : Arrive(a)) \/ NextDay \/ AddPattern \/ Backfill
    PROVE  WindowInv'
<1>0. PassOK(Daemon) /\ Daemon \in Runs
  BY OfPass, WindowTypes
<1>1. CASE AddPattern \/ Backfill
  BY <1>1, OthersKeepWindow, WindowTypes DEF AddPattern, Backfill
<1>2. ASSUME NEW a \in Alerts, Arrive(a) PROVE WindowInv'
  <2>1. /\ sent' = [sent EXCEPT ![a] = day] /\ sent[a] = -1
        /\ UNCHANGED <<day, rows, run, tried, faults>>
    BY <1>2 DEF Arrive
  <2>2. sent \in [Alerts -> -1 .. MaxDay] /\ day \in Nat
    BY WindowTypes
  <2>3. \A b \in Alerts : sent'[b] = IF b = a THEN day ELSE sent[b]
    BY <2>1, <2>2
  <2>4. \A b \in Alerts : Waiting(b)' => Waiting(b) /\ sent'[b] = sent[b]
    BY <2>1, <2>2, <2>3 DEF Waiting
  <2>5. Spent' = Spent /\ Doomed' = Doomed
    BY <2>1 DEF Spent, Doomed
  <2>6. \A b \in Alerts : sent'[b] <= day'
    BY <2>1, <2>2, <2>3 DEF WindowInv
  <2> QED BY <2>1, <2>4, <2>5, <2>6 DEF WindowInv
<1>3. CASE NextDay
  <2>1. /\ day' = day + 1 /\ tried /\ ~tried' /\ run[Daemon].pc = "idle"
        /\ UNCHANGED <<sent, rows, run, faults>>
    BY <1>3 DEF NextDay
  <2>2. sent \in [Alerts -> -1 .. MaxDay] /\ day \in Nat /\ faults \in Nat
        /\ MaxDay \in Nat
    BY WindowTypes
  <2>3. ~Doomed /\ ~Doomed'
    BY <1>0, <2>1 DEF PassOK, Doomed
  <2>4. Spent = 1 /\ Spent' = 0
    BY <2>1, <2>3 DEF Spent
  <2>5. \A a \in Alerts : sent[a] \in -1 .. MaxDay /\ sent[a] <= day
    BY <2>2 DEF WindowInv
  <2>6. ASSUME NEW a \in Alerts, Waiting(a)'
        PROVE  (day' - sent'[a]) - 1 + Spent' <= faults'
    <3>1. CASE sent[a] < day
      <4>1. Waiting(a)
        BY <2>1, <2>6, <3>1 DEF Waiting
      <4>2. (day - sent[a]) - 1 + 1 <= faults
        BY <2>4, <4>1 DEF WindowInv
      <4> QED BY <2>1, <2>2, <2>4, <2>5, <4>2
    <3>2. CASE sent[a] = day
      BY <2>1, <2>2, <2>4, <3>2
    <3> QED BY <2>2, <2>5, <3>1, <3>2
  <2>7. \A a \in Alerts : sent'[a] <= day'
    BY <2>1, <2>2, <2>5
  <2> QED BY <2>1, <2>6, <2>7 DEF WindowInv
<1> QED BY <1>1, <1>2, <1>3

LEMMA ScanKeepsWindow ==
    ASSUME IInv, WindowInv, EnoughDays, Scan(Daemon)
    PROVE  WindowInv'
<1>1. /\ run \in [Runs -> RunType] /\ Daemon \in Runs /\ PassOK(Daemon)
      /\ run[Daemon].pc = "idle"
      /\ UNCHANGED <<day, sent, rows, tried, faults>>
  BY WindowTypes, OfPass DEF Scan
<1>2. /\ ~run'[Daemon].error /\ run'[Daemon].tx = "open"
      /\ run'[Daemon].found
            = UNION {AlertTxns(a) : a \in {b \in Alerts : InWindow(Daemon, b)}}
  BY <1>1 DEF Scan, Becomes, Idle
<1>3. ~Doomed /\ ~Doomed'
  BY <1>1, <1>2 DEF PassOK, Doomed
<1>4. Spent' = Spent
  BY <1>1, <1>3 DEF Spent
<1>5. \A a \in Alerts : Waiting(a)' <=> Waiting(a)
  BY <1>1 DEF Waiting
<1>6. \A a \in Alerts : Waiting(a) => AlertTxns(a) \subseteq run'[Daemon].found
  BY <1>2, NothingTooLate
<1> QED BY <1>1, <1>4, <1>5, <1>6 DEF WindowInv

\* The pass of the daemon goes on, and when it fails a failure is counted.
LEMMA PassKeepsWindow ==
    ASSUME IInv, WindowInv, EnoughDays,
           \/ ScanFails(Daemon) \/ LoadFails(Daemon) \/ LoadPatterns(Daemon)
           \/ \E t \in Txns : Skip(Daemon, t) \/ Insert(Daemon, t)
           \/ StatementFails(Daemon) \/ AllInserted(Daemon)
    PROVE  WindowInv'
<1>1. /\ run \in [Runs -> RunType] /\ Daemon \in Runs /\ PassOK(Daemon)
      /\ run[Daemon] \in RunType /\ faults \in Nat
  BY WindowTypes, OfPass
<1>2. UNCHANGED <<day, sent, rows, tried>>
  BY DEF ScanFails, LoadFails, LoadPatterns, Skip, Insert, StatementFails,
         AllInserted
<1>3. CASE ScanFails(Daemon) \/ LoadFails(Daemon)
  <2>1. faults' = faults + 1
    BY <1>3 DEF ScanFails, LoadFails, Fault
  <2>2. Doomed'
    BY <1>1, <1>3 DEF ScanFails, LoadFails, Becomes, Idle, Doomed, RunType
  <2> QED BY <1>1, <1>2, <2>1, <2>2, WithinADay
<1>4. CASE StatementFails(Daemon)
  <2>1. /\ run'[Daemon].error /\ faults' \in Nat
        /\ \/ faults' = faults /\ run[Daemon].tx # "open"
           \/ faults' = faults + 1
    BY <1>1, <1>4 DEF StatementFails, Fault, Becomes, RunType, EnoughDays
  <2>2. Doomed' /\ (run[Daemon].tx # "open" => Spent = 1)
    BY <2>1 DEF Doomed, Spent
  <2> QED BY <1>1, <1>2, <2>1, <2>2, WithinADay
<1>5. CASE LoadPatterns(Daemon) \/ AllInserted(Daemon)
             \/ \E t \in Txns : Skip(Daemon, t) \/ Insert(Daemon, t)
  <2>1. /\ faults' = faults /\ run[Daemon].pc # "idle"
        /\ run'[Daemon].found = run[Daemon].found
        /\ run'[Daemon].error = run[Daemon].error
        /\ run'[Daemon].tx = run[Daemon].tx
    <3>1. CASE LoadPatterns(Daemon) \/ AllInserted(Daemon)
      <4>1. /\ faults' = faults /\ run[Daemon].pc \in {"load", "insert"}
            /\ \/ Becomes(Daemon, [run[Daemon] EXCEPT !.pc = "insert",
                                                      !.pats = patternOn])
               \/ Becomes(Daemon, [run[Daemon] EXCEPT !.pc = "log"])
        <5>1. CASE LoadPatterns(Daemon)
          BY <5>1, Zenon DEF LoadPatterns
        <5>2. CASE AllInserted(Daemon)
          BY <5>2, Zenon DEF AllInserted
        <5> QED BY <3>1, <5>1, <5>2
      <4>2. ASSUME NEW b, Becomes(Daemon, [run[Daemon] EXCEPT !.pc = "insert",
                                                            !.pats = b])
            PROVE  /\ run'[Daemon].found = run[Daemon].found
                   /\ run'[Daemon].error = run[Daemon].error
                   /\ run'[Daemon].tx = run[Daemon].tx
        BY <1>1, <4>2 DEF Becomes, RunType
      <4>3. ASSUME Becomes(Daemon, [run[Daemon] EXCEPT !.pc = "log"])
            PROVE  /\ run'[Daemon].found = run[Daemon].found
                   /\ run'[Daemon].error = run[Daemon].error
                   /\ run'[Daemon].tx = run[Daemon].tx
        BY <1>1, <4>3 DEF Becomes, RunType
      <4>4. run[Daemon].pc # "idle"
        BY <4>1
      <4> QED BY <4>1, <4>2, <4>3, <4>4, Zenon
    <3>2. ASSUME NEW t \in Txns, Skip(Daemon, t) \/ Insert(Daemon, t)
          PROVE  \/ Becomes(Daemon, [run[Daemon] EXCEPT !.todo = @ \ {t}])
                 \/ Becomes(Daemon, [run[Daemon] EXCEPT !.todo = @ \ {t},
                                                       !.own = @ \union {t}])
      BY <3>2 DEF Skip, Insert
    <3>3. ASSUME NEW t \in Txns, Skip(Daemon, t) \/ Insert(Daemon, t)
          PROVE  faults' = faults /\ run[Daemon].pc = "insert"
      BY <3>3 DEF Skip, Insert
    <3>4. ASSUME NEW t \in Txns, Skip(Daemon, t) \/ Insert(Daemon, t)
          PROVE  /\ run'[Daemon].found = run[Daemon].found
                 /\ run'[Daemon].error = run[Daemon].error
                 /\ run'[Daemon].tx = run[Daemon].tx
      <4>1. CASE Becomes(Daemon, [run[Daemon] EXCEPT !.todo = @ \ {t}])
        BY <1>1, <4>1 DEF Becomes, RunType
      <4>2. CASE Becomes(Daemon, [run[Daemon] EXCEPT !.todo = @ \ {t},
                                                     !.own = @ \union {t}])
        BY <1>1, <4>2 DEF Becomes, RunType
      <4> QED BY <3>2, <3>4, <4>1, <4>2, Zenon
    <3>5. CASE \E t \in Txns : Skip(Daemon, t) \/ Insert(Daemon, t)
      <4>1. PICK t \in Txns : Skip(Daemon, t) \/ Insert(Daemon, t)
        BY <3>5
      <4>2. faults' = faults /\ run[Daemon].pc = "insert"
        BY <3>3, <4>1, Zenon
      <4>3. run[Daemon].pc # "idle"
        BY <4>2
      <4>4. /\ run'[Daemon].found = run[Daemon].found
            /\ run'[Daemon].error = run[Daemon].error
            /\ run'[Daemon].tx = run[Daemon].tx
        BY <3>4, <4>1, Zenon
      <4> QED BY <4>2, <4>3, <4>4, Zenon
    <3> QED BY <1>5, <3>1, <3>5, Zenon
  <2>2. Doomed' = Doomed
    BY <2>1 DEF Doomed
  <2>3. Spent' = Spent
    BY <1>2, <2>2 DEF Spent
  <2> QED BY <1>1, <1>2, <2>1, <2>2, <2>3, WithinADay
<1> QED BY <1>3, <1>4, <1>5

\* A pass of the daemon that stores what it found leaves nothing waiting.
LEMMA EndKeepsWindow ==
    ASSUME IInv, WindowInv,
           Finish(Daemon) \/ CommitFails(Daemon) \/ Killed(Daemon)
    PROVE  WindowInv'
<1>1. /\ run \in [Runs -> RunType] /\ Daemon \in Runs /\ PassOK(Daemon)
      /\ run[Daemon] \in RunType /\ faults \in Nat
  BY WindowTypes, OfPass
<1>2. /\ UNCHANGED day /\ UNCHANGED sent /\ tried' /\ run'[Daemon] = Idle
      /\ rows \subseteq rows'
  BY <1>1 DEF Finish, CommitFails, Killed, Ends, Becomes, Durable
<1>3. run'[Daemon].pc = "idle" /\ Spent' = 1
  BY <1>2 DEF Idle, Spent
<1>4. CASE faults' = faults + 1
  BY <1>1, <1>2, <1>3, <1>4, WithinADay
<1>5. CASE faults' = faults /\ Doomed
  BY <1>1, <1>2, <1>3, <1>5, WithinADay DEF Spent
<1>6. CASE Finish(Daemon) /\ ~Doomed
  <2>1. run[Daemon].found \subseteq rows' /\ run[Daemon].pc = "log"
    BY <1>1, <1>6 DEF PassOK, Finish, Durable, Doomed
  <2>2. \A a \in Alerts : Waiting(a)' => Waiting(a)
    BY <1>2 DEF Waiting
  <2>3. \A a \in Alerts : ~Waiting(a)'
    BY <1>6, <2>1, <2>2 DEF WindowInv, Waiting
  <2>4. \A a \in Alerts : sent'[a] <= day'
    BY <1>2 DEF WindowInv
  <2> QED BY <1>3, <2>3, <2>4 DEF WindowInv
<1>7. /\ Finish(Daemon) => faults' = faults
      /\ CommitFails(Daemon) => \/ faults' = faults + 1
                                \/ faults' = faults /\ Doomed
      /\ Killed(Daemon) => faults' = faults + 1
  BY DEF Finish, CommitFails, Killed, Fault, Doomed
<1> QED BY <1>4, <1>5, <1>6, <1>7

LEMMA NextWindow == EnoughDays /\ IInv /\ WindowInv /\ [Next]_vars => WindowInv'
<1> SUFFICES ASSUME EnoughDays, IInv, WindowInv, [Next]_vars PROVE WindowInv'
  OBVIOUS
<1>1. CASE (\E a \in Alerts : Arrive(a)) \/ NextDay \/ AddPattern \/ Backfill
  BY <1>1, OutsideKeepsWindow
<1>2. CASE \/ Scan(Daemon) \/ ScanFails(Daemon) \/ LoadFails(Daemon)
           \/ Pass(Daemon) \/ Killed(Daemon)
  BY <1>2, ScanKeepsWindow, PassKeepsWindow, EndKeepsWindow DEF Pass
<1>3. ASSUME NEW r \in Runs, r # Daemon,
             Scan(r) \/ ScanFails(r) \/ LoadFails(r) \/ Pass(r) \/ Killed(r)
      PROVE  WindowInv'
  <2>1. run \in [Runs -> RunType] /\ Daemon \in Runs /\ faults \in Nat
    BY WindowTypes
  <2>2. UNCHANGED <<day, sent>> /\ rows \subseteq rows'
    <3>1. UNCHANGED day /\ UNCHANGED sent
      BY <1>3 DEF Scan, ScanFails, LoadFails, Killed, Pass, LoadPatterns, Skip,
            Insert, StatementFails, AllInserted, Finish, CommitFails, Ends
    <3>2. rows' = rows \/ rows' = rows \union run[r].own
      BY <1>3 DEF Scan, ScanFails, LoadFails, Killed, Pass, LoadPatterns, Skip,
            Insert, StatementFails, AllInserted, Finish, CommitFails, Durable
    <3> QED BY <3>1, <3>2
  <2>3. faults' \in Nat /\ faults' >= faults
    <3>1. faults' = faults \/ Fault
      BY <1>3 DEF Scan, ScanFails, LoadFails, Killed, Pass, LoadPatterns, Skip,
            Insert, StatementFails, AllInserted, Finish, CommitFails
    <3> QED BY <2>1, <3>1 DEF Fault
  <2>4. run'[Daemon] = run[Daemon]
    BY <1>3, <2>1 DEF Scan, ScanFails, LoadFails, Killed, Pass, LoadPatterns,
          Skip, Insert, StatementFails, AllInserted, Finish, CommitFails, Ends,
          Becomes
  <2>5. tried' = tried
    <3>1. tried \in BOOLEAN
      BY WindowTypes
    <3>2. tried' = tried \/ tried' = (tried \/ r = Daemon)
      BY <1>3 DEF Scan, ScanFails, LoadFails, Killed, Pass, LoadPatterns, Skip,
            Insert, StatementFails, AllInserted, Finish, CommitFails, Ends
    <3> QED BY <1>3, <3>1, <3>2
  <2> QED BY <2>2, <2>3, <2>4, <2>5, OthersKeepWindow
<1>4. CASE UNCHANGED vars
  BY <1>4, WindowTypes, OthersKeepWindow DEF vars
<1> QED
  BY <1>1, <1>2, <1>3, <1>4 DEF Next

\* build_query's window: an alert leaves it only when it is stored, if fewer
\* passes of the daemon fail than it has days and Postgres refuses no row.
THEOREM AgedOutAlwaysStored == ASSUME EnoughDays PROVE Spec => []AgedOutIsStored
<1>1. Init => WindowInv
  <2> SUFFICES ASSUME Init PROVE WindowInv
    OBVIOUS
  <2>1. \A a \in Alerts : sent[a] = -1
    BY DEF Init
  <2> QED BY <2>1, ScanAssumption DEF Init, WindowInv, Waiting, Idle
<1>2. EnoughDays /\ IInv /\ WindowInv => AgedOutIsStored
  <2> SUFFICES ASSUME EnoughDays, IInv, WindowInv, NEW a \in Alerts, sent[a] # -1,
                      ~InWindow(Daemon, a), ~ (AlertTxns(a) \subseteq rows)
               PROVE  FALSE
    BY DEF AgedOutIsStored
  <2>1. /\ sent[a] \in -1 .. MaxDay /\ day \in Nat /\ MaxDay \in Nat
        /\ Lookback[Daemon] \in Nat
    BY WindowTypes
  <2>2. sent[a] < day
    BY <2>1 DEF InWindow
  <2> QED BY <2>2, NothingTooLate DEF Waiting
<1>3. EnoughDays /\ IInv /\ WindowInv /\ [Next]_vars => WindowInv'
  BY NextWindow
<1> QED BY <1>1, <1>2, <1>3, InductiveInvariant, PTL DEF Spec

-----------------------------------------------------------------------------
(* The ledger.                                                             *)

\* What a pass has found are whole mails; one that has failed and can still
\* commit has found none.
FoundInv ==
    \A r \in Runs :
        /\ \E A \in SUBSET {a \in Alerts : sent[a] # -1} :
               run[r].found = UNION {AlertTxns(a) : a \in A}
        /\ run[r].error /\ run[r].tx = "open" => run[r].found = {}

LEMMA FoundStays ==
    ASSUME FoundInv, NEW r \in Runs, run'[r].found = run[r].found,
           \A a \in Alerts : sent[a] # -1 => sent'[a] # -1
    PROVE  \E A \in SUBSET {a \in Alerts : sent'[a] # -1} :
              run'[r].found = UNION {AlertTxns(a) : a \in A}
<1>1. PICK A \in SUBSET {a \in Alerts : sent[a] # -1} :
          run[r].found = UNION {AlertTxns(a) : a \in A}
  BY DEF FoundInv
<1>2. A \in SUBSET {a \in Alerts : sent'[a] # -1}
  BY <1>1
<1> QED BY <1>1, <1>2

LEMMA FoundNothing ==
    ASSUME NEW r \in Runs, run'[r].found = {}
    PROVE  \E A \in SUBSET {a \in Alerts : sent'[a] # -1} :
              run'[r].found = UNION {AlertTxns(a) : a \in A}
<1>1. {} \in SUBSET {a \in Alerts : sent'[a] # -1}
  OBVIOUS
<1>2. UNION {AlertTxns(a) : a \in {}} = {}
  OBVIOUS
<1> QED BY <1>1, <1>2

\* A step of one pass.
LEMMA PassMoves ==
    ASSUME IInv, NEW q \in Runs,
           Scan(q) \/ ScanFails(q) \/ LoadFails(q) \/ Pass(q) \/ Killed(q)
    PROVE  \E v : /\ Becomes(q, v) /\ UNCHANGED sent
                  /\ \/ Scan(q) /\ ~v.error
                     \/ v.found = {}
                     \/ /\ v.found = run[q].found
                        /\ \/ v.tx # "open"
                           \/ v.error = run[q].error /\ v.tx = run[q].tx
<1> DEFINE Moves(v) ==
             /\ Becomes(q, v) /\ UNCHANGED sent
             /\ \/ Scan(q) /\ ~v.error
                \/ v.found = {}
                \/ /\ v.found = run[q].found
                   /\ \/ v.tx # "open"
                      \/ v.error = run[q].error /\ v.tx = run[q].tx
<1>0. run[q] \in RunType
  BY OfPass
<1>1. CASE Scan(q)
  <2>1. PICK w : Becomes(q, [Idle EXCEPT !.pc = "load", !.found = w, !.todo = w])
    BY <1>1 DEF Scan
  <2> DEFINE v == [Idle EXCEPT !.pc = "load", !.found = w, !.todo = w]
  <2>2. ~v.error /\ UNCHANGED sent
    BY <1>1 DEF Scan, Idle
  <2> QED BY <1>1, <2>1, <2>2
<1>2. CASE ScanFails(q)
  <2> DEFINE v == [Idle EXCEPT !.pc = "log", !.error = TRUE]
  <2>1. Becomes(q, v) /\ UNCHANGED sent
    BY <1>2 DEF ScanFails
  <2>2. v.found = {}
    BY DEF Idle
  <2> QED BY <2>1, <2>2
<1>3. CASE Finish(q) \/ CommitFails(q) \/ Killed(q)
  BY <1>3 DEF Finish, CommitFails, Killed, Ends, Idle
<1>4. CASE LoadFails(q)
  <2> DEFINE v == [run[q] EXCEPT !.pc = "insert", !.tx = "load_failed"]
  <2>1. Becomes(q, v) /\ UNCHANGED sent
    BY <1>4 DEF LoadFails
  <2>2. v.found = run[q].found /\ v.tx # "open"
    BY <1>0 DEF RunType
  <2> QED BY <2>1, <2>2
<1>5. CASE LoadPatterns(q)
  <2>1. PICK b : Becomes(q, [run[q] EXCEPT !.pc = "insert", !.pats = b])
    BY <1>5 DEF LoadPatterns
  <2>2. UNCHANGED sent
    BY <1>5 DEF LoadPatterns
  <2> DEFINE v == [run[q] EXCEPT !.pc = "insert", !.pats = b]
  <2>3. v.found = run[q].found /\ v.error = run[q].error /\ v.tx = run[q].tx
    BY <1>0 DEF RunType
  <2> QED BY <2>1, <2>2, <2>3
<1>6. CASE AllInserted(q)
  BY <1>0, <1>6 DEF AllInserted, RunType
<1>7. CASE StatementFails(q)
  <2> DEFINE v == [run[q] EXCEPT !.pc = "log", !.error = TRUE,
                     !.tx = IF @ = "open" THEN "failed" ELSE @]
  <2>1. Becomes(q, v) /\ UNCHANGED sent
    BY <1>7 DEF StatementFails
  <2>2. v.found = run[q].found /\ v.tx # "open"
    BY <1>0 DEF RunType
  <2> QED BY <2>1, <2>2
<1>8. ASSUME NEW t \in Txns, Skip(q, t)
      PROVE  \E v : Moves(v)
  BY <1>0, <1>8 DEF Skip, RunType
<1>9. ASSUME NEW t \in Txns, Insert(q, t)
      PROVE  \E v : Moves(v)
  <2> DEFINE v == [run[q] EXCEPT !.todo = @ \ {t}, !.own = @ \union {t}]
  <2>1. Becomes(q, v) /\ UNCHANGED sent
    BY <1>9 DEF Insert
  <2>2. v.found = run[q].found /\ v.error = run[q].error /\ v.tx = run[q].tx
    BY <1>0 DEF RunType
  <2> QED BY <2>1, <2>2
<1> QED BY <1>1, <1>2, <1>3, <1>4, <1>5, <1>6, <1>7, <1>8, <1>9 DEF Pass

LEMMA FoundStep == IInv /\ FoundInv /\ [Next]_vars => FoundInv'
<1> DEFINE Whole(r) == \E A \in SUBSET {a \in Alerts : sent'[a] # -1} :
                           run'[r].found = UNION {AlertTxns(a) : a \in A}
           Sound(r) == run'[r].error /\ run'[r].tx = "open" => run'[r].found = {}
<1> SUFFICES ASSUME IInv, FoundInv, [Next]_vars, NEW r \in Runs
             PROVE  Whole(r) /\ Sound(r)
  BY DEF FoundInv, AlertTxns
<1>0. run \in [Runs -> RunType] /\ sent \in [Alerts -> -1 .. MaxDay] /\ day \in Nat
      /\ run[r] \in RunType
  BY WindowTypes DEF IInv, TypeOK
<1>1. ASSUME run'[r] = run[r], \A a \in Alerts : sent[a] # -1 => sent'[a] # -1
      PROVE  Whole(r) /\ Sound(r)
  BY <1>1, FoundStays DEF FoundInv
<1>2. CASE (\E a \in Alerts : Arrive(a)) \/ NextDay \/ AddPattern \/ Backfill
             \/ UNCHANGED vars
  <2>1. run' = run
    BY <1>2 DEF Arrive, NextDay, AddPattern, Backfill, vars
  <2>2. \A a \in Alerts : sent[a] # -1 => sent'[a] # -1
    BY <1>0, <1>2 DEF Arrive, NextDay, AddPattern, Backfill, vars
  <2> QED BY <1>1, <2>1, <2>2
<1>3. ASSUME NEW q \in Runs,
             Scan(q) \/ ScanFails(q) \/ LoadFails(q) \/ Pass(q) \/ Killed(q)
      PROVE  Whole(r) /\ Sound(r)
  <2>1. PICK v : /\ Becomes(q, v) /\ UNCHANGED sent
                 /\ \/ Scan(q) /\ ~v.error
                    \/ v.found = {}
                    \/ /\ v.found = run[q].found
                       /\ \/ v.tx # "open"
                          \/ v.error = run[q].error /\ v.tx = run[q].tx
    BY <1>3, PassMoves
  <2>2. run'[q] = v /\ (q # r => run'[r] = run[r])
    BY <1>0, <2>1 DEF Becomes
  <2>3. CASE q # r
    BY <1>1, <2>1, <2>2, <2>3
  <2>4. CASE q = r /\ Scan(r) /\ ~v.error
    <3> DEFINE A == {b \in Alerts : InWindow(r, b)}
    <3>1. run'[r].found = UNION {AlertTxns(a) : a \in A}
      BY <1>0, <2>4 DEF Scan, Becomes, Idle
    <3>2. A \in SUBSET {a \in Alerts : sent'[a] # -1}
      BY <2>1 DEF InWindow
    <3>3. ~run'[r].error
      BY <2>2, <2>4
    <3> QED BY <3>1, <3>2, <3>3
  <2>5. CASE q = r /\ v.found = {}
    BY <2>2, <2>5, FoundNothing
  <2>6. CASE q = r /\ v.found = run[r].found
               /\ (v.tx # "open" \/ (v.error = run[r].error /\ v.tx = run[r].tx))
    <3>1. Whole(r)
      BY <2>1, <2>2, <2>6, FoundStays
    <3>2. Sound(r)
      BY <2>2, <2>6 DEF FoundInv
    <3> QED BY <3>1, <3>2
  <2> QED BY <2>1, <2>3, <2>4, <2>5, <2>6
<1> QED BY <1>2, <1>3 DEF Next

\* A commit that stores anything stores all that the pass has found.
LEMMA CommitIsStore ==
    ASSUME IInv, FoundInv, NEW r \in Runs, run[r].tx = "open",
           run[r].pc = "log", Durable(r), UNCHANGED sent
    PROVE  Book!Next
<1>1. PassOK(r) /\ run[r].own \intersect rows = {}
  BY OfPass
<1>2. run[r].found \ rows = run[r].own
  <2>1. CASE run[r].todo = {}
    BY <1>1, <2>1 DEF PassOK
  <2>2. CASE run[r].todo # {}
    <3>1. run[r].found = {}
      BY <1>1, <2>2 DEF PassOK, FoundInv
    <3> QED BY <1>1, <3>1 DEF PassOK
  <2> QED BY <2>1, <2>2
<1>3. PICK A \in SUBSET {a \in Alerts : sent[a] # -1} :
          run[r].found = UNION {AlertTxns(a) : a \in A}
  BY DEF FoundInv
<1> DEFINE T == [a \in Alerts |-> AlertTxns(a)]
<1>4. UNION {T[a] : a \in A} = UNION {AlertTxns(a) : a \in A}
  BY <1>3
<1>5. (UNION {T[a] : a \in A}) \ rows = run[r].own
  BY <1>2, <1>3, <1>4
<1>6. /\ rows' = rows \union run[r].own
      /\ ignored' \in {ignored, ignored \union (run[r].own \intersect Saas)}
      /\ logged' = logged + Cardinality(run[r].own)
      /\ {a \in Alerts : sent'[a] # -1} = {a \in Alerts : sent[a] # -1}
  <2>1. ignored' \in {ignored, ignored \union (run[r].own \intersect Saas)}
    <3>1. CASE run[r].pats
      BY <3>1 DEF Durable
    <3>2. CASE ~run[r].pats
      BY <3>2 DEF Durable
    <3> QED BY <3>1, <3>2
  <2>2. /\ rows' = rows \union run[r].own
        /\ logged' = logged + Cardinality(run[r].own)
    BY DEF Durable
  <2> QED BY <2>1, <2>2
<1>7. Book!Store(A)
  <2>1. Book!Cardinality(run[r].own) = Cardinality(run[r].own)
    BY DEF Cardinality, Book!Cardinality
  <2> QED BY <1>5, <1>6, <2>1 DEF Book!Store
<1> HIDE DEF T
<1>8. \E B \in SUBSET {a \in Alerts : sent[a] # -1} : Book!Store(B)
  BY <1>3, <1>7
<1> QED BY <1>8 DEF Book!Next

LEMMA NextBook == IInv /\ FoundInv /\ [Next]_vars => [Book!Next]_(Book!ledger)
<1> SUFFICES ASSUME IInv, FoundInv, [Next]_vars
             PROVE  Book!Next \/ UNCHANGED Book!ledger
  OBVIOUS
<1>1. ASSUME NEW r \in Runs,
             Scan(r) \/ ScanFails(r) \/ LoadFails(r) \/ Pass(r) \/ Killed(r)
      PROVE  Book!Next \/ UNCHANGED Book!ledger
  <2>1. UNCHANGED sent
    BY <1>1, PassMoves
  <2>2. \/ run[r].tx = "open" /\ run[r].pc = "log" /\ Durable(r)
        \/ UNCHANGED <<rows, ignored, logged>>
    BY <1>1 DEF Scan, ScanFails, LoadFails, Killed, Pass, LoadPatterns, Skip,
          Insert, StatementFails, AllInserted, Finish, CommitFails
  <2>3. CASE run[r].tx = "open" /\ run[r].pc = "log" /\ Durable(r)
    BY <2>1, <2>3, CommitIsStore
  <2>4. CASE UNCHANGED <<rows, ignored, logged>>
    BY <2>1, <2>4 DEF Book!ledger
  <2> QED BY <2>2, <2>3, <2>4
<1>2. ASSUME NEW a \in Alerts, Arrive(a)
      PROVE  Book!Next
  <2>1. sent' = [sent EXCEPT ![a] = day] /\ UNCHANGED <<rows, ignored, logged>>
    BY <1>2 DEF Arrive
  <2>2. sent \in [Alerts -> -1 .. MaxDay] /\ day \in Nat
    BY WindowTypes
  <2>3. {b \in Alerts : sent'[b] # -1} = {b \in Alerts : sent[b] # -1} \union {a}
    BY <2>1, <2>2
  <2>4. Book!Deliver(a)
    BY <2>1, <2>3 DEF Book!Deliver
  <2> QED BY <2>4 DEF Book!Next
<1>3. CASE Backfill
  <2>1. Book!Flag
    BY <1>3 DEF Backfill, Book!Flag
  <2> QED BY <2>1 DEF Book!Next
<1>4. CASE NextDay \/ AddPattern \/ UNCHANGED vars
  BY <1>4 DEF NextDay, AddPattern, vars, Book!ledger
<1> QED BY <1>1, <1>2, <1>3, <1>4 DEF Next

\* Overlapping, failing and killed passes implement the ledger: mails are
\* stored whole, with their count, in one step.
THEOREM ImplementsLedger == Spec => LedgerSpec
<1>1. Init => FoundInv
  <2> SUFFICES ASSUME Init, NEW r \in Runs
               PROVE  /\ \E A \in SUBSET {a \in Alerts : sent[a] # -1} :
                             run[r].found = UNION {AlertTxns(a) : a \in A}
                      /\ ~run[r].error
    BY DEF FoundInv
  <2>1. run[r].found = {} /\ ~run[r].error
    BY DEF Init, Idle
  <2>2. {} \in SUBSET {a \in Alerts : sent[a] # -1}
    OBVIOUS
  <2>3. UNION {AlertTxns(a) : a \in {}} = {}
    OBVIOUS
  <2> QED BY <2>1, <2>2, <2>3
<1>2. Init => Book!Init
  BY DEF Init, Book!Init
<1> QED BY <1>1, <1>2, FoundStep, NextBook, InductiveInvariant, PTL
        DEF Spec, LedgerSpec, Book!Spec

-----------------------------------------------------------------------------
(* A pass makes progress with every step of its own.                       *)

\* A bound on the steps a pass has still to take.
Left(r) == CASE run[r].pc = "load"   -> Cardinality(run[r].todo) + 3
             [] run[r].pc = "insert" -> Cardinality(run[r].todo) + 2
             [] run[r].pc = "log"    -> 1
             [] OTHER                -> 0

\* No step gives a pass in progress more to do: an alert that arrives, another
\* pass or a failure never sends it back, whatever it reads.
OnlyAdvances ==
    [][\A r \in Runs : run[r].pc # "idle" =>
          run'[r] = run[r] \/ Left(r)' < Left(r)]_vars

LEMMA LeftOfPass ==
    ASSUME IInv, NEW r \in Runs
    PROVE  /\ run[r] \in RunType /\ Cardinality(run[r].todo) \in Nat
           /\ IsFiniteSet(run[r].todo)
           /\ \A t \in run[r].todo :
                 Cardinality(run[r].todo \ {t}) = Cardinality(run[r].todo) - 1
<1>1. run[r] \in RunType
  BY DEF IInv, TypeOK
<1>2. run[r].todo \subseteq Txns
  BY <1>1 DEF RunType
<1> QED
  BY <1>1, <1>2, SubsetFinite, FS_RemoveElement

LEMMA PassAdvances ==
    ASSUME IInv, NEW r \in Runs,
           LoadFails(r) \/ Pass(r) \/ Killed(r)
    PROVE  Left(r)' < Left(r)
<1>1. /\ run[r] \in RunType /\ Cardinality(run[r].todo) \in Nat
      /\ \A t \in run[r].todo :
            Cardinality(run[r].todo \ {t}) = Cardinality(run[r].todo) - 1
  BY LeftOfPass
<1>2. run \in [Runs -> RunType]
  BY DEF IInv, TypeOK
<1>3. CASE LoadPatterns(r) \/ LoadFails(r)
  <2>1. run[r].pc = "load" /\ run'[r].pc = "insert" /\ run'[r].todo = run[r].todo
    <3>1. CASE LoadPatterns(r)
      BY <1>1, <1>2, <3>1 DEF LoadPatterns, Becomes, RunType
    <3>2. CASE LoadFails(r)
      BY <1>1, <1>2, <3>2 DEF LoadFails, Becomes, RunType
    <3> QED
      BY <1>3, <3>1, <3>2
  <2> QED
    BY <1>1, <2>1 DEF Left
<1>4. ASSUME NEW t \in Txns, Skip(r, t) \/ Insert(r, t)
      PROVE  Left(r)' < Left(r)
  <2>1. t \in run[r].todo
    BY <1>4 DEF Skip, Insert, IsNext
  <2>2. /\ run[r].pc = "insert" /\ run'[r].pc = "insert"
        /\ run'[r].todo = run[r].todo \ {t}
    <3>1. CASE Skip(r, t)
      BY <1>1, <1>2, <3>1 DEF Skip, Becomes, RunType
    <3>2. CASE Insert(r, t)
      BY <1>1, <1>2, <3>2 DEF Insert, Becomes, RunType
    <3> QED
      BY <1>4, <3>1, <3>2
  <2> QED
    BY <1>1, <2>1, <2>2 DEF Left
<1>5. CASE StatementFails(r) \/ AllInserted(r)
  <2>1. run[r].pc = "insert"
    BY <1>5 DEF StatementFails, AllInserted
  <2>2. PICK v : Becomes(r, v) /\ v.pc = "log"
    <3> DEFINE v == [run[r] EXCEPT !.pc = "log"]
               w == [run[r] EXCEPT !.pc = "log", !.error = TRUE,
                         !.tx = IF @ = "open" THEN "failed" ELSE @]
    <3>1. v.pc = "log" /\ w.pc = "log"
      BY <1>1 DEF RunType
    <3>2. Becomes(r, v) \/ Becomes(r, w)
      BY <1>5 DEF StatementFails, AllInserted
    <3> HIDE DEF v, w
    <3> QED
      BY <3>1, <3>2
  <2>3. run'[r].pc = "log"
    BY <1>2, <2>2 DEF Becomes
  <2> QED
    BY <1>1, <2>1, <2>3 DEF Left
<1>6. CASE Finish(r) \/ CommitFails(r) \/ Killed(r)
  <2>1. run[r].pc # "idle" /\ run'[r].pc = "idle"
    BY <1>2, <1>6 DEF Finish, CommitFails, Killed, Ends, Becomes, Idle
  <2>2. run[r].pc \in {"load", "insert", "log"}
    BY <1>1, <2>1 DEF RunType
  <2> QED
    BY <1>1, <2>1, <2>2 DEF Left
<1> QED
  BY <1>3, <1>4, <1>5, <1>6 DEF Pass

\* A pass ends within as many steps of its own as it found transactions, and
\* three: only waiting for another pass can keep it, and NeverWaitCycle says
\* that some pass does not wait.
THEOREM NeverTurnsBack == Spec => OnlyAdvances
<1>1. IInv /\ [Next]_vars =>
        [\A r \in Runs : run[r].pc # "idle" =>
            run'[r] = run[r] \/ Left(r)' < Left(r)]_vars
  <2> SUFFICES ASSUME IInv, Next, NEW r \in Runs, run[r].pc # "idle",
                      run'[r] # run[r]
               PROVE  Left(r)' < Left(r)
    BY DEF vars
  <2>1. run \in [Runs -> RunType]
    BY DEF IInv, TypeOK
  <2>2. PICK q \in Runs : Scan(q) \/ ScanFails(q) \/ LoadFails(q) \/ Pass(q) \/ Killed(q)
    BY DEF Next, Arrive, NextDay, AddPattern, Backfill
  <2>3. \A v : Becomes(q, v) => q = r
    BY <2>1 DEF Becomes
  <2>4. q = r
    BY <2>2, <2>3 DEF Scan, ScanFails, LoadFails, Pass, LoadPatterns, Skip, Insert,
          StatementFails, AllInserted, Finish, CommitFails, Killed, Ends
  <2>5. ~Scan(r) /\ ~ScanFails(r)
    BY DEF Scan, ScanFails
  <2> QED
    BY <2>2, <2>4, <2>5, PassAdvances
<1> QED
  BY <1>1, InductiveInvariant, PTL DEF Spec, OnlyAdvances
=============================================================================
