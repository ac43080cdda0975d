---------------------------- MODULE ConfirmProofs ----------------------------
(***************************************************************************)
(* Proofs about Confirm, for every set of ads, transactions and tabs and   *)
(* every bound on faults.                                                  *)
(***************************************************************************)
EXTENDS Confirm, TLAPS

-----------------------------------------------------------------------------
(* The inductive invariant.  The type alone is not inductive: a request    *)
(* saves tab[s].ad, so an open tab must hold an ad and not NULL.           *)

TabInv ==
    \A s \in Tabs :
        /\ tab[s].pc # "closed" => tab[s].ad \in Ads
        /\ tab[s].pc \in {"crm_write", "commit"} => tab[s].reply = "none"
        /\ tab[s].reply # "none" => tab[s].pc = "answered"
        /\ tab[s].pc = "crm_write" => tab[s].txn # NoTxn
        /\ (tab[s].pc = "commit" /\ tab[s].mode = "written")
              => (WasWritten(tab[s].ad) /\ tab[s].txn # NoTxn)

IInv == TypeOK /\ TabInv

-----------------------------------------------------------------------------
LEMMA TabUpdate ==
    ASSUME TypeOK, NEW s \in Tabs, NEW v \in TabType, Becomes(s, v)
    PROVE  /\ tab' \in [Tabs -> TabType]
           /\ tab'[s] = v
           /\ \A q \in Tabs \ {s} : tab'[q] = tab[q]
  BY DEF TypeOK, Becomes

LEMMA TabFields ==
    ASSUME NEW v \in TabType
    PROVE  /\ v.pc \in Pcs
           /\ v.ad \in Ads \union {NoAd}
           /\ v.cands \in SUBSET Txns
           /\ v.txn \in Txns \union {NoTxn}
           /\ v.mode \in Modes
           /\ v.reply \in Replies
  BY DEF TabType

\* What one step of tab s may leave in its record, with the fields that
\* the other tabs and the invariants can see.
LEMMA AnswerEffect ==
    ASSUME TypeOK, NEW s \in Tabs, NEW r \in Replies, Answer(s, r)
    PROVE  /\ tab' \in [Tabs -> TabType]
           /\ \A q \in Tabs \ {s} : tab'[q] = tab[q]
           /\ tab'[s].pc = "answered" /\ tab'[s].reply = r
           /\ tab'[s].ad = tab[s].ad /\ tab'[s].txn = tab[s].txn
           /\ tab'[s].mode = "disabled"
  <1> DEFINE v == [tab[s] EXCEPT !.pc = "answered", !.mode = "disabled", !.reply = r]
  <1>1. tab[s] \in TabType
    BY DEF TypeOK
  <1>2. v \in TabType
    BY <1>1 DEF TabType, Pcs, Modes
  <1>3. Becomes(s, v)
    BY DEF Answer
  <1>4. /\ v.pc = "answered" /\ v.reply = r /\ v.mode = "disabled"
        /\ v.ad = tab[s].ad /\ v.txn = tab[s].txn
    BY <1>1 DEF TabType
  <1> HIDE DEF v
  <1> QED BY <1>2, <1>3, <1>4, TabUpdate

LEMMA MoveEffect ==
    ASSUME TypeOK, NEW s \in Tabs, NEW p \in Pcs, NEW m \in Modes,
           Becomes(s, [tab[s] EXCEPT !.pc = p, !.mode = m])
    PROVE  /\ tab' \in [Tabs -> TabType]
           /\ \A q \in Tabs \ {s} : tab'[q] = tab[q]
           /\ tab'[s].pc = p /\ tab'[s].mode = m
           /\ tab'[s].ad = tab[s].ad /\ tab'[s].txn = tab[s].txn
           /\ tab'[s].reply = tab[s].reply
  <1> DEFINE v == [tab[s] EXCEPT !.pc = p, !.mode = m]
  <1>1. tab[s] \in TabType
    BY DEF TypeOK
  <1>2. v \in TabType
    BY <1>1 DEF TabType
  <1>4. /\ v.pc = p /\ v.reply = tab[s].reply /\ v.mode = m
        /\ v.ad = tab[s].ad /\ v.txn = tab[s].txn
    BY <1>1 DEF TabType
  <1> HIDE DEF v
  <1> QED BY <1>2, <1>4, TabUpdate DEF v

\* A step of the user leaves the tab closed, showing a popup, or with a
\* request that no worker has taken.
LEMMA UserEffect ==
    ASSUME IInv, NEW s \in Tabs, User(s)
    PROVE  /\ tab' \in [Tabs -> TabType]
           /\ \A q \in Tabs \ {s} : tab'[q] = tab[q]
           /\ tab'[s].pc \in {"closed", "popup", "received"}
           /\ tab'[s].pc # "closed" => tab'[s].ad \in Ads
           /\ tab'[s].reply = "none"
           /\ UNCHANGED <<crmVars, pgVars, gate, faults, traced>>
  <1> USE DEF IInv
  <1>0. tab[s] \in TabType /\ Closed \in TabType
    BY DEF TypeOK, TabType, Closed, Pcs, Serving, Modes, Replies
  <1>1. ASSUME NEW a \in Ads, OpenPopup(s, a)
        PROVE  \E v \in TabType : /\ Becomes(s, v) /\ v.reply = "none"
                                  /\ v.pc \in {"closed", "popup", "received"}
                                  /\ v.pc # "closed" => v.ad \in Ads
    <2> DEFINE v == [Closed EXCEPT !.pc = "popup", !.ad = a, !.cands = Candidates]
    <2>1. v \in TabType
      BY <1>0 DEF TabType, Candidates, Pcs, Closed, TypeOK
    <2>2. v.reply = "none" /\ v.pc = "popup" /\ v.ad = a
      BY DEF Closed
    <2>3. Becomes(s, v)
      BY <1>1 DEF OpenPopup
    <2> HIDE DEF v
    <2> QED BY <2>1, <2>2, <2>3
  <1>2. ASSUME NEW t \in Txns \union {NoTxn}, Post(s, t)
        PROVE  \E v \in TabType : /\ Becomes(s, v) /\ v.reply = "none"
                                  /\ v.pc \in {"closed", "popup", "received"}
                                  /\ v.pc # "closed" => v.ad \in Ads
    <2> DEFINE v == [tab[s] EXCEPT !.pc = "received", !.cands = {}, !.txn = t]
    <2>0. tab[s].pc = "popup" /\ tab[s].ad \in Ads /\ tab[s].reply = "none"
      BY <1>2, TabFields, <1>0 DEF Post, TabInv
    <2>1. v \in TabType
      BY <1>0 DEF TabType, Pcs
    <2>2. v.reply = tab[s].reply /\ v.pc = "received" /\ v.ad = tab[s].ad
      BY <1>0 DEF TabType
    <2>3. Becomes(s, v)
      BY <1>2 DEF Post
    <2> HIDE DEF v
    <2> QED BY <2>0, <2>1, <2>2, <2>3
  <1>3. ASSUME Retry(s)
        PROVE  \E v \in TabType : /\ Becomes(s, v) /\ v.reply = "none"
                                  /\ v.pc \in {"closed", "popup", "received"}
                                  /\ v.pc # "closed" => v.ad \in Ads
    <2> DEFINE v == [tab[s] EXCEPT !.pc = "received", !.reply = "none"]
    <2>0. tab[s].ad \in Ads
      BY <1>3 DEF Retry, TabInv
    <2>1. v \in TabType
      BY <1>0 DEF TabType, Pcs, Replies
    <2>2. v.reply = "none" /\ v.pc = "received" /\ v.ad = tab[s].ad
      BY <1>0 DEF TabType
    <2>3. Becomes(s, v)
      BY <1>3 DEF Retry
    <2> HIDE DEF v
    <2> QED BY <2>0, <2>1, <2>2, <2>3
  <1>4. ASSUME Leave(s)
        PROVE  \E v \in TabType : /\ Becomes(s, v) /\ v.reply = "none"
                                  /\ v.pc \in {"closed", "popup", "received"}
                                  /\ v.pc # "closed" => v.ad \in Ads
    BY <1>0, <1>4 DEF Leave, Closed
  <1>5. UNCHANGED <<crmVars, pgVars, gate, faults, traced>>
    BY DEF User, OpenPopup, Post, Retry, Leave
  <1>6. PICK v \in TabType : /\ Becomes(s, v) /\ v.reply = "none"
                             /\ v.pc \in {"closed", "popup", "received"}
                             /\ v.pc # "closed" => v.ad \in Ads
    BY <1>1, <1>2, <1>3, <1>4 DEF User
  <1> QED BY <1>5, <1>6, TabUpdate

\* The steps of a worker that do not answer: they only move the request.
LEMMA RequestMoves ==
    ASSUME TypeOK, NEW s \in Tabs
    PROVE  /\ BeginCrmWrite(s) =>
                /\ tab' \in [Tabs -> TabType]
                /\ \A q \in Tabs \ {s} : tab'[q] = tab[q]
                /\ tab'[s].ad = tab[s].ad /\ tab'[s].txn = tab[s].txn
                /\ tab'[s].pc = "crm_write" /\ tab'[s].reply = tab[s].reply
           /\ SkipCrmWrite(s) =>
                /\ tab' \in [Tabs -> TabType]
                /\ \A q \in Tabs \ {s} : tab'[q] = tab[q]
                /\ tab'[s].ad = tab[s].ad /\ tab'[s].txn = tab[s].txn
                /\ tab'[s].pc = "commit" /\ tab'[s].reply = tab[s].reply
                /\ tab'[s].mode # "written"
           /\ CrmWrites(s) =>
                /\ tab' \in [Tabs -> TabType]
                /\ \A q \in Tabs \ {s} : tab'[q] = tab[q]
                /\ tab'[s].ad = tab[s].ad /\ tab'[s].txn = tab[s].txn
                /\ tab'[s].pc = "commit" /\ tab'[s].reply = tab[s].reply
                /\ tab'[s].mode = "written"
  <1>0. tab[s] \in TabType /\ tab[s].mode \in Modes
    BY TabFields DEF TypeOK
  <1>1. "crm_write" \in Pcs /\ "commit" \in Pcs /\ "written" \in Modes
    BY DEF Pcs, Serving, Modes
  <1>2. ASSUME BeginCrmWrite(s)
        PROVE  Becomes(s, [tab[s] EXCEPT !.pc = "crm_write", !.mode = tab[s].mode])
    <2>1. [tab[s] EXCEPT !.pc = "crm_write"]
            = [tab[s] EXCEPT !.pc = "crm_write", !.mode = tab[s].mode]
      BY <1>0 DEF TabType
    <2> QED BY <1>2, <2>1 DEF BeginCrmWrite
  <1>3. ASSUME SkipCrmWrite(s)
        PROVE  \E m \in Modes \ {"written"} :
                  Becomes(s, [tab[s] EXCEPT !.pc = "commit", !.mode = m])
    <2> DEFINE m == IF gate THEN "skipped_no_txn" ELSE "disabled"
    <2>1. m \in Modes \ {"written"}
      BY DEF Modes
    <2>2. Becomes(s, [tab[s] EXCEPT !.pc = "commit", !.mode = m])
      BY <1>3 DEF SkipCrmWrite
    <2> HIDE DEF m
    <2> QED BY <2>1, <2>2
  <1>4. ASSUME CrmWrites(s)
        PROVE  Becomes(s, [tab[s] EXCEPT !.pc = "commit", !.mode = "written"])
    BY <1>4 DEF CrmWrites
  <1>5. ASSUME BeginCrmWrite(s)
        PROVE  /\ tab' \in [Tabs -> TabType]
               /\ \A q \in Tabs \ {s} : tab'[q] = tab[q]
               /\ tab'[s].ad = tab[s].ad /\ tab'[s].txn = tab[s].txn
               /\ tab'[s].pc = "crm_write" /\ tab'[s].reply = tab[s].reply
    BY <1>0, <1>1, <1>2, <1>5, MoveEffect
  <1>6. ASSUME SkipCrmWrite(s)
        PROVE  /\ tab' \in [Tabs -> TabType]
               /\ \A q \in Tabs \ {s} : tab'[q] = tab[q]
               /\ tab'[s].ad = tab[s].ad /\ tab'[s].txn = tab[s].txn
               /\ tab'[s].pc = "commit" /\ tab'[s].reply = tab[s].reply
               /\ tab'[s].mode # "written"
    <2>1. PICK m \in Modes \ {"written"} :
                  Becomes(s, [tab[s] EXCEPT !.pc = "commit", !.mode = m])
      BY <1>3, <1>6
    <2>2. m \in Modes /\ m # "written" /\ "commit" \in Pcs
      BY <1>1
    <2>3. /\ tab' \in [Tabs -> TabType]
          /\ \A q \in Tabs \ {s} : tab'[q] = tab[q]
          /\ tab'[s].pc = "commit" /\ tab'[s].mode = m
          /\ tab'[s].ad = tab[s].ad /\ tab'[s].txn = tab[s].txn
          /\ tab'[s].reply = tab[s].reply
      BY <2>1, <2>2, MoveEffect
    <2> QED BY <2>2, <2>3
  <1>7. ASSUME CrmWrites(s)
        PROVE  /\ tab' \in [Tabs -> TabType]
               /\ \A q \in Tabs \ {s} : tab'[q] = tab[q]
               /\ tab'[s].ad = tab[s].ad /\ tab'[s].txn = tab[s].txn
               /\ tab'[s].pc = "commit" /\ tab'[s].reply = tab[s].reply
               /\ tab'[s].mode = "written"
    <2> DEFINE m == "written"
    <2>1. Becomes(s, [tab[s] EXCEPT !.pc = "commit", !.mode = "written"])
      BY <1>4, <1>7
    <2>2. "commit" \in Pcs /\ m \in Modes
      BY <1>1
    <2>3. Becomes(s, [tab[s] EXCEPT !.pc = "commit", !.mode = m])
      BY <2>1
    <2>4. m = "written"
      OBVIOUS
    <2> HIDE DEF m
    <2>5. /\ tab' \in [Tabs -> TabType]
          /\ \A q \in Tabs \ {s} : tab'[q] = tab[q]
          /\ tab'[s].pc = "commit" /\ tab'[s].mode = m
          /\ tab'[s].ad = tab[s].ad /\ tab'[s].txn = tab[s].txn
          /\ tab'[s].reply = tab[s].reply
      BY <2>2, <2>3, MoveEffect
    <2> QED BY <2>4, <2>5
  <1> QED BY <1>5, <1>6, <1>7

\* A step of a worker keeps the ad and the transaction of its request and
\* the records of the other tabs.
LEMMA WorkerEffect ==
    ASSUME IInv, NEW s \in Tabs, Worker(s)
    PROVE  /\ tab' \in [Tabs -> TabType]
           /\ \A q \in Tabs \ {s} : tab'[q] = tab[q]
           /\ tab'[s].ad = tab[s].ad /\ tab'[s].txn = tab[s].txn
           /\ tab[s].ad \in Ads
           /\ tab[s].reply = "none"
           /\ \/ tab'[s].pc = "answered" /\ tab'[s].mode = "disabled"
              \/ BeginCrmWrite(s) /\ tab'[s].pc = "crm_write" /\ tab'[s].reply = "none"
              \/ SkipCrmWrite(s) /\ tab'[s].pc = "commit" /\ tab'[s].mode # "written"
                    /\ tab'[s].reply = "none"
              \/ CrmWrites(s) /\ tab'[s].pc = "commit" /\ tab'[s].mode = "written"
                    /\ tab'[s].reply = "none"
  <1> USE DEF IInv
  <1>0. /\ tab[s] \in TabType /\ tab[s].mode \in Modes
        /\ tab[s].pc \in {"received", "crm_write", "commit"}
        /\ tab[s].ad \in Ads /\ tab[s].reply = "none"
    <2>1. tab[s].pc \in {"received", "crm_write", "commit"}
      BY DEF Worker, Reads, CrmCall, CommitCall, AlreadyConfirmed, BeginCrmWrite,
             SkipCrmWrite, CrmWrites, CrmMatchesNoRow, CrmFails, Commits,
             CommitMeetsUnique, CommitFails, WorkerKilled, Serving
    <2>2. tab[s] \in TabType
      BY DEF TypeOK
    <2>3. tab[s].ad \in Ads /\ tab[s].reply = "none"
      BY <2>1, <2>2, TabFields DEF TabInv
    <2> QED BY <2>1, <2>2, <2>3, TabFields
  <1>1. CASE \E r \in Replies : Answer(s, r)
    BY <1>0, <1>1, AnswerEffect
  <1>2. CASE BeginCrmWrite(s) \/ SkipCrmWrite(s) \/ CrmWrites(s)
    BY <1>0, <1>2, RequestMoves
  <1> QED
    BY <1>1, <1>2
    DEF Worker, Reads, CrmCall, CommitCall, AlreadyConfirmed, CrmMatchesNoRow,
        CrmFails, Commits, CommitMeetsUnique, CommitFails, CommitError,
        WorkerKilled, Replies, Errors

-----------------------------------------------------------------------------
LEMMA InitIInv == Init => IInv
  BY ConfirmAssumption
  DEF Init, IInv, TypeOK, TabInv, TabType, CrmRows, Stats, Closed, Pcs, Serving,
      Modes, Replies

\* What the tool wrote to the CRM stays written, if only as an ad that the
\* staff reopened; confirmations are only added.
LEMMA Monotone ==
    ASSUME IInv, [Next]_vars
    PROVE  /\ \A a \in Ads : WasWritten(a) => WasWritten(a)'
           /\ conf \subseteq conf'
  <1> USE DEF IInv, TypeOK, crmVars, pgVars, WasWritten
  <1>1. CASE Staff
    <2>1. ASSUME NEW a \in Ads, StaffMarksDone(a)
          PROVE  /\ UNCHANGED <<trx, conf>> /\ reopened' = reopened \ {a}
                 /\ stat' = [stat EXCEPT ![a] = "Done"]
      BY <2>1 DEF StaffMarksDone
    <2>2. ASSUME NEW a \in Ads, StaffReopens(a)
          PROVE  /\ UNCHANGED <<trx, conf>> /\ reopened' = reopened \union {a}
                 /\ stat' = [stat EXCEPT ![a] = "Confirmed"]
      BY <2>2 DEF StaffReopens
    <2>3. ASSUME NEW a \in Ads, NEW r \in CrmRows, StaffMovesRow(a, r)
          PROVE  UNCHANGED <<trx, conf, stat, reopened>>
      BY <2>3 DEF StaffMovesRow
    <2> QED BY <1>1, <2>1, <2>2, <2>3 DEF Staff
  <1>2. CASE Batch
    BY <1>2 DEF Batch, Ingest, Backfill, Redeploy
  <1>3. ASSUME NEW s \in Tabs, User(s) PROVE UNCHANGED <<crmVars, conf>>
    BY <1>3 DEF User, OpenPopup, Post, Retry, Leave
  <1>4. ASSUME NEW s \in Tabs, Worker(s)
        PROVE  /\ \A a \in Ads : WasWritten(a) => WasWritten(a)'
               /\ conf \subseteq conf'
    <2>1. CASE Reads(s)
      BY <2>1 DEF Reads, AlreadyConfirmed, BeginCrmWrite, SkipCrmWrite
    <2>2. CASE CrmCall(s)
      <3>1. tab[s].pc = "crm_write" /\ UNCHANGED conf
        BY <2>2 DEF CrmCall, CrmWrites, CrmMatchesNoRow, CrmFails
      <3>2. tab[s].txn # NoTxn
        BY <3>1 DEF TabInv
      <3>3. CASE CrmUpdate(s)
        BY <3>1, <3>2, <3>3 DEF CrmUpdate
      <3>4. CASE UNCHANGED crmVars
        BY <3>1, <3>4
      <3> QED BY <2>2, <3>3, <3>4 DEF CrmCall, CrmWrites, CrmMatchesNoRow, CrmFails
    <2>3. CASE CommitCall(s)
      BY <2>3 DEF CommitCall, Commits, CommitMeetsUnique, CommitFails,
                  SaveConfirmation
    <2>4. CASE WorkerKilled(s)
      BY <2>4 DEF WorkerKilled
    <2> QED BY <1>4, <2>1, <2>2, <2>3, <2>4 DEF Worker
  <1>5. CASE UNCHANGED vars
    BY <1>5 DEF vars
  <1> QED BY <1>1, <1>2, <1>3, <1>4, <1>5 DEF Next

\* The invariant is preserved by every step.
LEMMA NextIInv == IInv /\ [Next]_vars => IInv'
<1> SUFFICES ASSUME IInv, [Next]_vars PROVE IInv'
  OBVIOUS
<1> USE ConfirmAssumption DEF IInv
<1>0. \A s \in Tabs : tab[s] \in TabType
  BY DEF TypeOK
<1>1. CASE Staff
  <2>1. TypeOK'
    BY <1>1 DEF TypeOK, pgVars, Staff, StaffMarksDone, StaffReopens,
                StaffMovesRow, CrmRows, Stats
  <2>2. UNCHANGED tab
    BY <1>1 DEF Staff, StaffMarksDone, StaffReopens, StaffMovesRow
  <2> QED BY <2>1, <2>2, Monotone DEF TabInv
<1>2. CASE Batch
  <2>1. TypeOK'
    <3> USE DEF TypeOK, crmVars, pgVars
    <3>1. CASE \E t \in Txns : Ingest(t)
      BY <3>1 DEF Ingest
    <3>2. CASE Backfill
      BY <3>2 DEF Backfill
    <3>3. CASE Redeploy
      BY <3>3 DEF Redeploy
    <3> QED BY <1>2, <3>1, <3>2, <3>3 DEF Batch
  <2>2. UNCHANGED <<tab, crmVars>>
    BY <1>2 DEF Batch, Ingest, Backfill, Redeploy
  <2> QED BY <2>1, <2>2 DEF TabInv, WasWritten, crmVars
<1>3. ASSUME NEW s \in Tabs, User(s) PROVE IInv'
  <2>1. TypeOK'
    BY <1>3, UserEffect DEF TypeOK, crmVars, pgVars
  <2>2. TabInv'
    <3> SUFFICES ASSUME NEW q \in Tabs
                 PROVE  /\ tab'[q].pc # "closed" => tab'[q].ad \in Ads
                        /\ tab'[q].pc \in {"crm_write", "commit"} => tab'[q].reply = "none"
                        /\ tab'[q].reply # "none" => tab'[q].pc = "answered"
                        /\ tab'[q].pc = "crm_write" => tab'[q].txn # NoTxn
                        /\ (tab'[q].pc = "commit" /\ tab'[q].mode = "written")
                              => (WasWritten(tab[q].ad)' /\ tab'[q].txn # NoTxn)
      BY DEF TabInv
    <3>1. UNCHANGED <<trx, stat, reopened>>
      BY <1>3, UserEffect DEF crmVars
    <3>2. CASE q = s
      BY <1>3, <3>2, UserEffect
    <3>3. CASE q # s
      BY <1>3, <3>1, <3>3, UserEffect DEF TabInv, WasWritten
    <3> QED BY <3>2, <3>3
  <2> QED BY <2>1, <2>2
<1>4. ASSUME NEW s \in Tabs, Worker(s) PROVE IInv'
  <2>0. /\ tab[s].ad \in Ads /\ tab[s].txn \in Txns \union {NoTxn}
        /\ tab[s].mode \in Modes
    BY <1>0, <1>4, WorkerEffect, TabFields
  <2>1. TypeOK'
    <3>1. tab' \in [Tabs -> TabType]
      BY <1>4, WorkerEffect
    <3> HIDE DEF IInv
    <3> USE <2>0, <3>1 DEF IInv, TypeOK, crmVars, pgVars
    <3>2. CASE Reads(s)
      BY <3>2 DEF Reads, AlreadyConfirmed, BeginCrmWrite, SkipCrmWrite
    <3>3. CASE CrmCall(s)
      BY <3>3 DEF CrmCall, CrmWrites, CrmMatchesNoRow, CrmFails, CrmUpdate,
                  Fault, Stats
    <3>4. CASE CommitCall(s)
      BY <3>4 DEF CommitCall, Commits, CommitMeetsUnique, CommitFails,
                  SaveConfirmation, CommitError, Fault
    <3>5. CASE WorkerKilled(s)
      BY <3>5 DEF WorkerKilled, Fault
    <3> QED BY <1>4, <3>2, <3>3, <3>4, <3>5 DEF Worker
  <2>2. ASSUME NEW q \in Tabs \ {s}
        PROVE  /\ tab'[q] = tab[q]
               /\ tab[q].pc # "closed" /\ WasWritten(tab[q].ad)
                    => WasWritten(tab[q].ad)'
    BY <1>4, WorkerEffect, Monotone DEF TabInv
  <2>3. /\ tab'[s].ad \in Ads
        /\ tab'[s].pc \in {"crm_write", "commit"} => tab'[s].reply = "none"
        /\ tab'[s].reply # "none" => tab'[s].pc = "answered"
    BY <1>4, WorkerEffect
  <2>4. tab'[s].pc = "crm_write" => tab'[s].txn # NoTxn
    BY <1>4, WorkerEffect DEF BeginCrmWrite
  <2>5. (tab'[s].pc = "commit" /\ tab'[s].mode = "written")
            => (WasWritten(tab[s].ad)' /\ tab'[s].txn # NoTxn)
    <3> SUFFICES ASSUME tab'[s].pc = "commit", tab'[s].mode = "written"
                 PROVE  WasWritten(tab[s].ad)' /\ tab'[s].txn # NoTxn
      OBVIOUS
    <3>1. CrmWrites(s)
      BY <1>4, WorkerEffect
    <3>2. /\ tab[s].pc = "crm_write" /\ tab[s].txn # NoTxn
          /\ tab'[s].ad = tab[s].ad /\ tab'[s].txn = tab[s].txn
      BY <1>4, <3>1, WorkerEffect DEF CrmWrites, TabInv
    <3>3. /\ stat' = [stat EXCEPT ![tab[s].ad] = "Done"]
          /\ trx' = [trx EXCEPT ![tab[s].ad] = tab[s].txn]
      BY <3>1 DEF CrmWrites, CrmUpdate
    <3>4. trx'[tab[s].ad] = tab[s].txn /\ stat'[tab[s].ad] = "Done"
      BY <2>0, <3>3 DEF TypeOK
    <3> QED BY <3>2, <3>4 DEF WasWritten
  <2>6. TabInv'
    BY <2>2, <2>3, <2>4, <2>5 DEF TabInv
  <2> QED BY <2>1, <2>6
<1>5. CASE UNCHANGED vars
  BY <1>5 DEF vars, crmVars, pgVars, TypeOK, TabInv, WasWritten
<1> QED BY <1>1, <1>2, <1>3, <1>4, <1>5 DEF Next

LEMMA InductiveInvariant == Spec => []IInv
<1> QED BY InitIInv, NextIInv, PTL DEF Spec

\* Type correctness: in every reachable state each variable has its type and
\* the faults are within their bound.
THEOREM TypeCorrect == Spec => []TypeOK
<1>1. IInv => TypeOK
  BY DEF IInv
<1> QED BY <1>1, InductiveInvariant, PTL

-----------------------------------------------------------------------------
(* What a step does to the two Postgres tables that /confirm writes, and   *)
(* to the CRM's trxstring.                                                 *)

LEMMA PgEffect ==
    ASSUME IInv, [Next]_vars
    PROVE  \/ UNCHANGED <<conf, pointer>>
           \/ \E s \in Tabs : tab[s].pc = "commit" /\ SaveConfirmation(s)
  <1> USE DEF crmVars, pgVars
  <1>1. CASE Staff
    BY <1>1 DEF Staff, StaffMarksDone, StaffReopens, StaffMovesRow
  <1>2. CASE Batch
    BY <1>2 DEF Batch, Ingest, Backfill, Redeploy
  <1>3. ASSUME NEW s \in Tabs, User(s) PROVE UNCHANGED <<conf, pointer>>
    BY <1>3 DEF User, OpenPopup, Post, Retry, Leave
  <1>4. ASSUME NEW s \in Tabs, Worker(s)
        PROVE  \/ UNCHANGED <<conf, pointer>>
               \/ tab[s].pc = "commit" /\ SaveConfirmation(s)
    BY <1>4 DEF Worker, Reads, AlreadyConfirmed, BeginCrmWrite, SkipCrmWrite,
                CrmCall, CrmWrites, CrmMatchesNoRow, CrmFails, WorkerKilled,
                CommitCall, Commits, CommitMeetsUnique, CommitFails
  <1>5. CASE UNCHANGED vars
    BY <1>5 DEF vars
  <1> QED BY <1>1, <1>2, <1>3, <1>4, <1>5 DEF Next

\* PointerBacked is inductive by itself: a commit writes both tables.
LEMMA NextPointerBacked ==
    ASSUME IInv, PointerBacked, [Next]_vars
    PROVE  PointerBacked'
  <1>1. CASE UNCHANGED <<conf, pointer>>
    BY <1>1 DEF PointerBacked
  <1>2. ASSUME NEW s \in Tabs, tab[s].pc = "commit", SaveConfirmation(s)
        PROVE  PointerBacked'
    <2> SUFFICES ASSUME NEW t \in Txns, pointer'[t] # NoAd
                 PROVE  \E r \in conf' : r.ad = pointer'[t] /\ r.txn = t
      BY DEF PointerBacked
    <2>1. conf \subseteq conf' /\ pointer \in [Txns -> Ads \union {NoAd}]
      BY <1>2 DEF SaveConfirmation, IInv, TypeOK
    <2>2. CASE t = tab[s].txn /\ tab[s].txn # NoTxn
      <3> DEFINE new == [ad |-> tab[s].ad, txn |-> tab[s].txn, mode |-> tab[s].mode]
      <3>1. new \in conf' /\ pointer'[t] = tab[s].ad
        BY <1>2, <2>1, <2>2 DEF SaveConfirmation
      <3> QED BY <2>2, <3>1
    <2>3. CASE t # tab[s].txn \/ tab[s].txn = NoTxn
      <3>1. pointer'[t] = pointer[t]
        BY <1>2, <2>1, <2>3 DEF SaveConfirmation
      <3> QED BY <2>1, <3>1 DEF PointerBacked
    <2> QED BY <2>2, <2>3
  <1> QED BY <1>1, <1>2, PgEffect

\* A transaction never leaves the candidate queue without a confirmation of
\* the ad its bank row points at.
THEOREM PointerAlwaysBacked == Spec => []PointerBacked
<1>1. Init => PointerBacked
  BY DEF Init, PointerBacked
<1> QED BY <1>1, InductiveInvariant, NextPointerBacked, PTL DEF Spec

LEMMA NextWrittenWasDone ==
    ASSUME IInv, WrittenWasDone, [Next]_vars
    PROVE  WrittenWasDone'
  <1> SUFFICES ASSUME NEW r \in conf', r.mode = "written"
               PROVE  WasWritten(r.ad)'
    BY DEF WrittenWasDone
  <1>1. CASE r \in conf
    BY <1>1, Monotone DEF WrittenWasDone, IInv, TypeOK
  <1>2. CASE r \notin conf
    <2>1. PICK s \in Tabs : tab[s].pc = "commit" /\ SaveConfirmation(s)
      BY <1>2, PgEffect
    <2>2. r.ad = tab[s].ad /\ tab[s].mode = "written"
      BY <1>2, <2>1 DEF SaveConfirmation
    <2>3. WasWritten(tab[s].ad) /\ tab[s].ad \in Ads
      BY <2>1, <2>2 DEF IInv, TabInv
    <2> QED BY <2>2, <2>3, Monotone
  <1> QED BY <1>1, <1>2

\* No confirmation is reported as written unless the CRM was marked first,
\* and its ad is Done ever after unless the staff reopen it.
THEOREM WrittenAlwaysWasDone == Spec => []WrittenWasDone
<1>1. Init => WrittenWasDone
  BY DEF Init, WrittenWasDone
<1> QED BY <1>1, InductiveInvariant, NextWrittenWasDone, PTL DEF Spec

\* An ad missing from both lists of the user interface is always accounted
\* for, reopened ones included; this needs WrittenWasDone and nothing else.
THEOREM LimboAlwaysExplained == Spec => []LimboExplained
<1>1. IInv /\ WrittenWasDone => LimboExplained
  <2> SUFFICES ASSUME IInv, WrittenWasDone, NEW a \in Ads, crmRow[a] = "listed",
                      a \notin Unconfirmed \union Reconciled
               PROVE  \/ \E r \in conf : r.ad = a /\ r.mode # "written"
                      \/ stat[a] = "Done" /\ trx[a] = NoTxn
                      \/ stat[a] = "Confirmed" /\ a \in reopened /\ HasConf(a)
                      \/ Discrepancy(a)
    BY DEF LimboExplained
  <2>1. stat[a] \in {"Confirmed", "Done"}
    BY DEF IInv, TypeOK, Stats
  <2>2. CASE stat[a] = "Confirmed"
    <3>1. PICK r \in conf : r.ad = a
      BY <2>2 DEF Unconfirmed, HasConf
    <3>2. CASE r.mode = "written"
      BY <2>2, <3>1, <3>2 DEF WrittenWasDone, WasWritten, HasConf
    <3> QED BY <3>1, <3>2
  <2>3. CASE stat[a] = "Done"
    BY <2>3 DEF Reconciled, HasConf, Discrepancy
  <2> QED BY <2>1, <2>2, <2>3
<1> QED BY <1>1, InductiveInvariant, WrittenAlwaysWasDone, PTL

LEMMA NextConfirmedIsDurable ==
    ASSUME IInv, ConfirmedIsDurable, [Next]_vars
    PROVE  ConfirmedIsDurable'
  <1> DEFINE Kept(q) == tab'[q].reply = "confirmed" =>
                          \E r \in conf' : r.ad = tab'[q].ad /\ r.txn = tab'[q].txn
  <1> SUFFICES ASSUME NEW q \in Tabs PROVE Kept(q)
    BY DEF ConfirmedIsDurable
  <1>0. conf \subseteq conf'
    BY Monotone DEF IInv
  <1>1. CASE tab'[q] = tab[q]
    BY <1>0, <1>1 DEF ConfirmedIsDurable
  <1>2. ASSUME NEW s \in Tabs, User(s) PROVE Kept(q)
    BY <1>1, <1>2, UserEffect
  <1>3. ASSUME NEW s \in Tabs, Worker(s) PROVE Kept(q)
    <2>1. CASE q # s
      BY <1>1, <1>3, <2>1, WorkerEffect
    <2>2. CASE q = s /\ Commits(s)
      <3> DEFINE new == [ad |-> tab[s].ad, txn |-> tab[s].txn, mode |-> tab[s].mode]
      <3>1. new \in conf' /\ new.ad = tab[s].ad /\ new.txn = tab[s].txn
        BY <2>2 DEF Commits, SaveConfirmation
      <3> QED BY <1>3, <2>2, <3>1, WorkerEffect
    <2>3. CASE q = s /\ ~Commits(s)
      <3>1. tab'[s].reply # "confirmed"
        <4>1. CASE BeginCrmWrite(s) \/ SkipCrmWrite(s) \/ CrmWrites(s)
          BY <1>3, <4>1, RequestMoves, WorkerEffect DEF IInv
        <4>2. ASSUME NEW r \in Replies \ {"confirmed"}, Answer(s, r)
              PROVE  tab'[s].reply # "confirmed"
          BY <4>2, AnswerEffect DEF IInv
        <4> QED BY <1>3, <2>3, <4>1, <4>2
            DEF Worker, Reads, CrmCall, CommitCall, AlreadyConfirmed,
                CrmMatchesNoRow, CrmFails, CommitMeetsUnique, CommitFails,
                CommitError, WorkerKilled, Replies, Errors
      <3> QED BY <2>3, <3>1
    <2> QED BY <2>1, <2>2, <2>3
  <1>4. CASE Staff \/ Batch \/ UNCHANGED vars
    BY <1>1, <1>4 DEF Staff, StaffMarksDone, StaffReopens, StaffMovesRow,
                      Batch, Ingest, Backfill, Redeploy, vars
  <1> QED BY <1>2, <1>3, <1>4 DEF Next

\* A 200 answer stays true: the confirmation it reports is never lost or
\* replaced, whatever the other tabs and later failures do.
THEOREM ConfirmedAlwaysDurable == Spec => []ConfirmedIsDurable
<1>1. Init => ConfirmedIsDurable
  BY DEF Init, ConfirmedIsDurable, Closed
<1> QED BY <1>1, InductiveInvariant, NextConfirmedIsDurable, PTL DEF Spec

-----------------------------------------------------------------------------
\* What a step does to the CRM's trxstring: only the CRM call of a request
\* writes it, and that request then either waits for its commit or is traced.
LEMMA TrxEffect ==
    ASSUME IInv, [Next]_vars
    PROVE  /\ traced \subseteq traced'
           /\ \/ UNCHANGED trx
              \/ \E s \in Tabs :
                    /\ trx' = [trx EXCEPT ![tab[s].ad] = tab[s].txn]
                    /\ Worker(s)
                    /\ CrmWrites(s) \/ tab[s].ad \in traced'
  <1> USE DEF crmVars, pgVars
  <1>1. CASE Staff
    BY <1>1 DEF Staff, StaffMarksDone, StaffReopens, StaffMovesRow
  <1>2. CASE Batch
    BY <1>2 DEF Batch, Ingest, Backfill, Redeploy
  <1>3. ASSUME NEW s \in Tabs, User(s) PROVE UNCHANGED <<traced, trx>>
    BY <1>3 DEF User, OpenPopup, Post, Retry, Leave
  <1>4. ASSUME NEW s \in Tabs, Worker(s)
        PROVE  /\ traced \subseteq traced'
               /\ \/ UNCHANGED trx
                  \/ /\ trx' = [trx EXCEPT ![tab[s].ad] = tab[s].txn]
                     /\ CrmWrites(s) \/ tab[s].ad \in traced'
    <2>1. CASE Reads(s)
      BY <2>1 DEF Reads, AlreadyConfirmed, BeginCrmWrite, SkipCrmWrite
    <2>2. CASE CrmCall(s)
      BY <2>2 DEF CrmCall, CrmWrites, CrmMatchesNoRow, CrmFails, CrmUpdate
    <2>3. CASE CommitCall(s)
      BY <2>3 DEF CommitCall, Commits, CommitMeetsUnique, CommitFails, CommitError
    <2>4. CASE WorkerKilled(s)
      BY <2>4 DEF WorkerKilled
    <2> QED BY <1>4, <2>1, <2>2, <2>3, <2>4 DEF Worker
  <1>5. CASE UNCHANGED vars
    BY <1>5 DEF vars
  <1> QED BY <1>1, <1>2, <1>3, <1>4, <1>5 DEF Next

\* The request of tab s wrote trx[a] and has not reached its commit.
Pending(s, a) ==
    /\ tab[s].pc = "commit" /\ tab[s].mode = "written"
    /\ tab[s].ad = a /\ tab[s].txn = trx[a]

LEMMA NextDiscrepancyTraced ==
    ASSUME IInv, DiscrepancyTraced, [Next]_vars
    PROVE  DiscrepancyTraced'
  <1> SUFFICES ASSUME NEW a \in Ads, Discrepancy(a)', a \notin traced'
               PROVE  \E s \in Tabs : Pending(s, a)'
    BY DEF DiscrepancyTraced, Pending
  <1>0. conf \subseteq conf' /\ a \notin traced /\ traced \subseteq traced'
    BY Monotone, TrxEffect DEF IInv
  <1>1. CASE trx'[a] # trx[a]
    <2>1. PICK s \in Tabs : /\ trx' = [trx EXCEPT ![tab[s].ad] = tab[s].txn]
                            /\ Worker(s)
                            /\ CrmWrites(s) \/ tab[s].ad \in traced'
      BY <1>1, TrxEffect
    <2>2. tab[s].ad = a /\ trx'[a] = tab[s].txn
      BY <1>1, <2>1 DEF IInv, TypeOK
    <2>3. CrmWrites(s)
      BY <2>1, <2>2
    <2>4. tab'[s].pc = "commit" /\ tab'[s].mode = "written"
      BY <2>3, RequestMoves DEF IInv
    <2> QED BY <2>1, <2>2, <2>4, WorkerEffect DEF Pending
  <1>2. CASE trx'[a] = trx[a]
    <2>1. Discrepancy(a)
      BY <1>0, <1>2 DEF Discrepancy
    <2>2. PICK s \in Tabs : Pending(s, a)
      BY <1>0, <2>1 DEF DiscrepancyTraced, Pending
    <2>3. CASE tab'[s] = tab[s]
      BY <1>2, <2>2, <2>3 DEF Pending
    <2>4. CASE tab'[s] # tab[s]
      <3>1. CommitCall(s) \/ WorkerKilled(s)
        <4>1. ~User(s)
          BY <2>2 DEF Pending, User, OpenPopup, Post, Retry, Leave
        <4>2. \A q \in Tabs \ {s} : User(q) \/ Worker(q) => tab'[s] = tab[s]
          BY UserEffect, WorkerEffect
        <4>3. Staff \/ Batch \/ UNCHANGED vars => tab' = tab
          BY DEF Staff, StaffMarksDone, StaffReopens, StaffMovesRow, Batch,
                 Ingest, Backfill, Redeploy, vars
        <4>4. Worker(s)
          BY <2>4, <4>1, <4>2, <4>3 DEF Next
        <4> QED BY <2>2, <4>4
            DEF Pending, Worker, Reads, AlreadyConfirmed, BeginCrmWrite,
                SkipCrmWrite, CrmCall, CrmWrites, CrmMatchesNoRow, CrmFails
      <3>2. CASE Commits(s)
        <4> DEFINE new == [ad |-> tab[s].ad, txn |-> tab[s].txn, mode |-> tab[s].mode]
        <4>1. new \in conf' /\ new.ad = a /\ new.txn = trx'[a]
          BY <1>2, <2>2, <3>2 DEF Pending, Commits, SaveConfirmation
        <4> QED BY <4>1 DEF Discrepancy
      <3>3. CASE CommitMeetsUnique(s) \/ CommitFails(s) \/ WorkerKilled(s)
        <4>1. a \in traced'
          BY <2>2, <3>3
             DEF Pending, CommitMeetsUnique, CommitFails, CommitError, WorkerKilled
        <4> QED BY <4>1
      <3> QED BY <3>1, <3>2, <3>3 DEF CommitCall
    <2> QED BY <2>3, <2>4
  <1> QED BY <1>1, <1>2

\* No disagreement between the CRM and Postgres arises silently: a request
\* in flight, an error log or a killed worker accounts for it.
THEOREM DiscrepancyAlwaysTraced == Spec => []DiscrepancyTraced
<1>1. Init => DiscrepancyTraced
  BY DEF Init, DiscrepancyTraced, Discrepancy
<1> QED BY <1>1, InductiveInvariant, NextDiscrepancyTraced, PTL DEF Spec

-----------------------------------------------------------------------------
\* The CONSUMED-EXCLUSION INVARIANT: no step brings a consumed or ignored
\* transaction back among the candidates.
THEOREM ConsumedStaysConsumed == Spec => ConsumedNeverReturns
<1>1. IInv /\ [Next]_vars
        => [\A t \in rows : t \notin Candidates => t \notin Candidates']_vars
  <2> SUFFICES ASSUME IInv, [Next]_vars, NEW t \in rows, t \notin Candidates
               PROVE  t \notin Candidates'
    OBVIOUS
  <2>1. ignored \subseteq ignored'
    <3> USE DEF crmVars, pgVars
    <3>1. CASE Staff
      BY <3>1 DEF Staff, StaffMarksDone, StaffReopens, StaffMovesRow
    <3>2. CASE Batch
      BY <3>2 DEF Batch, Ingest, Backfill, Redeploy
    <3>3. ASSUME NEW s \in Tabs, User(s) PROVE UNCHANGED ignored
      BY <3>3 DEF User, OpenPopup, Post, Retry, Leave
    <3>4. ASSUME NEW s \in Tabs, Worker(s) PROVE UNCHANGED ignored
      BY <3>4 DEF Worker, Reads, AlreadyConfirmed, BeginCrmWrite, SkipCrmWrite,
                  CrmCall, CrmWrites, CrmMatchesNoRow, CrmFails, WorkerKilled,
                  CommitCall, Commits, CommitMeetsUnique, CommitFails,
                  SaveConfirmation
    <3>5. CASE UNCHANGED vars
      BY <3>5 DEF vars
    <3> QED BY <3>1, <3>2, <3>3, <3>4, <3>5 DEF Next
  <2>2. pointer[t] # NoAd => pointer'[t] # NoAd
    <3>1. CASE UNCHANGED pointer
      BY <3>1
    <3>2. ASSUME NEW s \in Tabs, tab[s].pc = "commit", SaveConfirmation(s)
          PROVE  pointer[t] # NoAd => pointer'[t] # NoAd
      BY <3>2, ConfirmAssumption DEF SaveConfirmation, IInv, TypeOK, TabInv
    <3> QED BY <3>1, <3>2, PgEffect
  <2> QED BY <2>1, <2>2 DEF Candidates
<1> QED BY <1>1, InductiveInvariant, PTL DEF Spec, ConsumedNeverReturns

-----------------------------------------------------------------------------
\* The request of s has no final answer yet.
Owes(s) == \/ tab[s].pc \in {"received"} \union Serving
           \/ tab[s].pc = "answered" /\ tab[s].reply \in Errors

\* A step of a worker leaves the request owing unless it is the last one.
LEMMA WorkerAnswers ==
    ASSUME IInv, NEW s \in Tabs, Worker(s)
    PROVE  Owes(s)' \/ AlreadyConfirmed(s) \/ Commits(s)
<1>1. CASE BeginCrmWrite(s) \/ SkipCrmWrite(s) \/ CrmWrites(s)
  BY <1>1, RequestMoves DEF IInv, Owes, Serving
<1>2. ASSUME NEW r \in Errors, Answer(s, r) PROVE Owes(s)'
  <2>1. r \in Replies
    BY DEF Replies
  <2>2. tab'[s].pc = "answered" /\ tab'[s].reply = r
    BY <1>2, <2>1, AnswerEffect DEF IInv
  <2> QED BY <2>2 DEF Owes
<1> QED BY <1>1, <1>2
    DEF Worker, Reads, CrmCall, CommitCall, CrmMatchesNoRow, CrmFails,
        CommitMeetsUnique, CommitFails, CommitError, WorkerKilled, Errors

\* Who writes trxstring is in the CRM call and goes on owing its answer.
LEMMA CrmStep ==
    ASSUME IInv, [Next]_vars
    PROVE  \/ UNCHANGED trx
           \/ \E s \in Tabs :
                 /\ tab[s].pc = "crm_write" /\ UNCHANGED conf
                 /\ trx' = [trx EXCEPT ![tab[s].ad] = tab[s].txn]
                 /\ Worker(s) /\ Owes(s)'
<1> SUFFICES ASSUME ~UNCHANGED trx
             PROVE  \E s \in Tabs :
                       /\ tab[s].pc = "crm_write" /\ UNCHANGED conf
                       /\ trx' = [trx EXCEPT ![tab[s].ad] = tab[s].txn]
                       /\ Worker(s) /\ Owes(s)'
  OBVIOUS
<1>1. PICK s \in Tabs : /\ trx' = [trx EXCEPT ![tab[s].ad] = tab[s].txn]
                        /\ Worker(s)
  BY TrxEffect
<1>2. CrmCall(s)
  BY <1>1 DEF Worker, Reads, AlreadyConfirmed, BeginCrmWrite, SkipCrmWrite,
     CommitCall, Commits, CommitMeetsUnique, CommitFails, WorkerKilled, crmVars
<1>3. tab[s].pc = "crm_write" /\ UNCHANGED conf
  BY <1>2 DEF CrmCall, CrmWrites, CrmMatchesNoRow, CrmFails, pgVars
<1>4. Owes(s)'
  BY <1>1, <1>3, WorkerAnswers DEF AlreadyConfirmed, Commits
<1> QED BY <1>1, <1>3, <1>4

\* Who saves a confirmation is in its commit and gets an answer.
LEMMA CommitStep ==
    ASSUME IInv, [Next]_vars
    PROVE  \/ UNCHANGED conf
           \/ \E s \in Tabs : /\ tab[s].pc = "commit" /\ SaveConfirmation(s)
                             /\ Worker(s) /\ tab'[s].pc = "answered"
<1>1. ASSUME NEW s \in Tabs, Worker(s), ~UNCHANGED conf
      PROVE  /\ tab[s].pc = "commit" /\ SaveConfirmation(s)
             /\ tab'[s].pc = "answered"
  <2>1. tab[s].pc = "commit" /\ SaveConfirmation(s)
    BY <1>1 DEF Worker, Reads, AlreadyConfirmed, BeginCrmWrite, SkipCrmWrite,
       CrmCall, CrmWrites, CrmMatchesNoRow, CrmFails, WorkerKilled, CommitCall,
       Commits, CommitMeetsUnique, CommitFails, pgVars
  <2>2. ~BeginCrmWrite(s) /\ ~SkipCrmWrite(s) /\ ~CrmWrites(s)
    BY <2>1 DEF BeginCrmWrite, SkipCrmWrite, CrmWrites
  <2> QED BY <1>1, <2>1, <2>2, WorkerEffect
<1>2. \A s \in Tabs : User(s) => UNCHANGED conf
  BY UserEffect DEF pgVars
<1>3. Staff \/ Batch \/ UNCHANGED vars => UNCHANGED conf
  BY DEF Staff, StaffMarksDone, StaffReopens, StaffMovesRow, Batch, Ingest,
         Backfill, Redeploy, vars, pgVars
<1> QED BY <1>1, <1>2, <1>3 DEF Next

\* POST /confirm implements Settlement: each step writes one CRM row,
\* records one ad that had no confirmation, or changes neither.
LEMMA NextPromise ==
    ASSUME IInv, [Next]_vars
    PROVE  [Promise!Next]_(Promise!settled)
  <1>1. ASSUME UNCHANGED <<conf, trx>> PROVE [Promise!Next]_(Promise!settled)
    BY <1>1 DEF Promise!settled
  <1>2. ASSUME NEW s \in Tabs, tab[s].pc = "crm_write", UNCHANGED conf, Worker(s),
               trx' = [trx EXCEPT ![tab[s].ad] = tab[s].txn]
        PROVE  [Promise!Next]_(Promise!settled)
    <2>1. tab[s].ad \in Ads /\ tab[s].txn \in Txns
      BY <1>2, WorkerEffect, TabFields DEF IInv, TypeOK, TabInv
    <2> QED BY <1>2, <2>1 DEF Promise!Next, Promise!Write
  <1>3. ASSUME NEW s \in Tabs, tab[s].pc = "commit", SaveConfirmation(s),
               Worker(s), UNCHANGED trx
        PROVE  [Promise!Next]_(Promise!settled)
    <2>1. /\ tab[s].ad \in Ads /\ tab[s].txn \in Txns \union {NoTxn}
          /\ tab[s].mode \in Promise!Modes
          /\ tab[s].mode = "written" => tab[s].txn # NoTxn /\ trx[tab[s].ad] # NoTxn
      BY <1>3, TabFields
         DEF IInv, TypeOK, TabInv, Modes, Promise!Modes, WasWritten
    <2>2. Promise!Record(tab[s].ad, tab[s].txn, tab[s].mode)
      BY <1>3, <2>1 DEF SaveConfirmation, HasConf, Promise!Record
    <2> QED BY <2>1, <2>2 DEF Promise!Next
  <1>4. ASSUME NEW s \in Tabs, tab[s].pc = "commit", Worker(s) PROVE UNCHANGED trx
    BY <1>4 DEF Worker, Reads, AlreadyConfirmed, BeginCrmWrite, SkipCrmWrite,
       CrmCall, CrmWrites, CrmMatchesNoRow, CrmFails, WorkerKilled, CommitCall,
       Commits, CommitMeetsUnique, CommitFails, crmVars
  <1> QED BY <1>1, <1>2, <1>3, <1>4, CrmStep, CommitStep

\* The handler with its workers, retries and failures implements the abstract
\* promise: once per ad, never altered, and "written" only after the CRM mark.
THEOREM ImplementsSettlement == Spec => SettlementSpec
<1>1. Init => Promise!Init
  BY DEF Init, Promise!Init
<1> QED BY <1>1, InductiveInvariant, NextPromise, PTL DEF Spec, SettlementSpec, Promise!Spec

-----------------------------------------------------------------------------
(* When the retries do heal.  Two runs of TLC show that two popups of one  *)
(* ad, or two popups that offer one charge, break what the source says of  *)
(* retries and of pointers; without such popups both statements hold.      *)

\* No ad is open in two tabs at a time.
OneTabPerAd == \A s, q \in Tabs :
                  s # q /\ tab[s].ad = tab[q].ad => tab[s].ad = NoAd

Agreed(a)     == \E r \in conf : r.ad = a /\ r.txn = trx[a]
Carries(s, a) == tab[s].ad = a /\ tab[s].txn = trx[a] /\ Owes(s)

\* A request in service is the first for its ad; what the tool wrote to the
\* CRM is confirmed, or its request will be sent again until it is.
FirstForItsAd == \A s \in Tabs : tab[s].pc \in Serving => ~HasConf(tab[s].ad)

WrittenIsCarried ==
    \A a \in Ads : trx[a] # NoTxn =>
        Agreed(a) \/ (~HasConf(a) /\ \E s \in Tabs : Carries(s, a))

HealInv == FirstForItsAd /\ WrittenIsCarried

\* A user who does not give up sends the same body again.
LEMMA UserRetries ==
    ASSUME IInv, ~MayGiveUp, NEW s \in Tabs, User(s), Owes(s)
    PROVE  Owes(s)' /\ tab'[s].ad = tab[s].ad /\ tab'[s].txn = tab[s].txn
<1>1. tab[s] \in TabType /\ tab \in [Tabs -> TabType]
  BY DEF IInv, TypeOK
<1>2. Retry(s)
  BY DEF User, OpenPopup, Post, Leave, Owes, Serving
<1>3. tab'[s] = [tab[s] EXCEPT !.pc = "received", !.reply = "none"]
  BY <1>1, <1>2 DEF Retry, Becomes
<1> QED BY <1>1, <1>3 DEF Owes, TabType

\* While neither store changes, the request that wrote the CRM goes on.
LEMMA CarriedOn ==
    ASSUME IInv, ~MayGiveUp, [Next]_vars, UNCHANGED <<trx, conf>>,
           NEW a \in Ads, ~HasConf(a), NEW s \in Tabs, Carries(s, a)
    PROVE  Carries(s, a)'
<1>1. CASE tab'[s] = tab[s]
  BY <1>1 DEF Carries, Owes
<1>2. CASE User(s)
  BY <1>2, UserRetries DEF Carries
<1>3. CASE Worker(s)
  <2>1. ~AlreadyConfirmed(s)
    BY DEF AlreadyConfirmed, Carries
  <2>2. ~Commits(s)
    <3> SUFFICES ASSUME Commits(s) PROVE FALSE
      OBVIOUS
    <3>1. [ad |-> a, txn |-> tab[s].txn, mode |-> tab[s].mode] \in conf
      BY DEF Commits, SaveConfirmation, Carries
    <3> QED BY <3>1 DEF HasConf
  <2> QED BY <1>3, <2>1, <2>2, WorkerAnswers, WorkerEffect DEF Carries
<1>4. \A q \in Tabs \ {s} : User(q) \/ Worker(q) => tab'[s] = tab[s]
  BY UserEffect, WorkerEffect
<1>5. Staff \/ Batch \/ UNCHANGED vars => tab' = tab
  BY DEF Staff, StaffMarksDone, StaffReopens, StaffMovesRow, Batch, Ingest,
         Backfill, Redeploy, vars
<1> QED BY <1>1, <1>2, <1>3, <1>4, <1>5 DEF Next

LEMMA NextFirstForItsAd ==
    ASSUME IInv, OneTabPerAd, FirstForItsAd, [Next]_vars
    PROVE  FirstForItsAd'
<1> SUFFICES ASSUME NEW q \in Tabs, tab'[q].pc \in Serving
             PROVE  ~HasConf(tab[q].ad)'
  BY DEF FirstForItsAd
<1>1. ASSUME tab'[q] = tab[q] PROVE ~HasConf(tab[q].ad)'
  <2>1. ~HasConf(tab[q].ad) /\ tab[q].ad \in Ads
    BY <1>1 DEF FirstForItsAd, IInv, TabInv, Serving
  <2>2. CASE UNCHANGED conf
    BY <1>1, <2>1, <2>2 DEF HasConf
  <2>3. ASSUME NEW s \in Tabs, tab[s].pc = "commit", SaveConfirmation(s), s # q
        PROVE  ~HasConf(tab[q].ad)'
    <3>1. tab[s].ad # tab[q].ad
      BY <2>1, <2>3, ConfirmAssumption DEF OneTabPerAd
    <3> QED BY <1>1, <2>1, <2>3, <3>1 DEF HasConf, SaveConfirmation
  <2> QED BY <1>1, <2>2, <2>3, CommitStep DEF Serving
<1>2. ASSUME User(q) PROVE FALSE
  BY <1>2, UserEffect DEF Serving
<1>3. ASSUME Worker(q) PROVE ~HasConf(tab[q].ad)'
  <2>1. BeginCrmWrite(q) \/ SkipCrmWrite(q) \/ CrmWrites(q)
    BY <1>3, WorkerEffect DEF Serving
  <2>2. ~HasConf(tab[q].ad) /\ UNCHANGED conf
    BY <2>1 DEF BeginCrmWrite, SkipCrmWrite, CrmWrites, FirstForItsAd, Serving, pgVars
  <2> QED BY <1>3, <2>2, WorkerEffect DEF HasConf
<1>4. \A s \in Tabs \ {q} : User(s) \/ Worker(s) => tab'[q] = tab[q]
  BY UserEffect, WorkerEffect
<1>5. Staff \/ Batch \/ UNCHANGED vars => tab' = tab
  BY DEF Staff, StaffMarksDone, StaffReopens, StaffMovesRow, Batch, Ingest,
         Backfill, Redeploy, vars
<1> QED BY <1>1, <1>2, <1>3, <1>4, <1>5 DEF Next

LEMMA NextWrittenIsCarried ==
    ASSUME IInv, ~MayGiveUp, OneTabPerAd, HealInv, [Next]_vars
    PROVE  WrittenIsCarried'
<1> SUFFICES ASSUME NEW a \in Ads, trx'[a] # NoTxn
             PROVE  \/ Agreed(a)'
                    \/ ~HasConf(a)' /\ \E s \in Tabs : Carries(s, a)'
  BY DEF WrittenIsCarried
<1>1. ASSUME NEW s \in Tabs, tab[s].pc = "crm_write", UNCHANGED conf,
             trx' = [trx EXCEPT ![tab[s].ad] = tab[s].txn],
             Worker(s), Owes(s)'
      PROVE  \/ Agreed(a)'
             \/ ~HasConf(a)' /\ \E q \in Tabs : Carries(q, a)'
  <2>1. CASE a = tab[s].ad
    <3>1. ~HasConf(a)
      BY <1>1, <2>1 DEF HealInv, FirstForItsAd, Serving
    <3>2. trx'[a] = tab[s].txn
      BY <1>1, <2>1 DEF IInv, TypeOK
    <3>3. tab'[s].ad = a /\ tab'[s].txn = tab[s].txn
      BY <1>1, <2>1, WorkerEffect
    <3> QED BY <1>1, <3>1, <3>2, <3>3 DEF Carries, HasConf
  <2>2. CASE a # tab[s].ad
    <3>1. trx'[a] = trx[a]
      BY <1>1, <2>2 DEF IInv, TypeOK
    <3>2. CASE Agreed(a)
      BY <1>1, <3>1, <3>2 DEF Agreed
    <3>3. CASE ~HasConf(a) /\ \E q \in Tabs : Carries(q, a)
      <4>1. PICK q \in Tabs : Carries(q, a)
        BY <3>3
      <4>2. tab'[q] = tab[q]
        BY <1>1, <2>2, <4>1, WorkerEffect DEF Carries
      <4>3. Carries(q, a)'
        BY <3>1, <4>1, <4>2 DEF Carries, Owes
      <4> QED BY <1>1, <3>3, <4>3 DEF HasConf
    <3> QED BY <3>1, <3>2, <3>3 DEF HealInv, WrittenIsCarried
  <2> QED BY <2>1, <2>2
<1>2. ASSUME UNCHANGED trx, NEW s \in Tabs, SaveConfirmation(s), Worker(s)
      PROVE  \/ Agreed(a)'
             \/ ~HasConf(a)' /\ \E q \in Tabs : Carries(q, a)'
  <2> DEFINE new == [ad |-> tab[s].ad, txn |-> tab[s].txn, mode |-> tab[s].mode]
  <2>1. conf' = conf \union {new} /\ new.ad = tab[s].ad /\ new.txn = tab[s].txn
    BY <1>2 DEF SaveConfirmation
  <2>2. CASE Agreed(a)
    BY <1>2, <2>1, <2>2 DEF Agreed
  <2>3. CASE ~HasConf(a) /\ \E q \in Tabs : Carries(q, a)
    <3>1. PICK q \in Tabs : Carries(q, a)
      BY <2>3
    <3>2. CASE q = s
      BY <1>2, <2>1, <3>1, <3>2 DEF Agreed, Carries
    <3>3. CASE q # s
      <4>1. tab[s].ad # a
        BY <3>1, <3>3, ConfirmAssumption DEF OneTabPerAd, Carries
      <4>2. tab'[q] = tab[q]
        BY <1>2, <3>3, WorkerEffect
      <4>3. Carries(q, a)'
        BY <1>2, <3>1, <4>2 DEF Carries, Owes
      <4>4. ~HasConf(a)'
        BY <2>1, <2>3, <4>1 DEF HasConf
      <4> QED BY <4>3, <4>4
    <3> QED BY <3>2, <3>3
  <2> QED BY <1>2, <2>2, <2>3 DEF HealInv, WrittenIsCarried
<1>3. ASSUME UNCHANGED <<trx, conf>>
      PROVE  \/ Agreed(a)'
             \/ ~HasConf(a)' /\ \E q \in Tabs : Carries(q, a)'
  <2>1. CASE Agreed(a)
    BY <1>3, <2>1 DEF Agreed
  <2>2. CASE ~HasConf(a) /\ \E q \in Tabs : Carries(q, a)
    BY <1>3, <2>2, CarriedOn DEF HasConf
  <2> QED BY <1>3, <2>1, <2>2 DEF HealInv, WrittenIsCarried
<1> QED BY <1>1, <1>2, <1>3, CrmStep, CommitStep

\* "retry is idempotent/self-healing", as far as the code keeps it: when no
\* ad is open in two tabs at a time, the retries bring CRM and Postgres to
\* agree on every ad the tool wrote, whatever fails in between.
THEOREM RetriesHealAlone ==
    ASSUME ~MayGiveUp
    PROVE  Spec /\ []OneTabPerAd => []RetriesHeal
<1>1. Init => HealInv
  BY DEF Init, HealInv, FirstForItsAd, WrittenIsCarried, Closed, Serving
<1>2. IInv /\ OneTabPerAd /\ HealInv /\ [Next]_vars => HealInv'
  BY NextFirstForItsAd, NextWrittenIsCarried DEF HealInv
<1>3. HealInv => RetriesHeal
  BY DEF HealInv, WrittenIsCarried, RetriesHeal, Carries, Owes, Agreed,
     Discrepancy, InFlight
<1> QED BY <1>1, <1>2, <1>3, InductiveInvariant, PTL DEF Spec

\* What a popup offers, or its request has chosen.
Offered(s) == (tab[s].cands \union {tab[s].txn}) \ {NoTxn}

\* No charge is offered in two tabs at a time.
NoSharedOffer == \A s, q \in Tabs : s # q => Offered(s) \intersect Offered(q) = {}

\* What a tab offers is free, unless the tab's own ad has been confirmed.
OfferedIsFree ==
    \A s \in Tabs : \A t \in Offered(s) :
        pointer[t] = NoAd \/ HasConf(tab[s].ad)

\* A worker keeps what its request has chosen, and a user chooses from what
\* the popup offers.
LEMMA OfferEffect ==
    ASSUME IInv, NEW s \in Tabs
    PROVE  /\ Worker(s) => Offered(s)' \subseteq Offered(s) /\ tab'[s].ad = tab[s].ad
           /\ User(s) => \/ \A t \in Offered(s)' : t \in Txns /\ pointer[t] = NoAd
                         \/ Offered(s)' \subseteq Offered(s) /\ tab'[s].ad = tab[s].ad
<1>1. tab[s] \in TabType /\ tab \in [Tabs -> TabType]
  BY DEF IInv, TypeOK
<1>2. ASSUME Worker(s)
      PROVE  Offered(s)' \subseteq Offered(s) /\ tab'[s].ad = tab[s].ad
  <2>1. tab'[s].cands = tab[s].cands
    <3>1. ASSUME NEW r, Answer(s, r) PROVE tab'[s].cands = tab[s].cands
      BY <1>1, <3>1 DEF Answer, Becomes, TabType
    <3>2. CASE BeginCrmWrite(s)
      BY <1>1, <3>2 DEF BeginCrmWrite, Becomes, TabType
    <3>3. CASE SkipCrmWrite(s)
      BY <1>1, <3>3 DEF SkipCrmWrite, Becomes, TabType
    <3>4. CASE CrmWrites(s)
      BY <1>1, <3>4 DEF CrmWrites, Becomes, TabType
    <3> QED BY <1>2, <3>1, <3>2, <3>3, <3>4
        DEF Worker, Reads, CrmCall, CommitCall, AlreadyConfirmed, CrmMatchesNoRow,
            CrmFails, Commits, CommitMeetsUnique, CommitFails, CommitError,
            WorkerKilled
  <2> QED BY <1>2, <2>1, WorkerEffect DEF Offered
<1>3. ASSUME NEW a \in Ads, OpenPopup(s, a)
      PROVE  \A t \in Offered(s)' : t \in Txns /\ pointer[t] = NoAd
  <2>1. tab'[s].cands = Candidates /\ tab'[s].txn = NoTxn
    BY <1>1, <1>3 DEF OpenPopup, Becomes, Closed
  <2> QED BY <2>1 DEF Offered, Candidates, IInv, TypeOK
<1>4. ASSUME NEW t \in Txns \union {NoTxn}, Post(s, t)
      PROVE  Offered(s)' \subseteq Offered(s) /\ tab'[s].ad = tab[s].ad
  <2>1. /\ tab'[s].cands = {} /\ tab'[s].txn = t /\ tab'[s].ad = tab[s].ad
        /\ t \in tab[s].cands \union {NoTxn}
    BY <1>1, <1>4 DEF Post, Becomes, TabType
  <2> QED BY <2>1 DEF Offered
<1>5. ASSUME Retry(s)
      PROVE  Offered(s)' \subseteq Offered(s) /\ tab'[s].ad = tab[s].ad
  <2>1. /\ tab'[s].cands = tab[s].cands /\ tab'[s].txn = tab[s].txn
        /\ tab'[s].ad = tab[s].ad
    BY <1>1, <1>5 DEF Retry, Becomes, TabType
  <2> QED BY <2>1 DEF Offered
<1>6. ASSUME Leave(s)
      PROVE  \A t \in Offered(s)' : t \in Txns /\ pointer[t] = NoAd
  <2>1. tab'[s].cands = {} /\ tab'[s].txn = NoTxn
    BY <1>1, <1>6 DEF Leave, Becomes, Closed
  <2> QED BY <2>1 DEF Offered
<1> QED BY <1>2, <1>3, <1>4, <1>5, <1>6 DEF User

\* A commit takes its charge from no other tab, and no confirmation had it.
LEMMA NextOffered ==
    ASSUME IInv, NoSharedOffer, OfferedIsFree, ConfirmationPointedBack, [Next]_vars
    PROVE  OfferedIsFree' /\ ConfirmationPointedBack'
<1>1. \A q \in Tabs : \/ \A t \in Offered(q)' : t \in Txns /\ pointer[t] = NoAd
                      \/ Offered(q)' \subseteq Offered(q) /\ tab'[q].ad = tab[q].ad
  <2> TAKE q \in Tabs
  <2>1. tab'[q] = tab[q] => Offered(q)' = Offered(q)
    BY DEF Offered
  <2>2. \A s \in Tabs \ {q} : User(s) \/ Worker(s) => tab'[q] = tab[q]
    BY UserEffect, WorkerEffect
  <2>3. Staff \/ Batch \/ UNCHANGED vars => tab' = tab
    BY DEF Staff, StaffMarksDone, StaffReopens, StaffMovesRow, Batch, Ingest,
           Backfill, Redeploy, vars
  <2> QED BY <2>1, <2>2, <2>3, OfferEffect DEF Next
<1>2. CASE UNCHANGED <<conf, pointer>>
  BY <1>1, <1>2 DEF OfferedIsFree, ConfirmationPointedBack, HasConf
<1>3. ASSUME NEW s \in Tabs, SaveConfirmation(s), Worker(s)
      PROVE  OfferedIsFree' /\ ConfirmationPointedBack'
  <2> DEFINE new == [ad |-> tab[s].ad, txn |-> tab[s].txn, mode |-> tab[s].mode]
  <2>1. /\ conf' = conf \union {new} /\ ~HasConf(tab[s].ad)
        /\ pointer \in [Txns -> Ads \union {NoAd}]
        /\ tab[s].ad \in Ads /\ tab[s].txn \in Txns \union {NoTxn}
        /\ conf \subseteq [ad : Ads, txn : Txns \union {NoTxn}, mode : Modes]
    BY <1>3, WorkerEffect DEF SaveConfirmation, IInv, TypeOK, TabType
  <2>2. \A t \in Txns : pointer'[t] = IF t = tab[s].txn THEN tab[s].ad ELSE pointer[t]
    BY <1>3, <2>1, ConfirmAssumption DEF SaveConfirmation
  <2>3. tab[s].txn # NoTxn => pointer[tab[s].txn] = NoAd
    BY <2>1 DEF OfferedIsFree, Offered
  <2>4. ConfirmationPointedBack'
    <3> SUFFICES ASSUME NEW r \in conf', r.txn # NoTxn
                 PROVE  pointer'[r.txn] = r.ad
      BY DEF ConfirmationPointedBack
    <3>1. CASE r = new
      BY <2>1, <2>2, <3>1
    <3>2. CASE r \in conf
      <4>1. pointer[r.txn] = r.ad /\ r.ad \in Ads /\ r.txn \in Txns
        BY <2>1, <3>2 DEF ConfirmationPointedBack
      <4>2. r.txn # tab[s].txn
        BY <2>3, <4>1, ConfirmAssumption
      <4> QED BY <2>2, <4>1, <4>2
    <3> QED BY <2>1, <3>1, <3>2
  <2>5. OfferedIsFree'
    <3> SUFFICES ASSUME NEW q \in Tabs, NEW t \in Offered(q)'
                 PROVE  pointer'[t] = NoAd \/ HasConf(tab[q].ad)'
      BY DEF OfferedIsFree
    <3>1. CASE q = s
      <4>1. tab'[s].ad = tab[s].ad /\ new \in conf' /\ new.ad = tab[s].ad
        BY <1>3, <2>1, WorkerEffect
      <4> QED BY <3>1, <4>1 DEF HasConf
    <3>2. CASE q # s
      <4>1. tab'[q] = tab[q] /\ tab[q] \in TabType
        BY <1>3, <3>2, WorkerEffect DEF IInv, TypeOK
      <4>2. t \in Offered(q) /\ t \in Txns
        BY <4>1 DEF Offered, TabType
      <4>3. t # tab[s].txn
        BY <3>2, <4>2 DEF NoSharedOffer, Offered
      <4>4. pointer[t] = NoAd \/ HasConf(tab[q].ad)
        BY <4>2 DEF OfferedIsFree
      <4> QED BY <2>1, <2>2, <4>1, <4>2, <4>3, <4>4 DEF HasConf
    <3> QED BY <3>1, <3>2
  <2> QED BY <2>4, <2>5
<1>4. UNCHANGED <<conf, pointer>> \/ \E s \in Tabs : SaveConfirmation(s) /\ Worker(s)
  <2>1. CASE UNCHANGED conf
    <3>1. ASSUME NEW s \in Tabs, SaveConfirmation(s) PROVE FALSE
      <4>1. [ad |-> tab[s].ad, txn |-> tab[s].txn, mode |-> tab[s].mode] \in conf
        BY <2>1, <3>1 DEF SaveConfirmation
      <4> QED BY <3>1, <4>1 DEF SaveConfirmation, HasConf
    <3> QED BY <3>1, PgEffect
  <2> QED BY <2>1, CommitStep
<1> QED BY <1>2, <1>3, <1>4

\* "Link transaction back to the ad via the logical pointer", as far as the
\* code keeps it: when no charge is offered in two tabs at a time, the bank
\* row of every confirmation points back at its ad: no charge settles two ads.
THEOREM PointedBackAlone == Spec /\ []NoSharedOffer => []ConfirmationPointedBack
<1>1. Init => OfferedIsFree /\ ConfirmationPointedBack
  BY DEF Init, OfferedIsFree, Offered, ConfirmationPointedBack, Closed
<1>2. /\ IInv /\ NoSharedOffer /\ OfferedIsFree /\ ConfirmationPointedBack
      /\ [Next]_vars
      => OfferedIsFree' /\ ConfirmationPointedBack'
  BY NextOffered
<1> QED BY <1>1, <1>2, InductiveInvariant, PTL DEF Spec
=============================================================================
