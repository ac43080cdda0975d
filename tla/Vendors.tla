------------------------------- MODULE Vendors -------------------------------
(***************************************************************************)
(* The writers of the vendor registry: /vendor-map/* (api/routes.py), the  *)
(* get-or-create helpers (vendors.py), the scan of the bank rows for       *)
(* merchant strings (vendors.py) and the scan of the mailbox for           *)
(* representatives (ingest/rep_scan.py).  Each request or scan is one      *)
(* Postgres transaction at READ COMMITTED: it looks every key up and, if   *)
(* it is missing, inserts it, with other transactions in between.          *)
(*                                                                         *)
(* The rows of ad_reps and bank_merchant_strings share one set of ids.     *)
(* Their serial ids are kept up to renaming: a key has a few ids, and one  *)
(* is used again only when no transaction refers to it.  The edits and     *)
(* deletes of the operator, which look at one row, are one step each.      *)
(***************************************************************************)
EXTENDS Integers, FiniteSets, Sequences

CONSTANTS Emails,      \* normalized addresses of senders
          Internal,    \* a sender of our own domains or the bank
          MailName,    \* MailName[e]: the display name in e's mail, if any
          Spellings,   \* raw merchant strings
          Norm,        \* normalize_merchant_string
          Mailboxes,   \* the listings Gmail may return, newest first
          VendorLists, \* the distinct vendor_name values a seed may read
          MaxMessages, \* AD_REP_SCAN_MAX_MESSAGES
          Procs, Db,   \* the transactions; who holds a committed row
          Ids, IdsOf,  \* IdsOf[k]: the ids of rows inserted with key k
          NoId, NoRow, NoHit,
          MaxFaults, MaxEdits   \* bounds

Norms == {Norm[s] : s \in Spellings}
Keys  == Emails \union Norms
Names == UNION {MailName[e] : e \in Emails}
Wants == [key : Keys \union {Internal}, vals : SUBSET (Names \union Spellings)]

\* info: display_name of a rep, raw_examples of a string.  by: the
\* transaction that inserted the row, Db once it committed.
RowType  == [key : Keys, info : SUBSET (Names \union Spellings),
             active : BOOLEAN, by : Procs \union {Db}]
LinkType == [rep : Ids, string : Ids, by : Procs \union {Db}]
HitType  == [id : Ids, info : SUBSET (Names \union Spellings)]

ASSUME VendorsAssumption ==
    /\ MailName \in [Emails -> SUBSET Names]
    /\ Norm \in [Spellings -> Norms]
    /\ Emails \intersect Norms = {} /\ Internal \notin Keys
    /\ Mailboxes \subseteq Seq(Emails \union {Internal})
    /\ VendorLists \subseteq Seq(Spellings)
    /\ MaxMessages \in Nat \ {0} /\ MaxFaults \in Nat
    /\ Db \notin Procs /\ NoId \notin Ids
    /\ NoRow \notin RowType /\ NoHit \notin HitType
    /\ IdsOf \in [Keys -> SUBSET Ids] /\ IsFiniteSet(Ids)
    /\ MaxEdits \in Nat

VARIABLES
    rows,    \* Postgres: id -> the row of ad_reps or bank_merchant_strings
    links,   \* Postgres: ad_rep_merchant_links
    txn,     \* the requests and scans being served
    faults,  \* failures so far
    edits    \* the operator's edits and deletes so far

vars == <<rows, links, txn, faults, edits>>

\* list: the keys asked for; todo: the positions not handled yet; hit: the
\* UPDATE that the session holds back until its next statement; set: the
\* UPDATEs sent, whose rows stay locked; rep, string: the ends of the link.
Idle == [kind |-> "none", pc |-> "idle", list |-> <<>>, todo |-> {},
         hit |-> NoHit, set |-> {}, rep |-> NoId, string |-> NoId,
         new |-> 0, old |-> 0]

Init ==
    /\ rows = [i \in Ids |-> NoRow]
    /\ links = {}
    /\ txn = [p \in Procs |-> Idle]
    /\ faults = 0 /\ edits = 0

Fault == faults < MaxFaults /\ faults' = faults + 1

Becomes(p, v) == txn' = [txn EXCEPT ![p] = v]

Live == {i \in Ids : rows[i] # NoRow}

\* Mutant: what is not committed is seen as well.
Sees_Dirty(p, x) == p \in Procs /\ x.by \in Procs \union {Db}

\* Rows and links that p sees: committed, or its own.
Sees(p, x) == x.by \in {Db, p}

Locked(i) == \E p \in Procs : \E u \in txn[p].set : u.id = i

\* The foreign key of an uncommitted link locks its ends against deletion.
Referenced(i) == \E l \in links : l.by # Db /\ i \in {l.rep, l.string}

Refers(p, i) ==
    \/ i \in {txn[p].rep, txn[p].string}
    \/ txn[p].hit # NoHit /\ txn[p].hit.id = i

Fresh(k) == {i \in IdsOf[k] : rows[i] = NoRow /\ \A p \in Procs : ~Refers(p, i)}

-----------------------------------------------------------------------------
(* The requests.                                                           *)

Sender(e) == [key |-> e, vals |-> IF e = Internal THEN {} ELSE MailName[e]]
Spelling(s) == [key |-> Norm[s], vals |-> {s}]

Begin(p, kind, list, todo) ==
    /\ txn[p].pc = "idle"
    /\ Becomes(p, [Idle EXCEPT !.kind = kind, !.list = list, !.todo = todo,
                     !.pc = IF todo = {} THEN "commit" ELSE "look"])
    /\ UNCHANGED <<rows, links, faults, edits>>

PostRep(p) == \E e \in Emails : Begin(p, "rep", <<Sender(e)>>, {1})

PostString(p) == \E s \in Spellings : Begin(p, "string", <<Spelling(s)>>, {1})

Committed(keys) == {i \in Live : rows[i].by = Db /\ rows[i].key \in keys}

\* Either end is the id of a row, a value to register, or missing in the
\* body; an id that names no row is refused like a missing one.
PostLink(p) ==
    /\ txn[p].pc = "idle"
    /\ \E a \in Committed(Emails) \union {NoId}, b \in Committed(Norms) \union {NoId},
          ea \in {<<>>} \union {<<Sender(e)>> : e \in Emails},
          eb \in {<<>>} \union {<<Spelling(s)>> : s \in Spellings} :
          /\ a = NoId \/ ea = <<>>
          /\ b = NoId \/ eb = <<>>
          /\ Becomes(p, [Idle EXCEPT !.kind = "link", !.list = ea \o eb,
                           !.todo = 1 .. Len(ea \o eb), !.rep = a, !.string = b,
                           !.pc = IF ea \o eb = <<>> THEN "link" ELSE "look"])
    /\ UNCHANGED <<rows, links, faults, edits>>

\* The first time that a key comes up.
Firsts(list, n) ==
    {i \in 1 .. Len(list) :
        /\ i <= n /\ list[i].key # Internal
        /\ \A j \in 1 .. i - 1 : list[j].key # list[i].key}

\* scan_rep_messages: at most MaxMessages of the newest messages.
RepScan(p) ==
    \E m \in Mailboxes :
        LET list == [i \in 1 .. Len(m) |-> Sender(m[i])]
        IN  Begin(p, "repscan", list, Firsts(list, MaxMessages))

\* scan_seed_merchant_strings
Seed(p) ==
    \E v \in VendorLists :
        LET list == [i \in 1 .. Len(v) |-> Spelling(v[i])]
        IN  Begin(p, "seed", list, Firsts(list, Len(list)))

-----------------------------------------------------------------------------
(* upsert_ad_rep and upsert_merchant_string, for one key after the other.  *)

IsNext(p, i) == i \in txn[p].todo /\ \A j \in txn[p].todo : i <= j

\* Mutant: the request keeps the key of the row, not its id.
EndAt_Key(p, t, r) ==
    IF txn[p].kind = "link" THEN [t EXCEPT !.rep = rows[r].key] ELSE t

\* The end of the link that row r is.
EndAt(p, t, r) ==
    IF txn[p].kind # "link" THEN t
    ELSE IF rows[r].key \in Emails THEN [t EXCEPT !.rep = r]
    ELSE [t EXCEPT !.string = r]

\* Position i is dealt with.
Handled(p, i, t) ==
    [t EXCEPT !.todo = @ \ {i}, !.hit = NoHit,
        !.pc = IF txn[p].todo # {i} THEN "look"
               ELSE IF txn[p].kind = "link" THEN "link" ELSE "commit"]

\* A blank name is filled; a spelling is added to the others.
Merged(k, info, vals) ==
    IF k \in Norms THEN info \union vals
    ELSE IF info = {} THEN vals ELSE info

Found(p, k) == {r \in Live : rows[r].key = k /\ Sees(p, rows[r])}

\* last_seen always changes: a string that is there is always updated.  An
\* UPDATE of last_seen alone has no info.
Hit(r, w) ==
    [id |-> r, info |-> IF Merged(w.key, rows[r].info, w.vals) = rows[r].info
                        THEN {} ELSE Merged(w.key, rows[r].info, w.vals)]

Look(p) ==
    /\ txn[p].pc = "look"
    /\ \E i \in txn[p].todo :
          /\ IsNext(p, i)
          /\ LET w == txn[p].list[i]
                 t == [txn[p] EXCEPT !.old = @ + 1]
             IN  \/ /\ Found(p, w.key) = {}
                    /\ Becomes(p, [txn[p] EXCEPT !.pc = "insert"])
                 \/ \E r \in Found(p, w.key) :
                       Becomes(p, IF w.key \in Emails /\ Hit(r, w).info = {}
                                  THEN Handled(p, i, EndAt(p, t, r))
                                  ELSE [EndAt(p, t, r) EXCEPT !.pc = "update",
                                                              !.hit = Hit(r, w)])
    /\ UNCHANGED <<rows, links, faults, edits>>

\* Mutant: no unique constraint.
Taken_Unchecked(p, k) == Found(p, k) # {}

\* Another transaction has inserted the key and has not ended, or it has
\* committed since the look-up.
Taken(p, k) == \E r \in Live : rows[r].key = k

Insert(p) ==
    /\ txn[p].pc = "insert"
    /\ \E i \in txn[p].todo :
          LET w == txn[p].list[i]
              r == CHOOSE f \in Fresh(w.key) : TRUE
          IN  /\ IsNext(p, i) /\ ~Taken(p, w.key) /\ Fresh(w.key) # {}
              /\ rows' = [rows EXCEPT ![r] = [key |-> w.key, info |-> w.vals,
                                              active |-> TRUE, by |-> p]]
              /\ Becomes(p, Handled(p, i,
                    IF txn[p].kind # "link" THEN [txn[p] EXCEPT !.new = @ + 1]
                    ELSE IF w.key \in Emails THEN [txn[p] EXCEPT !.new = @ + 1, !.rep = r]
                    ELSE [txn[p] EXCEPT !.new = @ + 1, !.string = r]))
    /\ UNCHANGED <<links, faults, edits>>

\* The UPDATE is sent before the next statement and waits for the row lock.
Update(p) ==
    /\ txn[p].pc = "update"
    /\ rows[txn[p].hit.id] # NoRow /\ ~Locked(txn[p].hit.id)
    /\ \E i \in txn[p].todo :
          /\ IsNext(p, i)
          /\ Becomes(p, Handled(p, i, [txn[p] EXCEPT !.set = @ \union {txn[p].hit}]))
    /\ UNCHANGED <<rows, links, faults, edits>>

-----------------------------------------------------------------------------
(* POST /vendor-map/links, after its ends.                                 *)

Ends(p) == {txn[p].rep, txn[p].string}

IsEnd(p, i, keys) == i \in Live /\ Sees(p, rows[i]) /\ rows[i].key \in keys

\* Mutant: no foreign key, and no look-up of the ids of the request.
HasEnds_Given(p) == NoId \notin Ends(p)

HasEnds(p) == IsEnd(p, txn[p].rep, Emails) /\ IsEnd(p, txn[p].string, Norms)

Joins(p, l) == l.rep = txn[p].rep /\ l.string = txn[p].string

\* db.get of both ends and the look-up of the link.
LookLink(p) ==
    /\ txn[p].pc = "link" /\ HasEnds(p)
    /\ Becomes(p, [txn[p] EXCEPT !.pc =
                     IF \E l \in links : Joins(p, l) /\ Sees(p, l)
                     THEN "commit" ELSE "pair"])
    /\ UNCHANGED <<rows, links, faults, edits>>

InsertLink(p) ==
    /\ txn[p].pc = "pair" /\ HasEnds(p)
    /\ ~ \E l \in links : Joins(p, l)
    /\ links' = links \union {[rep |-> txn[p].rep, string |-> txn[p].string, by |-> p]}
    /\ Becomes(p, [txn[p] EXCEPT !.pc = "commit"])
    /\ UNCHANGED <<rows, faults, edits>>

-----------------------------------------------------------------------------
(* The end of a transaction.                                               *)

Rollback(p) ==
    /\ rows' = [i \in Ids |-> IF i \in Live /\ rows[i].by = p THEN NoRow ELSE rows[i]]
    /\ links' = {l \in links : l.by # p}
    /\ Becomes(p, Idle)

\* Mutant: an upsert makes the row active again.
Applied_Revives(p, i) ==
    IF \E u \in txn[p].set : u.id = i
    THEN [rows[i] EXCEPT !.active = TRUE]
    ELSE rows[i]

Applied(p, i) ==
    IF \E u \in txn[p].set : u.id = i /\ u.info # {}
    THEN [rows[i] EXCEPT !.info =
            (CHOOSE u \in txn[p].set : u.id = i /\ u.info # {}).info]
    ELSE rows[i]

Settled(p, x) == IF x.by = p THEN [x EXCEPT !.by = Db] ELSE x

\* Mutant: the rows that were there count as new.
SyncLog_All(p) == [fetched |-> Cardinality(Firsts(txn[p].list, MaxMessages)),
                   new |-> txn[p].new + txn[p].old, updated |-> txn[p].old]

\* The counts of the SyncLog row and of the answer.
SyncLog(p) == [fetched |-> Cardinality(Firsts(txn[p].list, MaxMessages)),
               new |-> txn[p].new, updated |-> txn[p].old]

Durable(p) ==
    /\ rows' = [i \in Ids |-> IF i \in Live THEN Settled(p, Applied(p, i)) ELSE NoRow]
    /\ links' = {Settled(p, l) : l \in links}
    /\ Becomes(p, Idle)

Commit(p) ==
    /\ txn[p].pc = "commit"
    /\ Durable(p)
    /\ UNCHANGED <<faults, edits>>

\* Mutant: the session is committed before the 400 is answered.
Refuse_KeepsEnds(p) ==
    /\ txn[p].pc = "link" /\ ~HasEnds(p)
    /\ Durable(p)
    /\ UNCHANGED <<faults, edits>>

\* 400 and 404 for an end that is missing.
Refuse(p) ==
    /\ txn[p].pc = "link" /\ ~HasEnds(p)
    /\ Rollback(p)
    /\ UNCHANGED <<faults, edits>>

\* A flush raises: the key or the pair was committed by another, the row to
\* update or an end of the link was deleted.  run_rep_scan catches it, but the
\* session refuses the SyncLog row (PendingRollbackError).
FlushFails(p) ==
    /\ \/ /\ txn[p].pc = "insert"
          /\ \E i \in txn[p].todo : /\ IsNext(p, i)
                                    /\ \E r \in Live : /\ rows[r].key = txn[p].list[i].key
                                                       /\ rows[r].by = Db
       \/ txn[p].pc = "update" /\ rows[txn[p].hit.id] = NoRow
       \/ txn[p].pc = "pair" /\ ~HasEnds(p)
       \/ txn[p].pc = "pair" /\ \E l \in links : Joins(p, l) /\ l.by = Db
    /\ Rollback(p)
    /\ UNCHANGED <<faults, edits>>

\* A statement or the commit fails (the commit possibly after it was
\* performed), or the worker is killed.
Fails(p) ==
    /\ txn[p].pc # "idle"
    /\ Fault
    /\ Rollback(p) \/ (txn[p].pc = "commit" /\ Durable(p))
    /\ UNCHANGED edits

WaitsFor(p, q) ==
    /\ p # q
    /\ \/ /\ txn[p].pc = "insert"
          /\ \E i \in txn[p].todo, r \in Live :
                IsNext(p, i) /\ rows[r].key = txn[p].list[i].key /\ rows[r].by = q
       \/ /\ txn[p].pc = "update"
          /\ \E u \in txn[q].set : u.id = txn[p].hit.id
       \/ /\ txn[p].pc = "pair"
          /\ \E l \in links : Joins(p, l) /\ l.by = q

\* Postgres cancels a transaction of a circle of waiting ones.
Deadlocked(p) ==
    /\ \E C \in SUBSET Procs :
          /\ p \in C
          /\ \A q \in C : \E r \in C : WaitsFor(q, r)
          /\ \A r \in C : \E q \in C : WaitsFor(q, r)
    /\ Rollback(p)
    /\ UNCHANGED <<faults, edits>>

-----------------------------------------------------------------------------
(* The operator's edits.                                                   *)

Operator == /\ edits < MaxEdits /\ edits' = edits + 1
            /\ UNCHANGED <<txn, faults>>

\* PATCH of a rep or a string: active, and the name of a rep.
Edit(i) ==
    /\ i \in Live /\ rows[i].by = Db /\ ~Locked(i)
    /\ \E a \in BOOLEAN, v \in {{}} \union {Names} :
          rows' = [rows EXCEPT ![i].active = a,
                     ![i].info = IF rows[i].key \in Emails THEN v ELSE @]
    /\ UNCHANGED links
    /\ Operator

\* PATCH of the address.
Rename(i, e) ==
    /\ i \in Live /\ rows[i].by = Db /\ ~Locked(i) /\ ~Referenced(i)
    /\ rows[i].key \in Emails
    /\ \A r \in Live : rows[r].key # e
    /\ rows' = [rows EXCEPT ![i].key = e]
    /\ UNCHANGED links
    /\ Operator

\* DELETE of a rep or a string, and its links with it.
Delete(i) ==
    /\ i \in Live /\ rows[i].by = Db /\ ~Locked(i) /\ ~Referenced(i)
    /\ rows' = [rows EXCEPT ![i] = NoRow]
    /\ links' = {l \in links : i \notin {l.rep, l.string}}
    /\ Operator

Unlink(l) ==
    /\ l \in links /\ l.by = Db
    /\ links' = links \ {l}
    /\ UNCHANGED rows
    /\ Operator

-----------------------------------------------------------------------------
Starts(p) == PostRep(p) \/ PostString(p) \/ PostLink(p) \/ RepScan(p) \/ Seed(p)

Step(p) ==
    \/ Look(p) \/ Insert(p) \/ Update(p)
    \/ LookLink(p) \/ InsertLink(p)
    \/ Commit(p) \/ Refuse(p) \/ FlushFails(p) \/ Deadlocked(p)

Next ==
    \/ \E p \in Procs : Starts(p) \/ Step(p) \/ Fails(p)
    \/ \E i \in Ids : Edit(i) \/ Delete(i) \/ \E e \in Emails : Rename(i, e)
    \/ \E l \in links : Unlink(l)

Spec == Init /\ [][Next]_vars

-----------------------------------------------------------------------------
(* Properties.                                                             *)

TxnType ==
    [kind : {"none", "rep", "string", "link", "repscan", "seed"},
     pc : {"idle", "look", "insert", "update", "link", "pair", "commit"},
     list : Seq(Wants), todo : SUBSET Nat,
     hit : HitType \union {NoHit}, set : SUBSET HitType,
     rep : Ids \union {NoId}, string : Ids \union {NoId}, new : Nat, old : Nat]

TypeOK ==
    /\ rows \in [Ids -> RowType \union {NoRow}]
    /\ links \subseteq LinkType
    /\ txn \in [Procs -> TxnType]
    /\ \A p \in Procs :
          /\ \A i \in txn[p].todo : /\ i \in DOMAIN txn[p].list
                                    /\ txn[p].list[i].key \in Keys
          /\ txn[p].pc = "update" => txn[p].hit # NoHit
    /\ faults \in 0 .. MaxFaults /\ edits \in 0 .. MaxEdits

\* An address, a merchant string and a pair of them is there once, whatever
\* requests and scans insert them at the same time (db/models.py
\* UniqueConstraint; the look-up before an insert alone does not ensure it).
UniqueKeys ==
    /\ \A r, s \in Live : rows[r].key = rows[s].key => r = s
    /\ \A l, m \in links : l.rep = m.rep /\ l.string = m.string => l = m

\* No link outlives its ends, and no link is committed before them, whatever
\* is deleted between the look-up of the ends and the insert of the link.
LinksHaveEnds ==
    \A l \in links :
        /\ l.rep \in Live /\ rows[l.rep].key \in Emails
        /\ l.string \in Live /\ rows[l.string].key \in Norms
        /\ {rows[l.rep].by, rows[l.string].by} \subseteq {Db, l.by}

\* The counts of a rep-scan's SyncLog row and answer are what the scan did: as
\* many new rows as become visible with it, and every sender it sampled is
\* either new or was there.
ScanLogIsTrue ==
    [][\A p \in Procs :
          Commit(p) /\ txn[p].kind = "repscan" =>
              /\ SyncLog(p).new = Cardinality({i \in Live : rows[i].by = p})
              /\ SyncLog(p).fetched = SyncLog(p).new + SyncLog(p).updated]_vars

Asked(p) == {txn[p].list[i].key :
                i \in Firsts(txn[p].list, IF txn[p].kind = "repscan" THEN MaxMessages
                                          ELSE Len(txn[p].list))}

Registered(k) == \E i \in Live : rows[i].by = Db /\ rows[i].key = k

\* A request or scan that ends well leaves every key it was asked for in the
\* registry for all to see, and the link as well, as long as the operator takes
\* nothing away: what it found instead of inserting it is not taken back by the
\* rollback of another.
DoneMeansRegistered ==
    [][\A p \in Procs :
          Commit(p) /\ edits = 0 =>
              /\ \A k \in Asked(p) : Registered(k)'
              /\ txn[p].kind = "link" =>
                    \E l \in links' : Joins(p, l) /\ l.by = Db]_vars

\* A scan or a registration only adds ("non-destructive"): a row that is there
\* keeps its key and stays active or deactivated, its name or its examples are
\* never blanked, and no link goes.
NonDestructive ==
    [][edits' = edits =>
          /\ \A i \in Live : rows[i].by = Db =>
                /\ rows'[i] # NoRow
                /\ rows'[i].key = rows[i].key /\ rows'[i].active = rows[i].active
                /\ rows[i].info # {} => rows'[i].info # {}
          /\ \A l \in links : l.by = Db => l \in links']_vars

\* Read committed, the tables are the registry of Registry.tla: what one
\* request or scan adds to several tables, or of several senders, is one step
\* for all who read it, and it is what the request was asked for and did not
\* find; a request that is refused, fails or is cancelled adds nothing.
Public(keys) == {k \in keys : Registered(k)}

KeyOf(i) == IF i \in Live THEN rows[i].key ELSE NoRow

\* The keys that p has not found, inserted ones included.  The position whose
\* UPDATE is held back has been found.
Missing(p) ==
    {txn[p].list[i].key :
        i \in {j \in txn[p].todo : txn[p].pc = "update" => ~IsNext(p, j)}}
    \union {rows[i].key : i \in {j \in Live : rows[j].by = p}}

\* A link's request is at its commit without an own link if it found the link.
WantsLink(p) ==
    /\ txn[p].kind = "link"
    /\ txn[p].pc = "commit" => \E l \in links : l.by = p

R == INSTANCE Registry WITH
        reps <- Public(Emails), strings <- Public(Norms),
        links <- {<<KeyOf(l.rep), KeyOf(l.string)>> : l \in {k \in links : k.by = Db}},
        open <- {p \in Procs : txn[p].pc # "idle"},
        missing <- [p \in Procs |-> Missing(p)],
        pairing <- {p \in Procs : WantsLink(p)}

RegistrySpec == R!Spec
=============================================================================
