--------------------------- MODULE VendorsProofs ---------------------------
(***************************************************************************)
(* Proofs about the writers of the vendor registry, for any number of      *)
(* transactions, senders, strings and ids.  CountInv accounts for what a   *)
(* scan has inserted and found, DoneInv says that what a request is done   *)
(* with stays in its sight, RegistryInv that its uncommitted rows are of   *)
(* the kind it asked for, or the ends of its link, and KeysInv that it     *)
(* asks for a key once: what it still looks up it has not inserted.  Its   *)
(* commit is then one step of Registry.                                    *)
(***************************************************************************)
EXTENDS Vendors, FiniteSetTheorems, TLAPS

-----------------------------------------------------------------------------
(* Types.                                                                  *)

TxnOK(t) == /\ t \in TxnType
            /\ \A i \in t.todo : i \in DOMAIN t.list /\ t.list[i].key \in Keys
            /\ t.pc = "update" => t.hit # NoHit

\* A transaction that is replaced by a well-formed one leaves all of them so.
LEMMA OneTxn ==
    ASSUME TypeOK, NEW p \in Procs, NEW t, TxnOK(t), Becomes(p, t)
    PROVE  /\ txn' \in [Procs -> TxnType]
           /\ \A q \in Procs :
                 /\ \A i \in txn'[q].todo : /\ i \in DOMAIN txn'[q].list
                                            /\ txn'[q].list[i].key \in Keys
                 /\ txn'[q].pc = "update" => txn'[q].hit # NoHit
  BY DEF TypeOK, TxnOK, Becomes

LEMMA IdleOK == TxnOK(Idle)
  BY DEF TxnOK, TxnType, Idle

LEMMA LiveRows ==
    ASSUME TypeOK
    PROVE  \A i \in Live : i \in Ids /\ rows[i] \in RowType
  BY DEF TypeOK, Live

\* A name or an example that a message or a body brings.
LEMMA SenderWant == \A e \in Emails \union {Internal} : Sender(e) \in Wants
  BY DEF Sender, Wants, Keys, Names

LEMMA SpellingWant == \A s \in Spellings : Spelling(s) \in Wants
  BY DEF Spelling, Wants, Keys, Norms

LEMMA FirstsPositions ==
    ASSUME NEW list, NEW n
    PROVE  Firsts(list, n) \subseteq 1 .. Len(list)
  BY DEF Firsts

\* What is asked for at a position that is not handled is a key of its own.
LEMMA BeginType ==
    ASSUME TypeOK, NEW p \in Procs,
           NEW kind \in {"rep", "string", "repscan", "seed"},
           NEW list \in Seq(Wants), NEW todo, todo \subseteq 1 .. Len(list),
           \A i \in todo : list[i].key \in Keys,
           Begin(p, kind, list, todo)
    PROVE  TypeOK'
<1> DEFINE t == [Idle EXCEPT !.kind = kind, !.list = list, !.todo = todo,
                   !.pc = IF todo = {} THEN "commit" ELSE "look"]
<1>1. TxnOK(t)
  <2>1. DOMAIN list = 1 .. Len(list)
    OBVIOUS
  <2>2. todo \subseteq Nat
    OBVIOUS
  <2> QED BY <2>1, <2>2 DEF TxnOK, TxnType, Idle
<1>2. Becomes(p, t) /\ UNCHANGED <<rows, links, faults, edits>>
  BY DEF Begin
<1> QED BY <1>1, <1>2, OneTxn DEF TypeOK

\* What a step changes in its transaction but not in what it was asked for.
LEMMA TxnUpdate ==
    ASSUME NEW t, TxnOK(t), NEW u \in TxnType,
           u.list = t.list, u.todo \subseteq t.todo, u.pc # "update"
    PROVE  TxnOK(u)
  BY DEF TxnOK

LEMMA MovesOn ==
    ASSUME NEW t, TxnOK(t), NEW pc \in {"insert", "pair", "commit"}
    PROVE  TxnOK([t EXCEPT !.pc = pc])
<1> DEFINE u == [t EXCEPT !.pc = pc]
<1>1. u \in TxnType
  BY DEF TxnOK, TxnType
<1>2. u.list = t.list /\ u.todo = t.todo /\ u.pc # "update"
  BY DEF TxnOK, TxnType
<1> QED BY <1>1, <1>2, TxnUpdate

LEMMA Counts ==
    ASSUME NEW t, TxnOK(t)
    PROVE  /\ TxnOK([t EXCEPT !.old = @ + 1])
           /\ TxnOK([t EXCEPT !.new = @ + 1])
           /\ \A r \in Ids : /\ TxnOK([t EXCEPT !.new = @ + 1, !.rep = r])
                             /\ TxnOK([t EXCEPT !.new = @ + 1, !.string = r])
<1> DEFINE n == t.new + 1
           o == t.old + 1
<1>1. t \in TxnType /\ n \in Nat /\ o \in Nat
  BY DEF TxnOK, TxnType
<1> HIDE DEF n, o
<1>2. TxnOK([t EXCEPT !.old = o])
  BY <1>1 DEF TxnOK, TxnType
<1>3. TxnOK([t EXCEPT !.new = n])
  BY <1>1 DEF TxnOK, TxnType
<1>4. ASSUME NEW r \in Ids PROVE TxnOK([t EXCEPT !.new = n, !.rep = r])
  BY <1>1 DEF TxnOK, TxnType
<1>5. ASSUME NEW r \in Ids PROVE TxnOK([t EXCEPT !.new = n, !.string = r])
  BY <1>1 DEF TxnOK, TxnType
<1> USE DEF n, o
<1> QED BY <1>2, <1>3, <1>4, <1>5

LEMMA LocksHit ==
    ASSUME NEW t, TxnOK(t), t.pc = "update"
    PROVE  TxnOK([t EXCEPT !.set = @ \union {t.hit}])
<1> DEFINE u == [t EXCEPT !.set = @ \union {t.hit}]
<1>1. u \in TxnType
  BY DEF TxnOK, TxnType
<1>2. u.list = t.list /\ u.todo = t.todo /\ u.pc = t.pc /\ u.hit = t.hit
  BY DEF TxnOK, TxnType
<1> QED BY <1>1, <1>2 DEF TxnOK

LEMMA HandledType ==
    ASSUME NEW p, NEW i, NEW t, TxnOK(t)
    PROVE  TxnOK(Handled(p, i, t))
<1> DEFINE h == Handled(p, i, t)
<1>1. h \in TxnType
  BY DEF Handled, TxnOK, TxnType
<1>2. h.list = t.list /\ h.todo \subseteq t.todo /\ h.pc # "update"
  BY DEF Handled, TxnOK, TxnType
<1> QED BY <1>1, <1>2 DEF TxnOK

LEMMA EndAtType ==
    ASSUME NEW p, NEW r \in Ids, NEW t, TxnOK(t)
    PROVE  TxnOK(EndAt(p, t, r))
  BY DEF EndAt, TxnOK, TxnType

LEMMA WantAt ==
    ASSUME TypeOK, NEW p \in Procs, NEW i \in txn[p].todo
    PROVE  txn[p].list[i] \in Wants /\ txn[p].list[i].key \in Keys
<1>1. txn[p] \in TxnType /\ i \in DOMAIN txn[p].list
  BY DEF TypeOK
<1>2. txn[p].list \in Seq(Wants)
  BY <1>1 DEF TxnType
<1> QED BY <1>1, <1>2 DEF TypeOK

LEMMA HitTypeOK ==
    ASSUME NEW r \in Ids, rows[r] \in RowType, NEW w \in Wants
    PROVE  Hit(r, w) \in HitType
<1>1. /\ rows[r].info \in SUBSET (Names \union Spellings)
      /\ w.vals \in SUBSET (Names \union Spellings)
  BY DEF RowType, Wants
<1>2. Merged(w.key, rows[r].info, w.vals) \in SUBSET (Names \union Spellings)
  BY <1>1 DEF Merged
<1> QED BY <1>2 DEF Hit, HitType

-----------------------------------------------------------------------------
LEMMA LookType ==
    ASSUME TypeOK, NEW p \in Procs, Look(p)
    PROVE  TypeOK'
<1>1. PICK i \in txn[p].todo :
        LET w == txn[p].list[i]
            t == [txn[p] EXCEPT !.old = @ + 1]
        IN  \/ Becomes(p, [txn[p] EXCEPT !.pc = "insert"])
            \/ \E r \in Found(p, w.key) :
                  Becomes(p, IF w.key \in Emails /\ Hit(r, w).info = {}
                             THEN Handled(p, i, EndAt(p, t, r))
                             ELSE [EndAt(p, t, r) EXCEPT !.pc = "update",
                                                         !.hit = Hit(r, w)])
  BY DEF Look
<1> DEFINE w == txn[p].list[i]
           t == [txn[p] EXCEPT !.old = @ + 1]
<1>2. TxnOK(txn[p])
  BY DEF TypeOK, TxnOK
<1>3. TxnOK(t) /\ TxnOK([txn[p] EXCEPT !.pc = "insert"])
  BY <1>2, MovesOn, Counts
<1>4. w \in Wants
  BY WantAt
<1>5. ASSUME NEW r \in Found(p, w.key)
      PROVE  /\ TxnOK(Handled(p, i, EndAt(p, t, r)))
             /\ TxnOK([EndAt(p, t, r) EXCEPT !.pc = "update", !.hit = Hit(r, w)])
  <2>1. r \in Ids /\ rows[r] \in RowType
    BY LiveRows DEF Found
  <2>2. TxnOK(EndAt(p, t, r))
    BY <1>3, <2>1, EndAtType
  <2>3. Hit(r, w) \in HitType
    BY <1>4, <2>1, HitTypeOK
  <2>4. TxnOK([EndAt(p, t, r) EXCEPT !.pc = "update", !.hit = Hit(r, w)])
    <3> DEFINE e == EndAt(p, t, r)
    <3> HIDE DEF e
    <3>1. Hit(r, w) # NoHit
      BY <2>3, VendorsAssumption
    <3> QED BY <2>2, <2>3, <3>1 DEF TxnOK, TxnType
  <2> QED BY <2>2, <2>4, HandledType
<1>6. PICK u : TxnOK(u) /\ Becomes(p, u)
  BY <1>1, <1>3, <1>5
<1> QED BY <1>6, OneTxn DEF TypeOK, Look

\* The row that an INSERT adds.
LEMMA InsertStep ==
    ASSUME TypeOK, NEW p \in Procs, Insert(p)
    PROVE  \E i \in txn[p].todo, r \in Ids : \E t :
              LET w == txn[p].list[i]
              IN  /\ rows[r] = NoRow /\ w \in Wants /\ w.key \in Keys
                  /\ ~Taken(p, w.key)
                  /\ rows' = [rows EXCEPT ![r] = [key |-> w.key, info |-> w.vals,
                                                  active |-> TRUE, by |-> p]]
                  /\ TxnOK(t) /\ Becomes(p, t)
                  /\ UNCHANGED <<links, faults, edits>>
<1>1. PICK i \in txn[p].todo :
        LET w == txn[p].list[i]
            r == CHOOSE f \in Fresh(w.key) : TRUE
        IN  /\ IsNext(p, i) /\ ~Taken(p, w.key) /\ Fresh(w.key) # {}
            /\ rows' = [rows EXCEPT ![r] = [key |-> w.key, info |-> w.vals,
                                            active |-> TRUE, by |-> p]]
            /\ Becomes(p, Handled(p, i,
                  IF txn[p].kind # "link" THEN [txn[p] EXCEPT !.new = @ + 1]
                  ELSE IF w.key \in Emails THEN [txn[p] EXCEPT !.new = @ + 1, !.rep = r]
                  ELSE [txn[p] EXCEPT !.new = @ + 1, !.string = r]))
  BY DEF Insert
<1> DEFINE w == txn[p].list[i]
           r == CHOOSE f \in Fresh(w.key) : TRUE
<1>2. w \in Wants /\ w.key \in Keys
  BY WantAt
<1>3. r \in Fresh(w.key)
  BY <1>1
<1>4. r \in IdsOf[w.key] /\ rows[r] = NoRow
  BY <1>3 DEF Fresh
<1>5. r \in Ids
  BY <1>2, <1>4, VendorsAssumption
<1> DEFINE u == IF txn[p].kind # "link" THEN [txn[p] EXCEPT !.new = @ + 1]
                ELSE IF w.key \in Emails THEN [txn[p] EXCEPT !.new = @ + 1, !.rep = r]
                ELSE [txn[p] EXCEPT !.new = @ + 1, !.string = r]
<1>6. TxnOK(u)
  <2>1. TxnOK(txn[p])
    BY DEF TypeOK, TxnOK
  <2> QED BY <2>1, <1>5, Counts
<1>7. TxnOK(Handled(p, i, u))
  BY <1>6, HandledType
<1>8. UNCHANGED <<links, faults, edits>>
  BY DEF Insert
<1> QED BY <1>1, <1>2, <1>4, <1>5, <1>7, <1>8

LEMMA UpdateType ==
    ASSUME TypeOK, NEW p \in Procs, Update(p)
    PROVE  TypeOK'
<1> DEFINE t == [txn[p] EXCEPT !.set = @ \union {txn[p].hit}]
<1>1. TxnOK(txn[p]) /\ txn[p].pc = "update"
  BY DEF TypeOK, TxnOK, Update
<1>2. TxnOK(t)
  BY <1>1, LocksHit
<1>3. PICK i : Becomes(p, Handled(p, i, t))
  BY DEF Update
<1>4. TxnOK(Handled(p, i, t))
  BY <1>2, HandledType
<1> QED BY <1>3, <1>4, OneTxn DEF TypeOK, Update

LEMMA LinkTypes ==
    ASSUME TypeOK, NEW p \in Procs, LookLink(p) \/ InsertLink(p)
    PROVE  TypeOK'
<1>1. TxnOK(txn[p])
  BY DEF TypeOK, TxnOK
<1>2. CASE LookLink(p)
  BY <1>1, <1>2, MovesOn, OneTxn DEF TypeOK, LookLink
<1>3. CASE InsertLink(p)
  <2>1. Becomes(p, [txn[p] EXCEPT !.pc = "commit"])
    BY <1>3 DEF InsertLink
  <2>2. txn[p].rep \in Ids /\ txn[p].string \in Ids
    BY <1>3 DEF InsertLink, HasEnds, IsEnd, Live
  <2>3. links' \subseteq LinkType
    BY <1>3, <2>2 DEF InsertLink, TypeOK, LinkType
  <2> QED BY <1>1, <1>3, <2>1, <2>3, MovesOn, OneTxn DEF TypeOK, InsertLink
<1> QED BY <1>2, <1>3

LEMMA RollbackTypes ==
    ASSUME TypeOK, NEW p \in Procs, Rollback(p)
    PROVE  /\ rows' \in [Ids -> RowType \union {NoRow}]
           /\ links' \subseteq LinkType
           /\ Becomes(p, Idle)
  BY DEF Rollback, TypeOK

\* What a commit keeps and what it changes in a row.
LEMMA AppliedType ==
    ASSUME TypeOK, NEW p \in Procs, NEW i \in Live
    PROVE  LET r == Applied(p, i)
           IN  /\ r \in RowType
               /\ r.key = rows[i].key /\ r.active = rows[i].active
               /\ r.by = rows[i].by
               /\ rows[i].info # {} => r.info # {}
<1>1. rows[i] \in RowType
  BY LiveRows
<1>2. CASE \E u \in txn[p].set : u.id = i /\ u.info # {}
  <2> DEFINE v == CHOOSE u \in txn[p].set : u.id = i /\ u.info # {}
  <2>1. v \in txn[p].set /\ v.info # {}
    BY <1>2
  <2>2. txn[p].set \subseteq HitType
    BY DEF TypeOK, TxnType
  <2>3. v.info \in SUBSET (Names \union Spellings)
    BY <2>1, <2>2 DEF HitType
  <2> HIDE DEF v
  <2>4. Applied(p, i) = [rows[i] EXCEPT !.info = v.info]
    BY <1>2 DEF Applied, v
  <2> QED BY <1>1, <2>1, <2>3, <2>4 DEF RowType
<1>3. CASE ~ \E u \in txn[p].set : u.id = i /\ u.info # {}
  BY <1>1, <1>3 DEF Applied
<1> QED BY <1>2, <1>3

LEMMA SettledRow ==
    ASSUME NEW p, NEW r \in RowType
    PROVE  LET s == Settled(p, r)
           IN  /\ s \in RowType
               /\ s.key = r.key /\ s.active = r.active /\ s.info = r.info
               /\ s.by = IF r.by = p THEN Db ELSE r.by
  BY DEF Settled, RowType

LEMMA SettledLink ==
    ASSUME NEW p, NEW l \in LinkType
    PROVE  LET s == Settled(p, l)
           IN  /\ s \in LinkType
               /\ s.rep = l.rep /\ s.string = l.string
               /\ s.by = IF l.by = p THEN Db ELSE l.by
  BY DEF Settled, LinkType

LEMMA DurableRows ==
    ASSUME TypeOK, NEW p \in Procs, Durable(p)
    PROVE  /\ rows' \in [Ids -> RowType \union {NoRow}]
           /\ links' \subseteq LinkType
           /\ \A i \in Ids :
                 /\ i \notin Live => rows'[i] = NoRow
                 /\ i \in Live =>
                       /\ rows'[i] \in RowType
                       /\ rows'[i].key = rows[i].key
                       /\ rows'[i].active = rows[i].active
                       /\ rows[i].info # {} => rows'[i].info # {}
                       /\ rows'[i].by = IF rows[i].by = p THEN Db ELSE rows[i].by
           /\ Becomes(p, Idle)
<1>1. \A i \in Ids : rows'[i] = IF i \in Live THEN Settled(p, Applied(p, i)) ELSE NoRow
  BY DEF Durable
<1>2. ASSUME NEW i \in Live
      PROVE  /\ i \in Ids /\ rows'[i] = Settled(p, Applied(p, i))
             /\ rows'[i] \in RowType
             /\ rows'[i].key = rows[i].key
             /\ rows'[i].active = rows[i].active
             /\ rows[i].info # {} => rows'[i].info # {}
             /\ rows'[i].by = IF rows[i].by = p THEN Db ELSE rows[i].by
  <2> DEFINE r == Applied(p, i)
  <2>1. /\ r \in RowType
        /\ r.key = rows[i].key /\ r.active = rows[i].active
        /\ r.by = rows[i].by
        /\ rows[i].info # {} => r.info # {}
    BY AppliedType
  <2>2. i \in Ids /\ rows'[i] = Settled(p, r)
    BY <1>1 DEF Live
  <2> HIDE DEF r
  <2> QED BY <2>1, <2>2, SettledRow DEF r
<1>3. rows' = [i \in Ids |-> IF i \in Live THEN Settled(p, Applied(p, i)) ELSE NoRow]
  BY DEF Durable
<1>4. rows' \in [Ids -> RowType \union {NoRow}]
  BY <1>1, <1>2, <1>3
<1>5. links' \subseteq LinkType
  BY SettledLink DEF Durable, TypeOK
<1> QED BY <1>1, <1>2, <1>4, <1>5 DEF Durable

LEMMA FirstsAsked ==
    ASSUME NEW list \in Seq(Wants), NEW n
    PROVE  \A i \in Firsts(list, n) : i \in 1 .. Len(list) /\ list[i].key \in Keys
<1> SUFFICES ASSUME NEW i \in Firsts(list, n)
             PROVE  i \in 1 .. Len(list) /\ list[i].key \in Keys
  OBVIOUS
<1>1. i \in 1 .. Len(list) /\ list[i].key # Internal
  BY DEF Firsts
<1>2. list[i] \in Wants
  BY <1>1
<1> QED BY <1>1, <1>2 DEF Wants

LEMMA OneElement ==
    ASSUME NEW S, NEW x \in S
    PROVE  <<x>> \in Seq(S) /\ Len(<<x>>) = 1 /\ <<x>>[1] = x
  OBVIOUS

LEMMA BeginOne ==
    ASSUME TypeOK, NEW p \in Procs, NEW kind \in {"rep", "string"},
           NEW w \in Wants, w.key \in Keys, Begin(p, kind, <<w>>, {1})
    PROVE  TypeOK'
<1> DEFINE list == <<w>>
<1>1. list \in Seq(Wants) /\ Len(list) = 1 /\ list[1] = w
  BY OneElement
<1> HIDE DEF list
<1>2. {1} \subseteq 1 .. Len(list) /\ \A i \in {1} : list[i].key \in Keys
  BY <1>1
<1>3. Begin(p, kind, list, {1})
  BY DEF list
<1> QED BY <1>1, <1>2, <1>3, BeginType

LEMMA StartTypes ==
    ASSUME TypeOK, NEW p \in Procs, Starts(p)
    PROVE  TypeOK'
<1>1. CASE PostRep(p)
  <2>1. PICK e \in Emails : Begin(p, "rep", <<Sender(e)>>, {1})
    BY <1>1 DEF PostRep
  <2>2. Sender(e) \in Wants /\ Sender(e).key \in Keys
    BY SenderWant DEF Sender, Keys
  <2> QED BY <2>1, <2>2, BeginOne
<1>2. CASE PostString(p)
  <2>1. PICK s \in Spellings : Begin(p, "string", <<Spelling(s)>>, {1})
    BY <1>2 DEF PostString
  <2>2. Spelling(s) \in Wants /\ Spelling(s).key \in Keys
    BY SpellingWant DEF Spelling, Keys, Norms
  <2> QED BY <2>1, <2>2, BeginOne
<1>3. CASE PostLink(p)
  <2>1. PICK a \in Committed(Emails) \union {NoId}, b \in Committed(Norms) \union {NoId},
             ea \in {<<>>} \union {<<Sender(e)>> : e \in Emails},
             eb \in {<<>>} \union {<<Spelling(s)>> : s \in Spellings} :
          /\ a = NoId \/ ea = <<>>
          /\ b = NoId \/ eb = <<>>
          /\ Becomes(p, [Idle EXCEPT !.kind = "link", !.list = ea \o eb,
                           !.todo = 1 .. Len(ea \o eb), !.rep = a, !.string = b,
                           !.pc = IF ea \o eb = <<>> THEN "link" ELSE "look"])
    BY <1>3 DEF PostLink
  <2> DEFINE list == ea \o eb
             t == [Idle EXCEPT !.kind = "link", !.list = list,
                     !.todo = 1 .. Len(list), !.rep = a, !.string = b,
                     !.pc = IF list = <<>> THEN "link" ELSE "look"]
             Asks == {w \in Wants : w.key \in Keys}
  <2>2. ea \in Seq(Asks)
    <3>1. \A e \in Emails : Sender(e) \in Asks
      BY SenderWant DEF Sender, Keys
    <3>2. \A e \in Emails : <<Sender(e)>> \in Seq(Asks)
      BY <3>1, OneElement
    <3>3. <<>> \in Seq(Asks)
      OBVIOUS
    <3> QED BY <3>2, <3>3
  <2>3. eb \in Seq(Asks)
    <3>1. \A s \in Spellings : Spelling(s) \in Asks
      BY SpellingWant DEF Spelling, Keys, Norms
    <3>2. \A s \in Spellings : <<Spelling(s)>> \in Seq(Asks)
      BY <3>1, OneElement
    <3>3. <<>> \in Seq(Asks)
      OBVIOUS
    <3> QED BY <3>2, <3>3
  <2> HIDE DEF Asks
  <2>4. list \in Seq(Asks)
    BY <2>2, <2>3
  <2> HIDE DEF list
  <2> USE DEF Asks
  <2>5. list \in Seq(Wants) /\ \A i \in 1 .. Len(list) : list[i].key \in Keys
    BY <2>4
  <2>6. a \in Ids \union {NoId} /\ b \in Ids \union {NoId}
    BY DEF Committed, Live
  <2>7. TxnOK(t)
    <3>1. 1 .. Len(list) \in SUBSET Nat /\ DOMAIN list = 1 .. Len(list)
      BY <2>5
    <3> DEFINE todo == 1 .. Len(list)
    <3> HIDE DEF todo
    <3>2. t \in TxnType
      BY <2>5, <2>6, <3>1 DEF TxnType, Idle, todo
    <3>3. t.list = list /\ t.todo = todo /\ t.pc # "update"
      BY DEF Idle, todo
    <3> QED BY <2>5, <3>1, <3>2, <3>3 DEF TxnOK, todo
  <2>8. Becomes(p, t)
    BY <2>1 DEF list
  <2> QED BY <1>3, <2>7, <2>8, OneTxn DEF TypeOK, PostLink
<1>4. CASE RepScan(p)
  <2>1. PICK m \in Mailboxes :
          LET list == [i \in 1 .. Len(m) |-> Sender(m[i])]
          IN  Begin(p, "repscan", list, Firsts(list, MaxMessages))
    BY <1>4 DEF RepScan
  <2> DEFINE list == [i \in 1 .. Len(m) |-> Sender(m[i])]
  <2>2. m \in Seq(Emails \union {Internal})
    BY VendorsAssumption
  <2>3. list \in Seq(Wants)
    BY <2>2, SenderWant
  <2> HIDE DEF list
  <2>4. Begin(p, "repscan", list, Firsts(list, MaxMessages))
    BY <2>1 DEF list
  <2> QED BY <2>3, <2>4, FirstsAsked, BeginType
<1>5. CASE Seed(p)
  <2>1. PICK v \in VendorLists :
          LET list == [i \in 1 .. Len(v) |-> Spelling(v[i])]
          IN  Begin(p, "seed", list, Firsts(list, Len(list)))
    BY <1>5 DEF Seed
  <2> DEFINE list == [i \in 1 .. Len(v) |-> Spelling(v[i])]
  <2>2. v \in Seq(Spellings)
    BY VendorsAssumption
  <2>3. list \in Seq(Wants)
    BY <2>2, SpellingWant
  <2> HIDE DEF list
  <2>4. Begin(p, "seed", list, Firsts(list, Len(list)))
    BY <2>1 DEF list
  <2> QED BY <2>3, <2>4, FirstsAsked, BeginType
<1> QED BY <1>1, <1>2, <1>3, <1>4, <1>5 DEF Starts

\* An edit by the operator.
OperatorStep ==
    \/ \E i \in Ids : Edit(i) \/ Delete(i) \/ \E e \in Emails : Rename(i, e)
    \/ \E l \in links : Unlink(l)

LEMMA EditRow ==
    ASSUME TypeOK, NEW i \in Ids, Edit(i)
    PROVE  /\ links' = links /\ i \in Live
           /\ \A j \in Ids : j # i => rows'[j] = rows[j]
           /\ rows'[i] \in RowType
           /\ rows'[i].key = rows[i].key /\ rows'[i].by = rows[i].by
           /\ rows' \in [Ids -> RowType \union {NoRow}]
<1>1. PICK a \in BOOLEAN, v \in {{}} \union {Names} :
        rows' = [rows EXCEPT ![i].active = a,
                   ![i].info = IF rows[i].key \in Emails THEN v ELSE @]
  BY DEF Edit
<1>2. rows[i] \in RowType
  BY LiveRows DEF Edit
<1> DEFINE r == [rows[i] EXCEPT !.active = a,
                   !.info = IF rows[i].key \in Emails THEN v ELSE @]
<1>3. r \in RowType /\ r.key = rows[i].key /\ r.by = rows[i].by
  BY <1>2 DEF RowType
<1>4. rows' = [rows EXCEPT ![i] = r]
  BY <1>1 DEF TypeOK
<1> HIDE DEF r
<1> QED BY <1>3, <1>4 DEF TypeOK, Edit

LEMMA OperatorTypes ==
    ASSUME TypeOK, OperatorStep
    PROVE  TypeOK'
<1>1. ASSUME NEW i \in Ids, Edit(i)
      PROVE  rows' \in [Ids -> RowType \union {NoRow}] /\ links' = links /\ Operator
  BY <1>1, EditRow DEF Edit
<1>2. ASSUME NEW i \in Ids, NEW e \in Emails, Rename(i, e)
      PROVE  rows' \in [Ids -> RowType \union {NoRow}] /\ links' = links /\ Operator
  <2>1. rows[i] \in RowType
    BY <1>2, LiveRows DEF Rename
  <2>2. [rows[i] EXCEPT !.key = e] \in RowType
    BY <2>1 DEF RowType, Keys
  <2> QED BY <1>2, <2>2 DEF Rename, TypeOK
<1>3. ASSUME NEW i \in Ids, Delete(i)
      PROVE  /\ rows' \in [Ids -> RowType \union {NoRow}]
             /\ links' \subseteq links /\ Operator
  BY <1>3 DEF Delete, TypeOK
<1>4. ASSUME NEW l \in links, Unlink(l)
      PROVE  rows' = rows /\ links' \subseteq links /\ Operator
  BY <1>4 DEF Unlink
<1>5. /\ rows' \in [Ids -> RowType \union {NoRow}]
      /\ links' \subseteq LinkType /\ Operator
  BY <1>1, <1>2, <1>3, <1>4 DEF OperatorStep, TypeOK
<1> QED BY <1>5, VendorsAssumption DEF Operator, TypeOK

LEMMA EndTypes ==
    ASSUME TypeOK, NEW p \in Procs, Rollback(p) \/ Durable(p)
    PROVE  /\ rows' \in [Ids -> RowType \union {NoRow}]
           /\ links' \subseteq LinkType
           /\ Becomes(p, Idle)
  BY RollbackTypes, DurableRows

\* The steps, by what they do to the tables.
LEMMA StepCases ==
    ASSUME NEW p \in Procs, Step(p) \/ Fails(p)
    PROVE  \/ Look(p) \/ Insert(p) \/ Update(p) \/ LookLink(p) \/ InsertLink(p)
           \/ (Rollback(p) \/ Durable(p)) /\ edits' = edits /\ faults' \in {faults, faults + 1}
                                          /\ (faults' # faults => faults < MaxFaults)
  BY DEF Step, Fails, Commit, Refuse, FlushFails, Deadlocked, Fault

\* The type invariant of Vendors.
THEOREM TypeCorrect == Spec => []TypeOK
<1>1. Init => TypeOK
  <2>1. \A p \in Procs : TxnOK(Idle)
    BY IdleOK
  <2> QED BY <2>1, VendorsAssumption DEF Init, TypeOK, TxnOK
<1>2. TypeOK /\ [Next]_vars => TypeOK'
  <2> SUFFICES ASSUME TypeOK, [Next]_vars PROVE TypeOK'
    OBVIOUS
  <2>1. ASSUME NEW p \in Procs, Step(p) \/ Fails(p) PROVE TypeOK'
    <3>1. CASE Insert(p)
      <4>1. PICK i \in txn[p].todo, r \in Ids : \E t :
              LET w == txn[p].list[i]
              IN  /\ w \in Wants /\ w.key \in Keys
                  /\ rows' = [rows EXCEPT ![r] = [key |-> w.key, info |-> w.vals,
                                                  active |-> TRUE, by |-> p]]
                  /\ TxnOK(t) /\ Becomes(p, t)
                  /\ UNCHANGED <<links, faults, edits>>
        BY <3>1, InsertStep
      <4> DEFINE w == txn[p].list[i]
      <4>2. [key |-> w.key, info |-> w.vals, active |-> TRUE, by |-> p] \in RowType
        BY <4>1 DEF RowType, Wants
      <4>3. rows' \in [Ids -> RowType \union {NoRow}]
        BY <4>1, <4>2 DEF TypeOK
      <4> QED BY <4>1, <4>3, OneTxn DEF TypeOK
    <3>2. CASE (Rollback(p) \/ Durable(p)) /\ edits' = edits /\ faults' \in {faults, faults + 1}
                                           /\ (faults' # faults => faults < MaxFaults)
      BY <3>2, EndTypes, IdleOK, OneTxn, VendorsAssumption DEF TypeOK
    <3> QED BY <2>1, <3>1, <3>2, StepCases, LookType, UpdateType, LinkTypes
  <2>2. ASSUME NEW p \in Procs, Starts(p) PROVE TypeOK'
    BY <2>2, StartTypes
  <2>3. CASE OperatorStep
    BY <2>3, OperatorTypes
  <2>4. CASE UNCHANGED vars
    BY <2>4 DEF vars, TypeOK
  <2> QED BY <2>1, <2>2, <2>3, <2>4 DEF Next, OperatorStep
<1> QED BY <1>1, <1>2, PTL DEF Spec

-----------------------------------------------------------------------------
(* One key, one row; no link without its ends.                             *)

\* What a step may do to the tables.
TableStep(p) == Insert(p) \/ InsertLink(p) \/ Rollback(p) \/ Durable(p)

LEMMA NextCases ==
    ASSUME [Next]_vars
    PROVE  \/ UNCHANGED <<rows, links, edits>>
           \/ \E p \in Procs : TableStep(p) /\ edits' = edits
           \/ OperatorStep
<1>1. ASSUME NEW p \in Procs, Starts(p) \/ Step(p) \/ Fails(p)
      PROVE  UNCHANGED <<rows, links, edits>> \/ (TableStep(p) /\ edits' = edits)
  <2>1. CASE Starts(p)
    BY <2>1 DEF Starts, PostRep, PostString, PostLink, RepScan, Seed, Begin
  <2>2. CASE Step(p) \/ Fails(p)
    <3>1. CASE Look(p) \/ Update(p) \/ LookLink(p)
      BY <3>1 DEF Look, Update, LookLink
    <3>2. CASE Insert(p) \/ InsertLink(p)
      BY <3>2 DEF TableStep, Insert, InsertLink
    <3>3. CASE (Rollback(p) \/ Durable(p)) /\ edits' = edits
      BY <3>3 DEF TableStep
    <3> QED BY <2>2, <3>1, <3>2, <3>3, StepCases
  <2> QED BY <1>1, <2>1, <2>2
<1>2. CASE UNCHANGED vars
  BY <1>2 DEF vars
<1> QED BY <1>1, <1>2 DEF Next, OperatorStep

\* The rows that a transaction takes back.
LEMMA RollbackRows ==
    ASSUME TypeOK, NEW p \in Procs, Rollback(p)
    PROVE  /\ \A i \in Ids : rows'[i] = IF i \in Live /\ rows[i].by = p THEN NoRow
                                        ELSE rows[i]
           /\ Live' \subseteq Live
  BY DEF Rollback, Live

LEMMA DurableLive ==
    ASSUME TypeOK, NEW p \in Procs, Durable(p)
    PROVE  Live' = Live
  BY DurableRows, VendorsAssumption DEF Live

\* Every row of the next state has the key that it had, or is the one added.
LEMMA UniqueStep ==
    ASSUME TypeOK, UniqueKeys, [Next]_vars
    PROVE  UniqueKeys'
<1>1. CASE UNCHANGED <<rows, links, edits>>
  BY <1>1 DEF UniqueKeys, Live
<1>2. ASSUME NEW p \in Procs, Insert(p)
      PROVE  UniqueKeys'
  <2>1. PICK i \in txn[p].todo, r \in Ids :
          LET w == txn[p].list[i]
          IN  /\ ~Taken(p, w.key)
              /\ rows' = [rows EXCEPT ![r] = [key |-> w.key, info |-> w.vals,
                                              active |-> TRUE, by |-> p]]
              /\ links' = links
    BY <1>2, InsertStep
  <2> DEFINE k == txn[p].list[i].key
  <2>2. \A j \in Live : rows[j].key # k
    BY <2>1 DEF Taken
  <2>3. rows'[r].key = k /\ \A j \in Ids : j # r => rows'[j] = rows[j]
    BY <2>1 DEF TypeOK
  <2>4. \A j \in Live' : j = r \/ (j \in Live /\ rows'[j] = rows[j])
    BY <2>3 DEF Live
  <2> HIDE DEF k
  <2> QED BY <2>1, <2>2, <2>3, <2>4 DEF UniqueKeys
<1>3. ASSUME NEW p \in Procs, InsertLink(p)
      PROVE  UniqueKeys'
  <2>1. /\ rows' = rows
        /\ links' = links \union {[rep |-> txn[p].rep, string |-> txn[p].string, by |-> p]}
        /\ \A l \in links : ~(l.rep = txn[p].rep /\ l.string = txn[p].string)
    BY <1>3 DEF InsertLink, Joins
  <2> QED BY <2>1 DEF UniqueKeys, Live
<1>4. ASSUME NEW p \in Procs, Rollback(p)
      PROVE  UniqueKeys'
  <2>1. \A i \in Live' : i \in Live /\ rows'[i] = rows[i]
    BY <1>4, RollbackRows DEF Live
  <2>2. links' \subseteq links
    BY <1>4 DEF Rollback
  <2> QED BY <2>1, <2>2 DEF UniqueKeys
<1>5. ASSUME NEW p \in Procs, Durable(p)
      PROVE  UniqueKeys'
  <2>1. \A i \in Live' : i \in Live /\ rows'[i].key = rows[i].key
    BY <1>5, DurableRows, DurableLive DEF Live
  <2>2. \A l \in links' : \E k \in links : /\ l = Settled(p, k)
                                           /\ l.rep = k.rep /\ l.string = k.string
    BY <1>5, SettledLink DEF Durable, TypeOK
  <2> QED BY <2>1, <2>2 DEF UniqueKeys
<1>6. CASE OperatorStep
  <2>1. ASSUME NEW i \in Ids, Edit(i)
        PROVE  UniqueKeys'
    <3>1. /\ links' = links
          /\ \A j \in Ids : j # i => rows'[j] = rows[j]
          /\ i \in Live /\ rows'[i].key = rows[i].key
      BY <2>1, LiveRows DEF Edit, TypeOK, RowType
    <3>2. \A j \in Live' : j \in Live /\ rows'[j].key = rows[j].key
      BY <3>1 DEF Live
    <3> QED BY <3>1, <3>2 DEF UniqueKeys
  <2>2. ASSUME NEW i \in Ids, NEW e \in Emails, Rename(i, e)
        PROVE  UniqueKeys'
    <3>1. /\ links' = links
          /\ \A j \in Ids : j # i => rows'[j] = rows[j]
          /\ i \in Live /\ rows'[i].key = e
          /\ \A j \in Live : rows[j].key # e
      BY <2>2, LiveRows DEF Rename, TypeOK, RowType
    <3>2. \A j \in Live' : j \in Live /\ (j # i => rows'[j].key = rows[j].key)
      BY <3>1 DEF Live
    <3> QED BY <3>1, <3>2 DEF UniqueKeys
  <2>3. ASSUME NEW i \in Ids, Delete(i)
        PROVE  UniqueKeys'
    <3>1. links' \subseteq links /\ \A j \in Live' : j \in Live /\ rows'[j] = rows[j]
      BY <2>3 DEF Delete, TypeOK, Live
    <3> QED BY <3>1 DEF UniqueKeys
  <2>4. ASSUME NEW l \in links, Unlink(l)
        PROVE  UniqueKeys'
    BY <2>4 DEF Unlink, UniqueKeys, Live
  <2> QED BY <1>6, <2>1, <2>2, <2>3, <2>4 DEF OperatorStep
<1> QED BY <1>1, <1>2, <1>3, <1>4, <1>5, <1>6, NextCases DEF TableStep

\* Whatever runs at the same time, an address, a string and a pair is stored
\* at most once.
THEOREM AlwaysUnique == Spec => []UniqueKeys
<1>1. Init => UniqueKeys
  BY DEF Init, UniqueKeys, Live
<1> QED BY <1>1, TypeCorrect, UniqueStep, PTL DEF Spec

LEMMA LinkEndsStep ==
    ASSUME TypeOK, LinksHaveEnds, [Next]_vars
    PROVE  LinksHaveEnds'
<1> DEFINE Has(l, i) == i \in Live /\ rows[i].by \in {Db, l.by}
<1>0. \A l \in links : l \in LinkType /\ Has(l, l.rep) /\ Has(l, l.string)
                       /\ rows[l.rep].key \in Emails /\ rows[l.string].key \in Norms
  BY DEF LinksHaveEnds, TypeOK
<1>1. CASE UNCHANGED <<rows, links, edits>>
  BY <1>1 DEF LinksHaveEnds, Live
<1>2. ASSUME NEW p \in Procs, Insert(p)
      PROVE  LinksHaveEnds'
  <2>1. PICK r \in Ids : /\ rows[r] = NoRow /\ links' = links
                         /\ \A j \in Ids : j # r => rows'[j] = rows[j]
    <3>1. PICK i \in txn[p].todo, r \in Ids :
            LET w == txn[p].list[i]
            IN  /\ rows[r] = NoRow
                /\ rows' = [rows EXCEPT ![r] = [key |-> w.key, info |-> w.vals,
                                                active |-> TRUE, by |-> p]]
                /\ links' = links
      BY <1>2, InsertStep
    <3> QED BY <3>1 DEF TypeOK
  <2>2. \A j \in Live : j \in Live' /\ rows'[j] = rows[j]
    BY <2>1 DEF Live
  <2> QED BY <1>0, <2>1, <2>2 DEF LinksHaveEnds
<1>3. ASSUME NEW p \in Procs, InsertLink(p)
      PROVE  LinksHaveEnds'
  <2> DEFINE n == [rep |-> txn[p].rep, string |-> txn[p].string, by |-> p]
  <2>1. rows' = rows /\ links' = links \union {n}
    BY <1>3 DEF InsertLink
  <2>2. /\ Has(n, n.rep) /\ Has(n, n.string)
        /\ rows[n.rep].key \in Emails /\ rows[n.string].key \in Norms
    BY <1>3 DEF InsertLink, HasEnds, IsEnd, Sees
  <2> HIDE DEF n
  <2> QED BY <1>0, <2>1, <2>2 DEF LinksHaveEnds, Live
<1>4. ASSUME NEW p \in Procs, Rollback(p)
      PROVE  LinksHaveEnds'
  <2>1. \A l \in links' : l \in links /\ l.by # p
    BY <1>4 DEF Rollback
  <2>2. \A i \in Live : rows[i].by # p => i \in Live' /\ rows'[i] = rows[i]
    BY <1>4, RollbackRows DEF Live
  <2>3. Db # p
    BY VendorsAssumption
  <2> QED BY <1>0, <2>1, <2>2, <2>3 DEF LinksHaveEnds
<1>5. ASSUME NEW p \in Procs, Durable(p)
      PROVE  LinksHaveEnds'
  <2>1. \A i \in Live : /\ i \in Live' /\ rows'[i].key = rows[i].key
                        /\ rows'[i].by = IF rows[i].by = p THEN Db ELSE rows[i].by
    BY <1>5, DurableRows, DurableLive DEF Live
  <2>2. \A l \in links' : \E k \in links : /\ l.rep = k.rep /\ l.string = k.string
                                           /\ l.by = IF k.by = p THEN Db ELSE k.by
    BY <1>5, SettledLink DEF Durable, TypeOK
  <2> SUFFICES ASSUME NEW l \in links'
               PROVE  /\ l.rep \in Live' /\ rows'[l.rep].key \in Emails
                      /\ l.string \in Live' /\ rows'[l.string].key \in Norms
                      /\ rows'[l.rep].by \in {Db, l.by} /\ rows'[l.string].by \in {Db, l.by}
    BY DEF LinksHaveEnds
  <2>3. PICK k \in links : /\ l.rep = k.rep /\ l.string = k.string
                           /\ l.by = IF k.by = p THEN Db ELSE k.by
    BY <2>2
  <2> QED BY <1>0, <2>1, <2>3
<1>6. CASE OperatorStep
  <2>1. ASSUME NEW i \in Ids, Edit(i)
        PROVE  LinksHaveEnds'
    <3>1. /\ links' = links
          /\ \A j \in Ids : j # i => rows'[j] = rows[j]
          /\ i \in Live /\ rows'[i] \in RowType
          /\ rows'[i].key = rows[i].key /\ rows'[i].by = rows[i].by
      BY <2>1, EditRow
    <3>2. \A j \in Live : /\ j \in Live' /\ rows'[j].key = rows[j].key
                          /\ rows'[j].by = rows[j].by
      BY <3>1, VendorsAssumption DEF Live
    <3> QED BY <1>0, <3>1, <3>2 DEF LinksHaveEnds
  <2>2. ASSUME NEW i \in Ids, NEW e \in Emails, Rename(i, e)
        PROVE  LinksHaveEnds'
    <3>1. /\ links' = links
          /\ \A j \in Ids : j # i => rows'[j] = rows[j]
          /\ i \in Live /\ rows[i].key \in Emails /\ rows'[i].key = e
          /\ rows'[i] \in RowType /\ rows'[i].by = rows[i].by
      BY <2>2, LiveRows DEF Rename, TypeOK, RowType, Keys
    <3>2. \A j \in Live : j \in Live' /\ rows'[j].by = rows[j].by
      BY <3>1, VendorsAssumption DEF Live
    <3>3. \A j \in Live : /\ rows[j].key \in Emails => rows'[j].key \in Emails
                          /\ rows[j].key \in Norms => rows'[j].key \in Norms
      BY <3>1, VendorsAssumption DEF Live
    <3> QED BY <1>0, <3>1, <3>2, <3>3 DEF LinksHaveEnds
  <2>3. ASSUME NEW i \in Ids, Delete(i)
        PROVE  LinksHaveEnds'
    <3>1. /\ \A l \in links' : l \in links /\ l.rep # i /\ l.string # i
          /\ \A j \in Live : j # i => j \in Live' /\ rows'[j] = rows[j]
      BY <2>3 DEF Delete, TypeOK, Live
    <3> QED BY <1>0, <3>1 DEF LinksHaveEnds
  <2>4. ASSUME NEW l \in links, Unlink(l)
        PROVE  LinksHaveEnds'
    BY <2>4 DEF Unlink, LinksHaveEnds, Live
  <2> QED BY <1>6, <2>1, <2>2, <2>3, <2>4 DEF OperatorStep
<1> QED BY <1>1, <1>2, <1>3, <1>4, <1>5, <1>6, NextCases DEF TableStep

\* A link, committed or not, has both its ends, and they are no less visible.
THEOREM AlwaysLinked == Spec => []LinksHaveEnds
<1>1. Init => LinksHaveEnds
  BY DEF Init, LinksHaveEnds
<1> QED BY <1>1, TypeCorrect, LinkEndsStep, PTL DEF Spec

LEMMA KeepsCommitted ==
    ASSUME TypeOK, [Next]_vars, edits' = edits
    PROVE  /\ \A i \in Live : rows[i].by = Db =>
                 /\ rows'[i] # NoRow
                 /\ rows'[i].key = rows[i].key /\ rows'[i].active = rows[i].active
                 /\ rows[i].info # {} => rows'[i].info # {}
           /\ \A l \in links : l.by = Db => l \in links'
<1> DEFINE Kept == /\ \A i \in Live : rows[i].by = Db =>
                         /\ rows'[i] # NoRow
                         /\ rows'[i].key = rows[i].key
                         /\ rows'[i].active = rows[i].active
                         /\ rows[i].info # {} => rows'[i].info # {}
                   /\ \A l \in links : l.by = Db => l \in links'
<1>1. CASE UNCHANGED <<rows, links, edits>>
  BY <1>1 DEF Live
<1>2. ASSUME NEW p \in Procs, Insert(p)
      PROVE  Kept
  <2>1. PICK i \in txn[p].todo, r \in Ids :
          LET w == txn[p].list[i]
          IN  /\ rows[r] = NoRow
              /\ rows' = [rows EXCEPT ![r] = [key |-> w.key, info |-> w.vals,
                                              active |-> TRUE, by |-> p]]
              /\ links' = links
    BY <1>2, InsertStep
  <2>2. \A j \in Live : rows'[j] = rows[j]
    BY <2>1 DEF TypeOK, Live
  <2> QED BY <2>1, <2>2 DEF Live
<1>3. ASSUME NEW p \in Procs, InsertLink(p)
      PROVE  Kept
  BY <1>3 DEF InsertLink, Live
<1>4. ASSUME NEW p \in Procs, Rollback(p)
      PROVE  Kept
  <2>1. \A i \in Live : rows[i].by # p => rows'[i] = rows[i]
    BY <1>4, RollbackRows DEF Live
  <2>2. \A l \in links : l.by # p => l \in links'
    BY <1>4 DEF Rollback
  <2> QED BY <2>1, <2>2, VendorsAssumption DEF Live
<1>5. ASSUME NEW p \in Procs, Durable(p)
      PROVE  Kept
  <2>1. \A i \in Live : /\ rows'[i] \in RowType
                        /\ rows'[i].key = rows[i].key
                        /\ rows'[i].active = rows[i].active
                        /\ rows[i].info # {} => rows'[i].info # {}
    BY <1>5, DurableRows DEF Live
  <2>2. \A l \in links : l.by # p => l \in links'
    BY <1>5 DEF Durable, Settled
  <2> QED BY <2>1, <2>2, VendorsAssumption
<1>6. CASE OperatorStep
  BY <1>6 DEF OperatorStep, Edit, Rename, Delete, Unlink, Operator, TypeOK
<1> QED BY <1>1, <1>2, <1>3, <1>4, <1>5, <1>6, NextCases DEF TableStep

\* No request and no scan takes away, renames, revives or blanks what is
\* committed.
THEOREM NeverDestructive == Spec => NonDestructive
<1>1. TypeOK /\ [Next]_vars =>
        [edits' = edits =>
          /\ \A i \in Live : rows[i].by = Db =>
                /\ rows'[i] # NoRow
                /\ rows'[i].key = rows[i].key /\ rows'[i].active = rows[i].active
                /\ rows[i].info # {} => rows'[i].info # {}
          /\ \A l \in links : l.by = Db => l \in links']_vars
  BY KeepsCommitted
<1> QED BY <1>1, TypeCorrect, PTL DEF Spec, NonDestructive

-----------------------------------------------------------------------------
(* What a step does to its transaction.                                    *)

Frame(t, u) == u.kind = t.kind /\ u.list = t.list

Dealt(t, u, i) ==
    /\ u.todo = t.todo \ {i}
    /\ u.pc = IF t.todo # {i} THEN "look"
              ELSE IF t.kind = "link" THEN "link" ELSE "commit"

\* The ends of a link after row r was found or inserted for key k.
Ended(t, u, k, r) ==
    /\ u.rep = IF t.kind = "link" /\ k \in Emails THEN r ELSE t.rep
    /\ u.string = IF t.kind = "link" /\ k \notin Emails THEN r ELSE t.string

LEMMA HandledFields ==
    ASSUME NEW p, NEW i, NEW t \in TxnType, txn[p].todo = t.todo, txn[p].kind = t.kind
    PROVE  LET u == Handled(p, i, t)
           IN  /\ Frame(t, u) /\ Dealt(t, u, i)
               /\ u.new = t.new /\ u.old = t.old /\ u.rep = t.rep /\ u.string = t.string
  BY DEF Handled, Frame, Dealt, TxnType

LEMMA LookFields ==
    ASSUME TypeOK, NEW p \in Procs, Look(p)
    PROVE  LET t == txn[p]  u == txn'[p]
           IN  \E i \in t.todo :
                 /\ IsNext(p, i) /\ Frame(t, u) /\ u.new = t.new
                 /\ \/ /\ u.pc = "insert" /\ u.todo = t.todo /\ u.old = t.old
                       /\ u.rep = t.rep /\ u.string = t.string
                    \/ \E r \in Found(p, t.list[i].key) :
                          /\ u.old = t.old + 1 /\ Ended(t, u, t.list[i].key, r)
                          /\ \/ Dealt(t, u, i)
                             \/ u.pc = "update" /\ u.todo = t.todo /\ u.hit.id = r
<1> DEFINE t == txn[p]
           c == [t EXCEPT !.old = @ + 1]
<1>1. t \in TxnType /\ txn \in [Procs -> TxnType]
  BY DEF TypeOK
<1>2. PICK i \in t.todo :
        /\ IsNext(p, i)
        /\ \/ Becomes(p, [t EXCEPT !.pc = "insert"])
           \/ \E r \in Found(p, t.list[i].key) :
                 Becomes(p, IF t.list[i].key \in Emails /\ Hit(r, t.list[i]).info = {}
                            THEN Handled(p, i, EndAt(p, c, r))
                            ELSE [EndAt(p, c, r) EXCEPT !.pc = "update",
                                                        !.hit = Hit(r, t.list[i])])
  BY DEF Look
<1>3. CASE Becomes(p, [t EXCEPT !.pc = "insert"])
  <2>1. txn'[p] = [t EXCEPT !.pc = "insert"]
    BY <1>1, <1>3 DEF Becomes
  <2> QED BY <1>1, <1>2, <2>1 DEF Frame, TxnType
<1>4. ASSUME NEW r \in Found(p, t.list[i].key),
             Becomes(p, IF t.list[i].key \in Emails /\ Hit(r, t.list[i]).info = {}
                        THEN Handled(p, i, EndAt(p, c, r))
                        ELSE [EndAt(p, c, r) EXCEPT !.pc = "update",
                                                    !.hit = Hit(r, t.list[i])])
      PROVE  LET u == txn'[p]
             IN  /\ Frame(t, u) /\ u.new = t.new
                 /\ u.old = t.old + 1 /\ Ended(t, u, t.list[i].key, r)
                 /\ \/ Dealt(t, u, i)
                    \/ u.pc = "update" /\ u.todo = t.todo /\ u.hit.id = r
  <2> DEFINE e == EndAt(p, c, r)
  <2>1. r \in Ids /\ rows[r].key = t.list[i].key
    BY DEF Found, Live
  <2>2. /\ c \in TxnType /\ c.old = t.old + 1 /\ c.new = t.new
        /\ Frame(t, c) /\ c.todo = t.todo /\ c.rep = t.rep /\ c.string = t.string
    <3> DEFINE n == t.old + 1
    <3>1. n \in Nat
      BY <1>1 DEF TxnType
    <3> HIDE DEF n
    <3>2. c = [t EXCEPT !.old = n]
      BY <1>1 DEF TxnType, n
    <3> QED BY <1>1, <3>1, <3>2 DEF TxnType, Frame, n
  <2>3. /\ e \in TxnType /\ e.old = c.old /\ e.new = c.new
        /\ Frame(c, e) /\ e.todo = c.todo /\ Ended(c, e, t.list[i].key, r)
    <3> HIDE DEF c
    <3> QED BY <2>1, <2>2 DEF TxnType, Frame, Ended, EndAt
  <2>4. /\ e \in TxnType /\ e.old = t.old + 1 /\ e.new = t.new
        /\ Frame(t, e) /\ e.todo = t.todo /\ Ended(t, e, t.list[i].key, r)
    <3> HIDE DEF c, e
    <3> QED BY <2>2, <2>3 DEF Frame, Ended
  <2> HIDE DEF e
  <2>5. CASE txn'[p] = Handled(p, i, e)
    <3>1. LET u == Handled(p, i, e)
          IN  /\ Frame(e, u) /\ Dealt(e, u, i)
              /\ u.new = e.new /\ u.old = e.old /\ u.rep = e.rep /\ u.string = e.string
      BY <2>4, HandledFields DEF Frame
    <3> QED BY <2>4, <2>5, <3>1 DEF Frame, Dealt, Ended
  <2>6. CASE txn'[p] = [e EXCEPT !.pc = "update", !.hit = Hit(r, t.list[i])]
    <3>1. Hit(r, t.list[i]).id = r
      BY DEF Hit
    <3> DEFINE h == Hit(r, t.list[i])
    <3> HIDE DEF h
    <3>2. txn'[p] = [e EXCEPT !.pc = "update", !.hit = h]
      BY <2>6 DEF h
    <3>3. txn'[p].hit = h
      BY <2>4, <3>2 DEF TxnType
    <3>4. txn'[p].hit.id = r
      BY <3>1, <3>3 DEF h
    <3> QED BY <2>4, <3>2, <3>4 DEF Frame, Ended, TxnType
  <2> QED BY <1>1, <1>4, <2>5, <2>6 DEF Becomes, e
<1> QED BY <1>2, <1>3, <1>4

LEMMA InsertFields ==
    ASSUME TypeOK, NEW p \in Procs, Insert(p)
    PROVE  LET t == txn[p]  u == txn'[p]
           IN  \E i \in t.todo, r \in Ids :
                 /\ IsNext(p, i) /\ Frame(t, u) /\ Dealt(t, u, i)
                 /\ u.new = t.new + 1 /\ u.old = t.old
                 /\ Ended(t, u, t.list[i].key, r)
                 /\ rows[r] = NoRow /\ t.list[i] \in Wants /\ t.list[i].key \in Keys
                 /\ rows' = [rows EXCEPT ![r] = [key |-> t.list[i].key,
                               info |-> t.list[i].vals, active |-> TRUE, by |-> p]]
<1> DEFINE t == txn[p]
           rOf(i) == CHOOSE f \in Fresh(t.list[i].key) : TRUE
           wOf(i) == IF t.kind # "link" THEN [t EXCEPT !.new = @ + 1]
                     ELSE IF t.list[i].key \in Emails
                          THEN [t EXCEPT !.new = @ + 1, !.rep = rOf(i)]
                          ELSE [t EXCEPT !.new = @ + 1, !.string = rOf(i)]
<1>1. t \in TxnType /\ txn \in [Procs -> TxnType]
  BY DEF TypeOK
<1>2. PICK i \in t.todo :
        /\ IsNext(p, i) /\ Fresh(t.list[i].key) # {}
        /\ rows' = [rows EXCEPT ![rOf(i)] = [key |-> t.list[i].key,
                      info |-> t.list[i].vals, active |-> TRUE, by |-> p]]
        /\ Becomes(p, Handled(p, i, wOf(i)))
  BY DEF Insert
<1> DEFINE r == rOf(i)
           w == wOf(i)
<1>3. t.list[i] \in Wants /\ t.list[i].key \in Keys
  BY WantAt
<1>4. r \in Ids /\ rows[r] = NoRow
  BY <1>2, <1>3, VendorsAssumption DEF Fresh
<1>5. /\ w \in TxnType /\ Frame(t, w) /\ w.todo = t.todo
      /\ w.new = t.new + 1 /\ w.old = t.old /\ Ended(t, w, t.list[i].key, r)
  <2> DEFINE n == t.new + 1
  <2>1. n \in Nat
    BY <1>1 DEF TxnType
  <2> HIDE DEF r
  <2>2. w = IF t.kind # "link" THEN [t EXCEPT !.new = n]
            ELSE IF t.list[i].key \in Emails THEN [t EXCEPT !.new = n, !.rep = r]
            ELSE [t EXCEPT !.new = n, !.string = r]
    BY <1>1 DEF TxnType, r
  <2> HIDE DEF n, w
  <2>3. /\ w \in TxnType /\ Frame(t, w) /\ w.todo = t.todo
        /\ w.new = n /\ w.old = t.old /\ Ended(t, w, t.list[i].key, r)
    BY <1>1, <1>4, <2>1, <2>2 DEF TxnType, Frame, Ended
  <2> QED BY <2>3 DEF n
<1> HIDE DEF w
<1>6. LET u == Handled(p, i, w)
      IN  /\ Frame(w, u) /\ Dealt(w, u, i)
          /\ u.new = w.new /\ u.old = w.old /\ u.rep = w.rep /\ u.string = w.string
  BY <1>5, HandledFields DEF Frame
<1>7. txn'[p] = Handled(p, i, w)
  BY <1>1, <1>2 DEF Becomes, w
<1>8. LET u == txn'[p]
      IN  /\ Frame(t, u) /\ Dealt(t, u, i) /\ u.new = t.new + 1 /\ u.old = t.old
          /\ Ended(t, u, t.list[i].key, r)
  BY <1>5, <1>6, <1>7 DEF Frame, Dealt, Ended
<1> QED BY <1>2, <1>3, <1>4, <1>8

LEMMA UpdateFields ==
    ASSUME TypeOK, NEW p \in Procs, Update(p)
    PROVE  LET t == txn[p]  u == txn'[p]
           IN  /\ t.pc = "update"
               /\ \E i \in t.todo :
                     /\ IsNext(p, i) /\ Frame(t, u) /\ Dealt(t, u, i)
                     /\ u.new = t.new /\ u.old = t.old
                     /\ u.rep = t.rep /\ u.string = t.string
<1> DEFINE t == txn[p]
           c == [t EXCEPT !.set = @ \union {t.hit}]
<1>1. TxnOK(t) /\ t.pc = "update" /\ txn \in [Procs -> TxnType]
  BY DEF TypeOK, TxnOK, Update
<1>2. c \in TxnType
  BY <1>1, LocksHit DEF TxnOK
<1>3. /\ Frame(t, c) /\ c.todo = t.todo /\ c.new = t.new /\ c.old = t.old
      /\ c.rep = t.rep /\ c.string = t.string
  BY <1>1 DEF Frame, TxnOK, TxnType
<1>4. PICK i \in t.todo : IsNext(p, i) /\ Becomes(p, Handled(p, i, c))
  BY DEF Update
<1> HIDE DEF c
<1>5. LET u == Handled(p, i, c)
      IN  /\ Frame(c, u) /\ Dealt(c, u, i)
          /\ u.new = c.new /\ u.old = c.old /\ u.rep = c.rep /\ u.string = c.string
  BY <1>2, <1>3, HandledFields DEF Frame
<1>6. txn'[p] = Handled(p, i, c)
  BY <1>1, <1>4 DEF Becomes
<1> QED BY <1>1, <1>3, <1>4, <1>5, <1>6 DEF Frame, Dealt

LEMMA LinkFields ==
    ASSUME TypeOK, NEW p \in Procs, LookLink(p) \/ InsertLink(p)
    PROVE  LET t == txn[p]  u == txn'[p]
           IN  /\ t.pc \in {"link", "pair"} /\ HasEnds(p)
               /\ Frame(t, u) /\ u.todo = t.todo /\ u.new = t.new /\ u.old = t.old
               /\ u.rep = t.rep /\ u.string = t.string
               /\ \/ u.pc = "pair" /\ links' = links
                  \/ /\ u.pc = "commit" /\ links' = links
                     /\ \E l \in links : Joins(p, l) /\ Sees(p, l)
                  \/ /\ u.pc = "commit"
                     /\ links' = links \union
                          {[rep |-> t.rep, string |-> t.string, by |-> p]}
<1>1. txn[p] \in TxnType /\ txn \in [Procs -> TxnType]
  BY DEF TypeOK
<1>2. CASE LookLink(p)
  BY <1>1, <1>2 DEF LookLink, Becomes, Frame, TxnType
<1>3. CASE InsertLink(p)
  BY <1>1, <1>3 DEF InsertLink, Becomes, Frame, TxnType
<1> QED BY <1>2, <1>3

-----------------------------------------------------------------------------
(* What a scan reports, and what it leaves behind.                         *)

Own(p) == {i \in Live : rows[i].by = p}

\* The positions that a request or a scan has to deal with.
Sample(p) == Firsts(txn[p].list, IF txn[p].kind = "repscan" THEN MaxMessages
                                 ELSE Len(txn[p].list))

CountOK(p) ==
    /\ txn[p].new = Cardinality(Own(p))
    /\ txn[p].pc = "idle" => Own(p) = {}
    /\ txn[p].pc \in {"link", "pair", "commit"} => txn[p].todo = {}
    /\ txn[p].kind = "repscan" =>
          txn[p].new + txn[p].old + Cardinality(txn[p].todo)
             = Cardinality(Sample(p)) + (IF txn[p].pc = "update" THEN 1 ELSE 0)

CountInv == \A p \in Procs : CountOK(p)

LEMMA FiniteSets ==
    ASSUME TypeOK, NEW p \in Procs
    PROVE  /\ IsFiniteSet(Own(p)) /\ IsFiniteSet(txn[p].todo)
           /\ \A i \in txn[p].todo :
                 Cardinality(txn[p].todo \ {i}) = Cardinality(txn[p].todo) - 1
           /\ Cardinality(txn[p].todo) \in Nat
           /\ txn[p].new \in Nat /\ txn[p].old \in Nat
<1>1. IsFiniteSet(Own(p))
  BY FS_Subset, VendorsAssumption DEF Own, Live
<1>2. txn[p] \in TxnType /\ txn[p].list \in Seq(Wants)
  BY DEF TypeOK, TxnType
<1>3. txn[p].todo \subseteq 1 .. Len(txn[p].list) /\ Len(txn[p].list) \in Nat
  BY <1>2 DEF TypeOK
<1>4. IsFiniteSet(txn[p].todo)
  <2> DEFINE n == Len(txn[p].list)
  <2>1. n \in Int
    BY <1>3
  <2> HIDE DEF n
  <2>2. IsFiniteSet(1 .. n)
    BY <2>1, FS_Interval
  <2> QED BY <1>3, <2>2, FS_Subset DEF n
<1>5. \A i \in txn[p].todo : Cardinality(txn[p].todo \ {i}) = Cardinality(txn[p].todo) - 1
  BY <1>4, FS_RemoveElement
<1>6. Cardinality(txn[p].todo) \in Nat
  BY <1>4, FS_CardinalityType
<1>7. txn[p].new \in Nat /\ txn[p].old \in Nat
  BY <1>2 DEF TxnType
<1> QED BY <1>1, <1>4, <1>5, <1>6, <1>7

\* A step of one transaction leaves the others and their rows alone.
LEMMA OthersOwn ==
    ASSUME TypeOK, NEW p \in Procs, Starts(p) \/ Step(p) \/ Fails(p),
           NEW q \in Procs, q # p
    PROVE  txn'[q] = txn[q] /\ Own(q)' = Own(q)
<1>1. \E u : Becomes(p, u)
  <2>1. CASE Starts(p)
    BY <2>1 DEF Starts, PostRep, PostString, PostLink, RepScan, Seed, Begin
  <2>2. CASE Step(p) \/ Fails(p)
    <3>1. CASE Rollback(p) \/ Durable(p)
      BY <3>1 DEF Rollback, Durable
    <3>2. CASE Look(p) \/ Insert(p) \/ Update(p)
      BY <3>2 DEF Look, Insert, Update
    <3>3. CASE LookLink(p) \/ InsertLink(p)
      BY <3>3 DEF LookLink, InsertLink
    <3> QED BY <2>2, <3>1, <3>2, <3>3, StepCases
  <2> QED BY <2>1, <2>2
<1>2. txn'[q] = txn[q]
  BY <1>1 DEF Becomes, TypeOK
<1>3. Own(q)' = Own(q)
  <2>1. CASE rows' = rows
    BY <2>1 DEF Own, Live
  <2>2. CASE Insert(p)
    <3>1. PICK i \in txn[p].todo, r \in Ids :
            rows[r] = NoRow /\ rows' = [rows EXCEPT ![r] = [key |-> txn[p].list[i].key,
                                 info |-> txn[p].list[i].vals, active |-> TRUE, by |-> p]]
      BY <2>2, InsertFields
    <3>2. rows'[r].by = p /\ \A j \in Ids : j # r => rows'[j] = rows[j]
      BY <3>1 DEF TypeOK
    <3>3. r \notin Own(q) /\ r \notin Own(q)'
      BY <3>1, <3>2 DEF Own, Live
    <3> QED BY <3>2, <3>3 DEF Own, Live
  <2>3. CASE Rollback(p)
    BY <2>3, RollbackRows DEF Own, Live
  <2>4. CASE Durable(p)
    BY <2>4, DurableRows, DurableLive, VendorsAssumption DEF Own, Live
  <2>5. \/ rows' = rows \/ Insert(p) \/ Rollback(p) \/ Durable(p)
    <3>1. CASE Starts(p)
      BY <3>1 DEF Starts, PostRep, PostString, PostLink, RepScan, Seed, Begin
    <3>2. CASE Step(p) \/ Fails(p)
      BY <3>2, StepCases DEF Look, Update, LookLink, InsertLink
    <3> QED BY <3>1, <3>2
  <2> QED BY <2>1, <2>2, <2>3, <2>4, <2>5
<1> QED BY <1>2, <1>3

\* The operator edits and deletes committed rows only.
LEMMA OperatorOwn ==
    ASSUME TypeOK, OperatorStep, NEW q \in Procs
    PROVE  txn' = txn /\ Own(q)' = Own(q)
<1>1. ASSUME NEW i \in Ids, Edit(i)
      PROVE  Own(q)' = Own(q)
  BY <1>1, EditRow, VendorsAssumption DEF Own, Live
<1>2. ASSUME NEW i \in Ids, NEW e \in Emails, Rename(i, e)
      PROVE  Own(q)' = Own(q)
  <2>1. /\ rows[i] \in RowType /\ rows[i].by = Db
        /\ \A j \in Ids : j # i => rows'[j] = rows[j]
        /\ rows'[i] = [rows[i] EXCEPT !.key = e]
    BY <1>2, LiveRows DEF Rename, TypeOK
  <2>2. rows'[i].by = Db
    BY <2>1 DEF RowType
  <2> QED BY <2>1, <2>2, VendorsAssumption DEF Own, Live
<1>3. ASSUME NEW i \in Ids, Delete(i)
      PROVE  Own(q)' = Own(q)
  BY <1>3, VendorsAssumption DEF Delete, TypeOK, Own, Live
<1>4. ASSUME NEW l \in links, Unlink(l)
      PROVE  Own(q)' = Own(q)
  BY <1>4 DEF Unlink, Own, Live
<1>5. txn' = txn
  BY DEF OperatorStep, Edit, Rename, Delete, Unlink, Operator
<1> QED BY <1>1, <1>2, <1>3, <1>4, <1>5 DEF OperatorStep

\* What a request begins with: nothing counted.
LEMMA StartFields ==
    ASSUME TypeOK, NEW p \in Procs, Starts(p)
    PROVE  LET u == txn'[p]
           IN  /\ txn[p].pc = "idle" /\ UNCHANGED <<rows, links, edits>>
               /\ u.new = 0 /\ u.old = 0
               /\ u.pc \in {"look", "link", "commit"}
               /\ u.pc # "look" => u.todo = {}
               /\ Sample(p)' \subseteq u.todo
               /\ u.kind = "repscan" => u.todo = Sample(p)'
               /\ u.pc = "commit" => u.kind # "link"
<1>1. txn \in [Procs -> TxnType]
  BY DEF TypeOK
<1>2. ASSUME NEW kind \in {"rep", "string", "repscan", "seed"}, NEW list, NEW todo,
             Begin(p, kind, list, todo)
      PROVE  LET u == txn'[p]
             IN  /\ txn[p].pc = "idle" /\ UNCHANGED <<rows, links, edits>>
                 /\ u.new = 0 /\ u.old = 0 /\ u.list = list /\ u.todo = todo
                 /\ u.kind = kind /\ u.pc = IF todo = {} THEN "commit" ELSE "look"
  <2>1. txn'[p] = [Idle EXCEPT !.kind = kind, !.list = list, !.todo = todo,
                     !.pc = IF todo = {} THEN "commit" ELSE "look"]
    BY <1>1, <1>2 DEF Begin, Becomes
  <2> QED BY <1>2, <2>1 DEF Idle, Begin
<1>3. CASE PostRep(p)
  <2>1. PICK e \in Emails : Begin(p, "rep", <<Sender(e)>>, {1})
    BY <1>3 DEF PostRep
  <2>2. Firsts(<<Sender(e)>>, Len(<<Sender(e)>>)) \subseteq {1}
    BY DEF Firsts
  <2> DEFINE list == <<Sender(e)>>
  <2> HIDE DEF list
  <2>3. Begin(p, "rep", list, {1})
    BY <2>1 DEF list
  <2>4. Firsts(list, Len(list)) \subseteq {1}
    BY <2>2 DEF list
  <2> QED BY <1>2, <2>3, <2>4 DEF Sample
<1>4. CASE PostString(p)
  <2>1. PICK s \in Spellings : Begin(p, "string", <<Spelling(s)>>, {1})
    BY <1>4 DEF PostString
  <2>2. Firsts(<<Spelling(s)>>, Len(<<Spelling(s)>>)) \subseteq {1}
    BY DEF Firsts
  <2> DEFINE list == <<Spelling(s)>>
  <2> HIDE DEF list
  <2>3. Begin(p, "string", list, {1})
    BY <2>1 DEF list
  <2>4. Firsts(list, Len(list)) \subseteq {1}
    BY <2>2 DEF list
  <2> QED BY <1>2, <2>3, <2>4 DEF Sample
<1>5. CASE PostLink(p)
  <2>1. PICK a, b, list :
          Becomes(p, [Idle EXCEPT !.kind = "link", !.list = list,
                        !.todo = 1 .. Len(list), !.rep = a, !.string = b,
                        !.pc = IF list = <<>> THEN "link" ELSE "look"])
    BY <1>5 DEF PostLink
  <2>2. txn'[p] = [Idle EXCEPT !.kind = "link", !.list = list,
                     !.todo = 1 .. Len(list), !.rep = a, !.string = b,
                     !.pc = IF list = <<>> THEN "link" ELSE "look"]
    BY <1>1, <2>1 DEF Becomes
  <2>3. Firsts(list, Len(list)) \subseteq 1 .. Len(list)
    BY FirstsPositions
  <2>4. list = <<>> => 1 .. Len(list) = {}
    OBVIOUS
  <2> DEFINE todo == 1 .. Len(list)
  <2> HIDE DEF todo
  <2>5. LET u == txn'[p]
        IN  /\ u.new = 0 /\ u.old = 0 /\ u.list = list /\ u.todo = todo
            /\ u.kind = "link" /\ u.pc = IF list = <<>> THEN "link" ELSE "look"
    BY <2>2 DEF Idle, todo
  <2>6. Sample(p)' \subseteq todo
    BY <2>3, <2>5 DEF Sample, todo
  <2>7. list = <<>> => todo = {}
    BY <2>4 DEF todo
  <2> QED BY <1>5, <2>5, <2>6, <2>7 DEF PostLink
<1>6. CASE RepScan(p)
  <2>1. PICK list : Begin(p, "repscan", list, Firsts(list, MaxMessages))
    BY <1>6 DEF RepScan
  <2> QED BY <1>2, <2>1 DEF Sample
<1>7. CASE Seed(p)
  <2>1. PICK list : Begin(p, "seed", list, Firsts(list, Len(list)))
    BY <1>7 DEF Seed
  <2> QED BY <1>2, <2>1 DEF Sample
<1> QED BY <1>3, <1>4, <1>5, <1>6, <1>7 DEF Starts

\* Nothing is left of a transaction that ended.
LEMMA EndedOwn ==
    ASSUME TypeOK, NEW p \in Procs, Rollback(p) \/ Durable(p)
    PROVE  txn'[p] = Idle /\ Own(p)' = {}
<1>1. txn'[p] = Idle
  <2>1. txn \in [Procs -> TxnType] /\ Becomes(p, Idle)
    BY DEF TypeOK, Rollback, Durable
  <2> QED BY <2>1 DEF Becomes
<1>2. CASE Rollback(p)
  <2>1. ASSUME NEW i \in Live' PROVE rows'[i].by # p
    <3>1. i \in Ids /\ rows'[i] # NoRow
      BY <2>1 DEF Live
    <3>2. rows'[i] = IF i \in Live /\ rows[i].by = p THEN NoRow ELSE rows[i]
      BY <1>2, <3>1, RollbackRows
    <3> QED BY <3>1, <3>2 DEF Live
  <2> QED BY <1>1, <2>1 DEF Own
<1>3. CASE Durable(p)
  <2>1. ASSUME NEW i \in Live' PROVE rows'[i].by # p
    <3>1. i \in Live
      BY <1>3, <2>1, DurableLive
    <3>2. i \in Ids
      BY <3>1 DEF Live
    <3>3. rows'[i].by = IF rows[i].by = p THEN Db ELSE rows[i].by
      BY <1>3, <3>1, <3>2, DurableRows
    <3> QED BY <3>3, VendorsAssumption
  <2> QED BY <1>1, <2>1 DEF Own
<1> QED BY <1>1, <1>2, <1>3

\* What was asked for does not change until the transaction ends.
LEMMA SameSample ==
    ASSUME NEW p \in Procs, Frame(txn[p], txn'[p])
    PROVE  Sample(p)' = Sample(p)
  BY DEF Frame, Sample

LEMMA FirstsFinite ==
    ASSUME NEW list \in Seq(Wants), NEW n
    PROVE  Cardinality(Firsts(list, n)) \in Nat
<1> DEFINE m == Len(list)
<1>1. m \in Int /\ Firsts(list, n) \subseteq 1 .. m
  BY FirstsPositions
<1> HIDE DEF m
<1>2. IsFiniteSet(1 .. m)
  BY <1>1, FS_Interval
<1>3. IsFiniteSet(Firsts(list, n))
  BY <1>1, <1>2, FS_Subset
<1> QED BY <1>3, FS_CardinalityType

\* A position is dealt with, and a is counted for it.
LEMMA DealtCount ==
    ASSUME TypeOK, NEW p \in Procs, CountOK(p), NEW i \in txn[p].todo, NEW a \in {0, 1},
           Frame(txn[p], txn'[p]), Dealt(txn[p], txn'[p], i),
           txn'[p].new + txn'[p].old = txn[p].new + txn[p].old + a,
           a = IF txn[p].pc = "update" THEN 0 ELSE 1,
           txn'[p].new = Cardinality(Own(p)')
    PROVE  CountOK(p)'
<1> DEFINE t == txn[p]
           u == txn'[p]
           s == Cardinality(Sample(p))
           n == Cardinality(t.todo)
<1>1. /\ n \in Nat /\ Cardinality(t.todo \ {i}) = n - 1
      /\ t.new \in Nat /\ t.old \in Nat
  BY FiniteSets
<1>2. u.todo = t.todo \ {i} /\ u.kind = t.kind /\ Cardinality(u.todo) = n - 1
  BY <1>1 DEF Dealt, Frame
<1>3. u.pc \in {"look", "link", "commit"} /\ (u.pc # "look" => u.todo = {})
  BY DEF Dealt
<1>4. Cardinality(Sample(p)') = s
  BY SameSample
<1>5. t.kind = "repscan" =>
        t.new + t.old + n = s + (IF t.pc = "update" THEN 1 ELSE 0)
  BY DEF CountOK
<1>6. s \in Nat
  BY FirstsFinite DEF TypeOK, TxnType, Sample
<1> HIDE DEF s, n
<1>7. u.kind = "repscan" => u.new + u.old + (n - 1) = s
  BY <1>1, <1>2, <1>5, <1>6
<1> QED BY <1>2, <1>3, <1>4, <1>6, <1>7 DEF CountOK

\* Each position that a scan is done with was counted once; a row that it is
\* about to update is counted although its position is not handled.
LEMMA CountStep ==
    ASSUME TypeOK, CountInv, NEW p \in Procs, Starts(p) \/ Step(p) \/ Fails(p)
    PROVE  CountOK(p)'
<1> DEFINE t == txn[p]
           u == txn'[p]
<1>1. CountOK(p)
  BY DEF CountInv
<1>2. CASE Starts(p)
  <2>1. /\ t.pc = "idle" /\ rows' = rows /\ u.new = 0 /\ u.old = 0
        /\ u.pc \in {"look", "link", "commit"}
        /\ u.pc # "look" => u.todo = {}
        /\ u.kind = "repscan" => u.todo = Sample(p)'
    BY <1>2, StartFields
  <2>2. Own(p)' = {} /\ Cardinality({}) = 0
    BY <1>1, <2>1, FS_EmptySet DEF CountOK, Own, Live
  <2>3. u.kind = "repscan" => Cardinality(u.todo) \in Nat
    <3>1. txn' \in [Procs -> TxnType]
      BY <1>2, StartTypes DEF TypeOK
    <3>2. u.list \in Seq(Wants)
      BY <3>1 DEF TxnType
    <3> QED BY <2>1, <3>2, FirstsFinite DEF Sample
  <2> QED BY <2>1, <2>2, <2>3 DEF CountOK
<1>3. CASE Rollback(p) \/ Durable(p)
  <2>1. u = Idle /\ Own(p)' = {} /\ Cardinality({}) = 0
    BY <1>3, EndedOwn, FS_EmptySet
  <2> QED BY <2>1 DEF CountOK, Idle
<1>4. /\ Cardinality(t.todo) \in Nat /\ t.new \in Nat /\ t.old \in Nat
      /\ \A i \in t.todo : Cardinality(t.todo \ {i}) = Cardinality(t.todo) - 1
      /\ IsFiniteSet(Own(p))
  BY FiniteSets
<1>5. Cardinality(Sample(p)) \in Nat
  BY FirstsFinite DEF TypeOK, TxnType, Sample
<1>6. CASE Look(p)
  <2>1. PICK i \in t.todo :
          /\ Frame(t, u) /\ u.new = t.new
          /\ \/ u.pc = "insert" /\ u.todo = t.todo /\ u.old = t.old
             \/ /\ u.old = t.old + 1
                /\ Dealt(t, u, i) \/ (u.pc = "update" /\ u.todo = t.todo)
    BY <1>6, LookFields
  <2>2. t.pc = "look" /\ Own(p)' = Own(p) /\ u.new = Cardinality(Own(p)')
    BY <1>1, <1>6, <2>1 DEF Look, Own, Live, CountOK
  <2>3. CASE Dealt(t, u, i) /\ u.old = t.old + 1
    <3>1. u.new + u.old = t.new + t.old + 1
      BY <1>4, <2>1, <2>3
    <3> QED BY <1>1, <2>1, <2>2, <2>3, <3>1, DealtCount
  <2>4. Sample(p)' = Sample(p) /\ u.kind = t.kind
    BY <2>1, SameSample DEF Frame
  <2>5. t.kind = "repscan" =>
          t.new + t.old + Cardinality(t.todo) = Cardinality(Sample(p))
    BY <1>1, <1>5, <2>2 DEF CountOK
  <2>6. CASE u.pc = "insert" /\ u.todo = t.todo /\ u.old = t.old
    BY <1>4, <1>5, <2>1, <2>2, <2>4, <2>5, <2>6 DEF CountOK
  <2>7. CASE u.pc = "update" /\ u.todo = t.todo /\ u.old = t.old + 1
    <3>1. t.kind = "repscan" =>
            u.new + u.old + Cardinality(u.todo) = Cardinality(Sample(p)) + 1
      BY <1>4, <1>5, <2>1, <2>5, <2>7
    <3> QED BY <2>2, <2>4, <2>7, <3>1 DEF CountOK
  <2> QED BY <2>1, <2>3, <2>6, <2>7
<1>7. CASE Insert(p)
  <2>1. PICK i \in t.todo, r \in Ids :
          /\ Frame(t, u) /\ Dealt(t, u, i) /\ u.new = t.new + 1 /\ u.old = t.old
          /\ rows[r] = NoRow /\ t.list[i] \in Wants /\ t.list[i].key \in Keys
          /\ rows' = [rows EXCEPT ![r] = [key |-> t.list[i].key,
                        info |-> t.list[i].vals, active |-> TRUE, by |-> p]]
    BY <1>7, InsertFields
  <2> DEFINE v == [key |-> t.list[i].key, info |-> t.list[i].vals,
                   active |-> TRUE, by |-> p]
  <2>2. v \in RowType /\ v.by = p
    BY <2>1 DEF RowType, Wants
  <2>3. rows \in [Ids -> RowType \union {NoRow}] /\ rows' = [rows EXCEPT ![r] = v]
    BY <2>1 DEF TypeOK
  <2> HIDE DEF v
  <2>4. rows'[r] = v /\ \A j \in Ids : j # r => rows'[j] = rows[j]
    BY <2>1, <2>3
  <2>5. r \notin Own(p) /\ Own(p)' = Own(p) \union {r}
    BY <2>1, <2>2, <2>4, VendorsAssumption DEF Own, Live
  <2>6. Cardinality(Own(p)') = Cardinality(Own(p)) + 1
    BY <1>4, <2>5, FS_AddElement
  <2>7. t.pc = "insert" /\ u.new = Cardinality(Own(p)')
    BY <1>1, <1>7, <2>1, <2>6 DEF Insert, CountOK
  <2> QED BY <1>1, <1>4, <2>1, <2>7, DealtCount
<1>8. CASE Update(p)
  <2>1. PICK i \in t.todo :
          Frame(t, u) /\ Dealt(t, u, i) /\ u.new = t.new /\ u.old = t.old
    BY <1>8, UpdateFields
  <2>2. t.pc = "update" /\ u.new = Cardinality(Own(p)')
    BY <1>1, <1>8, <2>1 DEF Update, Own, Live, CountOK
  <2>3. u.new + u.old = t.new + t.old + 0
    BY <1>4, <2>1
  <2> QED BY <1>1, <2>1, <2>2, <2>3, DealtCount
<1>9. CASE LookLink(p) \/ InsertLink(p)
  <2>1. /\ t.pc \in {"link", "pair"} /\ u.pc \in {"pair", "commit"}
        /\ Frame(t, u) /\ u.todo = t.todo /\ u.new = t.new /\ u.old = t.old
    BY <1>9, LinkFields
  <2>2. Own(p)' = Own(p) /\ Sample(p)' = Sample(p)
    BY <1>9, <2>1, SameSample DEF LookLink, InsertLink, Own, Live
  <2> QED BY <1>1, <1>4, <2>1, <2>2 DEF CountOK, Frame
<1> QED BY <1>2, <1>3, <1>6, <1>7, <1>8, <1>9, StepCases

LEMMA CountNext ==
    ASSUME TypeOK, CountInv, [Next]_vars
    PROVE  CountInv'
<1>1. ASSUME NEW p \in Procs, Starts(p) \/ Step(p) \/ Fails(p)
      PROVE  CountInv'
  <2>1. ASSUME NEW q \in Procs, q # p PROVE CountOK(q)'
    <3>1. txn'[q] = txn[q] /\ Own(q)' = Own(q) /\ CountOK(q)
      BY <1>1, <2>1, OthersOwn DEF CountInv
    <3> QED BY <3>1 DEF CountOK, Sample
  <2> QED BY <1>1, <2>1, CountStep DEF CountInv
<1>2. CASE OperatorStep
  <2>1. ASSUME NEW q \in Procs PROVE CountOK(q)'
    <3>1. txn' = txn /\ Own(q)' = Own(q) /\ CountOK(q)
      BY <1>2, <2>1, OperatorOwn DEF CountInv
    <3> QED BY <3>1 DEF CountOK, Sample
  <2> QED BY <2>1 DEF CountInv
<1>3. CASE UNCHANGED vars
  <2>1. ASSUME NEW p \in Procs PROVE CountOK(p)'
    <3>1. txn' = txn /\ Own(p)' = Own(p) /\ CountOK(p)
      BY <1>3 DEF vars, CountInv, Own, Live
    <3> QED BY <3>1 DEF CountOK, Sample
  <2> QED BY <2>1 DEF CountInv
<1> QED BY <1>1, <1>2, <1>3 DEF Next, OperatorStep

LEMMA CountAlways == Spec => []CountInv
<1>1. Init => CountInv
  <2>1. ASSUME Init, NEW p \in Procs PROVE CountOK(p)
    <3>1. txn[p] = Idle /\ Own(p) = {} /\ Cardinality({}) = 0
      BY <2>1, FS_EmptySet DEF Init, Own, Live
    <3> QED BY <3>1 DEF CountOK, Idle
  <2> QED BY <2>1 DEF CountInv
<1> QED BY <1>1, TypeCorrect, CountNext, PTL DEF Spec

\* The SyncLog row of a scan counts the rows that its commit makes visible,
\* and every sender of its sample is one of them or was found.
THEOREM ScanLogCounts == Spec => ScanLogIsTrue
<1>1. ASSUME TypeOK, CountInv, NEW p \in Procs, Commit(p), txn[p].kind = "repscan"
      PROVE  /\ SyncLog(p).new = Cardinality({i \in Live : rows[i].by = p})
             /\ SyncLog(p).fetched = SyncLog(p).new + SyncLog(p).updated
  <2>1. txn[p].pc = "commit" /\ CountOK(p) /\ txn[p].new \in Nat /\ txn[p].old \in Nat
    BY <1>1, FiniteSets DEF Commit, CountInv
  <2>2. txn[p].todo = {} /\ Cardinality({}) = 0
    BY <2>1, FS_EmptySet DEF CountOK
  <2>3. Cardinality(Sample(p)) \in Nat
    BY <1>1, FirstsFinite DEF TypeOK, TxnType, Sample
  <2> QED BY <1>1, <2>1, <2>2, <2>3 DEF CountOK, SyncLog, Sample, Own
<1>2. TypeOK /\ CountInv =>
        [\A p \in Procs :
           Commit(p) /\ txn[p].kind = "repscan" =>
             /\ SyncLog(p).new = Cardinality({i \in Live : rows[i].by = p})
             /\ SyncLog(p).fetched = SyncLog(p).new + SyncLog(p).updated]_vars
  BY <1>1
<1> QED BY <1>2, TypeCorrect, CountAlways, PTL DEF ScanLogIsTrue

-----------------------------------------------------------------------------
(* What a transaction has registered, as long as the operator takes        *)
(* nothing away.                                                           *)

\* The rows of a table rs with key k that p sees.
Seen(rs, p, k) == {r \in Ids : rs[r] # NoRow /\ rs[r].key = k /\ rs[r].by \in {Db, p}}

DoneOK(p) ==
    /\ \A i \in Sample(p) : i \in txn[p].todo \/ Seen(rows, p, txn[p].list[i].key) # {}
    /\ txn[p].pc = "update" =>
          \A i \in txn[p].todo : IsNext(p, i) =>
             txn[p].hit.id \in Seen(rows, p, txn[p].list[i].key)
    /\ txn[p].pc = "commit" /\ txn[p].kind = "link" =>
          \E l \in links : Joins(p, l) /\ Sees(p, l)

DoneInv == edits = 0 => \A p \in Procs : DoneOK(p)

\* What q sees is not taken back by another transaction.
LEMMA KeepsSeen ==
    ASSUME TypeOK, NEW p \in Procs, TableStep(p), NEW q \in Procs,
           p = q => ~(Rollback(p) \/ Durable(p))
    PROVE  /\ \A k : Seen(rows, q, k) \subseteq Seen(rows', q, k)
           /\ \A l \in links : Sees(q, l) =>
                 \E m \in links' : /\ m.rep = l.rep /\ m.string = l.string
                                   /\ Sees(q, m)
<1>1. CASE Insert(p)
  <2>1. PICK i \in txn[p].todo, r \in Ids :
          LET w == txn[p].list[i]
          IN  /\ rows[r] = NoRow
              /\ rows' = [rows EXCEPT ![r] = [key |-> w.key, info |-> w.vals,
                                              active |-> TRUE, by |-> p]]
              /\ links' = links
    BY <1>1, InsertStep
  <2>2. \A j \in Live : j \in Live' /\ rows'[j] = rows[j]
    BY <2>1 DEF TypeOK, Live
  <2> QED BY <2>1, <2>2 DEF Seen, Sees, Live
<1>2. CASE InsertLink(p)
  BY <1>2 DEF InsertLink, Seen, Sees
<1>3. CASE Rollback(p)
  <2>1. \A j \in Live : rows[j].by # p => j \in Live' /\ rows'[j] = rows[j]
    BY <1>3, RollbackRows DEF Live
  <2>2. \A l \in links : l.by # p => l \in links'
    BY <1>3 DEF Rollback
  <2>3. p # q /\ p # Db
    BY <1>3, VendorsAssumption
  <2> QED BY <2>1, <2>2, <2>3 DEF Seen, Sees, Live
<1>4. CASE Durable(p)
  <2>1. \A j \in Live : /\ j \in Live' /\ rows'[j].key = rows[j].key
                        /\ rows'[j].by = IF rows[j].by = p THEN Db ELSE rows[j].by
    BY <1>4, DurableRows, DurableLive DEF Live
  <2>2. \A l \in links : \E m \in links' : /\ m.rep = l.rep /\ m.string = l.string
                                           /\ m.by = IF l.by = p THEN Db ELSE l.by
    BY <1>4, SettledLink DEF Durable, TypeOK
  <2>3. p # q /\ p # Db
    BY <1>4, VendorsAssumption
  <2> QED BY <2>1, <2>2, <2>3 DEF Seen, Sees, Live
<1> QED BY <1>1, <1>2, <1>3, <1>4 DEF TableStep

\* What only reads or waits takes nothing back either.
LEMMA SeenStays ==
    ASSUME TypeOK, NEW p \in Procs, Starts(p) \/ Step(p) \/ Fails(p), NEW q \in Procs,
           p = q => ~(Rollback(p) \/ Durable(p))
    PROVE  /\ \A k : Seen(rows, q, k) \subseteq Seen(rows', q, k)
           /\ \A l \in links : Sees(q, l) =>
                 \E m \in links' : /\ m.rep = l.rep /\ m.string = l.string
                                   /\ Sees(q, m)
           /\ edits' = edits
<1>1. (UNCHANGED <<rows, links>> \/ TableStep(p)) /\ edits' = edits
  <2>1. CASE Starts(p)
    BY <2>1 DEF Starts, PostRep, PostString, PostLink, RepScan, Seed, Begin
  <2>2. CASE Look(p) \/ Update(p) \/ LookLink(p)
    BY <2>2 DEF Look, Update, LookLink
  <2>3. CASE Insert(p) \/ InsertLink(p)
    BY <2>3 DEF TableStep, Insert, InsertLink
  <2>4. CASE (Rollback(p) \/ Durable(p)) /\ edits' = edits
    BY <2>4 DEF TableStep
  <2> QED BY <2>1, <2>2, <2>3, <2>4, StepCases
<1>2. CASE UNCHANGED <<rows, links>>
  BY <1>1, <1>2 DEF Seen, Sees, Live
<1> QED BY <1>1, <1>2, KeepsSeen

LEMMA StepEdits ==
    ASSUME NEW p \in Procs, Starts(p) \/ Step(p) \/ Fails(p)
    PROVE  edits' = edits
<1>1. CASE Starts(p)
  BY <1>1 DEF Starts, PostRep, PostString, PostLink, RepScan, Seed, Begin
<1>2. CASE Step(p) \/ Fails(p)
  BY <1>2, StepCases DEF Look, Insert, Update, LookLink, InsertLink
<1> QED BY <1>1, <1>2

LEMMA DoneStep ==
    ASSUME TypeOK, NEW p \in Procs, DoneOK(p), Starts(p) \/ Step(p) \/ Fails(p)
    PROVE  DoneOK(p)'
<1> DEFINE t == txn[p]
           u == txn'[p]
<1>1. CASE Starts(p)
  <2>1. /\ u.pc \in {"look", "link", "commit"} /\ Sample(p)' \subseteq u.todo
        /\ u.pc = "commit" => u.kind # "link"
    BY <1>1, StartFields
  <2> QED BY <2>1 DEF DoneOK
<1>2. CASE Rollback(p) \/ Durable(p)
  <2>1. u = Idle
    BY <1>2, EndedOwn
  <2>2. Sample(p)' = {}
    BY <2>1 DEF Sample, Idle, Firsts
  <2> QED BY <2>1, <2>2 DEF DoneOK, Idle
\* A step that deals with position i finds or inserts its key.
<1>3. ASSUME ~(Rollback(p) \/ Durable(p)), NEW i \in t.todo, Frame(t, u),
             Dealt(t, u, i), Seen(rows', p, t.list[i].key) # {}
      PROVE  DoneOK(p)'
  <2>1. /\ u.list = t.list /\ u.kind = t.kind /\ u.todo = t.todo \ {i}
        /\ u.pc \in {"look", "link", "commit"} /\ (u.pc = "commit" => u.kind # "link")
    BY <1>3 DEF Frame, Dealt
  <2>2. Sample(p)' = Sample(p)
    BY <1>3, SameSample
  <2>3. \A k : Seen(rows, p, k) \subseteq Seen(rows', p, k)
    BY <1>3, SeenStays
  <2>4. \A j \in Sample(p) : j \in u.todo \/ Seen(rows', p, t.list[j].key) # {}
    BY <1>3, <2>1, <2>3 DEF DoneOK
  <2> QED BY <2>1, <2>2, <2>4 DEF DoneOK
<1>4. ASSUME ~(Rollback(p) \/ Durable(p)), Frame(t, u), u.todo = t.todo,
             u.pc = "update" => \A i \in u.todo : IsNext(p, i)' =>
                                   u.hit.id \in Seen(rows', p, u.list[i].key),
             u.pc = "commit" /\ u.kind = "link" =>
                \E l \in links' : Joins(p, l)' /\ Sees(p, l)
      PROVE  DoneOK(p)'
  <2>1. u.list = t.list /\ u.kind = t.kind
    BY <1>4 DEF Frame
  <2>2. Sample(p)' = Sample(p)
    BY <1>4, SameSample
  <2>3. \A k : Seen(rows, p, k) \subseteq Seen(rows', p, k)
    BY <1>4, SeenStays
  <2>4. \A j \in Sample(p) : j \in u.todo \/ Seen(rows', p, u.list[j].key) # {}
    BY <1>4, <2>1, <2>3 DEF DoneOK
  <2> QED BY <1>4, <2>2, <2>4 DEF DoneOK, Sees
<1>5. CASE Look(p) /\ ~(Rollback(p) \/ Durable(p))
  <2>1. PICK i \in t.todo :
          /\ IsNext(p, i) /\ Frame(t, u)
          /\ \/ u.pc = "insert" /\ u.todo = t.todo
             \/ \E r \in Found(p, t.list[i].key) :
                   \/ Dealt(t, u, i)
                   \/ u.pc = "update" /\ u.todo = t.todo /\ u.hit.id = r
    BY <1>5, LookFields
  <2>2. rows' = rows /\ \A k : Found(p, k) = Seen(rows, p, k)
    BY <1>5 DEF Look, Found, Seen, Sees, Live
  <2>3. CASE u.pc = "insert" /\ u.todo = t.todo
    BY <1>4, <1>5, <2>1, <2>3
  <2>4. ASSUME NEW r \in Found(p, t.list[i].key), Dealt(t, u, i)
        PROVE  DoneOK(p)'
    BY <1>3, <1>5, <2>1, <2>2, <2>4
  <2>5. ASSUME NEW r \in Found(p, t.list[i].key),
               u.pc = "update", u.todo = t.todo, u.hit.id = r
        PROVE  DoneOK(p)'
    <3>1. ASSUME NEW j \in u.todo, IsNext(p, j)' PROVE j = i
      <4>1. t.todo \subseteq Nat
        BY DEF TypeOK, TxnType
      <4> QED BY <2>1, <2>5, <3>1, <4>1 DEF IsNext
    <3>2. u.list = t.list
      BY <2>1 DEF Frame
    <3> QED BY <1>4, <1>5, <2>1, <2>2, <2>5, <3>1, <3>2
  <2> QED BY <2>1, <2>3, <2>4, <2>5
<1>6. CASE Insert(p) /\ ~(Rollback(p) \/ Durable(p))
  <2>1. PICK i \in t.todo, r \in Ids :
          /\ Frame(t, u) /\ Dealt(t, u, i) /\ t.list[i] \in Wants /\ t.list[i].key \in Keys
          /\ rows' = [rows EXCEPT ![r] = [key |-> t.list[i].key,
                        info |-> t.list[i].vals, active |-> TRUE, by |-> p]]
    BY <1>6, InsertFields
  <2>2. [key |-> t.list[i].key, info |-> t.list[i].vals,
         active |-> TRUE, by |-> p] \in RowType
    BY <2>1 DEF RowType, Wants
  <2>3. rows'[r] = [key |-> t.list[i].key, info |-> t.list[i].vals,
                    active |-> TRUE, by |-> p]
    BY <2>1 DEF TypeOK
  <2>4. r \in Seen(rows', p, t.list[i].key)
    BY <2>2, <2>3, VendorsAssumption DEF Seen
  <2> QED BY <1>3, <1>6, <2>1, <2>4
<1>7. CASE Update(p) /\ ~(Rollback(p) \/ Durable(p))
  <2>1. PICK i \in t.todo : IsNext(p, i) /\ Frame(t, u) /\ Dealt(t, u, i)
    BY <1>7, UpdateFields
  <2>2. t.hit.id \in Seen(rows, p, t.list[i].key)
    BY <1>7, <2>1 DEF Update, DoneOK
  <2>3. Seen(rows', p, t.list[i].key) # {}
    BY <1>7, <2>2, SeenStays
  <2> QED BY <1>3, <1>7, <2>1, <2>3
<1>8. CASE (LookLink(p) \/ InsertLink(p)) /\ ~(Rollback(p) \/ Durable(p))
  <2>1. /\ Frame(t, u) /\ u.todo = t.todo /\ u.rep = t.rep /\ u.string = t.string
        /\ \/ u.pc = "pair" /\ links' = links
           \/ u.pc = "commit" /\ links' = links /\ \E l \in links : Joins(p, l) /\ Sees(p, l)
           \/ /\ u.pc = "commit"
              /\ links' = links \union {[rep |-> t.rep, string |-> t.string, by |-> p]}
    BY <1>8, LinkFields
  <2>2. u.pc # "update"
    BY <2>1
  <2>3. CASE links' = links /\ \E l \in links : Joins(p, l) /\ Sees(p, l)
    BY <1>4, <1>8, <2>1, <2>2, <2>3 DEF Joins
  <2>4. CASE links' = links \union {[rep |-> t.rep, string |-> t.string, by |-> p]}
    <3>1. PICK l \in links' : l.rep = t.rep /\ l.string = t.string /\ l.by = p
      <4> DEFINE m == [rep |-> t.rep, string |-> t.string, by |-> p]
      <4>1. m.rep = t.rep /\ m.string = t.string /\ m.by = p
        OBVIOUS
      <4>2. m \in links'
        BY <2>4
      <4> HIDE DEF m
      <4> QED BY <4>1, <4>2
    <3>2. Joins(p, l)' /\ Sees(p, l)
      BY <2>1, <3>1 DEF Joins, Sees
    <3> QED BY <1>4, <1>8, <2>1, <2>2, <3>1, <3>2
  <2>5. CASE u.pc = "pair"
    BY <1>4, <1>8, <2>1, <2>5
  <2> QED BY <2>1, <2>3, <2>4, <2>5
<1> QED BY <1>1, <1>2, <1>5, <1>6, <1>7, <1>8, StepCases

LEMMA DoneNext ==
    ASSUME TypeOK, DoneInv, [Next]_vars
    PROVE  DoneInv'
<1> SUFFICES ASSUME edits' = 0, NEW q \in Procs PROVE DoneOK(q)'
  BY DEF DoneInv
<1>1. ASSUME NEW p \in Procs, Starts(p) \/ Step(p) \/ Fails(p)
      PROVE  DoneOK(q)'
  <2>1. CASE p = q
    <3>1. edits' = edits
      BY <1>1, StepEdits
    <3> QED BY <1>1, <2>1, <3>1, DoneStep DEF DoneInv
  <2>2. CASE p # q
    <3>1. /\ \A k : Seen(rows, q, k) \subseteq Seen(rows', q, k)
          /\ \A l \in links : Sees(q, l) =>
                \E m \in links' : m.rep = l.rep /\ m.string = l.string /\ Sees(q, m)
          /\ edits' = edits
      BY <1>1, <2>2, SeenStays
    <3>2. txn'[q] = txn[q] /\ DoneOK(q)
      BY <1>1, <2>2, <3>1, OthersOwn DEF DoneInv
    <3>3. Sample(q)' = Sample(q)
      BY <3>2 DEF Sample
    <3>4. \A i \in Sample(q) : i \in txn'[q].todo \/ Seen(rows', q, txn'[q].list[i].key) # {}
      BY <3>1, <3>2 DEF DoneOK
    <3>5. txn'[q].pc = "update" =>
            \A i \in txn'[q].todo : IsNext(q, i)' =>
               txn'[q].hit.id \in Seen(rows', q, txn'[q].list[i].key)
      BY <3>1, <3>2 DEF DoneOK, IsNext
    <3>6. txn'[q].pc = "commit" /\ txn'[q].kind = "link" =>
            \E l \in links' : Joins(q, l)' /\ Sees(q, l)
      BY <3>1, <3>2 DEF DoneOK, Joins
    <3> QED BY <3>3, <3>4, <3>5, <3>6 DEF DoneOK, Sees
  <2> QED BY <2>1, <2>2
<1>2. CASE OperatorStep
  BY <1>2 DEF OperatorStep, Edit, Rename, Delete, Unlink, Operator, TypeOK
<1>3. CASE UNCHANGED vars
  BY <1>3 DEF vars, DoneInv, DoneOK, Sees, Sample, IsNext, Joins
<1> QED BY <1>1, <1>2, <1>3 DEF Next, OperatorStep

LEMMA DoneAlways == Spec => []DoneInv
<1>1. Init => DoneInv
  BY DEF Init, DoneInv, DoneOK, Idle, Sample, Firsts
<1> QED BY <1>1, TypeCorrect, DoneNext, PTL DEF Spec

\* A request that ends well leaves what it was asked for in the registry, for
\* all to see: what it found is committed or its own, never taken back by the
\* rollback of another, and its commit settles the rest.
THEOREM DoneRegisters == Spec => DoneMeansRegistered
<1>1. ASSUME TypeOK, CountInv, DoneInv, NEW p \in Procs, Commit(p), edits = 0
      PROVE  /\ \A k \in Asked(p) : Registered(k)'
             /\ txn[p].kind = "link" => \E l \in links' : Joins(p, l) /\ l.by = Db
  <2>1. txn[p].pc = "commit" /\ Durable(p) /\ txn[p].todo = {} /\ DoneOK(p)
    BY <1>1 DEF Commit, CountInv, CountOK, DoneInv
  <2>2. ASSUME NEW k \in Asked(p) PROVE Registered(k)'
    <3>1. PICK i \in Sample(p) : txn[p].list[i].key = k
      BY <2>2 DEF Asked, Sample
    <3>2. PICK r \in Seen(rows, p, k) : TRUE
      BY <2>1, <3>1 DEF DoneOK
    <3>3. r \in Live /\ rows[r].key = k /\ rows[r].by \in {Db, p}
      BY <3>2 DEF Seen, Live
    <3>4. r \in Ids /\ r \in Live'
      BY <1>1, <2>1, <3>3, DurableLive DEF Live
    <3>5. rows'[r].key = k /\ rows'[r].by = Db
      BY <1>1, <2>1, <3>3, <3>4, DurableRows
    <3> QED BY <3>4, <3>5 DEF Registered
  <2>3. ASSUME txn[p].kind = "link"
        PROVE  \E l \in links' : Joins(p, l) /\ l.by = Db
    <3>1. PICK l \in links : Joins(p, l) /\ l.by \in {Db, p}
      BY <2>1, <2>3 DEF DoneOK, Sees
    <3>2. l \in LinkType /\ Settled(p, l) \in links'
      BY <1>1, <2>1 DEF Durable, TypeOK
    <3> QED BY <3>1, <3>2, SettledLink DEF Joins
  <2> QED BY <2>2, <2>3
<1>2. TypeOK /\ CountInv /\ DoneInv =>
        [\A p \in Procs :
           Commit(p) /\ edits = 0 =>
             /\ \A k \in Asked(p) : Registered(k)'
             /\ txn[p].kind = "link" => \E l \in links' : Joins(p, l) /\ l.by = Db]_vars
  BY <1>1
<1> QED BY <1>2, TypeCorrect, CountAlways, DoneAlways, PTL DEF DoneMeansRegistered

-----------------------------------------------------------------------------
(* The refinement of Registry: a commit changes the reps, the strings, or   *)
(* adds one pair with its ends.                                             *)

KeyAt(p, i) == txn[p].list[i].key

\* An own row of a link's request is the end that was asked for, and its end
\* is not asked for again.
OwnEnd(p, i) ==
    \/ /\ rows[i].key \in Emails /\ txn[p].rep = i
       /\ \A j \in txn[p].todo : KeyAt(p, j) \notin Emails
    \/ /\ rows[i].key \in Norms /\ txn[p].string = i
       /\ \A j \in txn[p].todo : KeyAt(p, j) \in Emails

RowsOK(p) ==
    /\ txn[p].kind = "none" => txn[p].pc = "idle"
    /\ txn[p].pc \in {"link", "pair"} => txn[p].kind = "link"
    /\ txn[p].kind \in {"rep", "repscan"} =>
          /\ \A i \in txn[p].todo : KeyAt(p, i) \in Emails
          /\ \A i \in Own(p) : rows[i].key \in Emails
    /\ txn[p].kind \in {"string", "seed"} =>
          /\ \A i \in txn[p].todo : KeyAt(p, i) \in Norms
          /\ \A i \in Own(p) : rows[i].key \in Norms
    /\ txn[p].kind = "link" =>
          /\ \A i, j \in txn[p].todo :
                (KeyAt(p, i) \in Emails <=> KeyAt(p, j) \in Emails) => i = j
          /\ \A i \in Own(p) : OwnEnd(p, i)

PairOK(p) ==
    /\ \A l \in links : l.by = p =>
          txn[p].pc = "commit" /\ txn[p].kind = "link" /\ Joins(p, l)
    /\ txn[p].pc = "commit" /\ txn[p].kind = "link" =>
          Own(p) = {} \/ \E l \in links : l.by = p

RegistryInv == \A p \in Procs : RowsOK(p) /\ PairOK(p)

\* What a request is about when it starts.
LEMMA StartKinds ==
    ASSUME TypeOK, NEW p \in Procs, Starts(p)
    PROVE  LET u == txn'[p]
           IN  /\ u.kind # "none"
               /\ u.pc = "link" => u.kind = "link"
               /\ u.kind \in {"rep", "repscan"} => \A i \in u.todo : u.list[i].key \in Emails
               /\ u.kind \in {"string", "seed"} => \A i \in u.todo : u.list[i].key \in Norms
               /\ u.kind = "link" => \A i, j \in u.todo :
                     (u.list[i].key \in Emails <=> u.list[j].key \in Emails) => i = j
<1>1. txn \in [Procs -> TxnType]
  BY DEF TypeOK
<1>2. ASSUME NEW kind \in {"rep", "string", "repscan", "seed"}, NEW list, NEW todo,
             Begin(p, kind, list, todo)
      PROVE  LET u == txn'[p]
             IN  /\ u.list = list /\ u.todo = todo /\ u.kind = kind
                 /\ u.pc \in {"commit", "look"}
  <2>1. txn'[p] = [Idle EXCEPT !.kind = kind, !.list = list, !.todo = todo,
                     !.pc = IF todo = {} THEN "commit" ELSE "look"]
    BY <1>1, <1>2 DEF Begin, Becomes
  <2> QED BY <2>1 DEF Idle
<1>3. CASE PostRep(p)
  <2>1. PICK e \in Emails : Begin(p, "rep", <<Sender(e)>>, {1})
    BY <1>3 DEF PostRep
  <2> DEFINE list == <<Sender(e)>>
  <2>2. list[1].key \in Emails
    BY DEF Sender
  <2> HIDE DEF list
  <2>3. Begin(p, "rep", list, {1})
    BY <2>1 DEF list
  <2> QED BY <1>2, <2>2, <2>3
<1>4. CASE PostString(p)
  <2>1. PICK s \in Spellings : Begin(p, "string", <<Spelling(s)>>, {1})
    BY <1>4 DEF PostString
  <2> DEFINE list == <<Spelling(s)>>
  <2>2. list[1].key \in Norms
    BY DEF Spelling, Norms
  <2> HIDE DEF list
  <2>3. Begin(p, "string", list, {1})
    BY <2>1 DEF list
  <2> QED BY <1>2, <2>2, <2>3
<1>5. CASE PostLink(p)
  <2>1. PICK a \in Committed(Emails) \union {NoId}, b \in Committed(Norms) \union {NoId},
             ea \in {<<>>} \union {<<Sender(e)>> : e \in Emails},
             eb \in {<<>>} \union {<<Spelling(s)>> : s \in Spellings} :
          /\ a = NoId \/ ea = <<>>
          /\ b = NoId \/ eb = <<>>
          /\ Becomes(p, [Idle EXCEPT !.kind = "link", !.list = ea \o eb,
                           !.todo = 1 .. Len(ea \o eb), !.rep = a, !.string = b,
                           !.pc = IF ea \o eb = <<>> THEN "link" ELSE "look"])
    BY <1>5 DEF PostLink
  <2> DEFINE list == ea \o eb
  <2>2. \A i, j \in 1 .. Len(list) :
           (list[i].key \in Emails <=> list[j].key \in Emails) => i = j
    <3>1. \A e \in Emails : Sender(e).key \in Emails
      BY DEF Sender
    <3>2. \A s \in Spellings : Spelling(s).key \notin Emails
      BY VendorsAssumption DEF Spelling, Norms
    <3>3. CASE ea = <<>> /\ eb = <<>>
      BY <3>3
    <3>4. ASSUME NEW e \in Emails, ea = <<Sender(e)>>, eb = <<>>
          PROVE  Len(list) = 1
      BY <3>4
    <3>5. ASSUME NEW s \in Spellings, ea = <<>>, eb = <<Spelling(s)>>
          PROVE  Len(list) = 1
      BY <3>5
    <3>6. ASSUME NEW e \in Emails, ea = <<Sender(e)>>,
                 NEW s \in Spellings, eb = <<Spelling(s)>>
          PROVE  Len(list) = 2 /\ list[1] = Sender(e) /\ list[2] = Spelling(s)
      BY <3>6
    <3>7. \A i, j \in 1 .. 1 : i = j
      OBVIOUS
    <3>8. \A i \in 1 .. 2 : i = 1 \/ i = 2
      OBVIOUS
    <3> HIDE DEF list
    <3>9. ASSUME NEW e \in Emails, ea = <<Sender(e)>>,
                 NEW s \in Spellings, eb = <<Spelling(s)>>
          PROVE  \A i, j \in 1 .. Len(list) :
                    (list[i].key \in Emails <=> list[j].key \in Emails) => i = j
      BY <3>1, <3>2, <3>6, <3>8, <3>9
    <3> QED BY <2>1, <3>3, <3>4, <3>5, <3>7, <3>9
  <2>3. txn'[p] = [Idle EXCEPT !.kind = "link", !.list = list,
                     !.todo = 1 .. Len(list), !.rep = a, !.string = b,
                     !.pc = IF list = <<>> THEN "link" ELSE "look"]
    BY <1>1, <2>1 DEF Becomes
  <2> HIDE DEF list
  <2>4. txn'[p].kind = "link" /\ txn'[p].list = list /\ txn'[p].todo = 1 .. Len(list)
    BY <2>3 DEF Idle
  <2> QED BY <2>2, <2>4
<1>6. CASE RepScan(p)
  <2>1. PICK m \in Mailboxes :
          Begin(p, "repscan", [i \in 1 .. Len(m) |-> Sender(m[i])],
                Firsts([i \in 1 .. Len(m) |-> Sender(m[i])], MaxMessages))
    BY <1>6 DEF RepScan
  <2> DEFINE list == [i \in 1 .. Len(m) |-> Sender(m[i])]
  <2>2. m \in Seq(Emails \union {Internal}) /\ Len(m) \in Nat
    BY VendorsAssumption
  <2>3. Len(list) = Len(m)
    BY <2>2
  <2>4. \A i \in 1 .. Len(list) : list[i].key \in Emails \union {Internal}
    BY <2>2, <2>3 DEF Sender
  <2> HIDE DEF list
  <2>5. \A i \in Firsts(list, MaxMessages) : list[i].key \in Emails
    BY <2>4 DEF Firsts
  <2>6. Begin(p, "repscan", list, Firsts(list, MaxMessages))
    BY <2>1 DEF list
  <2> QED BY <1>2, <2>5, <2>6
<1>7. CASE Seed(p)
  <2>1. PICK v \in VendorLists :
          Begin(p, "seed", [i \in 1 .. Len(v) |-> Spelling(v[i])],
                Firsts([i \in 1 .. Len(v) |-> Spelling(v[i])],
                       Len([i \in 1 .. Len(v) |-> Spelling(v[i])])))
    BY <1>7 DEF Seed
  <2> DEFINE list == [i \in 1 .. Len(v) |-> Spelling(v[i])]
  <2>2. v \in Seq(Spellings) /\ Len(v) \in Nat
    BY VendorsAssumption
  <2>3. Len(list) = Len(v)
    BY <2>2
  <2>4. \A i \in 1 .. Len(list) : list[i].key \in Norms
    BY <2>2, <2>3 DEF Spelling, Norms
  <2> HIDE DEF list
  <2>5. \A i \in Firsts(list, Len(list)) : list[i].key \in Norms
    BY <2>4 DEF Firsts
  <2>6. Begin(p, "seed", list, Firsts(list, Len(list)))
    BY <2>1 DEF list
  <2> QED BY <1>2, <2>5, <2>6
<1> QED BY <1>3, <1>4, <1>5, <1>6, <1>7 DEF Starts

\* A transaction that does not move, with its rows and links.
Still(q) ==
    /\ txn'[q] = txn[q] /\ Own(q)' = Own(q)
    /\ \A i \in Own(q) : rows'[i].key = rows[i].key
    /\ \A l : l \in links' /\ l.by = q <=> l \in links /\ l.by = q

LEMMA StillOK ==
    ASSUME NEW q \in Procs, RowsOK(q), PairOK(q), Still(q)
    PROVE  RowsOK(q)' /\ PairOK(q)'
<1>1. txn'[q] = txn[q] /\ Own(q)' = Own(q)
  BY DEF Still
<1>2. \A i \in Own(q) : OwnEnd(q, i) => OwnEnd(q, i)'
  BY <1>1 DEF OwnEnd, KeyAt, Still
<1>3. RowsOK(q)'
  BY <1>1, <1>2 DEF RowsOK, KeyAt, Still
<1>4. PairOK(q)'
  BY <1>1 DEF PairOK, Joins, Still
<1> QED BY <1>3, <1>4

LEMMA OthersStill ==
    ASSUME TypeOK, NEW p \in Procs, Starts(p) \/ Step(p) \/ Fails(p),
           NEW q \in Procs, q # p
    PROVE  Still(q)
<1>1. txn'[q] = txn[q] /\ Own(q)' = Own(q)
  BY OthersOwn
<1>2. \A i \in Own(q) : rows'[i].key = rows[i].key
  <2> SUFFICES ASSUME NEW i \in Own(q) PROVE rows'[i].key = rows[i].key
    OBVIOUS
  <2>1. i \in Seen(rows, q, rows[i].key)
    BY DEF Own, Live, Seen
  <2>2. \A k : Seen(rows, q, k) \subseteq Seen(rows', q, k)
    BY SeenStays
  <2> QED BY <2>1, <2>2 DEF Seen
<1>3. \A l : l \in links' /\ l.by = q <=> l \in links /\ l.by = q
  <2>1. CASE links' = links
    BY <2>1
  <2>2. CASE InsertLink(p)
    <3>1. /\ links' = links \union {[rep |-> txn[p].rep, string |-> txn[p].string, by |-> p]}
          /\ [rep |-> txn[p].rep, string |-> txn[p].string, by |-> p].by = p
      BY <2>2 DEF InsertLink
    <3> QED BY <3>1
  <2>3. CASE Rollback(p)
    BY <2>3 DEF Rollback
  <2>4. CASE Durable(p)
    <3>1. links' = {Settled(p, l) : l \in links}
      BY <2>4 DEF Durable
    <3>2. \A l \in links : /\ l.by # p => Settled(p, l) = l
                           /\ l.by = p => Settled(p, l).by = Db
      BY SettledLink DEF Settled, TypeOK
    <3> QED BY <3>1, <3>2, VendorsAssumption
  <2>5. \/ links' = links \/ InsertLink(p) \/ Rollback(p) \/ Durable(p)
    <3>1. CASE Starts(p)
      BY <3>1 DEF Starts, PostRep, PostString, PostLink, RepScan, Seed, Begin
    <3>2. CASE Step(p) \/ Fails(p)
      BY <3>2, StepCases DEF Look, Insert, Update, LookLink
    <3> QED BY <3>1, <3>2
  <2> QED BY <2>1, <2>2, <2>3, <2>4, <2>5
<1> QED BY <1>1, <1>2, <1>3 DEF Still

\* A row that is not committed is out of the operator's reach, and so are the
\* ends of a link that is not.
LEMMA OperatorStill ==
    ASSUME TypeOK, OperatorStep, NEW q \in Procs
    PROVE  Still(q)
<1>1. txn' = txn /\ Own(q)' = Own(q)
  BY OperatorOwn
<1>2. /\ \A i \in Own(q) : rows'[i].key = rows[i].key
      /\ \A l : l \in links' /\ l.by = q <=> l \in links /\ l.by = q
  <2>1. ASSUME NEW i \in Ids, Edit(i) \/ Delete(i) \/ \E e \in Emails : Rename(i, e)
        PROVE  /\ i \notin Own(q) /\ \A j \in Ids : j # i => rows'[j] = rows[j]
               /\ \A l : l \in links' /\ l.by = q <=> l \in links /\ l.by = q
    <3>1. i \in Live /\ rows[i].by = Db
      BY <2>1 DEF Edit, Delete, Rename
    <3>2. \A j \in Ids : j # i => rows'[j] = rows[j]
      <4>1. CASE Edit(i)
        BY <4>1, EditRow
      <4>2. CASE Delete(i) \/ \E e \in Emails : Rename(i, e)
        BY <4>2 DEF Delete, Rename, TypeOK
      <4> QED BY <2>1, <4>1, <4>2
    <3>3. CASE Delete(i)
      <4>1. \A l \in links : l.by = q => i \notin {l.rep, l.string}
        BY <3>3, VendorsAssumption DEF Delete, Referenced
      <4>2. links' = {l \in links : i \notin {l.rep, l.string}}
        BY <3>3 DEF Delete
      <4> QED BY <3>1, <3>2, <4>1, <4>2, VendorsAssumption DEF Own
    <3>4. CASE links' = links
      BY <3>1, <3>2, <3>4, VendorsAssumption DEF Own
    <3> QED BY <2>1, <3>3, <3>4 DEF Edit, Rename
  <2>2. ASSUME NEW l \in links, Unlink(l)
        PROVE  /\ rows' = rows
               /\ \A m : m \in links' /\ m.by = q <=> m \in links /\ m.by = q
    BY <2>2, VendorsAssumption DEF Unlink
  <2> QED BY <2>1, <2>2 DEF OperatorStep, Own, Live
<1> QED BY <1>1, <1>2 DEF Still

\* A transaction becomes durable from its commit only, and only one that is
\* being served is rolled back.
LEMMA StepEnds ==
    ASSUME NEW p \in Procs, Step(p) \/ Fails(p)
    PROVE  \/ Look(p) \/ Insert(p) \/ Update(p) \/ LookLink(p) \/ InsertLink(p)
           \/ Rollback(p) /\ txn[p].pc # "idle"
           \/ Durable(p) /\ txn[p].pc = "commit"
<1>1. Deadlocked(p) => Rollback(p) /\ txn[p].pc # "idle"
  BY DEF Deadlocked, WaitsFor
<1>2. Commit(p) => Durable(p) /\ txn[p].pc = "commit"
  BY DEF Commit
<1>3. Refuse(p) \/ FlushFails(p) => Rollback(p) /\ txn[p].pc # "idle"
  BY DEF Refuse, FlushFails
<1>4. Fails(p) => \/ Rollback(p) /\ txn[p].pc # "idle"
                  \/ Durable(p) /\ txn[p].pc = "commit"
  BY DEF Fails
<1> QED BY <1>1, <1>2, <1>3, <1>4 DEF Step

\* A step that reads, or that updates a row, leaves the own rows of a link's
\* request its ends: the end that it sets is one that was not set before.
LEMMA MovedOK ==
    ASSUME TypeOK, NEW p \in Procs, RowsOK(p), PairOK(p),
           rows' = rows, links' = links, Frame(txn[p], txn'[p]),
           txn[p].pc \notin {"idle", "commit"}, txn'[p].todo \subseteq txn[p].todo,
           txn'[p].pc \in {"link", "pair"} => txn[p].kind = "link",
           txn'[p].pc = "commit" => txn[p].kind # "link",
           \/ txn'[p].rep = txn[p].rep /\ txn'[p].string = txn[p].string
           \/ \E i \in txn[p].todo : \E r : Ended(txn[p], txn'[p], txn[p].list[i].key, r)
    PROVE  RowsOK(p)' /\ PairOK(p)'
<1> DEFINE t == txn[p]
           u == txn'[p]
<1>1. u.kind = t.kind /\ u.list = t.list /\ Own(p)' = Own(p)
  BY DEF Frame, Own, Live
<1>2. ASSUME NEW i \in Own(p), t.kind = "link" PROVE OwnEnd(p, i)'
  <2>1. OwnEnd(p, i)
    BY <1>2 DEF RowsOK
  <2>2. CASE u.rep = t.rep /\ u.string = t.string
    BY <1>1, <2>1, <2>2 DEF OwnEnd, KeyAt
  <2>3. ASSUME NEW j \in t.todo, NEW r, Ended(t, u, t.list[j].key, r)
        PROVE  OwnEnd(p, i)'
    BY <1>1, <1>2, <2>1, <2>3 DEF OwnEnd, KeyAt, Ended
  <2> QED BY <2>2, <2>3
<1>3. RowsOK(p)'
  BY <1>1, <1>2 DEF RowsOK, KeyAt
<1>4. PairOK(p)'
  BY <1>1 DEF PairOK
<1> QED BY <1>3, <1>4

LEMMA InsertedOK ==
    ASSUME TypeOK, NEW p \in Procs, RowsOK(p), PairOK(p), Insert(p)
    PROVE  RowsOK(p)' /\ PairOK(p)'
<1> DEFINE t == txn[p]
           u == txn'[p]
<1>1. PICK i \in t.todo, r \in Ids :
        /\ Frame(t, u) /\ Dealt(t, u, i) /\ Ended(t, u, t.list[i].key, r)
        /\ rows[r] = NoRow /\ t.list[i] \in Wants /\ t.list[i].key \in Keys
        /\ rows' = [rows EXCEPT ![r] = [key |-> t.list[i].key,
                      info |-> t.list[i].vals, active |-> TRUE, by |-> p]]
  BY InsertFields
<1> DEFINE v == [key |-> t.list[i].key, info |-> t.list[i].vals,
                 active |-> TRUE, by |-> p]
<1>2. v \in RowType /\ v.by = p /\ v.key = t.list[i].key
  BY <1>1 DEF RowType, Wants
<1>3. rows \in [Ids -> RowType \union {NoRow}] /\ rows' = [rows EXCEPT ![r] = v]
  BY <1>1 DEF TypeOK
<1> HIDE DEF v
<1>4. rows'[r] = v /\ \A j \in Ids : j # r => rows'[j] = rows[j]
  BY <1>1, <1>3
<1>5. r \notin Own(p) /\ Own(p)' = Own(p) \union {r}
  BY <1>1, <1>2, <1>4, VendorsAssumption DEF Own, Live
<1>6. /\ rows'[r].key = t.list[i].key
      /\ \A j \in Own(p) : rows'[j] = rows[j]
  BY <1>2, <1>4, <1>5 DEF Own, Live
<1>7. /\ t.pc = "insert" /\ links' = links /\ u.kind = t.kind /\ u.list = t.list
      /\ u.todo = t.todo \ {i} /\ u.pc \in {"look", "link", "commit"}
      /\ u.pc = "link" => t.kind = "link"
      /\ u.pc = "commit" => t.kind # "link"
  BY <1>1 DEF Insert, Frame, Dealt
<1>8. ASSUME t.kind = "link", NEW j \in Own(p) PROVE OwnEnd(p, j)'
  <2>1. OwnEnd(p, j)
    BY <1>8 DEF RowsOK
  <2> QED BY <1>1, <1>6, <1>7, <1>8, <2>1 DEF OwnEnd, KeyAt, Ended
<1>9. ASSUME t.kind = "link" PROVE OwnEnd(p, r)'
  <2>1. \A j \in t.todo : j # i => ~(KeyAt(p, i) \in Emails <=> KeyAt(p, j) \in Emails)
    BY <1>9 DEF RowsOK
  <2>2. KeyAt(p, i) \in Emails \/ KeyAt(p, i) \in Norms
    BY <1>1 DEF KeyAt, Keys
  <2>3. Emails \intersect Norms = {}
    BY VendorsAssumption
  <2>4. CASE KeyAt(p, i) \in Emails
    <3>1. u.rep = r /\ \A j \in u.todo : KeyAt(p, j) \notin Emails
      BY <1>1, <1>7, <1>9, <2>1, <2>4 DEF Ended, KeyAt
    <3> QED BY <1>6, <1>7, <2>4, <3>1 DEF OwnEnd, KeyAt
  <2>5. CASE KeyAt(p, i) \in Norms
    <3>1. u.string = r /\ \A j \in u.todo : KeyAt(p, j) \in Emails
      BY <1>1, <1>7, <1>9, <2>1, <2>3, <2>5 DEF Ended, KeyAt
    <3> QED BY <1>6, <1>7, <2>5, <3>1 DEF OwnEnd, KeyAt
  <2> QED BY <2>2, <2>4, <2>5
<1>10. RowsOK(p)'
  BY <1>5, <1>6, <1>7, <1>8, <1>9 DEF RowsOK, KeyAt
<1>11. PairOK(p)'
  BY <1>7 DEF PairOK
<1> QED BY <1>10, <1>11

\* The ends of a link that is there already are committed: the request has
\* registered neither.
LEMMA PairedOK ==
    ASSUME TypeOK, LinksHaveEnds, NEW p \in Procs, RowsOK(p), PairOK(p),
           LookLink(p) \/ InsertLink(p)
    PROVE  RowsOK(p)' /\ PairOK(p)'
<1> DEFINE t == txn[p]
           u == txn'[p]
<1>1. /\ t.pc \in {"link", "pair"} /\ Frame(t, u) /\ u.todo = t.todo
      /\ u.rep = t.rep /\ u.string = t.string
      /\ \/ u.pc = "pair" /\ links' = links
         \/ u.pc = "commit" /\ links' = links /\ \E l \in links : Joins(p, l) /\ Sees(p, l)
         \/ /\ u.pc = "commit"
            /\ links' = links \union {[rep |-> t.rep, string |-> t.string, by |-> p]}
  BY LinkFields
<1>2. u.kind = t.kind /\ u.list = t.list /\ t.kind = "link"
  BY <1>1 DEF Frame, RowsOK
<1>3. rows' = rows /\ Own(p)' = Own(p)
  BY DEF LookLink, InsertLink, Own, Live
<1>4. \A l \in links : l.by # p
  <2>1. t.pc # "commit"
    BY <1>1
  <2> QED BY <2>1 DEF PairOK
<1>5. RowsOK(p)'
  <2>1. \A i \in Own(p) : OwnEnd(p, i) => OwnEnd(p, i)'
    BY <1>1, <1>2, <1>3 DEF OwnEnd, KeyAt
  <2> QED BY <1>1, <1>2, <1>3, <2>1 DEF RowsOK, KeyAt
<1>6. CASE u.pc = "pair" /\ links' = links
  BY <1>4, <1>5, <1>6 DEF PairOK
<1>7. ASSUME NEW l \in links, Joins(p, l), Sees(p, l), links' = links
      PROVE  PairOK(p)'
  <2>1. l.by = Db
    BY <1>4, <1>7 DEF Sees
  <2>2. rows[l.rep].by = Db /\ rows[l.string].by = Db
    BY <2>1 DEF LinksHaveEnds
  <2>3. ASSUME NEW i \in Own(p) PROVE FALSE
    <3>1. rows[i].by = p /\ OwnEnd(p, i)
      BY <1>2, <2>3 DEF Own, RowsOK
    <3>2. i \in {l.rep, l.string}
      BY <1>7, <3>1 DEF OwnEnd, Joins
    <3> QED BY <2>2, <3>1, <3>2, VendorsAssumption
  <2> QED BY <1>3, <1>4, <1>7, <2>3 DEF PairOK
<1>8. CASE u.pc = "commit" /\
           links' = links \union {[rep |-> t.rep, string |-> t.string, by |-> p]}
  <2> DEFINE m == [rep |-> t.rep, string |-> t.string, by |-> p]
  <2>1. m.rep = t.rep /\ m.string = t.string /\ m.by = p /\ links' = links \union {m}
    BY <1>8
  <2> HIDE DEF m
  <2>2. \A l \in links' : l.by = p => l.rep = u.rep /\ l.string = u.string
    BY <1>1, <1>4, <2>1
  <2>3. \E l \in links' : l.by = p
    BY <2>1
  <2>4. \A l \in links' : l.by = p => Joins(p, l)'
    BY <2>2 DEF Joins
  <2> QED BY <1>2, <1>5, <1>8, <2>3, <2>4 DEF PairOK
<1> QED BY <1>1, <1>5, <1>6, <1>7, <1>8

LEMMA OwnStepOK ==
    ASSUME TypeOK, LinksHaveEnds, NEW p \in Procs, CountOK(p), RowsOK(p), PairOK(p),
           Starts(p) \/ Step(p) \/ Fails(p)
    PROVE  RowsOK(p)' /\ PairOK(p)'
<1> DEFINE t == txn[p]
           u == txn'[p]
<1>1. CASE Starts(p)
  <2>1. /\ t.pc = "idle" /\ rows' = rows /\ links' = links
        /\ u.pc \in {"look", "link", "commit"} /\ (u.pc = "commit" => u.kind # "link")
    BY <1>1, StartFields
  <2>2. Own(p)' = {} /\ \A l \in links' : l.by # p
    BY <2>1 DEF CountOK, PairOK, Own, Live
  <2>3. PairOK(p)'
    BY <2>1, <2>2 DEF PairOK
  <2>4. /\ u.kind # "none"
        /\ u.pc = "link" => u.kind = "link"
        /\ u.kind \in {"rep", "repscan"} => \A i \in u.todo : u.list[i].key \in Emails
        /\ u.kind \in {"string", "seed"} => \A i \in u.todo : u.list[i].key \in Norms
        /\ u.kind = "link" => \A i, j \in u.todo :
              (u.list[i].key \in Emails <=> u.list[j].key \in Emails) => i = j
    BY <1>1, StartKinds
  <2>5. RowsOK(p)'
    BY <2>1, <2>2, <2>4 DEF RowsOK, KeyAt
  <2> QED BY <2>3, <2>5
<1>2. CASE Rollback(p) \/ Durable(p)
  <2>1. u = Idle /\ Own(p)' = {}
    BY <1>2, EndedOwn
  <2>2. \A l \in links' : l.by # p
    <3>1. CASE Rollback(p)
      BY <3>1 DEF Rollback
    <3>2. CASE Durable(p)
      <4>1. \A l \in links : Settled(p, l).by # p
        BY SettledLink, VendorsAssumption DEF TypeOK
      <4> QED BY <3>2, <4>1 DEF Durable
    <3> QED BY <1>2, <3>1, <3>2
  <2>3. RowsOK(p)'
    BY <2>1 DEF RowsOK, Idle
  <2>4. PairOK(p)'
    BY <2>1, <2>2 DEF PairOK, Idle
  <2> QED BY <2>3, <2>4
<1>3. CASE Look(p)
  <2>1. PICK i \in t.todo :
          /\ Frame(t, u)
          /\ \/ u.pc = "insert" /\ u.todo = t.todo /\ u.rep = t.rep /\ u.string = t.string
             \/ \E r : /\ Ended(t, u, t.list[i].key, r)
                       /\ Dealt(t, u, i) \/ (u.pc = "update" /\ u.todo = t.todo)
    BY <1>3, LookFields
  <2>2. t.pc = "look" /\ rows' = rows /\ links' = links
    BY <1>3 DEF Look
  <2>3. /\ u.todo \subseteq t.todo
        /\ u.pc \in {"link", "pair"} => t.kind = "link"
        /\ u.pc = "commit" => t.kind # "link"
    BY <2>1 DEF Dealt
  <2> QED BY <2>1, <2>2, <2>3, MovedOK
<1>4. CASE Update(p)
  <2>1. PICK i \in t.todo :
          Frame(t, u) /\ Dealt(t, u, i) /\ u.rep = t.rep /\ u.string = t.string
    BY <1>4, UpdateFields
  <2>2. t.pc = "update" /\ rows' = rows /\ links' = links
    BY <1>4 DEF Update
  <2>3. /\ u.todo \subseteq t.todo
        /\ u.pc \in {"link", "pair"} => t.kind = "link"
        /\ u.pc = "commit" => t.kind # "link"
    BY <2>1 DEF Dealt
  <2> QED BY <2>1, <2>2, <2>3, MovedOK
<1> QED BY <1>1, <1>2, <1>3, <1>4, InsertedOK, PairedOK, StepCases

LEMMA RegistryNext ==
    ASSUME TypeOK, LinksHaveEnds, CountInv, RegistryInv, [Next]_vars
    PROVE  RegistryInv'
<1>1. ASSUME NEW p \in Procs, Starts(p) \/ Step(p) \/ Fails(p)
      PROVE  RegistryInv'
  <2>1. ASSUME NEW q \in Procs PROVE RowsOK(q)' /\ PairOK(q)'
    <3>1. RowsOK(q) /\ PairOK(q) /\ CountOK(q)
      BY DEF RegistryInv, CountInv
    <3>2. CASE q = p
      BY <1>1, <3>1, <3>2, OwnStepOK
    <3>3. CASE q # p
      BY <1>1, <3>1, <3>3, OthersStill, StillOK
    <3> QED BY <3>2, <3>3
  <2> QED BY <2>1 DEF RegistryInv
<1>2. CASE OperatorStep
  BY <1>2, OperatorStill, StillOK DEF RegistryInv
<1>3. CASE UNCHANGED vars
  <2>1. ASSUME NEW q \in Procs PROVE RowsOK(q)' /\ PairOK(q)'
    <3>1. Still(q)
      BY <1>3 DEF vars, Still, Own, Live
    <3> QED BY <3>1, StillOK DEF RegistryInv
  <2> QED BY <2>1 DEF RegistryInv
<1> QED BY <1>1, <1>2, <1>3 DEF Next, OperatorStep

LEMMA RegistryAlways == Spec => []RegistryInv
<1>1. Init => RegistryInv
  <2> SUFFICES ASSUME Init, NEW p \in Procs PROVE RowsOK(p) /\ PairOK(p)
    BY DEF RegistryInv
  <2>1. txn[p] = Idle /\ links = {}
    BY DEF Init
  <2> QED BY <2>1 DEF RowsOK, PairOK, Idle
<1> QED BY <1>1, TypeCorrect, AlwaysLinked, CountAlways, RegistryNext, PTL DEF Spec

-----------------------------------------------------------------------------
(* A request asks for a key once: what it has inserted it does not look up. *)

KeysOK(p) ==
    /\ txn[p].pc = "idle" => txn[p].kind = "none" /\ txn[p].todo = {}
    /\ \A i, j \in txn[p].todo : KeyAt(p, i) = KeyAt(p, j) => i = j
    /\ \A r \in Own(p), i \in txn[p].todo : rows[r].key # KeyAt(p, i)

KeysInv == \A p \in Procs : KeysOK(p)

LEMMA FirstsDistinct ==
    ASSUME NEW list \in Seq(Wants), NEW n
    PROVE  \A i, j \in Firsts(list, n) : list[i].key = list[j].key => i = j
<1> SUFFICES ASSUME NEW i \in Firsts(list, n), NEW j \in Firsts(list, n),
                    list[i].key = list[j].key
             PROVE  i = j
  OBVIOUS
<1>1. /\ i \in 1 .. Len(list) /\ j \in 1 .. Len(list)
      /\ \A k \in 1 .. i - 1 : list[k].key # list[i].key
      /\ \A k \in 1 .. j - 1 : list[k].key # list[j].key
  BY DEF Firsts
<1>2. Len(list) \in Nat
  OBVIOUS
<1>3. ~(i < j) /\ ~(j < i) /\ i \in Int /\ j \in Int
  BY <1>1, <1>2
<1> QED BY <1>3

LEMMA KeysStart ==
    ASSUME TypeOK, TypeOK', NEW p \in Procs, Starts(p)
    PROVE  LET u == txn'[p]
           IN  /\ u.pc # "idle"
               /\ \A i, j \in u.todo : u.list[i].key = u.list[j].key => i = j
<1> DEFINE u == txn'[p]
<1>1. u.pc # "idle" /\ u.list \in Seq(Wants) /\ txn \in [Procs -> TxnType]
  BY StartFields DEF TypeOK, TxnType
<1>2. ASSUME NEW kind, NEW list, NEW todo, Begin(p, kind, list, todo)
      PROVE  u.list = list /\ u.todo = todo
  <2>1. u = [Idle EXCEPT !.kind = kind, !.list = list, !.todo = todo,
               !.pc = IF todo = {} THEN "commit" ELSE "look"]
    BY <1>1, <1>2 DEF Begin, Becomes
  <2> QED BY <2>1 DEF Idle
<1>3. CASE PostRep(p) \/ PostString(p)
  <2>1. PICK kind, list : Begin(p, kind, list, {1})
    BY <1>3 DEF PostRep, PostString
  <2>2. u.todo = {1}
    BY <1>2, <2>1
  <2> QED BY <1>1, <2>2
<1>4. CASE RepScan(p) \/ Seed(p)
  <2>1. PICK kind, list, n : Begin(p, kind, list, Firsts(list, n))
    BY <1>4 DEF RepScan, Seed
  <2>2. u.list = list /\ u.todo = Firsts(u.list, n)
    BY <1>2, <2>1
  <2> QED BY <1>1, <2>2, FirstsDistinct
<1>5. CASE PostLink(p)
  <2>1. PICK list, a, b, pc :
           Becomes(p, [Idle EXCEPT !.kind = "link", !.list = list,
                         !.todo = 1 .. Len(list), !.rep = a, !.string = b, !.pc = pc])
    BY <1>5 DEF PostLink
  <2>2. u.kind = "link"
    BY <1>1, <2>1 DEF Becomes, Idle
  <2> QED BY <1>1, <1>5, <2>2, StartKinds DEF Starts
<1> QED BY <1>3, <1>4, <1>5 DEF Starts

\* A step that inserts nothing has no more to ask for and no more rows.
LEMMA KeysFewer ==
    ASSUME NEW p \in Procs, KeysOK(p), Frame(txn[p], txn'[p]), txn'[p].pc # "idle",
           txn'[p].todo \subseteq txn[p].todo, rows' = rows
    PROVE  KeysOK(p)'
<1>1. Own(p)' = Own(p) /\ \A i : KeyAt(p, i)' = KeyAt(p, i)
  BY DEF Own, Live, KeyAt, Frame
<1> QED BY <1>1 DEF KeysOK

\* The row that an INSERT adds, and what it leaves to be asked for.
LEMMA InsertedRow ==
    ASSUME TypeOK, NEW p \in Procs, Insert(p)
    PROVE  LET t == txn[p]  u == txn'[p]
           IN  \E i \in t.todo, r \in Ids :
                  /\ Frame(t, u) /\ Dealt(t, u, i) /\ KeyAt(p, i) \in Keys
                  /\ r \notin Live /\ Own(p)' = Own(p) \union {r}
                  /\ rows'[r].key = KeyAt(p, i) /\ rows'[r].by = p
                  /\ \A j \in Ids : j # r => rows'[j] = rows[j]
<1> DEFINE t == txn[p]
           u == txn'[p]
<1>1. PICK i \in t.todo, r \in Ids :
        /\ Frame(t, u) /\ Dealt(t, u, i)
        /\ rows[r] = NoRow /\ t.list[i] \in Wants /\ t.list[i].key \in Keys
        /\ rows' = [rows EXCEPT ![r] = [key |-> t.list[i].key,
                      info |-> t.list[i].vals, active |-> TRUE, by |-> p]]
  BY InsertFields
<1> DEFINE v == [key |-> t.list[i].key, info |-> t.list[i].vals,
                 active |-> TRUE, by |-> p]
<1>2. v \in RowType /\ v.by = p /\ v.key = t.list[i].key
  BY <1>1 DEF RowType, Wants
<1>3. rows \in [Ids -> RowType \union {NoRow}] /\ rows' = [rows EXCEPT ![r] = v]
  BY <1>1 DEF TypeOK
<1> HIDE DEF v
<1>4. rows'[r] = v /\ \A j \in Ids : j # r => rows'[j] = rows[j]
  BY <1>1, <1>3
<1>5. Own(p)' = Own(p) \union {r}
  BY <1>1, <1>2, <1>4, VendorsAssumption DEF Own, Live
<1> QED BY <1>1, <1>2, <1>4, <1>5 DEF KeyAt, Live

LEMMA KeysStep ==
    ASSUME TypeOK, TypeOK', NEW p \in Procs, CountOK(p), KeysOK(p),
           Starts(p) \/ Step(p) \/ Fails(p)
    PROVE  KeysOK(p)'
<1> DEFINE t == txn[p]
           u == txn'[p]
<1>1. CASE Starts(p)
  <2>1. t.pc = "idle" /\ rows' = rows
    BY <1>1, StartFields
  <2>2. Own(p)' = {}
    BY <2>1 DEF CountOK, Own, Live
  <2> QED BY <1>1, <2>2, KeysStart DEF KeysOK, KeyAt
<1>2. CASE Rollback(p) \/ Durable(p)
  <2>1. u = Idle /\ Own(p)' = {}
    BY <1>2, EndedOwn
  <2> QED BY <2>1 DEF KeysOK, Idle
<1>3. CASE Look(p)
  <2>1. PICK i \in t.todo : /\ Frame(t, u)
                            /\ \/ u.pc = "insert" /\ u.todo = t.todo
                               \/ Dealt(t, u, i)
                               \/ u.pc = "update" /\ u.todo = t.todo
    BY <1>3, LookFields
  <2>2. rows' = rows
    BY <1>3 DEF Look
  <2>3. u.todo \subseteq t.todo /\ u.pc # "idle"
    BY <2>1 DEF Dealt
  <2> QED BY <2>1, <2>2, <2>3, KeysFewer
<1>4. CASE Update(p)
  <2>1. PICK i \in t.todo : Frame(t, u) /\ Dealt(t, u, i)
    BY <1>4, UpdateFields
  <2>2. rows' = rows
    BY <1>4 DEF Update
  <2>3. u.todo \subseteq t.todo /\ u.pc # "idle"
    BY <2>1 DEF Dealt
  <2> QED BY <2>1, <2>2, <2>3, KeysFewer
<1>5. CASE LookLink(p) \/ InsertLink(p)
  <2>1. Frame(t, u) /\ u.todo = t.todo /\ u.pc \in {"pair", "commit"}
    BY <1>5, LinkFields
  <2>2. rows' = rows
    BY <1>5 DEF LookLink, InsertLink
  <2> QED BY <2>1, <2>2, KeysFewer
<1>6. CASE Insert(p)
  <2>1. PICK i \in t.todo, r \in Ids :
          /\ Frame(t, u) /\ Dealt(t, u, i)
          /\ r \notin Live /\ Own(p)' = Own(p) \union {r}
          /\ rows'[r].key = KeyAt(p, i)
          /\ \A j \in Ids : j # r => rows'[j] = rows[j]
    BY <1>6, InsertedRow
  <2>2. /\ u.todo = t.todo \ {i} /\ u.pc # "idle"
        /\ \A j : KeyAt(p, j)' = KeyAt(p, j)
    BY <2>1 DEF Dealt, Frame, KeyAt
  <2>3. \A j \in Own(p) : rows'[j] = rows[j]
    BY <2>1 DEF Own, Live
  <2>4. \A s \in Own(p)', j \in u.todo : rows'[s].key # KeyAt(p, j)
    BY <2>1, <2>2, <2>3 DEF KeysOK
  <2> QED BY <2>2, <2>4 DEF KeysOK
<1> QED BY <1>1, <1>2, <1>3, <1>4, <1>5, <1>6, StepCases

LEMMA KeysStill ==
    ASSUME NEW q \in Procs, KeysOK(q), Still(q)
    PROVE  KeysOK(q)'
  BY DEF KeysOK, Still, KeyAt

LEMMA KeysNext ==
    ASSUME TypeOK, TypeOK', CountInv, KeysInv, [Next]_vars
    PROVE  KeysInv'
<1> SUFFICES ASSUME NEW q \in Procs PROVE KeysOK(q)'
  BY DEF KeysInv
<1>1. KeysOK(q) /\ CountOK(q)
  BY DEF KeysInv, CountInv
<1>2. ASSUME NEW p \in Procs, Starts(p) \/ Step(p) \/ Fails(p)
      PROVE  KeysOK(q)'
  <2>1. CASE q = p
    BY <1>1, <1>2, <2>1, KeysStep
  <2>2. CASE q # p
    BY <1>1, <1>2, <2>2, OthersStill, KeysStill
  <2> QED BY <2>1, <2>2
<1>3. CASE OperatorStep
  BY <1>1, <1>3, OperatorStill, KeysStill
<1>4. CASE UNCHANGED vars
  <2>1. Still(q)
    BY <1>4 DEF vars, Still, Own, Live
  <2> QED BY <1>1, <2>1, KeysStill
<1> QED BY <1>2, <1>3, <1>4 DEF Next, OperatorStep

LEMMA KeysAlways == Spec => []KeysInv
<1>1. Init => KeysInv
  BY DEF Init, KeysInv, KeysOK, Idle
<1> QED BY <1>1, TypeCorrect, CountAlways, KeysNext, PTL DEF Spec

-----------------------------------------------------------------------------
(* The state of Registry that a state of Vendors stands for.               *)

\* The links that others see, by the keys of their ends.
Pairs == {<<KeyOf(l.rep), KeyOf(l.string)>> : l \in {k \in links : k.by = Db}}

Open     == {p \in Procs : txn[p].pc # "idle"}
Missings == [p \in Procs |-> Missing(p)]
Wanting  == {p \in Procs : WantsLink(p)}

Tables  == <<Public(Emails), Public(Norms), Pairs>>
Serving == <<Open, Missings, Wanting>>

LEMMA Unmoved ==
    ASSUME UNCHANGED Tables, UNCHANGED Serving
    PROVE  UNCHANGED R!vars
  BY DEF Tables, Serving, R!vars, R!tables, Pairs, Open, Missings, Wanting

LEMMA StillServed ==
    ASSUME NEW q \in Procs, Still(q)
    PROVE  /\ Missing(q)' = Missing(q) /\ (WantsLink(q)' <=> WantsLink(q))
           /\ txn'[q] = txn[q]
<1>1. txn'[q] = txn[q] /\ Own(q)' = Own(q)
  BY DEF Still
<1>2. (\E l \in links' : l.by = q) <=> \E l \in links : l.by = q
  BY DEF Still
<1>3. {rows'[i].key : i \in Own(q)'} = {rows[i].key : i \in Own(q)}
  BY DEF Still
<1>4. Missing(q)' = Missing(q)
  BY <1>1, <1>3 DEF Missing, Own, IsNext
<1>5. WantsLink(q)' <=> WantsLink(q)
  BY <1>1, <1>2 DEF WantsLink
<1> QED BY <1>1, <1>4, <1>5

LEMMA AllStill ==
    ASSUME \A q \in Procs : Still(q)
    PROVE  UNCHANGED Serving
<1>1. Open' = Open /\ Wanting' = Wanting
  BY StillServed DEF Open, Wanting
<1>2. Missings' = Missings
  BY StillServed DEF Missings
<1> QED BY <1>1, <1>2 DEF Serving

\* One request moves.
LEMMA OneMoves ==
    ASSUME TypeOK, NEW p \in Procs, Starts(p) \/ Step(p) \/ Fails(p)
    PROVE  /\ Missings' = [Missings EXCEPT ![p] = Missing(p)']
           /\ Open' = IF txn'[p].pc # "idle" THEN Open \union {p} ELSE Open \ {p}
           /\ Wanting' = IF WantsLink(p)' THEN Wanting \union {p} ELSE Wanting \ {p}
<1>1. \A q \in Procs : q # p => /\ Missing(q)' = Missing(q)
                                /\ WantsLink(q)' <=> WantsLink(q)
                                /\ txn'[q] = txn[q]
  BY OthersStill, StillServed
<1>2. Missings' = [Missings EXCEPT ![p] = Missing(p)']
  BY <1>1 DEF Missings
<1>3. Open' = IF txn'[p].pc # "idle" THEN Open \union {p} ELSE Open \ {p}
  BY <1>1 DEF Open
<1>4. Wanting' = IF WantsLink(p)' THEN Wanting \union {p} ELSE Wanting \ {p}
  BY <1>1 DEF Wanting
<1> QED BY <1>2, <1>3, <1>4

LEMMA ServedStill ==
    ASSUME TypeOK, NEW p \in Procs, Starts(p) \/ Step(p) \/ Fails(p),
           txn[p].pc # "idle", txn'[p].pc # "idle",
           Missing(p)' = Missing(p), WantsLink(p)' <=> WantsLink(p)
    PROVE  UNCHANGED Serving
<1>1. Missings' = Missings
  BY OneMoves DEF Missings
<1>2. Open' = Open /\ Wanting' = Wanting
  BY OneMoves DEF Open, Wanting
<1> QED BY <1>1, <1>2 DEF Serving

\* The keys at positions, and those of the own rows.
KeysAt(p, S) == {KeyAt(p, i) : i \in S}
OwnKeys(p)   == {rows[i].key : i \in Own(p)}

LEMMA MissingKeys ==
    ASSUME NEW p \in Procs, txn[p].todo \subseteq Nat
    PROVE  /\ txn[p].pc # "update" => Missing(p) = KeysAt(p, txn[p].todo) \union OwnKeys(p)
           /\ \A i \in txn[p].todo : txn[p].pc = "update" /\ IsNext(p, i) =>
                 Missing(p) = KeysAt(p, txn[p].todo \ {i}) \union OwnKeys(p)
<1> DEFINE Left == {j \in txn[p].todo : txn[p].pc = "update" => ~IsNext(p, j)}
<1>1. Missing(p) = KeysAt(p, Left) \union OwnKeys(p)
  BY DEF Missing, KeysAt, KeyAt, OwnKeys, Own
<1>2. txn[p].pc # "update" => Left = txn[p].todo
  OBVIOUS
<1>3. ASSUME NEW i \in txn[p].todo, txn[p].pc = "update", IsNext(p, i)
      PROVE  Left = txn[p].todo \ {i}
  BY <1>3 DEF IsNext
<1> HIDE DEF Left
<1> QED BY <1>1, <1>2, <1>3

LEMMA MissingKeysNext ==
    ASSUME NEW p \in Procs, txn'[p].todo \subseteq Nat
    PROVE  /\ txn'[p].pc # "update" =>
                 Missing(p)' = KeysAt(p, txn[p].todo)' \union OwnKeys(p)'
           /\ \A i \in txn'[p].todo : txn'[p].pc = "update" /\ IsNext(p, i)' =>
                 Missing(p)' = KeysAt(p, txn[p].todo \ {i})' \union OwnKeys(p)'
<1> DEFINE Left == {j \in txn[p].todo : txn[p].pc = "update" => ~IsNext(p, j)}
<1>1. Missing(p)' = KeysAt(p, Left)' \union OwnKeys(p)'
  BY DEF Missing, KeysAt, KeyAt, OwnKeys, Own
<1>2. txn'[p].pc # "update" => Left' = txn'[p].todo
  OBVIOUS
<1>3. ASSUME NEW i \in txn'[p].todo, txn'[p].pc = "update", IsNext(p, i)'
      PROVE  Left' = txn'[p].todo \ {i}
  BY <1>3 DEF IsNext
<1> HIDE DEF Left
<1> QED BY <1>1, <1>2, <1>3 DEF KeysAt, KeyAt

LEMMA TodoPositions ==
    ASSUME TypeOK, NEW p \in Procs
    PROVE  txn[p].todo \subseteq Nat
  BY DEF TypeOK, TxnType

\* Position i has been found or inserted: only its key may leave.
LEMMA MissingDealt ==
    ASSUME TypeOK, TypeOK', NEW p \in Procs, NEW i \in txn[p].todo, IsNext(p, i),
           Frame(txn[p], txn'[p]),
           \/ Dealt(txn[p], txn'[p], i)
           \/ txn'[p].pc = "update" /\ txn'[p].todo = txn[p].todo
    PROVE  /\ Missing(p)' = KeysAt(p, txn[p].todo \ {i}) \union OwnKeys(p)'
           /\ txn'[p].pc \in {"look", "update", "link", "commit"}
           /\ txn'[p].pc = "commit" => txn[p].kind # "link"
           /\ txn'[p].kind = txn[p].kind
<1>1. txn'[p].kind = txn[p].kind /\ \A j : KeyAt(p, j)' = KeyAt(p, j)
  BY DEF Frame, KeyAt
<1>2. txn'[p].todo \subseteq Nat
  BY DEF TypeOK, TxnType
<1>3. CASE Dealt(txn[p], txn'[p], i)
  <2>1. /\ txn'[p].todo = txn[p].todo \ {i}
        /\ txn'[p].pc \in {"look", "link", "commit"}
        /\ txn'[p].pc = "commit" => txn[p].kind # "link"
    BY <1>3 DEF Dealt
  <2>2. Missing(p)' = KeysAt(p, txn[p].todo)' \union OwnKeys(p)'
    BY <1>2, <2>1, MissingKeysNext
  <2> QED BY <1>1, <2>1, <2>2 DEF KeysAt
<1>4. CASE txn'[p].pc = "update" /\ txn'[p].todo = txn[p].todo
  <2>1. IsNext(p, i)'
    BY <1>4 DEF IsNext
  <2>2. Missing(p)' = KeysAt(p, txn[p].todo \ {i})' \union OwnKeys(p)'
    BY <1>2, <1>4, <2>1, MissingKeysNext
  <2> QED BY <1>1, <1>4, <2>2 DEF KeysAt
<1> QED BY <1>3, <1>4

\* What is not committed is not seen.
LEMMA SameView ==
    ASSUME LinksHaveEnds,
           \A i \in Ids : (i \in Live' /\ rows'[i].by = Db) <=> (i \in Live /\ rows[i].by = Db),
           \A i \in Live : rows[i].by = Db => rows'[i].key = rows[i].key,
           \A l : l \in links' /\ l.by = Db <=> l \in links /\ l.by = Db
    PROVE  UNCHANGED Tables
<1>1. \A k : Registered(k)' <=> Registered(k)
  BY DEF Registered, Live
<1>2. Public(Emails)' = Public(Emails) /\ Public(Norms)' = Public(Norms)
  BY <1>1 DEF Public
<1>3. \A l \in links : l.by = Db =>
         KeyOf(l.rep)' = KeyOf(l.rep) /\ KeyOf(l.string)' = KeyOf(l.string)
  <2> SUFFICES ASSUME NEW l \in links, l.by = Db
               PROVE  KeyOf(l.rep)' = KeyOf(l.rep) /\ KeyOf(l.string)' = KeyOf(l.string)
    OBVIOUS
  <2>1. /\ l.rep \in Live /\ l.string \in Live
        /\ rows[l.rep].by = Db /\ rows[l.string].by = Db
    BY DEF LinksHaveEnds
  <2> QED BY <2>1 DEF KeyOf, Live
<1>4. Pairs' = Pairs
  BY <1>3 DEF Pairs
<1> QED BY <1>2, <1>4 DEF Tables

\* A commit shows the own rows and links of the transaction.
LEMMA DurableView ==
    ASSUME TypeOK, NEW p \in Procs, Durable(p)
    PROVE  /\ \A keys : Public(keys)' = Public(keys) \union (OwnKeys(p) \intersect keys)
           /\ Pairs' = Pairs \union {<<KeyOf(l.rep), KeyOf(l.string)>> :
                                        l \in {k \in links : k.by = p}}
<1>1. /\ Live' = Live
      /\ \A i \in Live : /\ i \in Ids /\ rows'[i].key = rows[i].key
                         /\ rows'[i].by = IF rows[i].by = p THEN Db ELSE rows[i].by
  BY DurableLive, DurableRows DEF Live
<1>2. \A k : Registered(k)' <=> Registered(k) \/ \E i \in Own(p) : rows[i].key = k
  BY <1>1 DEF Registered, Own
<1>3. \A keys : Public(keys)' = Public(keys) \union (OwnKeys(p) \intersect keys)
  BY <1>2 DEF Public, OwnKeys
<1>4. \A i : KeyOf(i)' = KeyOf(i)
  BY <1>1 DEF KeyOf
<1>5. \A l \in links : LET s == Settled(p, l)
                       IN  /\ s.rep = l.rep /\ s.string = l.string
                           /\ s.by = IF l.by = p THEN Db ELSE l.by
  BY SettledLink DEF TypeOK
<1>6. links' = {Settled(p, l) : l \in links}
  BY DEF Durable
<1>7. ASSUME NEW x \in Pairs'
      PROVE  x \in Pairs \union {<<KeyOf(l.rep), KeyOf(l.string)>> :
                                    l \in {k \in links : k.by = p}}
  <2>1. PICK m \in links' : m.by = Db /\ x = <<KeyOf(m.rep)', KeyOf(m.string)'>>
    BY <1>7 DEF Pairs
  <2>2. PICK l \in links : m = Settled(p, l)
    BY <1>6, <2>1
  <2>3. (l.by = Db \/ l.by = p) /\ x = <<KeyOf(l.rep), KeyOf(l.string)>>
    BY <1>4, <1>5, <2>1, <2>2
  <2> QED BY <2>3 DEF Pairs
<1>8. ASSUME NEW l \in links, l.by \in {Db, p}
      PROVE  <<KeyOf(l.rep), KeyOf(l.string)>> \in Pairs'
  <2>1. Settled(p, l) \in links' /\ Settled(p, l).by = Db
    BY <1>5, <1>6, <1>8
  <2>2. Settled(p, l).rep = l.rep /\ Settled(p, l).string = l.string
    BY <1>5
  <2> DEFINE m == Settled(p, l)
  <2> HIDE DEF m
  <2>3. PICK k \in links' : k.by = Db /\ k.rep = l.rep /\ k.string = l.string
    BY <2>1, <2>2
  <2>4. <<KeyOf(k.rep)', KeyOf(k.string)'>> \in Pairs'
    BY <2>3 DEF Pairs
  <2> QED BY <1>4, <2>3, <2>4
<1>9. Pairs' = Pairs \union {<<KeyOf(l.rep), KeyOf(l.string)>> :
                                l \in {k \in links : k.by = p}}
  BY <1>7, <1>8 DEF Pairs
<1> QED BY <1>3, <1>9

\* The transaction ends: it is not served any more.
LEMMA Closed ==
    ASSUME TypeOK, NEW p \in Procs, Step(p) \/ Fails(p), Rollback(p) \/ Durable(p),
           txn[p].pc # "idle"
    PROVE  R!Close(p)
<1>1. txn'[p] = Idle /\ Own(p)' = {}
  BY EndedOwn
<1>2. Missing(p)' = {} /\ ~WantsLink(p)'
  <2>1. Missing(p)' = KeysAt(p, txn[p].todo)' \union OwnKeys(p)'
    <3>1. txn'[p].todo = {} /\ txn'[p].pc = "idle"
      BY <1>1 DEF Idle
    <3> QED BY <3>1, MissingKeysNext
  <2>2. KeysAt(p, txn[p].todo)' = {} /\ OwnKeys(p)' = {}
    BY <1>1 DEF KeysAt, OwnKeys, Idle
  <2> QED BY <1>1, <2>1, <2>2 DEF WantsLink, Idle
<1>3. p \in Open /\ Open' = Open \ {p} /\ Wanting' = Wanting \ {p}
      /\ Missings' = [Missings EXCEPT ![p] = {}]
  BY <1>1, <1>2, OneMoves DEF Open, Idle
<1> QED BY <1>3 DEF R!Close, Open, Missings, Wanting

\* A commit shows what the request had not found, and its link.
LEMMA CommitRefines ==
    ASSUME TypeOK, UniqueKeys, LinksHaveEnds, NEW p \in Procs,
           CountOK(p), RowsOK(p), PairOK(p),
           Step(p) \/ Fails(p), Durable(p), txn[p].pc = "commit"
    PROVE  R!Register(p) \/ R!Pair(p)
<1> DEFINE t == txn[p]
           Links == {<<KeyOf(l.rep), KeyOf(l.string)>> : l \in {k \in links : k.by = p}}
<1>1. /\ \A keys : Public(keys)' = Public(keys) \union (OwnKeys(p) \intersect keys)
      /\ Pairs' = Pairs \union Links
  BY DurableView
<1>2. R!Close(p)
  BY Closed
<1>3. Missing(p) = OwnKeys(p)
  <2>1. t.todo = {}
    BY DEF CountOK
  <2>2. KeysAt(p, t.todo) = {}
    BY <2>1 DEF KeysAt
  <2> QED BY <2>1, <2>2, MissingKeys
<1>4. \A keys : OwnKeys(p) \intersect Public(keys) = {}
  <2>1. ASSUME NEW i \in Own(p), NEW j \in Live, rows[j].by = Db,
               rows[i].key = rows[j].key
        PROVE  FALSE
    BY <2>1, VendorsAssumption DEF UniqueKeys, Own
  <2> QED BY <2>1 DEF OwnKeys, Public, Registered
<1>5. Missings[p] = OwnKeys(p)
  BY <1>3 DEF Missings
<1>6. R!Enter(p)
  <2>1. Missings[p] \intersect (Public(Emails) \union Public(Norms)) = {}
    BY <1>4, <1>5
  <2>2. Public(Emails)' = Public(Emails) \union (Missings[p] \intersect Emails)
    BY <1>1, <1>5
  <2>3. Public(Norms)' = Public(Norms) \union (Missings[p] \intersect Norms)
    BY <1>1, <1>5
  <2> QED BY <2>1, <2>2, <2>3 DEF R!Enter, Missings
<1>7. ASSUME NEW l \in links, l.by = p
      PROVE  R!Pair(p)
  <2>1. /\ t.kind = "link" /\ l.rep = t.rep /\ l.string = t.string
        /\ \A m \in links : m.by = p => m.rep = l.rep /\ m.string = l.string
    BY <1>7 DEF PairOK, Joins
  <2>2. PICK e \in Emails : e = KeyOf(l.rep) /\ e = rows[l.rep].key
    BY DEF LinksHaveEnds, KeyOf
  <2>3. PICK n \in Norms : n = KeyOf(l.string) /\ n = rows[l.string].key
    BY DEF LinksHaveEnds, KeyOf
  <2>4. Pairs' = Pairs \union {<<e, n>>}
    <3>1. Links = {<<e, n>>}
      BY <1>7, <2>1, <2>2, <2>3
    <3> QED BY <1>1, <3>1
  <2>5. OwnKeys(p) \subseteq {e, n}
    <3>1. ASSUME NEW i \in Own(p)
          PROVE  rows[i].key \in {e, n}
      <4>1. OwnEnd(p, i)
        BY <2>1, <3>1 DEF RowsOK
      <4> QED BY <2>1, <2>2, <2>3, <4>1 DEF OwnEnd
    <3> QED BY <3>1 DEF OwnKeys
  <2>6. e \in Public(Emails)' /\ n \in Public(Norms)'
    <3>1. /\ l.rep \in Live /\ l.string \in Live
          /\ rows[l.rep].by \in {Db, p} /\ rows[l.string].by \in {Db, p}
      BY <1>7 DEF LinksHaveEnds
    <3>2. e \in Public(Emails) \union (OwnKeys(p) \intersect Emails)
      BY <2>2, <3>1 DEF Public, Registered, Own, OwnKeys
    <3>3. n \in Public(Norms) \union (OwnKeys(p) \intersect Norms)
      BY <2>3, <3>1 DEF Public, Registered, Own, OwnKeys
    <3> QED BY <1>1, <3>2, <3>3
  <2>7. <<e, n>> \notin Pairs
    <3> SUFFICES ASSUME <<e, n>> \in Pairs PROVE FALSE
      OBVIOUS
    <3>1. PICK m \in links : m.by = Db /\ <<e, n>> = <<KeyOf(m.rep), KeyOf(m.string)>>
      BY DEF Pairs
    <3>2. KeyOf(m.rep) = KeyOf(l.rep) /\ KeyOf(m.string) = KeyOf(l.string)
      BY <2>2, <2>3, <3>1
    <3>3. m.rep \in Live /\ m.string \in Live /\ l.rep \in Live /\ l.string \in Live
      BY DEF LinksHaveEnds
    <3>4. m.rep = l.rep /\ m.string = l.string
      BY <3>2, <3>3 DEF UniqueKeys, KeyOf
    <3>5. m = l
      BY <3>4 DEF UniqueKeys
    <3> QED BY <1>7, <3>1, <3>5, VendorsAssumption
  <2>8. p \in Wanting
    BY <1>7, <2>1 DEF Wanting, WantsLink
  <2>9. Missings[p] \subseteq {e, n}
    BY <1>5, <2>5
  <2> QED BY <1>2, <1>6, <2>4, <2>6, <2>7, <2>8, <2>9
          DEF R!Pair, Pairs, Missings, Wanting
<1>8. ASSUME \A l \in links : l.by # p
      PROVE  R!Register(p)
  <2>1. Links = {}
    BY <1>8
  <2>2. Pairs' = Pairs
    BY <1>1, <2>1
  <2>3. p \notin Wanting
    BY <1>8 DEF Wanting, WantsLink
  <2> QED BY <1>2, <1>6, <2>2, <2>3 DEF R!Register, Pairs, Wanting
<1> QED BY <1>7, <1>8

\* The operator's edits are those of the registry.
LEMMA EditRefines ==
    ASSUME TypeOK, UniqueKeys, LinksHaveEnds, OperatorStep
    PROVE  R!Next \/ UNCHANGED R!vars
<1>0. UNCHANGED Serving
  BY OperatorStill, AllStill
<1>1. ASSUME NEW i \in Ids, Edit(i)
      PROVE  UNCHANGED R!vars
  <2>1. /\ links' = links /\ i \in Live
        /\ \A j \in Ids : j # i => rows'[j] = rows[j]
        /\ rows'[i] \in RowType
        /\ rows'[i].key = rows[i].key /\ rows'[i].by = rows[i].by
    BY <1>1, EditRow
  <2>2. \A j \in Ids : (j \in Live' /\ rows'[j].by = Db) <=> (j \in Live /\ rows[j].by = Db)
    BY <2>1, VendorsAssumption DEF Live
  <2>3. \A j \in Live : rows'[j].key = rows[j].key
    BY <2>1 DEF Live
  <2>4. UNCHANGED Tables
    BY <2>1, <2>2, <2>3, SameView
  <2> QED BY <1>0, <2>4, Unmoved
<1>2. ASSUME NEW i \in Ids, NEW f \in Emails, Rename(i, f)
      PROVE  R!Next
  <2>1. /\ i \in Live /\ rows[i].by = Db /\ rows[i].key \in Emails
        /\ \A j \in Live : rows[j].key # f
        /\ links' = links /\ rows[i] \in RowType
        /\ \A j \in Ids : j # i => rows'[j] = rows[j]
        /\ rows'[i] = [rows[i] EXCEPT !.key = f]
    BY <1>2, LiveRows DEF Rename, TypeOK
  <2>2. PICK e \in Emails : e = rows[i].key
    BY <2>1
  <2>3. rows'[i].key = f /\ rows'[i].by = Db /\ rows'[i] \in RowType
    BY <2>1 DEF RowType, Keys
  <2>4. Live' = Live
    BY <2>1, <2>3, VendorsAssumption DEF Live
  <2>5. \A j \in Live : rows[j].key = e => j = i
    BY <2>1, <2>2 DEF UniqueKeys
  <2>6. e \in Public(Emails) /\ f \notin Public(Emails)
    BY <2>1, <2>2 DEF Public, Registered
  <2>7. \A k : Registered(k)' <=> k = f \/ (k # e /\ Registered(k))
    <3>1. \A j \in Live : j # i => rows'[j] = rows[j]
      BY <2>1 DEF Live
    <3> QED BY <2>1, <2>2, <2>3, <2>4, <2>5, <3>1 DEF Registered
  <2>8. Public(Emails)' = (Public(Emails) \ {e}) \union {f}
    BY <2>7 DEF Public
  <2>9. Public(Norms)' = Public(Norms)
    BY <2>2, <2>7, VendorsAssumption DEF Public
  <2>10. ASSUME NEW l \in links
         PROVE  /\ KeyOf(l.rep)' = IF KeyOf(l.rep) = e THEN f ELSE KeyOf(l.rep)
                /\ KeyOf(l.string)' = KeyOf(l.string)
    <3>1. /\ l.rep \in Live /\ l.string \in Live /\ rows[l.string].key \in Norms
      BY DEF LinksHaveEnds
    <3>2. l.string # i
      BY <2>1, <3>1, VendorsAssumption
    <3> QED BY <2>1, <2>2, <2>3, <2>4, <2>5, <3>1, <3>2 DEF KeyOf, Live
  <2>11. Pairs' = {<<IF l[1] = e THEN f ELSE l[1], l[2]>> : l \in Pairs}
    <3> DEFINE Moved(x) == <<IF x[1] = e THEN f ELSE x[1], x[2]>>
    <3>1. Pairs' = {<<KeyOf(l.rep)', KeyOf(l.string)'>> : l \in {k \in links : k.by = Db}}
      BY <2>1 DEF Pairs
    <3>2. \A l \in links : <<KeyOf(l.rep)', KeyOf(l.string)'>>
                            = Moved(<<KeyOf(l.rep), KeyOf(l.string)>>)
      BY <2>10
    <3> HIDE DEF Moved
    <3>3. Pairs' = {Moved(<<KeyOf(l.rep), KeyOf(l.string)>>) :
                       l \in {k \in links : k.by = Db}}
      BY <3>1, <3>2
    <3>4. Pairs' = {Moved(x) : x \in Pairs}
      BY <3>3 DEF Pairs
    <3> QED BY <3>4 DEF Moved
  <2>12. R!Readdress(e, f)
    BY <1>0, <2>6, <2>8, <2>9, <2>11 DEF R!Readdress, Pairs, Serving,
       Open, Missings, Wanting
  <2> QED BY <2>12 DEF R!Next
<1>3. ASSUME NEW i \in Ids, Delete(i)
      PROVE  R!Next
  <2>1. /\ i \in Live /\ rows[i].by = Db /\ rows[i] \in RowType
        /\ links' = {l \in links : i \notin {l.rep, l.string}}
        /\ Live' = Live \ {i} /\ \A j \in Live' : rows'[j] = rows[j]
    BY <1>3, LiveRows DEF Delete, TypeOK, Live
  <2>2. PICK e \in Keys : e = rows[i].key
    BY <2>1 DEF RowType
  <2>3. \A j \in Live : rows[j].key = e => j = i
    BY <2>1, <2>2 DEF UniqueKeys
  <2>4. \A k : Registered(k)' <=> k # e /\ Registered(k)
    BY <2>1, <2>2, <2>3 DEF Registered
  <2>5. \A l \in links : /\ l.rep \in Live /\ rows[l.rep].key \in Emails
                         /\ l.string \in Live /\ rows[l.string].key \in Norms
    BY DEF LinksHaveEnds
  <2>6. \A l \in links : l \in links' =>
           KeyOf(l.rep)' = KeyOf(l.rep) /\ KeyOf(l.string)' = KeyOf(l.string)
    BY <2>1, <2>5 DEF KeyOf
  <2>7. CASE e \in Emails
    <3>1. Public(Emails)' = Public(Emails) \ {e} /\ Public(Norms)' = Public(Norms)
      BY <2>4, <2>7, VendorsAssumption DEF Public
    <3>2. \A l \in links : l \in links' <=> KeyOf(l.rep) # e
      BY <2>1, <2>2, <2>3, <2>5, <2>7, VendorsAssumption DEF KeyOf
    <3>3. Pairs' = {l \in Pairs : l[1] # e}
      BY <2>1, <2>6, <3>2 DEF Pairs
    <3>4. R!DropRep(e)
      BY <1>0, <3>1, <3>3 DEF R!DropRep, Pairs, Serving,
       Open, Missings, Wanting
    <3> QED BY <2>7, <3>4 DEF R!Next
  <2>8. CASE e \in Norms
    <3>1. Public(Norms)' = Public(Norms) \ {e} /\ Public(Emails)' = Public(Emails)
      BY <2>4, <2>8, VendorsAssumption DEF Public
    <3>2. \A l \in links : l \in links' <=> KeyOf(l.string) # e
      BY <2>1, <2>2, <2>3, <2>5, <2>8, VendorsAssumption DEF KeyOf
    <3>3. Pairs' = {l \in Pairs : l[2] # e}
      BY <2>1, <2>6, <3>2 DEF Pairs
    <3>4. R!DropString(e)
      BY <1>0, <3>1, <3>3 DEF R!DropString, Pairs, Serving,
       Open, Missings, Wanting
    <3> QED BY <2>8, <3>4 DEF R!Next
  <2> QED BY <2>7, <2>8 DEF Keys
<1>4. ASSUME NEW l \in links, Unlink(l)
      PROVE  R!Next
  <2>1. l.by = Db /\ links' = links \ {l} /\ rows' = rows
    BY <1>4 DEF Unlink
  <2>2. Public(Emails)' = Public(Emails) /\ Public(Norms)' = Public(Norms)
    BY <2>1 DEF Public, Registered, Live
  <2>3. \A i : KeyOf(i)' = KeyOf(i)
    BY <2>1 DEF KeyOf, Live
  <2>4. ASSUME NEW m \in links, KeyOf(m.rep) = KeyOf(l.rep),
               KeyOf(m.string) = KeyOf(l.string)
        PROVE  m = l
    <3>1. m.rep \in Live /\ m.string \in Live /\ l.rep \in Live /\ l.string \in Live
      BY DEF LinksHaveEnds
    <3> QED BY <2>4, <3>1 DEF UniqueKeys, KeyOf
  <2>5. PICK x \in Pairs : x = <<KeyOf(l.rep), KeyOf(l.string)>>
    BY <2>1 DEF Pairs
  <2>6. Pairs' = Pairs \ {x}
    BY <2>1, <2>3, <2>4, <2>5 DEF Pairs
  <2>7. R!Unpair(x)
    BY <1>0, <2>2, <2>6 DEF R!Unpair, Pairs, Serving,
       Open, Missings, Wanting
  <2> QED BY <2>5, <2>7 DEF R!Next, Pairs
<1> QED BY <1>1, <1>2, <1>3, <1>4 DEF OperatorStep

\* A request comes in and asks for its keys.
LEMMA StartRefines ==
    ASSUME TypeOK, TypeOK', NEW p \in Procs, CountOK(p), KeysOK(p), RowsOK(p)',
           LinksHaveEnds, Starts(p)
    PROVE  R!Ask(p) \/ R!AskPair(p)
<1> DEFINE u == txn'[p]
           keys == KeysAt(p, txn[p].todo)'
<1>1. /\ txn[p].pc = "idle" /\ UNCHANGED <<rows, links>>
      /\ u.pc \in {"look", "link", "commit"} /\ (u.pc = "commit" => u.kind # "link")
  BY StartFields
<1>2. UNCHANGED Tables
  BY <1>1, SameView DEF Live
<1>3. Missing(p)' = keys
  <2>1. Own(p)' = {}
    BY <1>1 DEF CountOK, Own, Live
  <2>2. Missing(p)' = keys \union OwnKeys(p)'
    BY <1>1, MissingKeysNext DEF TypeOK, TxnType
  <2> QED BY <2>1, <2>2 DEF OwnKeys
<1>4. /\ p \notin Open /\ Open' = Open \union {p}
      /\ Missings' = [Missings EXCEPT ![p] = keys]
      /\ Wanting' = IF WantsLink(p)' THEN Wanting \union {p} ELSE Wanting \ {p}
  BY <1>1, <1>3, OneMoves DEF Open
<1>5. p \notin Wanting
  BY <1>1 DEF Wanting, WantsLink, KeysOK
<1>6. WantsLink(p)' <=> u.kind = "link"
  BY <1>1 DEF WantsLink
<1>7. keys \subseteq Emails \union Norms
  BY DEF KeysAt, KeyAt, TypeOK, Keys
<1>8. CASE u.kind = "link"
  <2>1. \A i, j \in u.todo : (KeyAt(p, i)' \in Emails <=> KeyAt(p, j)' \in Emails) => i = j
    BY <1>8 DEF RowsOK
  <2>2. \A x, y \in keys : (x \in Emails <=> y \in Emails) => x = y
    BY <2>1 DEF KeysAt
  <2> HIDE DEF keys
  <2>3. R!AtMostOne(keys \intersect Emails) /\ R!AtMostOne(keys \intersect Norms)
    BY <2>2, VendorsAssumption DEF R!AtMostOne
  <2>4. Wanting' = Wanting \union {p}
    BY <1>4, <1>6, <1>8
  <2>5. R!AskPair(p)
    BY <1>2, <1>4, <1>7, <2>3, <2>4
       DEF R!AskPair, R!tables, Tables, Pairs, Open, Missings, Wanting
  <2> QED BY <2>5
<1>9. CASE u.kind # "link"
  <2>1. keys \in (SUBSET Emails) \union (SUBSET Norms)
    <3>1. u.kind \in {"rep", "string", "repscan", "seed"}
      BY <1>1, <1>9 DEF RowsOK, TypeOK, TxnType
    <3> QED BY <3>1 DEF RowsOK, KeysAt
  <2> HIDE DEF keys
  <2>2. Wanting' = Wanting
    BY <1>4, <1>5, <1>6, <1>9
  <2>3. R!Ask(p)
    BY <1>2, <1>4, <2>1, <2>2
       DEF R!Ask, R!tables, Tables, Pairs, Open, Missings, Wanting
  <2> QED BY <2>3
<1> QED BY <1>8, <1>9

\* A look-up finds a key, or finds that it has to be inserted.
LEMMA LookRefines ==
    ASSUME TypeOK, TypeOK', NEW p \in Procs, KeysOK(p), LinksHaveEnds, Look(p)
    PROVE  (\E k \in Emails \union Norms : R!Find(p, k)) \/ UNCHANGED R!vars
<1> DEFINE t == txn[p]
           u == txn'[p]
<1>1. PICK i \in t.todo :
        /\ IsNext(p, i) /\ Frame(t, u)
        /\ \/ u.pc = "insert" /\ u.todo = t.todo
           \/ /\ Found(p, KeyAt(p, i)) # {}
              /\ Dealt(t, u, i) \/ (u.pc = "update" /\ u.todo = t.todo)
  BY LookFields DEF KeyAt
<1>2. t.pc = "look" /\ rows' = rows /\ links' = links /\ Step(p)
  BY DEF Look, Step
<1>3. UNCHANGED Tables
  BY <1>2, SameView DEF Live
<1>4. OwnKeys(p)' = OwnKeys(p)
  BY <1>2 DEF OwnKeys, Own, Live
<1>5. Missing(p) = KeysAt(p, t.todo) \union OwnKeys(p)
  BY <1>2, TodoPositions, MissingKeys
<1>6. CASE u.pc = "insert" /\ u.todo = t.todo
  <2>1. Missing(p)' = KeysAt(p, t.todo)' \union OwnKeys(p)'
    BY <1>6, MissingKeysNext DEF TypeOK, TxnType
  <2>2. KeysAt(p, t.todo)' = KeysAt(p, t.todo) /\ u.kind = t.kind
    BY <1>1, <1>6 DEF KeysAt, KeyAt, Frame
  <2>3. WantsLink(p)' <=> WantsLink(p)
    BY <1>2, <1>6, <2>2 DEF WantsLink
  <2>4. UNCHANGED Serving
    BY <1>2, <1>4, <1>5, <1>6, <2>1, <2>2, <2>3, ServedStill
  <2> QED BY <1>3, <2>4, Unmoved
<1>7. ASSUME NEW r \in Found(p, KeyAt(p, i)),
             Dealt(t, u, i) \/ (u.pc = "update" /\ u.todo = t.todo)
      PROVE  \E k \in Emails \union Norms : R!Find(p, k)
  <2>1. PICK k \in Emails \union Norms : k = KeyAt(p, i)
    BY DEF TypeOK, KeyAt, Keys
  <2>2. /\ Missing(p)' = KeysAt(p, t.todo \ {i}) \union OwnKeys(p)
        /\ u.pc \in {"look", "update", "link", "commit"}
        /\ u.pc = "commit" => t.kind # "link"
        /\ u.kind = t.kind
    BY <1>1, <1>4, <1>7, MissingDealt
  <2>3. k \notin OwnKeys(p)
    BY <2>1 DEF KeysOK, OwnKeys
  <2>4. k \notin KeysAt(p, t.todo \ {i}) /\ KeysAt(p, t.todo) = KeysAt(p, t.todo \ {i}) \union {k}
    BY <2>1 DEF KeysOK, KeysAt
  <2>5. k \in Missing(p) /\ Missing(p)' = Missing(p) \ {k}
    BY <1>5, <2>2, <2>3, <2>4
  <2>6. k \in Public(Emails) \union Public(Norms)
    <3>1. r \in Live /\ rows[r].key = k /\ rows[r].by \in {Db, p}
      BY <2>1 DEF Found, Sees
    <3>2. rows[r].by = Db
      BY <2>3, <3>1 DEF Own, OwnKeys
    <3> QED BY <2>1, <3>1, <3>2 DEF Public, Registered
  <2>7. WantsLink(p)' <=> WantsLink(p)
    BY <1>2, <2>2 DEF WantsLink
  <2>8. Open' = Open /\ Wanting' = Wanting
    BY <1>2, <2>2, <2>7, OneMoves DEF Open, Wanting
  <2>9. k \in Missings[p] /\ Missings' = [Missings EXCEPT ![p] = @ \ {k}]
    <3>1. Missings[p] = Missing(p)
      BY DEF Missings
    <3> QED BY <1>2, <2>5, <3>1, OneMoves
  <2>10. R!Find(p, k)
    BY <1>3, <2>6, <2>8, <2>9
       DEF R!Find, R!tables, Tables, Pairs, Open, Missings, Wanting
  <2> QED BY <2>10
<1> QED BY <1>1, <1>6, <1>7

\* An INSERT and an UPDATE are not seen by others, nor is the key that was
\* inserted any less new to them.
LEMMA WriteRefines ==
    ASSUME TypeOK, TypeOK', NEW p \in Procs, LinksHaveEnds, Insert(p) \/ Update(p)
    PROVE  UNCHANGED R!vars
<1> DEFINE t == txn[p]
           u == txn'[p]
<1>0. Step(p)
  BY DEF Step
<1>1. CASE Insert(p)
  <2>1. PICK i \in t.todo, r \in Ids :
          /\ Frame(t, u) /\ Dealt(t, u, i)
          /\ r \notin Live /\ Own(p)' = Own(p) \union {r}
          /\ rows'[r].key = KeyAt(p, i) /\ rows'[r].by = p
          /\ \A j \in Ids : j # r => rows'[j] = rows[j]
    BY <1>1, InsertedRow
  <2>2. t.pc = "insert" /\ links' = links
    BY <1>1 DEF Insert
  <2>3. UNCHANGED Tables
    BY <2>1, <2>2, SameView, VendorsAssumption DEF Live
  <2>4. OwnKeys(p)' = OwnKeys(p) \union {KeyAt(p, i)}
    BY <2>1 DEF OwnKeys, Own, Live
  <2>5. /\ u.todo = t.todo \ {i} /\ u.kind = t.kind
        /\ u.pc \in {"look", "link", "commit"} /\ (u.pc = "commit" => t.kind # "link")
        /\ \A j : KeyAt(p, j)' = KeyAt(p, j)
    BY <2>1 DEF Dealt, Frame, KeyAt
  <2>6. Missing(p)' = KeysAt(p, t.todo \ {i}) \union OwnKeys(p)'
    <3>1. Missing(p)' = KeysAt(p, t.todo)' \union OwnKeys(p)'
      BY <2>5, MissingKeysNext DEF TypeOK, TxnType
    <3> QED BY <2>5, <3>1 DEF KeysAt
  <2>7. Missing(p) = KeysAt(p, t.todo) \union OwnKeys(p)
    BY <2>2, TodoPositions, MissingKeys
  <2>8. KeysAt(p, t.todo) = KeysAt(p, t.todo \ {i}) \union {KeyAt(p, i)}
    BY DEF KeysAt
  <2>9. WantsLink(p)' <=> WantsLink(p)
    BY <2>2, <2>5 DEF WantsLink
  <2>10. UNCHANGED Serving
    BY <1>0, <2>2, <2>4, <2>5, <2>6, <2>7, <2>8, <2>9, ServedStill
  <2> QED BY <2>3, <2>10, Unmoved
<1>2. CASE Update(p)
  <2>1. PICK i \in t.todo : t.pc = "update" /\ IsNext(p, i) /\ Frame(t, u) /\ Dealt(t, u, i)
    BY <1>2, UpdateFields
  <2>2. rows' = rows /\ links' = links
    BY <1>2 DEF Update
  <2>3. UNCHANGED Tables
    BY <2>2, SameView DEF Live
  <2>4. OwnKeys(p)' = OwnKeys(p)
    BY <2>2 DEF OwnKeys, Own, Live
  <2>5. /\ Missing(p)' = KeysAt(p, t.todo \ {i}) \union OwnKeys(p)'
        /\ u.pc \in {"look", "update", "link", "commit"}
        /\ u.pc = "commit" => t.kind # "link"
        /\ u.kind = t.kind
    BY <2>1, MissingDealt
  <2>6. Missing(p) = KeysAt(p, t.todo \ {i}) \union OwnKeys(p)
    BY <2>1, TodoPositions, MissingKeys
  <2>7. WantsLink(p)' <=> WantsLink(p)
    BY <2>1, <2>5 DEF WantsLink
  <2>8. UNCHANGED Serving
    BY <1>0, <2>1, <2>4, <2>5, <2>6, <2>7, ServedStill
  <2> QED BY <2>3, <2>8, Unmoved
<1> QED BY <1>1, <1>2

\* The link is found, or it is inserted for nobody else to see.
LEMMA PairRefines ==
    ASSUME TypeOK, TypeOK', NEW p \in Procs, LinksHaveEnds, CountOK(p), RowsOK(p),
           PairOK(p), PairOK(p)', LookLink(p) \/ InsertLink(p)
    PROVE  R!FindPair(p) \/ UNCHANGED R!vars
<1> DEFINE t == txn[p]
           u == txn'[p]
<1>1. /\ t.pc \in {"link", "pair"} /\ Frame(t, u) /\ u.todo = t.todo
      /\ \/ u.pc = "pair" /\ links' = links
         \/ u.pc = "commit" /\ links' = links /\ \E l \in links : Joins(p, l) /\ Sees(p, l)
         \/ /\ u.pc = "commit"
            /\ links' = links \union {[rep |-> t.rep, string |-> t.string, by |-> p]}
  BY LinkFields
<1>2. u.kind = t.kind /\ t.kind = "link" /\ t.todo = {} /\ u.todo = {}
  BY <1>1 DEF Frame, RowsOK, CountOK
<1>3. rows' = rows /\ Step(p) /\ Own(p)' = Own(p)
  BY DEF LookLink, InsertLink, Step, Own, Live
<1>4. \A l \in links : l.by # p
  <2>1. t.pc # "commit"
    BY <1>1
  <2> QED BY <2>1 DEF PairOK
<1>5. Missing(p)' = Missing(p) /\ Missing(p) = OwnKeys(p)
  <2>1. Missing(p) = KeysAt(p, t.todo) \union OwnKeys(p)
    BY <1>1, TodoPositions, MissingKeys
  <2>2. Missing(p)' = KeysAt(p, t.todo)' \union OwnKeys(p)'
    BY <1>1, <1>2, MissingKeysNext
  <2>3. KeysAt(p, t.todo) = {} /\ KeysAt(p, t.todo)' = {} /\ OwnKeys(p)' = OwnKeys(p)
    BY <1>2, <1>3 DEF KeysAt, OwnKeys
  <2> QED BY <2>1, <2>2, <2>3
<1>6. WantsLink(p) /\ t.pc # "idle" /\ u.pc # "idle"
  BY <1>1, <1>2 DEF WantsLink
<1>7. CASE WantsLink(p)' /\ links' = links
  <2>1. UNCHANGED Tables
    BY <1>3, <1>7, SameView DEF Live
  <2>2. UNCHANGED Serving
    BY <1>3, <1>5, <1>6, <1>7, ServedStill
  <2> QED BY <2>1, <2>2, Unmoved
<1>8. CASE u.pc = "commit" /\
           links' = links \union {[rep |-> t.rep, string |-> t.string, by |-> p]}
  <2> DEFINE n == [rep |-> t.rep, string |-> t.string, by |-> p]
  <2>1. n.by = p /\ n.by # Db /\ links' = links \union {n}
    BY <1>8, VendorsAssumption
  <2> HIDE DEF n
  <2>2. UNCHANGED Tables
    BY <1>3, <2>1, SameView DEF Live
  <2>3. WantsLink(p)'
    BY <1>2, <2>1 DEF WantsLink
  <2>4. UNCHANGED Serving
    BY <1>3, <1>5, <1>6, <2>3, ServedStill
  <2> QED BY <2>2, <2>4, Unmoved
<1>9. ASSUME NEW l \in links, Joins(p, l), Sees(p, l), links' = links, u.pc = "commit"
      PROVE  R!FindPair(p)
  <2>1. l.by = Db
    BY <1>4, <1>9 DEF Sees
  <2>2. Pairs # {}
    BY <2>1 DEF Pairs
  <2>3. ~WantsLink(p)'
    BY <1>4, <1>9 DEF WantsLink
  <2>4. Missings[p] = {}
    <3>1. Own(p) = {}
      BY <1>2, <1>3, <1>4, <1>9 DEF PairOK
    <3> QED BY <1>5, <3>1 DEF OwnKeys, Missings
  <2>5. p \in Wanting /\ Wanting' = Wanting \ {p}
    BY <1>3, <1>6, <2>3, OneMoves DEF Wanting
  <2>6. Open' = Open
    BY <1>3, <1>6, OneMoves DEF Open
  <2>7. Missings' = Missings
    BY <1>3, <1>5, OneMoves DEF Missings
  <2>8. UNCHANGED Tables
    BY <1>3, <1>9, SameView DEF Live
  <2> QED BY <2>2, <2>4, <2>5, <2>6, <2>7, <2>8
          DEF R!FindPair, R!tables, Tables, Pairs, Open, Missings, Wanting
<1>10. u.pc = "pair" => WantsLink(p)'
  BY <1>2 DEF WantsLink
<1> QED BY <1>1, <1>7, <1>8, <1>9, <1>10

\* What is rolled back was never there.
LEMMA RollbackRefines ==
    ASSUME TypeOK, NEW p \in Procs, LinksHaveEnds, Step(p) \/ Fails(p), Rollback(p),
           txn[p].pc # "idle"
    PROVE  R!Cancel(p)
<1>1. \A i \in Ids : rows'[i] = IF i \in Live /\ rows[i].by = p THEN NoRow ELSE rows[i]
  BY RollbackRows
<1>2. links' = {l \in links : l.by # p} /\ p # Db
  BY VendorsAssumption DEF Rollback
<1>3. UNCHANGED Tables
  BY <1>1, <1>2, SameView DEF Live
<1> QED BY <1>3, Closed DEF R!Cancel, R!tables, Tables, Pairs

LEMMA StepRefines ==
    ASSUME TypeOK, TypeOK', UniqueKeys, LinksHaveEnds, CountInv, KeysInv,
           RegistryInv, RegistryInv', [Next]_vars
    PROVE  R!Next \/ UNCHANGED R!vars
<1>1. ASSUME NEW p \in Procs, Starts(p) \/ Step(p) \/ Fails(p)
      PROVE  R!Next \/ UNCHANGED R!vars
  <2>1. /\ CountOK(p) /\ KeysOK(p) /\ RowsOK(p) /\ PairOK(p)
        /\ RowsOK(p)' /\ PairOK(p)'
    BY DEF CountInv, KeysInv, RegistryInv
  <2>2. CASE Starts(p)
    <3>1. R!Serve(p)
      BY <2>1, <2>2, StartRefines DEF R!Serve
    <3> QED BY <3>1 DEF R!Next
  <2>3. CASE Look(p)
    <3>1. R!Serve(p) \/ UNCHANGED R!vars
      BY <2>1, <2>3, LookRefines DEF R!Serve
    <3> QED BY <3>1 DEF R!Next
  <2>4. CASE Insert(p) \/ Update(p)
    BY <2>4, WriteRefines
  <2>5. CASE LookLink(p) \/ InsertLink(p)
    <3>1. R!Serve(p) \/ UNCHANGED R!vars
      BY <2>1, <2>5, PairRefines DEF R!Serve
    <3> QED BY <3>1 DEF R!Next
  <2>6. ASSUME Step(p) \/ Fails(p), Rollback(p), txn[p].pc # "idle"
        PROVE  R!Next
    <3>1. R!Serve(p)
      BY <2>6, RollbackRefines DEF R!Serve
    <3> QED BY <3>1 DEF R!Next
  <2>7. ASSUME Step(p) \/ Fails(p), Durable(p), txn[p].pc = "commit"
        PROVE  R!Next
    <3>1. R!Serve(p)
      BY <2>1, <2>7, CommitRefines DEF R!Serve
    <3> QED BY <3>1 DEF R!Next
  <2> QED BY <1>1, <2>2, <2>3, <2>4, <2>5, <2>6, <2>7, StepEnds
<1>2. CASE UNCHANGED vars
  <2>1. UNCHANGED Tables
    BY <1>2, SameView DEF vars, Live
  <2>2. UNCHANGED Serving
    <3>1. \A q \in Procs : Still(q)
      BY <1>2 DEF vars, Still, Own, Live
    <3> QED BY <3>1, AllStill
  <2> QED BY <2>1, <2>2, Unmoved
<1> QED BY <1>1, <1>2, EditRefines DEF Next, OperatorStep

\* Read committed, the tables change as Registry says: what a request or a scan
\* was asked for and did not find comes in the one step of its commit, all of
\* it and nothing else, with the link if it is for one; what is refused, fails
\* or is cancelled leaves nothing; a link goes with either of its ends, and an
\* edit touches nothing else.
THEOREM ImplementsRegistry == Spec => RegistrySpec
<1>1. Init => R!Init
  <2> SUFFICES ASSUME Init PROVE R!Init
    OBVIOUS
  <2>1. Public(Emails) = {} /\ Public(Norms) = {} /\ Pairs = {}
    BY DEF Init, Public, Registered, Live, Pairs
  <2>2. \A p \in Procs : txn[p] = Idle /\ Own(p) = {}
    BY DEF Init, Own, Live
  <2>3. \A p \in Procs : Missing(p) = {} /\ ~WantsLink(p)
    BY <2>2 DEF Missing, Own, WantsLink, Idle
  <2>4. Open = {} /\ Wanting = {}
    BY <2>2, <2>3 DEF Open, Wanting, Idle
  <2>5. Missings = [p \in Procs |-> {}]
    BY <2>3 DEF Missings
  <2> QED BY <2>1, <2>4, <2>5 DEF R!Init, Pairs, Open, Missings, Wanting
<1>2. TypeOK /\ TypeOK' /\ UniqueKeys /\ LinksHaveEnds /\ CountInv /\ KeysInv
        /\ RegistryInv /\ RegistryInv' /\ [Next]_vars => [R!Next]_R!vars
  BY StepRefines
<1> QED BY <1>1, <1>2, TypeCorrect, AlwaysUnique, AlwaysLinked, CountAlways, KeysAlways,
           RegistryAlways, PTL
        DEF Spec, RegistrySpec, R!Spec
=============================================================================
