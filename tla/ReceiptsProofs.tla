--------------------------- MODULE ReceiptsProofs ---------------------------
(***************************************************************************)
(* Proofs about the download of receipts, for any number of ads, threads   *)
(* and files.  The types hold whatever runs at the same time; the rest is  *)
(* proved for an operator who starts one run at a time.                    *)
(***************************************************************************)
EXTENDS Receipts, TLAPS

-----------------------------------------------------------------------------
(* Sequences.                                                              *)

LEMMA RangeIn == ASSUME NEW S, NEW s \in Seq(S) PROVE Range(s) \subseteq S
  BY DEF Range

LEMMA RangeSeq == ASSUME NEW S, NEW s \in Seq(S) PROVE s \in Seq(Range(s))
  BY DEF Range

LEMMA RangeEmpty == Range(<<>>) = {}
  BY DEF Range

LEMMA RangeAppend ==
    ASSUME NEW S, NEW s \in Seq(S), NEW x \in S
    PROVE  Range(Append(s, x)) = Range(s) \union {x}
<1> DEFINE t == Append(s, x)
<1>1. /\ t \in Seq(S) /\ DOMAIN t = 1 .. Len(s) + 1 /\ DOMAIN s = 1 .. Len(s)
      /\ \A i \in 1 .. Len(s) : t[i] = s[i]
      /\ t[Len(s) + 1] = x /\ Len(s) \in Nat
  OBVIOUS
<1>2. Range(t) \subseteq Range(s) \union {x}
  BY <1>1 DEF Range
<1>3. x \in Range(t)
  BY <1>1 DEF Range
<1>4. Range(s) \subseteq Range(t)
  BY <1>1 DEF Range
<1> QED BY <1>2, <1>3, <1>4

LEMMA RangeConcat ==
    ASSUME NEW S, NEW s \in Seq(S), NEW t \in Seq(S)
    PROVE  Range(s \o t) = Range(s) \union Range(t)
<1> DEFINE u == s \o t
<1>1. /\ DOMAIN u = 1 .. Len(s) + Len(t)
      /\ DOMAIN s = 1 .. Len(s) /\ DOMAIN t = 1 .. Len(t)
      /\ Len(s) \in Nat /\ Len(t) \in Nat
      /\ \A i \in 1 .. Len(s) : u[i] = s[i]
      /\ \A i \in 1 .. Len(t) : u[Len(s) + i] = t[i]
      /\ \A i \in Len(s) + 1 .. Len(s) + Len(t) : u[i] = t[i - Len(s)]
  OBVIOUS
<1>2. Range(u) \subseteq Range(s) \union Range(t)
  <2> SUFFICES ASSUME NEW i \in 1 .. Len(s) + Len(t)
               PROVE  u[i] \in Range(s) \union Range(t)
    BY <1>1 DEF Range
  <2>1. CASE i \in 1 .. Len(s)
    BY <1>1, <2>1 DEF Range
  <2>2. CASE i \notin 1 .. Len(s)
    <3>1. i \in Len(s) + 1 .. Len(s) + Len(t) /\ i - Len(s) \in 1 .. Len(t)
      BY <1>1, <2>2
    <3> QED BY <1>1, <3>1 DEF Range
  <2> QED BY <2>1, <2>2
<1>3. Range(s) \subseteq Range(u)
  BY <1>1 DEF Range
<1>4. Range(t) \subseteq Range(u)
  <2> SUFFICES ASSUME NEW i \in 1 .. Len(t) PROVE t[i] \in Range(u)
    BY <1>1 DEF Range
  <2>1. Len(s) + i \in DOMAIN u
    BY <1>1
  <2> QED BY <1>1, <2>1 DEF Range
<1> QED BY <1>2, <1>3, <1>4

LEMMA RangeTail ==
    ASSUME NEW S, NEW s \in Seq(S), s # <<>>
    PROVE  /\ Head(s) \in S /\ Tail(s) \in Seq(S)
           /\ Range(s) = {Head(s)} \union Range(Tail(s))
<1> DEFINE t == Tail(s)
<1>1. /\ Head(s) = s[1] /\ 1 \in DOMAIN s /\ DOMAIN s = 1 .. Len(s)
      /\ t \in Seq(S) /\ DOMAIN t = 1 .. Len(s) - 1 /\ Len(s) \in Nat \ {0}
      /\ \A i \in 1 .. Len(s) - 1 : t[i] = s[i + 1]
  OBVIOUS
<1>2. Range(s) \subseteq {Head(s)} \union Range(t)
  <2> SUFFICES ASSUME NEW i \in 1 .. Len(s)
               PROVE  s[i] \in {Head(s)} \union Range(t)
    BY <1>1 DEF Range
  <2>1. CASE i # 1
    <3>1. i - 1 \in 1 .. Len(s) - 1 /\ (i - 1) + 1 = i
      BY <2>1, <1>1
    <3> QED BY <1>1, <3>1 DEF Range
  <2> QED BY <1>1, <2>1
<1>3. Range(t) \subseteq Range(s)
  <2> SUFFICES ASSUME NEW i \in 1 .. Len(s) - 1 PROVE t[i] \in Range(s)
    BY <1>1 DEF Range
  <2>1. i + 1 \in DOMAIN s
    BY <1>1
  <2> QED BY <1>1, <2>1 DEF Range
<1>4. Head(s) \in Range(s) /\ Head(s) \in S
  BY <1>1 DEF Range
<1> QED BY <1>1, <1>2, <1>3, <1>4

-----------------------------------------------------------------------------
(* Types.                                                                  *)

RunOK(r) == /\ r \in RunType
            /\ r.pc \in {"hits", "write"} => r.conf \in Confs
            /\ r.pc = "write" => r.target \in Paths /\ r.hits # <<>>

\* A run that is replaced by a well-formed one leaves all of them so.
LEMMA OneRunChanges ==
    ASSUME TypeOK, NEW p \in Procs, NEW r, RunOK(r), Becomes(p, r)
    PROVE  /\ proc' \in [Procs -> RunType]
           /\ \A q \in Procs :
                 /\ proc'[q].pc \in {"hits", "write"} => proc'[q].conf \in Confs
                 /\ proc'[q].pc = "write" => /\ proc'[q].target \in Paths
                                             /\ proc'[q].hits # <<>>
  BY DEF TypeOK, RunOK, Becomes

LEMMA EmptyIsSeq == \A S : <<>> \in Seq(S)
  OBVIOUS

LEMMA IdleOK == RunOK(Idle)
  BY EmptyIsSeq DEF RunOK, RunType, Idle

LEMMA EveryRunOK == ASSUME TypeOK, NEW p \in Procs PROVE RunOK(proc[p])
  BY DEF TypeOK, RunOK

\* The head of the attachments that are left has a SHA-256 and a file name.
LEMMA HeadOfHits ==
    ASSUME NEW r, RunOK(r), r.hits # <<>>
    PROVE  /\ Head(r.hits) \in Atts /\ Tail(r.hits) \in Seq(Atts)
           /\ Head(r.hits).sha \in Shas
  BY RangeTail DEF RunOK, RunType, Shas

\* A write that fails leaves well-formed contents.
LEMMA LeftoverType ==
    ASSUME TypeOK, NEW p \in Procs, Leftover(p)
    PROVE  disk' \in [Paths -> Shas \union {Absent, Torn}]
<1>1. CASE UNCHANGED disk
  BY <1>1 DEF TypeOK
<1>2. CASE proc[p].pc = "write" /\ \E x \in {Torn, Head(proc[p].hits).sha} :
             disk' = [disk EXCEPT ![proc[p].target] = x]
  <2>1. Head(proc[p].hits).sha \in Shas
    BY <1>2, EveryRunOK, HeadOfHits DEF TypeOK
  <2> QED BY <1>2, <2>1 DEF TypeOK
<1> QED BY <1>1, <1>2 DEF Leftover

LEMMA DurableType ==
    ASSUME TypeOK, NEW p \in Procs, Durable(p) \/ UNCHANGED <<file, url>>
    PROVE  /\ file' \in [Confs -> Paths \union {NoPath}]
           /\ url' \in [Confs -> Seq(Paths)]
<1>1. CASE Durable(p)
  <2>1. proc[p].set \in [Confs -> Seq(Paths)]
    BY DEF TypeOK, RunType
  <2>2. \A c \in Confs : proc[p].set[c] # <<>> => Head(proc[p].set[c]) \in Paths
    BY <2>1, RangeTail
  <2> QED BY <1>1, <2>1, <2>2 DEF Durable, TypeOK
<1>2. CASE UNCHANGED <<file, url>>
  BY <1>2 DEF TypeOK
<1> QED BY <1>1, <1>2

LEMMA FaultType == ASSUME TypeOK, Fault PROVE faults' \in 0 .. MaxFaults
  BY ReceiptsAssumption DEF TypeOK, Fault

LEMMA InitType == Init => TypeOK
  BY IdleOK, EmptyIsSeq, ReceiptsAssumption DEF Init, TypeOK, RunOK, Idle

\* Every step keeps the types, also when several runs are at work.
LEMMA NextType == TypeOK /\ [Next]_vars => TypeOK'
<1> SUFFICES ASSUME TypeOK, [Next]_vars PROVE TypeOK'
  OBVIOUS
<1>1. CASE UNCHANGED vars
  BY <1>1 DEF vars, TypeOK
<1>2. ASSUME NEW p \in Procs, Start(p) PROVE TypeOK'
  <2> DEFINE r == [Idle EXCEPT !.pc = "next",
                               !.pending = {c \in Confs : file[c] = NoPath}]
  <2>1. RunOK(r)
    BY IdleOK DEF RunOK, RunType, Idle
  <2>2. Becomes(p, r) /\ UNCHANGED <<disk, file, url, faults>>
    BY <1>2 DEF Start
  <2> QED BY <2>1, <2>2, OneRunChanges DEF TypeOK
<1>3. ASSUME NEW p \in Procs, NEW c \in Confs, BeginAd(p, c) PROVE TypeOK'
  <2> DEFINE r == [proc[p] EXCEPT !.pc = "hits", !.conf = c, !.hits = Thread[c],
                     !.pending = @ \ {c}, !.seen = ExistingHashes(Dir[c]),
                     !.saved = <<>>, !.present = <<>>]
  <2>1. ExistingHashes(Dir[c]) \in SUBSET ((Shas \union {Torn}) \X Paths)
    BY DEF ExistingHashes, TypeOK
  <2>2. Thread[c] \in Seq(Atts)
    BY ReceiptsAssumption
  <2>3. RunOK(r)
    BY <2>1, <2>2, EveryRunOK, EmptyIsSeq DEF RunOK, RunType
  <2>4. Becomes(p, r) /\ UNCHANGED <<disk, file, url, faults>>
    BY <1>3 DEF BeginAd
  <2> QED BY <2>3, <2>4, OneRunChanges DEF TypeOK
<1>4. ASSUME NEW p \in Procs, Present(p) PROVE TypeOK'
  <2>1. PICK s \in proc[p].seen :
            Becomes(p, [proc[p] EXCEPT !.hits = Tail(@),
                          !.present = Append(@, s[2])])
    BY <1>4 DEF Present
  <2> DEFINE r == [proc[p] EXCEPT !.hits = Tail(@), !.present = Append(@, s[2])]
  <2>2. s[2] \in Paths /\ Tail(proc[p].hits) \in Seq(Atts)
    BY <1>4, EveryRunOK, HeadOfHits DEF RunOK, RunType, Present
  <2>3. proc[p] \in RunType /\ proc[p].pc = "hits" /\ proc[p].conf \in Confs
    BY <1>4, EveryRunOK DEF RunOK, Present
  <2>4. Append(proc[p].present, s[2]) \in Seq(Paths)
    BY <2>2, <2>3 DEF RunType
  <2>5. RunOK(r)
    BY <2>2, <2>3, <2>4 DEF RunOK, RunType
  <2> QED BY <1>4, <2>1, <2>5, OneRunChanges DEF TypeOK, Present
<1>5. ASSUME NEW p \in Procs, ChooseTarget(p) PROVE TypeOK'
  <2>1. PICK f \in Paths : Becomes(p, [proc[p] EXCEPT !.pc = "write", !.target = f])
    BY <1>5 DEF ChooseTarget
  <2>2. RunOK([proc[p] EXCEPT !.pc = "write", !.target = f])
    BY <1>5, EveryRunOK DEF RunOK, RunType, ChooseTarget
  <2> QED BY <1>5, <2>1, <2>2, OneRunChanges DEF TypeOK, ChooseTarget
<1>6. ASSUME NEW p \in Procs, Write(p) PROVE TypeOK'
  <2> DEFINE sha == Head(proc[p].hits).sha
             f   == proc[p].target
             r   == [proc[p] EXCEPT !.pc = "hits", !.hits = Tail(@),
                       !.target = NoPath, !.saved = Append(@, f),
                       !.seen = @ \union {<<sha, f>>}]
  <2>1. proc[p] \in RunType /\ proc[p].conf \in Confs /\ f \in Paths
    BY <1>6, EveryRunOK DEF RunOK, Write
  <2>2. sha \in Shas /\ Tail(proc[p].hits) \in Seq(Atts)
    BY <1>6, EveryRunOK, HeadOfHits DEF RunOK, Write
  <2>3. Append(proc[p].saved, f) \in Seq(Paths)
    BY <2>1 DEF RunType
  <2>4. proc[p].seen \union {<<sha, f>>} \in SUBSET ((Shas \union {Torn}) \X Paths)
    BY <2>1, <2>2 DEF RunType
  <2>5. RunOK(r)
    BY <2>1, <2>2, <2>3, <2>4 DEF RunOK, RunType
  <2>6. Becomes(p, r) /\ disk' = [disk EXCEPT ![f] = sha]
    BY <1>6 DEF Write
  <2> QED BY <1>6, <2>1, <2>2, <2>5, <2>6, OneRunChanges DEF TypeOK, Write
<1>7. ASSUME NEW p \in Procs, EndAd(p) PROVE TypeOK'
  <2> DEFINE r == [proc[p] EXCEPT !.pc = "next", !.conf = NoConf, !.seen = {},
                     !.saved = <<>>, !.present = <<>>,
                     !.set = [@ EXCEPT ![proc[p].conf] = OnDisk(p)]]
  <2>1. OnDisk(p) \in Seq(Paths) /\ <<>> \in Seq(Paths)
    <3>1. proc[p].saved \in Seq(Paths) /\ proc[p].present \in Seq(Paths)
      BY EveryRunOK DEF RunOK, RunType
    <3> QED BY <3>1 DEF OnDisk
  <2>2. proc[p] \in RunType /\ proc[p].conf \in Confs
    BY <1>7, EveryRunOK DEF RunOK, EndAd
  <2>3. [proc[p].set EXCEPT ![proc[p].conf] = OnDisk(p)] \in [Confs -> Seq(Paths)]
    BY <2>1, <2>2 DEF RunType
  <2>4. RunOK(r)
    BY <2>1, <2>2, <2>3 DEF RunOK, RunType
  <2> QED BY <1>7, <2>4, OneRunChanges DEF TypeOK, EndAd
<1>8. ASSUME NEW p \in Procs, AdFails(p) PROVE TypeOK'
  <2> DEFINE r == [proc[p] EXCEPT !.pc = "next", !.conf = NoConf, !.seen = {},
                     !.hits = <<>>, !.target = NoPath,
                     !.saved = <<>>, !.present = <<>>]
  <2>1. RunOK(r)
    BY EveryRunOK, EmptyIsSeq DEF RunOK, RunType
  <2> QED BY <1>8, <2>1, OneRunChanges, LeftoverType, FaultType
          DEF TypeOK, AdFails
<1>9. ASSUME NEW p \in Procs, Finish(p) \/ CommitFails(p) PROVE TypeOK'
  <2>1. faults' \in 0 .. MaxFaults /\ UNCHANGED disk /\ Becomes(p, Idle)
    BY <1>9, FaultType DEF TypeOK, Finish, CommitFails
  <2>2. Durable(p) \/ UNCHANGED <<file, url>>
    BY <1>9 DEF Finish, CommitFails
  <2> QED BY <2>1, <2>2, DurableType, OneRunChanges, IdleOK DEF TypeOK
<1>10. ASSUME NEW p \in Procs, Killed(p) PROVE TypeOK'
  BY <1>10, IdleOK, OneRunChanges, LeftoverType, FaultType DEF TypeOK, Killed
<1> QED BY <1>1, <1>2, <1>3, <1>4, <1>5, <1>6, <1>7, <1>8, <1>9, <1>10
        DEF Next, Step

\* What runs, disk and database hold is well-formed, however many runs of
\* process_pending_receipts are at work and wherever they are killed.
THEOREM TypeCorrect == Spec => []TypeOK
  BY InitType, NextType, PTL DEF Spec

-----------------------------------------------------------------------------
(* One run at a time: what the paths mean.                                 *)

\* A list of paths that names the receipts of an ad, all of them and no other.
Holds(c, s) == /\ \A f \in Range(s) : disk[f] \in ShasOf(c)
               /\ ShasOf(c) \subseteq {disk[f] : f \in Range(s)}

\* The files of the directory are the known ones, and the target is free.
SeenOK(p) ==
    proc[p].pc \in {"hits", "write"} =>
        /\ \A s \in proc[p].seen : disk[s[2]] = s[1]
        /\ \A f \in Paths : (f.dir = Dir[proc[p].conf] /\ disk[f] \in Shas)
                                => <<disk[f], f>> \in proc[p].seen

TargetOK(p) ==
    proc[p].pc = "write" =>
        /\ disk[proc[p].target] = Absent
        /\ proc[p].target.dir = Dir[proc[p].conf]
        /\ \A s \in proc[p].seen : s[1] # Head(proc[p].hits).sha

\* Of the thread of the ad, what is not left to handle is on disk.
HandledOK(p) ==
    proc[p].pc \in {"hits", "write"} =>
        LET done == Range(proc[p].saved) \union Range(proc[p].present)
        IN  /\ \A f \in done : disk[f] \in ShasOf(proc[p].conf)
            /\ Range(proc[p].hits) \subseteq Range(Thread[proc[p].conf])
            /\ \A x \in Range(Thread[proc[p].conf]) :
                  x \in Range(proc[p].hits) \/ \E f \in done : disk[f] = x.sha

SetOK(p) == \A c \in Confs : proc[p].set[c] # <<>> => Holds(c, proc[p].set[c])

RecordedOK == \A c \in Confs :
                  file[c] # NoPath => Holds(c, url[c]) /\ file[c] \in Range(url[c])

ProcOK(p) == SeenOK(p) /\ TargetOK(p) /\ HandledOK(p) /\ SetOK(p)

IInv == /\ TypeOK /\ NoCopies /\ RecordedOK
        /\ \A p \in Procs : ProcOK(p)

\* What the disk may do while paths are held: whole files stay.
Kept == \A f \in Paths : disk[f] \in Shas => disk'[f] = disk[f]

OneRun == \A p, q \in Procs : p = q

\* The SHA-256 of a thread are among those of all threads.
LEMMA ShasOfType == \A c \in Confs : ShasOf(c) \subseteq Shas
  BY DEF ShasOf, Shas, Atts

LEMMA HoldsStays ==
    ASSUME TypeOK, Kept, NEW c \in Confs, NEW s \in Seq(Paths), Holds(c, s)
    PROVE  Holds(c, s)'
<1>1. Range(s) \subseteq Paths
  BY RangeIn
<1>2. \A f \in Range(s) : disk[f] \in Shas /\ disk'[f] = disk[f]
  BY <1>1, ShasOfType DEF Holds, Kept
<1>3. {disk'[f] : f \in Range(s)} = {disk[f] : f \in Range(s)}
  BY <1>2
<1> QED BY <1>2, <1>3 DEF Holds, ShasOf

\* A step that keeps whole files and leaves Postgres alone keeps what Postgres
\* holds true.
LEMMA RecordedStays ==
    ASSUME TypeOK, RecordedOK, Kept, UNCHANGED <<file, url>>
    PROVE  RecordedOK'
<1> SUFFICES ASSUME NEW c \in Confs, file[c] # NoPath
             PROVE  Holds(c, url[c])' /\ file[c] \in Range(url[c])
  BY DEF RecordedOK
<1>1. Holds(c, url[c]) /\ file[c] \in Range(url[c]) /\ url[c] \in Seq(Paths)
  BY DEF RecordedOK, TypeOK
<1>2. \A s \in Seq(Paths) : Holds(c, s) => Holds(c, s)'
  BY HoldsStays
<1> QED BY <1>1, <1>2 DEF Holds

LEMMA SetStays ==
    ASSUME TypeOK, Kept, NEW p \in Procs, SetOK(p), proc'[p].set = proc[p].set
    PROVE  SetOK(p)'
<1> SUFFICES ASSUME NEW c \in Confs, proc[p].set[c] # <<>>
             PROVE  Holds(c, proc[p].set[c])'
  BY DEF SetOK
<1>1. Holds(c, proc[p].set[c]) /\ proc[p].set[c] \in Seq(Paths)
  BY DEF SetOK, TypeOK, RunType
<1> QED BY <1>1, HoldsStays DEF Holds

\* The free name holds nothing, and no file of the directory has the PDF.
LEMMA TargetWritten ==
    ASSUME TypeOK, NoCopies, NEW p \in Procs, ProcOK(p),
           proc[p].pc = "write", NEW x \in {Torn, Head(proc[p].hits).sha},
           disk' = [disk EXCEPT ![proc[p].target] = x]
    PROVE  Kept /\ NoCopies'
<1> DEFINE t == proc[p].target
<1>1. t \in Paths /\ disk[t] = Absent /\ t.dir = Dir[proc[p].conf]
  BY DEF TypeOK, ProcOK, TargetOK
<1>2. Kept
  BY <1>1, ReceiptsAssumption DEF Kept, TypeOK
<1>3. disk'[t] = x /\ \A f \in Paths : f # t => disk'[f] = disk[f]
  BY <1>1 DEF TypeOK
<1>4. ASSUME NEW f \in Paths, f # t, f.dir = t.dir, disk[f] \in Shas
      PROVE  disk[f] # Head(proc[p].hits).sha
  <2>1. <<disk[f], f>> \in proc[p].seen
    BY <1>1, <1>4 DEF ProcOK, SeenOK
  <2> QED BY <2>1 DEF ProcOK, TargetOK
<1>5. ASSUME NEW f \in Paths, NEW g \in Paths, f # g, f.dir = g.dir,
             disk'[f] \in Shas
      PROVE  disk'[f] # disk'[g]
  <2>1. CASE f # t /\ g # t
    BY <1>3, <1>5, <2>1 DEF NoCopies
  <2>2. CASE f = t
    <3>1. x = Head(proc[p].hits).sha
      BY <1>3, <1>5, <2>2, ReceiptsAssumption
    <3>2. disk'[g] = disk[g]
      BY <1>3, <1>5, <2>2
    <3>3. CASE disk[g] \in Shas
      BY <1>3, <1>4, <1>5, <2>2, <3>1, <3>2, <3>3
    <3> QED BY <1>5, <3>2, <3>3
  <2>3. CASE g = t /\ f # t
    <3>1. disk'[f] = disk[f] /\ disk[f] \in Shas
      BY <1>3, <1>5, <2>3
    <3>2. disk[f] # Head(proc[p].hits).sha
      BY <1>4, <1>5, <2>3, <3>1
    <3> QED BY <1>3, <2>3, <3>1, <3>2, ReceiptsAssumption
  <2> QED BY <2>1, <2>2, <2>3
<1> QED BY <1>2, <1>5 DEF NoCopies

LEMMA LeftoverKeeps ==
    ASSUME TypeOK, NoCopies, NEW p \in Procs, ProcOK(p), Leftover(p)
    PROVE  Kept /\ NoCopies'
<1>1. CASE UNCHANGED disk
  BY <1>1 DEF Kept, NoCopies
<1>2. CASE proc[p].pc = "write" /\ ~UNCHANGED disk
  BY <1>2, TargetWritten DEF Leftover
<1> QED BY <1>1, <1>2 DEF Leftover

LEMMA QuietDisk ==
    ASSUME TypeOK, NoCopies, UNCHANGED disk PROVE Kept /\ NoCopies'
  BY DEF Kept, NoCopies

\* Nothing is promised of a run between two ads but what it has set.
LEMMA BetweenAds ==
    ASSUME TypeOK, NEW p \in Procs, ProcOK(p), Kept,
           proc'[p].pc \in {"idle", "next"}, proc'[p].set = proc[p].set
    PROVE  ProcOK(p)'
  BY SetStays DEF ProcOK, SeenOK, TargetOK, HandledOK

\* A run that has begun anew has set nothing.
LEMMA NothingSet ==
    ASSUME NEW p \in Procs, proc'[p].pc \in {"idle", "next"},
           proc'[p].set = [c \in Confs |-> <<>>]
    PROVE  ProcOK(p)'
  BY DEF ProcOK, SeenOK, TargetOK, HandledOK, SetOK

LEMMA InitOK == Init => NoCopies /\ RecordedOK /\ \A p \in Procs : ProcOK(p)
<1> SUFFICES ASSUME Init
             PROVE  NoCopies /\ RecordedOK /\ \A p \in Procs : ProcOK(p)
  OBVIOUS
<1>1. NoCopies
  BY ReceiptsAssumption DEF Init, NoCopies
<1>2. RecordedOK
  BY DEF Init, RecordedOK
<1>3. \A p \in Procs : ProcOK(p)
  BY DEF Init, Idle, ProcOK, SeenOK, TargetOK, HandledOK, SetOK
<1> QED BY <1>1, <1>2, <1>3

LEMMA StartOK ==
    ASSUME IInv, NEW p \in Procs, Start(p)
    PROVE  NoCopies' /\ RecordedOK' /\ Kept /\ ProcOK(p)'
<1>1. Kept /\ NoCopies' /\ RecordedOK'
  BY QuietDisk, RecordedStays DEF IInv, Start
<1>2. proc'[p].pc = "next" /\ proc'[p].set = [c \in Confs |-> <<>>]
  BY DEF Start, Becomes, Idle, IInv, TypeOK
<1> QED BY <1>1, <1>2, NothingSet

LEMMA BeginAdOK ==
    ASSUME IInv, NEW p \in Procs, NEW c \in Confs, BeginAd(p, c)
    PROVE  NoCopies' /\ RecordedOK' /\ Kept /\ ProcOK(p)'
<1>1. Kept /\ NoCopies' /\ RecordedOK'
  BY QuietDisk, RecordedStays DEF IInv, BeginAd
<1>2. /\ proc'[p].pc = "hits" /\ proc'[p].conf = c /\ proc'[p].hits = Thread[c]
      /\ proc'[p].seen = ExistingHashes(Dir[c])
      /\ proc'[p].saved = <<>> /\ proc'[p].present = <<>>
      /\ proc'[p].set = proc[p].set /\ disk' = disk
  BY DEF BeginAd, Becomes, IInv, TypeOK, RunType
<1>3. SeenOK(p)'
  BY <1>2, ReceiptsAssumption DEF SeenOK, ExistingHashes
<1>4. HandledOK(p)'
  BY <1>2, RangeEmpty DEF HandledOK
<1>5. SetOK(p)'
  BY <1>1, <1>2, SetStays DEF IInv, ProcOK
<1> QED BY <1>1, <1>2, <1>3, <1>4, <1>5 DEF ProcOK, TargetOK

LEMMA PresentOK ==
    ASSUME IInv, NEW p \in Procs, Present(p)
    PROVE  NoCopies' /\ RecordedOK' /\ Kept /\ ProcOK(p)'
<1>1. Kept /\ NoCopies' /\ RecordedOK'
  BY QuietDisk, RecordedStays DEF IInv, Present
<1>2. PICK s \in proc[p].seen :
          /\ s[1] = Head(proc[p].hits).sha
          /\ Becomes(p, [proc[p] EXCEPT !.hits = Tail(@),
                           !.present = Append(@, s[2])])
  BY DEF Present
<1>3. /\ RunOK(proc[p]) /\ proc[p].pc = "hits" /\ proc[p].hits # <<>>
      /\ disk' = disk /\ ProcOK(p)
  BY EveryRunOK DEF IInv, Present
<1>4. /\ proc'[p].pc = "hits" /\ proc'[p].conf = proc[p].conf
      /\ proc'[p].hits = Tail(proc[p].hits) /\ proc'[p].seen = proc[p].seen
      /\ proc'[p].saved = proc[p].saved
      /\ proc'[p].present = Append(proc[p].present, s[2])
      /\ proc'[p].set = proc[p].set
  BY <1>2, <1>3 DEF Becomes, IInv, TypeOK, RunType
<1>5. SeenOK(p)' /\ TargetOK(p)'
  BY <1>3, <1>4 DEF ProcOK, SeenOK, TargetOK
<1>6. HandledOK(p)'
  <2> DEFINE h == Head(proc[p].hits)
             done == Range(proc[p].saved) \union Range(proc[p].present)
  <2>1. /\ Range(proc'[p].present) = Range(proc[p].present) \union {s[2]}
        /\ Range(proc[p].hits) = {h} \union Range(proc'[p].hits)
    <3>1. s[2] \in Paths /\ proc[p].present \in Seq(Paths)
      BY <1>3 DEF RunOK, RunType
    <3>2. proc[p].hits \in Seq(Atts)
      BY <1>3 DEF RunOK, RunType
    <3> QED BY <1>3, <1>4, <3>1, <3>2, RangeAppend, RangeTail
  <2>2. disk[s[2]] = h.sha
    BY <1>2, <1>3 DEF ProcOK, SeenOK
  <2>3. /\ \A f \in done : disk[f] \in ShasOf(proc[p].conf)
        /\ Range(proc[p].hits) \subseteq Range(Thread[proc[p].conf])
        /\ \A x \in Range(Thread[proc[p].conf]) :
              x \in Range(proc[p].hits) \/ \E f \in done : disk[f] = x.sha
    BY <1>3 DEF ProcOK, HandledOK
  <2>4. h.sha \in ShasOf(proc[p].conf)
    BY <2>1, <2>3 DEF ShasOf
  <2> QED BY <1>3, <1>4, <2>1, <2>2, <2>3, <2>4 DEF HandledOK, ShasOf
<1>7. SetOK(p)'
  BY <1>1, <1>4, SetStays DEF IInv, ProcOK
<1> QED BY <1>1, <1>5, <1>6, <1>7 DEF ProcOK

LEMMA ChooseTargetOK ==
    ASSUME IInv, NEW p \in Procs, ChooseTarget(p)
    PROVE  NoCopies' /\ RecordedOK' /\ Kept /\ ProcOK(p)'
<1>1. Kept /\ NoCopies' /\ RecordedOK'
  BY QuietDisk, RecordedStays DEF IInv, ChooseTarget
<1>2. PICK f \in Paths :
          /\ Chosen(Dir[proc[p].conf], Head(proc[p].hits).name, f)
          /\ Becomes(p, [proc[p] EXCEPT !.pc = "write", !.target = f])
  BY DEF ChooseTarget
<1>3. /\ proc[p] \in RunType /\ proc[p].pc = "hits" /\ disk' = disk /\ ProcOK(p)
      /\ \A s \in proc[p].seen : s[1] # Head(proc[p].hits).sha
  BY DEF IInv, TypeOK, ChooseTarget
<1>4. /\ proc'[p].pc = "write" /\ proc'[p].target = f
      /\ proc'[p].conf = proc[p].conf /\ proc'[p].hits = proc[p].hits
      /\ proc'[p].seen = proc[p].seen /\ proc'[p].saved = proc[p].saved
      /\ proc'[p].present = proc[p].present /\ proc'[p].set = proc[p].set
  BY <1>2, <1>3 DEF Becomes, IInv, TypeOK, RunType
<1>5. SeenOK(p)'
  BY <1>3, <1>4 DEF ProcOK, SeenOK
<1>6. TargetOK(p)'
  BY <1>2, <1>3, <1>4 DEF TargetOK, Chosen
<1>7. HandledOK(p)'
  BY <1>3, <1>4 DEF ProcOK, HandledOK, ShasOf
<1>8. SetOK(p)'
  BY <1>1, <1>4, SetStays DEF IInv, ProcOK
<1> QED BY <1>1, <1>5, <1>6, <1>7, <1>8 DEF ProcOK

LEMMA WriteOK ==
    ASSUME IInv, NEW p \in Procs, Write(p)
    PROVE  NoCopies' /\ RecordedOK' /\ Kept /\ ProcOK(p)'
<1> DEFINE h == Head(proc[p].hits)
           t == proc[p].target
           done == Range(proc[p].saved) \union Range(proc[p].present)
<1>1. /\ RunOK(proc[p]) /\ proc[p].pc = "write" /\ ProcOK(p)
      /\ t \in Paths /\ proc[p].hits # <<>> /\ proc[p] \in RunType
      /\ disk \in [Paths -> Shas \union {Absent, Torn}]
  BY EveryRunOK DEF IInv, TypeOK, Write, RunOK
<1>2. disk' = [disk EXCEPT ![t] = h.sha]
  BY DEF Write
<1>3. Kept /\ NoCopies'
  BY <1>1, <1>2, TargetWritten DEF IInv
<1>4. RecordedOK'
  BY <1>3, RecordedStays DEF IInv, Write
<1>5. /\ proc'[p].pc = "hits" /\ proc'[p].conf = proc[p].conf
      /\ proc'[p].hits = Tail(proc[p].hits)
      /\ proc'[p].seen = proc[p].seen \union {<<h.sha, t>>}
      /\ proc'[p].saved = Append(proc[p].saved, t)
      /\ proc'[p].present = proc[p].present /\ proc'[p].set = proc[p].set
  BY <1>1 DEF Write, Becomes, IInv, TypeOK, RunType
<1>6. disk'[t] = h.sha /\ \A f \in Paths : f # t => disk'[f] = disk[f]
  BY <1>1, <1>2
<1>7. SeenOK(p)'
  <2>1. ASSUME NEW s \in proc'[p].seen PROVE disk'[s[2]] = s[1]
    <3>1. CASE s \in proc[p].seen
      <4>1. disk[s[2]] = s[1] /\ s[2] \in Paths /\ s[1] \in Shas \union {Torn}
        BY <1>1, <3>1 DEF ProcOK, SeenOK, RunType
      <4>2. s[2] # t
        BY <1>1, <4>1, ReceiptsAssumption DEF ProcOK, TargetOK
      <4> QED BY <1>6, <4>1, <4>2
    <3> QED BY <1>5, <1>6, <2>1, <3>1
  <2>2. ASSUME NEW f \in Paths, f.dir = Dir[proc[p].conf], disk'[f] \in Shas
        PROVE  <<disk'[f], f>> \in proc'[p].seen
    BY <1>1, <1>5, <1>6, <2>2 DEF ProcOK, SeenOK
  <2> QED BY <1>5, <2>1, <2>2 DEF SeenOK
<1>8. HandledOK(p)'
  <2>1. /\ Range(proc'[p].saved) = Range(proc[p].saved) \union {t}
        /\ Range(proc[p].hits) = {h} \union Range(proc'[p].hits)
    <3>1. proc[p].saved \in Seq(Paths) /\ proc[p].hits \in Seq(Atts)
      BY <1>1 DEF RunType
    <3> QED BY <1>1, <1>5, <3>1, RangeAppend, RangeTail
  <2>2. /\ \A f \in done : disk[f] \in ShasOf(proc[p].conf)
        /\ Range(proc[p].hits) \subseteq Range(Thread[proc[p].conf])
        /\ \A x \in Range(Thread[proc[p].conf]) :
              x \in Range(proc[p].hits) \/ \E f \in done : disk[f] = x.sha
    BY <1>1 DEF ProcOK, HandledOK
  <2>3. done \subseteq Paths /\ ShasOf(proc[p].conf) \subseteq Shas
    <3>1. /\ proc[p].saved \in Seq(Paths) /\ proc[p].present \in Seq(Paths)
          /\ proc[p].conf \in Confs
      BY <1>1 DEF RunType, RunOK
    <3> QED BY <3>1, RangeIn, ShasOfType
  <2>4. \A f \in done : disk'[f] = disk[f]
    BY <1>3, <2>2, <2>3 DEF Kept
  <2>5. h.sha \in ShasOf(proc[p].conf)
    BY <2>1, <2>2 DEF ShasOf
  <2> QED BY <1>5, <1>6, <2>1, <2>2, <2>4, <2>5 DEF HandledOK, ShasOf
<1>9. SetOK(p)'
  BY <1>3, <1>5, SetStays DEF IInv, ProcOK
<1> QED BY <1>3, <1>4, <1>5, <1>7, <1>8, <1>9 DEF ProcOK, TargetOK

LEMMA EndAdOK ==
    ASSUME IInv, NEW p \in Procs, EndAd(p)
    PROVE  NoCopies' /\ RecordedOK' /\ Kept /\ ProcOK(p)'
<1>1. Kept /\ NoCopies' /\ RecordedOK'
  BY QuietDisk, RecordedStays DEF IInv, EndAd
<1>2. /\ proc[p] \in RunType /\ proc[p].pc = "hits" /\ proc[p].hits = <<>>
      /\ proc[p].conf \in Confs /\ ProcOK(p) /\ disk' = disk
      /\ proc[p].set \in [Confs -> Seq(Paths)]
  BY DEF IInv, TypeOK, EndAd, RunType
<1>3. /\ proc'[p].pc = "next"
      /\ proc'[p].set = [proc[p].set EXCEPT ![proc[p].conf] = OnDisk(p)]
  BY <1>2 DEF EndAd, Becomes, IInv, TypeOK, RunType
<1>4. Holds(proc[p].conf, OnDisk(p))
  <2>1. Range(OnDisk(p)) = Range(proc[p].saved) \union Range(proc[p].present)
    <3>1. proc[p].saved \in Seq(Paths) /\ proc[p].present \in Seq(Paths)
      BY <1>2 DEF RunType
    <3> QED BY <3>1, RangeConcat DEF OnDisk
  <2> QED BY <1>2, <2>1, RangeEmpty DEF ProcOK, HandledOK, Holds, ShasOf
<1>5. \A c \in Confs : proc[p].set[c] # <<>> => Holds(c, proc[p].set[c])
  BY <1>2 DEF ProcOK, SetOK
<1>6. \A c \in Confs : proc'[p].set[c] # <<>> => Holds(c, proc'[p].set[c])
  <2> SUFFICES ASSUME NEW c \in Confs, proc'[p].set[c] # <<>>
               PROVE  Holds(c, proc'[p].set[c])
    OBVIOUS
  <2>1. CASE c = proc[p].conf
    <3>1. proc'[p].set[c] = OnDisk(p)
      BY <1>2, <1>3, <2>1
    <3> QED BY <1>4, <2>1, <3>1
  <2>2. CASE c # proc[p].conf
    <3>1. proc'[p].set[c] = proc[p].set[c]
      BY <1>2, <1>3, <2>2
    <3> QED BY <1>5, <3>1
  <2> QED BY <2>1, <2>2
<1>7. SetOK(p)'
  BY <1>2, <1>6 DEF SetOK, Holds, ShasOf
<1> QED BY <1>1, <1>3, <1>7 DEF ProcOK, SeenOK, TargetOK, HandledOK

LEMMA AdFailsOK ==
    ASSUME IInv, NEW p \in Procs, AdFails(p)
    PROVE  NoCopies' /\ RecordedOK' /\ Kept /\ ProcOK(p)'
<1>1. Kept /\ NoCopies'
  BY LeftoverKeeps DEF IInv, AdFails
<1>2. RecordedOK'
  BY <1>1, RecordedStays DEF IInv, AdFails
<1>3. proc'[p].pc = "next" /\ proc'[p].set = proc[p].set
  BY DEF AdFails, Becomes, IInv, TypeOK, RunType
<1> QED BY <1>1, <1>2, <1>3, BetweenAds DEF IInv

LEMMA KilledOK ==
    ASSUME IInv, NEW p \in Procs, Killed(p)
    PROVE  NoCopies' /\ RecordedOK' /\ Kept /\ ProcOK(p)'
<1>1. Kept /\ NoCopies'
  BY LeftoverKeeps DEF IInv, Killed
<1>2. RecordedOK'
  BY <1>1, RecordedStays DEF IInv, Killed
<1>3. proc'[p].pc = "idle" /\ proc'[p].set = [c \in Confs |-> <<>>]
  BY DEF Killed, Becomes, Idle, IInv, TypeOK
<1> QED BY <1>1, <1>2, <1>3, NothingSet

LEMMA CommitOK ==
    ASSUME IInv, NEW p \in Procs, Finish(p) \/ CommitFails(p)
    PROVE  NoCopies' /\ RecordedOK' /\ Kept /\ ProcOK(p)'
<1>1. /\ Becomes(p, Idle) /\ UNCHANGED disk
      /\ Durable(p) \/ UNCHANGED <<file, url>>
  BY DEF Finish, CommitFails
<1>2. Kept /\ NoCopies'
  BY <1>1, QuietDisk DEF IInv
<1>3. ProcOK(p)'
  <2>1. proc'[p].pc = "idle" /\ proc'[p].set = [c \in Confs |-> <<>>]
    BY <1>1 DEF Becomes, Idle, IInv, TypeOK
  <2> QED BY <2>1, NothingSet
<1>4. CASE UNCHANGED <<file, url>>
  BY <1>2, <1>3, <1>4, RecordedStays DEF IInv
<1>5. CASE Durable(p)
  <2> SUFFICES ASSUME NEW c \in Confs, file'[c] # NoPath
               PROVE  Holds(c, url'[c]) /\ file'[c] \in Range(url'[c])
    BY <1>1, <1>2, <1>3 DEF RecordedOK, Holds, ShasOf
  <2>1. CASE proc[p].set[c] # <<>>
    <3>1. file'[c] = Head(proc[p].set[c]) /\ url'[c] = proc[p].set[c]
      BY <1>5, <2>1 DEF Durable
    <3>2. proc[p].set[c] \in Seq(Paths) /\ Holds(c, proc[p].set[c])
      BY <2>1 DEF IInv, ProcOK, SetOK, TypeOK, RunType
    <3> QED BY <2>1, <3>1, <3>2, RangeTail
  <2>2. CASE proc[p].set[c] = <<>>
    <3>1. file'[c] = file[c] /\ url'[c] = url[c]
      BY <1>5, <2>2 DEF Durable
    <3> QED BY <3>1 DEF IInv, RecordedOK
  <2> QED BY <2>1, <2>2
<1> QED BY <1>1, <1>4, <1>5

\* A step of the only run keeps the invariant and every whole file.
LEMMA NextInv == OneRun /\ IInv /\ [Next]_vars => IInv' /\ Kept
<1> SUFFICES ASSUME OneRun, IInv, [Next]_vars PROVE IInv' /\ Kept
  OBVIOUS
<1>1. TypeOK'
  BY NextType DEF IInv
<1>2. CASE UNCHANGED vars
  <2>1. Kept /\ NoCopies' /\ RecordedOK'
    BY <1>2, QuietDisk, RecordedStays DEF vars, IInv
  <2>2. ASSUME NEW p \in Procs PROVE ProcOK(p)'
    <3>1. SetOK(p)'
      BY <1>2, <2>1, SetStays DEF vars, IInv, ProcOK
    <3>2. SeenOK(p)' /\ TargetOK(p)'
      BY <1>2 DEF vars, IInv, ProcOK, SeenOK, TargetOK
    <3>3. HandledOK(p)'
      BY <1>2 DEF vars, IInv, ProcOK, HandledOK, ShasOf
    <3> QED BY <3>1, <3>2, <3>3 DEF ProcOK
  <2> QED BY <1>1, <2>1, <2>2 DEF IInv
<1>3. ASSUME NEW p \in Procs, Start(p) \/ Step(p) \/ AdFails(p) \/ Killed(p)
      PROVE  NoCopies' /\ RecordedOK' /\ Kept /\ ProcOK(p)'
  BY <1>3, StartOK, BeginAdOK, PresentOK, ChooseTargetOK, WriteOK, EndAdOK,
     CommitOK, AdFailsOK, KilledOK DEF Step
<1>4. CASE Next
  BY <1>1, <1>3, <1>4 DEF Next, IInv, OneRun
<1> QED BY <1>2, <1>4

LEMMA InvHolds == ASSUME OneRun PROVE Spec => []IInv
<1>1. Init => IInv
  BY InitType, InitOK DEF IInv
<1> QED BY <1>1, NextInv, PTL DEF Spec

LEMMA Promised == IInv => RecordedIsReceipt /\ RecordedIsComplete /\ NoCopies
  BY DEF IInv, RecordedOK, Holds, RecordedIsReceipt, RecordedIsComplete

\* receipt_file_path and receipt_url name whole receipts of the ad's own
\* thread, after any failures and kills of the runs before.
THEOREM OnlyReceiptsRecorded == ASSUME OneRun PROVE Spec => []RecordedIsReceipt
  BY InvHolds, Promised, PTL

\* An ad with a path has the path of every receipt of its thread.
THEOREM AllReceiptsRecorded == ASSUME OneRun PROVE Spec => []RecordedIsComplete
  BY InvHolds, Promised, PTL

\* _existing_hashes and _dedupe_name keep one file per PDF and directory.
THEOREM OneFilePerReceipt == ASSUME OneRun PROVE Spec => []NoCopies
  BY InvHolds, Promised, PTL

\* open(target, "wb") never truncates a file that was written whole.
THEOREM WholeFilesStay == ASSUME OneRun PROVE Spec => NothingOverwritten
<1>1. OneRun /\ IInv /\ [Next]_vars
          => [\A f \in Paths : disk[f] \in Shas => disk'[f] = disk[f]]_vars
  BY NextInv DEF Kept
<1> QED BY <1>1, InvHolds, PTL DEF Spec, NothingOverwritten

-----------------------------------------------------------------------------
(* Whatever runs there are, every path is in the directory of its ad and   *)
(* names a file.                                                           *)

\* d is a state of the disk.
Filed(d, f, c) == f.dir = Dir[c] /\ d[f] # Absent

AllFiled(d, s, c) == \A f \in Range(s) : Filed(d, f, c)

InPlace(d, r) ==
    /\ r.pc \in {"hits", "write"} =>
          /\ \A s \in r.seen : Filed(d, s[2], r.conf)
          /\ AllFiled(d, r.saved, r.conf) /\ AllFiled(d, r.present, r.conf)
    /\ r.pc = "write" => r.target.dir = Dir[r.conf]
    /\ \A c \in Confs : AllFiled(d, r.set[c], c)

\* What Postgres names is in place; what has no path has no list either.
UrlInPlace == \A c \in Confs :
                 /\ AllFiled(disk, url[c], c)
                 /\ IF file[c] = NoPath THEN url[c] = <<>>
                    ELSE file[c] \in Range(url[c])

PlaceInv == TypeOK /\ UrlInPlace /\ \A p \in Procs : InPlace(disk, proc[p])

LEMMA NothingFiled == \A d, c : AllFiled(d, <<>>, c)
  BY RangeEmpty DEF AllFiled

LEMMA IdleInPlace == \A d : InPlace(d, Idle)
  BY NothingFiled DEF InPlace, Idle

LEMMA AppendFiled ==
    ASSUME NEW d, NEW s \in Seq(Paths), NEW f \in Paths, NEW c,
           AllFiled(d, s, c), Filed(d, f, c)
    PROVE  AllFiled(d, Append(s, f), c)
  BY RangeAppend DEF AllFiled

\* No run removes a file: one it does not complete is torn.
LEMMA FilesStay ==
    ASSUME TypeOK, [Next]_vars
    PROVE  \A f \in Paths : disk[f] # Absent => disk'[f] # Absent
<1>1. ASSUME NEW p \in Procs, proc[p].pc = "write",
             NEW x \in {Torn, Head(proc[p].hits).sha},
             disk' = [disk EXCEPT ![proc[p].target] = x]
      PROVE  x # Absent
  <2>1. RunOK(proc[p])
    BY EveryRunOK
  <2>2. Head(proc[p].hits).sha \in Shas
    BY <1>1, <2>1, HeadOfHits DEF RunOK
  <2> QED BY <1>1, <2>2, ReceiptsAssumption
<1>2. CASE UNCHANGED disk
  BY <1>2
<1>3. ASSUME NEW p \in Procs, Write(p)
      PROVE  \A f \in Paths : disk[f] # Absent => disk'[f] # Absent
  BY <1>1, <1>3 DEF Write, TypeOK
<1>4. ASSUME NEW p \in Procs, Leftover(p)
      PROVE  \A f \in Paths : disk[f] # Absent => disk'[f] # Absent
  BY <1>1, <1>4 DEF Leftover, TypeOK
<1>5. \/ UNCHANGED disk
      \/ \E p \in Procs : Write(p) \/ Leftover(p)
  BY DEF Next, Step, Start, BeginAd, Present, ChooseTarget, EndAd, Finish,
     CommitFails, AdFails, Killed, vars
<1> QED BY <1>2, <1>3, <1>4, <1>5

\* What is in place stays there.
LEMMA FiledStays ==
    ASSUME NEW d, NEW e, \A f \in Paths : d[f] # Absent => e[f] # Absent,
           NEW s \in Seq(Paths), NEW c, AllFiled(d, s, c)
    PROVE  AllFiled(e, s, c)
  BY RangeIn DEF AllFiled, Filed

LEMMA PlaceStays ==
    ASSUME NEW d, NEW e, \A f \in Paths : d[f] # Absent => e[f] # Absent,
           NEW r \in RunType, InPlace(d, r)
    PROVE  InPlace(e, r)
<1>1. /\ r.saved \in Seq(Paths) /\ r.present \in Seq(Paths)
      /\ \A c \in Confs : r.set[c] \in Seq(Paths)
      /\ \A s \in r.seen : s[2] \in Paths
  BY DEF RunType
<1>2. \A c \in Confs : AllFiled(e, r.set[c], c)
  BY <1>1, FiledStays DEF InPlace
<1>3. r.pc \in {"hits", "write"} =>
         /\ \A s \in r.seen : Filed(e, s[2], r.conf)
         /\ AllFiled(e, r.saved, r.conf) /\ AllFiled(e, r.present, r.conf)
  <2>1. r.pc \in {"hits", "write"} => \A s \in r.seen : Filed(e, s[2], r.conf)
    BY <1>1 DEF InPlace, Filed
  <2>2. r.pc \in {"hits", "write"} =>
           AllFiled(e, r.saved, r.conf) /\ AllFiled(e, r.present, r.conf)
    BY <1>1, FiledStays DEF InPlace
  <2> QED BY <2>1, <2>2
<1> QED BY <1>2, <1>3 DEF InPlace

\* A commit moves the paths of an ad from the run to Postgres.
LEMMA DurableInPlace ==
    ASSUME PlaceInv, [Next]_vars, NEW p \in Procs,
           Durable(p) \/ UNCHANGED <<file, url>>
    PROVE  UrlInPlace'
<1> SUFFICES ASSUME NEW c \in Confs
             PROVE  /\ AllFiled(disk', url'[c], c)
                    /\ IF file'[c] = NoPath THEN url'[c] = <<>>
                       ELSE file'[c] \in Range(url'[c])
  BY DEF UrlInPlace
<1>1. \A f \in Paths : disk[f] # Absent => disk'[f] # Absent
  BY FilesStay DEF PlaceInv
<1>2. CASE file'[c] = file[c] /\ url'[c] = url[c]
  <2>1. url[c] \in Seq(Paths) /\ AllFiled(disk, url[c], c)
    BY DEF PlaceInv, TypeOK, UrlInPlace
  <2>2. AllFiled(disk', url[c], c)
    BY <1>1, <2>1, FiledStays
  <2> QED BY <1>2, <2>2 DEF PlaceInv, UrlInPlace
<1>3. CASE Durable(p) /\ proc[p].set[c] # <<>>
  <2>1. file'[c] = Head(proc[p].set[c]) /\ url'[c] = proc[p].set[c]
    BY <1>3 DEF Durable
  <2>2. proc[p].set[c] \in Seq(Paths) /\ AllFiled(disk, proc[p].set[c], c)
    BY DEF PlaceInv, InPlace, TypeOK, RunType
  <2>3. /\ Head(proc[p].set[c]) \in Paths
        /\ Head(proc[p].set[c]) \in Range(proc[p].set[c])
    BY <1>3, <2>2, RangeTail
  <2>4. AllFiled(disk', proc[p].set[c], c)
    BY <1>1, <2>2, FiledStays
  <2> QED BY <2>1, <2>3, <2>4, ReceiptsAssumption
<1>4. CASE Durable(p) /\ proc[p].set[c] = <<>>
  BY <1>2, <1>4 DEF Durable
<1> QED BY <1>2, <1>3, <1>4

\* The steps of a run that look up, choose and write files.
LEMMA FilesInPlace ==
    ASSUME PlaceInv, NEW p \in Procs,
           \/ \E c \in Confs : BeginAd(p, c)
           \/ Present(p) \/ ChooseTarget(p) \/ Write(p) \/ EndAd(p)
    PROVE  InPlace(disk', proc'[p])
<1> DEFINE r == proc[p]
<1>1. /\ r \in RunType /\ InPlace(disk, r) /\ RunOK(r)
      /\ proc \in [Procs -> RunType] /\ TypeOK
  BY EveryRunOK DEF PlaceInv, TypeOK
<1>2. ASSUME NEW c \in Confs, BeginAd(p, c) PROVE InPlace(disk', proc'[p])
  <2>1. /\ proc'[p].pc = "hits" /\ proc'[p].conf = c
        /\ proc'[p].seen = ExistingHashes(Dir[c])
        /\ proc'[p].saved = <<>> /\ proc'[p].present = <<>>
        /\ proc'[p].set = r.set /\ disk' = disk
    BY <1>1, <1>2 DEF BeginAd, Becomes, RunType
  <2>2. \A s \in ExistingHashes(Dir[c]) : Filed(disk, s[2], c)
    BY DEF ExistingHashes, Filed
  <2> QED BY <1>1, <2>1, <2>2, NothingFiled DEF InPlace
<1>3. ASSUME Present(p) PROVE InPlace(disk', proc'[p])
  <2>1. PICK s \in r.seen :
           Becomes(p, [r EXCEPT !.hits = Tail(@), !.present = Append(@, s[2])])
    BY <1>3 DEF Present
  <2>2. /\ proc'[p].pc = "hits" /\ r.pc = "hits" /\ proc'[p].conf = r.conf
        /\ proc'[p].seen = r.seen /\ proc'[p].saved = r.saved
        /\ proc'[p].present = Append(r.present, s[2])
        /\ proc'[p].set = r.set /\ disk' = disk
    BY <1>1, <1>3, <2>1 DEF Present, Becomes, RunType
  <2>3. s[2] \in Paths /\ Filed(disk, s[2], r.conf) /\ r.present \in Seq(Paths)
    BY <1>1, <2>2 DEF RunType, InPlace
  <2>4. AllFiled(disk, proc'[p].present, r.conf)
    BY <1>1, <2>2, <2>3, AppendFiled DEF InPlace
  <2> QED BY <1>1, <2>2, <2>4 DEF InPlace
<1>4. ASSUME ChooseTarget(p) PROVE InPlace(disk', proc'[p])
  <2>1. PICK f \in Paths : /\ Chosen(Dir[r.conf], Head(r.hits).name, f)
                           /\ Becomes(p, [r EXCEPT !.pc = "write", !.target = f])
    BY <1>4 DEF ChooseTarget
  <2>2. /\ proc'[p].pc = "write" /\ r.pc = "hits" /\ proc'[p].conf = r.conf
        /\ proc'[p].seen = r.seen /\ proc'[p].saved = r.saved
        /\ proc'[p].present = r.present /\ proc'[p].set = r.set
        /\ proc'[p].target = f /\ disk' = disk
    BY <1>1, <1>4, <2>1 DEF ChooseTarget, Becomes, RunType
  <2> QED BY <1>1, <2>1, <2>2 DEF InPlace, Chosen
<1>5. ASSUME Write(p) PROVE InPlace(disk', proc'[p])
  <2>1. /\ proc'[p].pc = "hits" /\ r.pc = "write" /\ proc'[p].conf = r.conf
        /\ proc'[p].seen = r.seen \union {<<Head(r.hits).sha, r.target>>}
        /\ proc'[p].saved = Append(r.saved, r.target)
        /\ proc'[p].present = r.present /\ proc'[p].set = r.set
        /\ disk' = [disk EXCEPT ![r.target] = Head(r.hits).sha]
    BY <1>1, <1>5 DEF Write, Becomes, RunType
  <2>2. /\ r.target \in Paths /\ r.target.dir = Dir[r.conf]
        /\ r.saved \in Seq(Paths)
    BY <1>1, <2>1 DEF RunOK, RunType, InPlace
  <2>3. InPlace(disk', r)
    <3>1. \A f \in Paths : disk[f] # Absent => disk'[f] # Absent
      BY <1>1, <1>5, FilesStay DEF Next, Step
    <3> QED BY <1>1, <3>1, PlaceStays
  <2>4. Filed(disk', r.target, r.conf)
    <3>1. Head(r.hits).sha \in Shas
      BY <1>1, <2>1, HeadOfHits DEF RunOK
    <3> QED BY <1>1, <2>1, <2>2, <3>1, ReceiptsAssumption DEF Filed, TypeOK
  <2>5. AllFiled(disk', proc'[p].saved, r.conf)
    <3>1. AllFiled(disk', r.saved, r.conf)
      BY <2>1, <2>3 DEF InPlace
    <3>2. AllFiled(disk', Append(r.saved, r.target), r.conf)
      BY <2>2, <2>4, <3>1, AppendFiled
    <3> QED BY <2>1, <3>2
  <2>6. ASSUME NEW s \in proc'[p].seen PROVE Filed(disk', s[2], r.conf)
    <3>1. CASE s \in r.seen
      BY <2>1, <2>3, <3>1 DEF InPlace
    <3>2. CASE s = <<Head(r.hits).sha, r.target>>
      <4>1. s[2] = r.target
        BY <3>2
      <4> QED BY <2>4, <4>1
    <3> QED BY <2>1, <3>1, <3>2
  <2>7. /\ AllFiled(disk', r.present, r.conf)
        /\ \A c \in Confs : AllFiled(disk', r.set[c], c)
    BY <2>1, <2>3 DEF InPlace
  <2> QED BY <2>1, <2>5, <2>6, <2>7 DEF InPlace
<1>6. ASSUME EndAd(p) PROVE InPlace(disk', proc'[p])
  <2>1. /\ proc'[p].pc = "next" /\ r.pc = "hits"
        /\ proc'[p].set = [r.set EXCEPT ![r.conf] = OnDisk(p)]
        /\ r.conf \in Confs /\ r.set \in [Confs -> Seq(Paths)]
        /\ disk' = disk
    BY <1>1, <1>6 DEF EndAd, Becomes, RunType, RunOK
  <2>2. AllFiled(disk, OnDisk(p), r.conf)
    <3>1. r.saved \in Seq(Paths) /\ r.present \in Seq(Paths)
      BY <1>1 DEF RunType
    <3>2. Range(OnDisk(p)) = Range(r.saved) \union Range(r.present)
      BY <3>1, RangeConcat DEF OnDisk
    <3> QED BY <1>1, <2>1, <3>2 DEF InPlace, AllFiled
  <2>3. ASSUME NEW c \in Confs PROVE AllFiled(disk, proc'[p].set[c], c)
    BY <1>1, <2>1, <2>2 DEF InPlace
  <2> QED BY <2>1, <2>3 DEF InPlace
<1> QED BY <1>2, <1>3, <1>4, <1>5, <1>6

LEMMA NextPlace == PlaceInv /\ [Next]_vars => PlaceInv'
<1> SUFFICES ASSUME PlaceInv, [Next]_vars PROVE PlaceInv'
  OBVIOUS
<1>1. TypeOK' /\ proc \in [Procs -> RunType]
  BY NextType DEF PlaceInv, TypeOK
<1>2. CASE UNCHANGED vars
  BY <1>1, <1>2 DEF vars, PlaceInv, UrlInPlace
<1>3. \A f \in Paths : disk[f] # Absent => disk'[f] # Absent
  BY FilesStay DEF PlaceInv
<1>4. ASSUME NEW p \in Procs, Start(p) \/ Step(p) \/ AdFails(p) \/ Killed(p)
      PROVE  PlaceInv'
  <2>1. \A q \in Procs : q # p => proc'[q] = proc[q]
    BY <1>1, <1>4 DEF Start, Step, BeginAd, Present, ChooseTarget, Write, EndAd,
       Finish, CommitFails, AdFails, Killed, Becomes
  <2>2. UrlInPlace'
    <3>1. Durable(p) \/ UNCHANGED <<file, url>>
      BY <1>4 DEF Start, Step, BeginAd, Present, ChooseTarget, Write, EndAd,
         Finish, CommitFails, AdFails, Killed
    <3> QED BY <3>1, DurableInPlace
  <2>3. InPlace(disk', proc'[p])
    <3>1. CASE \/ \E c \in Confs : BeginAd(p, c)
               \/ Present(p) \/ ChooseTarget(p) \/ Write(p) \/ EndAd(p)
      BY <3>1, FilesInPlace
    <3>2. CASE Finish(p) \/ CommitFails(p) \/ Killed(p)
      <4>1. proc'[p] = Idle
        BY <1>1, <3>2 DEF Finish, CommitFails, Killed, Becomes
      <4> QED BY <4>1, IdleInPlace
    <3>3. CASE Start(p)
      <4>1. proc'[p].pc = "next" /\ proc'[p].set = [c \in Confs |-> <<>>]
        BY <1>1, <3>3 DEF Start, Becomes, Idle
      <4> QED BY <4>1, NothingFiled DEF InPlace
    <3>4. CASE AdFails(p)
      <4>1. proc'[p].pc = "next" /\ proc'[p].set = proc[p].set
        BY <1>1, <3>4 DEF AdFails, Becomes, RunType
      <4>2. InPlace(disk', proc[p])
        BY <1>1, <1>3, PlaceStays DEF PlaceInv
      <4> QED BY <4>1, <4>2 DEF InPlace
    <3> QED BY <1>4, <3>1, <3>2, <3>3, <3>4 DEF Step
  <2>4. \A q \in Procs : InPlace(disk', proc'[q])
    <3>1. ASSUME NEW q \in Procs, q # p PROVE InPlace(disk', proc'[q])
      BY <1>1, <1>3, <2>1, <3>1, PlaceStays DEF PlaceInv
    <3> QED BY <2>3, <3>1
  <2> QED BY <1>1, <2>2, <2>4 DEF PlaceInv
<1> QED BY <1>2, <1>4 DEF Next

LEMMA PlaceHolds == Spec => []PlaceInv
<1>1. Init => PlaceInv
  BY InitType, NothingFiled, IdleInPlace DEF Init, PlaceInv, UrlInPlace
<1> QED BY <1>1, NextPlace, PTL DEF Spec

\* What Postgres names is on disk, and the receipt_file_path of an ad is one of
\* the paths of its list.
RecordedExists ==
    \A c \in Confs : file[c] # NoPath =>
        /\ file[c] \in Range(url[c])
        /\ \A f \in Range(url[c]) : disk[f] # Absent

\* Overlapping runs may tear a file of each other, and do not take it away: the
\* files that the portal serves are there, whatever fails or dies.
THEOREM AlwaysOnDisk == Spec => []RecordedExists
<1>1. PlaceInv => RecordedExists
  BY DEF PlaceInv, UrlInPlace, AllFiled, Filed, RecordedExists
<1> QED BY <1>1, PlaceHolds, PTL

-----------------------------------------------------------------------------
(* One run at a time: the archive is implemented.                          *)

Named(c) == {disk[f] : f \in Range(url[c])}

\* Of an ad on record the receipts are named, all of them and no other; of
\* another ad nothing is.
LEMMA NamedIs ==
    ASSUME IInv, PlaceInv, NEW c \in Confs
    PROVE  /\ file[c] # NoPath => Named(c) = ShasOf(c)
           /\ file[c] = NoPath => url[c] = <<>> /\ Named(c) = {}
<1>1. file[c] # NoPath => Named(c) = ShasOf(c)
  BY DEF IInv, RecordedOK, Holds, Named
<1>2. file[c] = NoPath => url[c] = <<>> /\ Named(c) = {}
  BY RangeEmpty DEF PlaceInv, UrlInPlace, Named
<1> QED BY <1>1, <1>2

\* While whole files stay and Postgres is left alone, so is the record.
LEMMA NamedStays ==
    ASSUME IInv, PlaceInv, Kept, UNCHANGED url, NEW c \in Confs
    PROVE  Named(c)' = Named(c)
<1>1. CASE file[c] = NoPath
  BY <1>1, NamedIs, RangeEmpty DEF Named
<1>2. CASE file[c] # NoPath
  <2>1. Range(url[c]) \subseteq Paths
    BY RangeIn DEF IInv, TypeOK
  <2>2. \A f \in Range(url[c]) : disk'[f] = disk[f]
    BY <1>2, <2>1, NamedIs, ShasOfType DEF Named, Kept
  <2> QED BY <2>2 DEF Named
<1> QED BY <1>1, <1>2

\* A write brings a PDF of the thread into the directory, or nothing whole.
LEMMA WriteArchived ==
    ASSUME IInv, PlaceInv, NEW p \in Procs, proc[p].pc = "write",
           NEW x \in {Torn, Head(proc[p].hits).sha},
           disk' = [disk EXCEPT ![proc[p].target] = x], UNCHANGED url
    PROVE  Arch!Next \/ UNCHANGED Arch!kept
<1> DEFINE t == proc[p].target
           d == Dir[proc[p].conf]
           h == Head(proc[p].hits)
<1>1. /\ ProcOK(p) /\ RunOK(proc[p]) /\ proc[p].conf \in Confs
      /\ t \in Paths /\ t.dir = d /\ disk[t] = Absent
      /\ proc[p].hits # <<>> /\ proc[p].hits \in Seq(Atts)
  BY EveryRunOK DEF IInv, ProcOK, TargetOK, RunOK, RunType
<1>2. Kept
  BY TargetWritten DEF IInv
<1>3. \A c \in Confs : Named(c)' = Named(c)
  BY <1>2, NamedStays
<1>4. disk'[t] = x /\ \A f \in Paths : f # t => disk'[f] = disk[f]
  BY <1>1 DEF IInv, TypeOK
<1>5. CASE x \notin Shas
  <2>1. {g \in Paths : disk'[g] \in Shas} = {g \in Paths : disk[g] \in Shas}
    BY <1>1, <1>4, <1>5, ReceiptsAssumption
  <2>2. \A g \in Paths : disk[g] \in Shas => disk'[g] = disk[g]
    BY <1>2 DEF Kept
  <2>3. Shelf' = Shelf
    BY <2>1, <2>2 DEF Shelf
  <2> QED BY <1>3, <2>3 DEF Arch!kept, Named
<1>6. CASE x \in Shas
  <2>1. x = h.sha
    BY <1>6, ReceiptsAssumption
  <2>2. x \in ShasOf(proc[p].conf)
    <3>1. h \in Range(proc[p].hits)
      BY <1>1, RangeTail
    <3> QED BY <1>1, <2>1, <3>1 DEF ProcOK, HandledOK, ShasOf
  <2>3. <<d, x>> \notin Shelf
    <3> SUFFICES ASSUME NEW f \in Paths, f.dir = d, disk[f] = x PROVE FALSE
      BY <1>6 DEF Shelf
    <3>1. <<x, f>> \in proc[p].seen
      BY <1>1, <1>6 DEF ProcOK, SeenOK
    <3> QED BY <1>1, <2>1, <3>1 DEF ProcOK, TargetOK
  <2>4. Shelf' = Shelf \union {<<d, x>>}
    <3>1. ASSUME NEW f \in Paths, disk[f] \in Shas
          PROVE  disk'[f] = disk[f]
      BY <1>2, <3>1 DEF Kept
    <3>2. \A f \in Paths : disk'[f] \in Shas => f = t \/ disk[f] = disk'[f]
      BY <1>4
    <3> QED BY <1>1, <1>4, <1>6, <3>1, <3>2 DEF Shelf
  <2>5. Arch!Save(proc[p].conf, x)
    BY <1>3, <2>3, <2>4 DEF Arch!Save, Named
  <2> QED BY <1>1, <2>2, <2>5 DEF Arch!Next
<1> QED BY <1>5, <1>6

\* A commit records the ads of the run that are not on record, all at once.
LEMMA CommitArchived ==
    ASSUME IInv, PlaceInv, NEW p \in Procs, Durable(p), UNCHANGED disk
    PROVE  Arch!Next
<1> PICK C \in SUBSET Confs :
           C = {c \in Confs : proc[p].set[c] # <<>> /\ file[c] = NoPath}
  OBVIOUS
<1>1. ASSUME NEW c \in Confs, proc[p].set[c] # <<>>
      PROVE  /\ Named(c)' = ShasOf(c)
             /\ \A x \in ShasOf(c) : <<Dir[c], x>> \in Shelf
  <2>1. /\ url'[c] = proc[p].set[c] /\ proc[p].set[c] \in Seq(Paths)
        /\ Holds(c, proc[p].set[c]) /\ AllFiled(disk, proc[p].set[c], c)
    BY <1>1 DEF Durable, IInv, PlaceInv, ProcOK, SetOK, InPlace, TypeOK, RunType
  <2>2. Named(c)' = ShasOf(c)
    BY <2>1 DEF Named, Holds
  <2>3. Range(proc[p].set[c]) \subseteq Paths /\ ShasOf(c) \subseteq Shas
    BY <2>1, RangeIn, ShasOfType
  <2>4. ASSUME NEW x \in ShasOf(c) PROVE <<Dir[c], x>> \in Shelf
    <3>1. PICK f \in Range(proc[p].set[c]) : disk[f] = x
      BY <2>1 DEF Holds
    <3> QED BY <2>1, <2>3, <3>1 DEF AllFiled, Filed, Shelf
  <2> QED BY <2>2, <2>4
<1>2. ASSUME NEW c \in Confs, proc[p].set[c] = <<>> PROVE Named(c)' = Named(c)
  BY <1>2 DEF Durable, Named
<1>3. \A c \in Confs : Named(c)' = IF c \in C THEN ShasOf(c) ELSE Named(c)
  BY <1>1, <1>2, NamedIs
<1>4. \A c \in C : /\ Named(c) = {}
                   /\ \A x \in ShasOf(c) : <<Dir[c], x>> \in Shelf
  BY <1>1, NamedIs
<1>5. Shelf' = Shelf
  BY DEF Shelf
<1>6. Arch!Record(C)
  BY <1>3, <1>4, <1>5 DEF Arch!Record, Named
<1> QED BY <1>6 DEF Arch!Next

LEMMA NextArchived ==
    OneRun /\ IInv /\ PlaceInv /\ [Next]_vars => [Arch!Next]_(Arch!kept)
<1> SUFFICES ASSUME IInv, PlaceInv, [Next]_vars
             PROVE  Arch!Next \/ UNCHANGED Arch!kept
  OBVIOUS
<1>1. CASE UNCHANGED <<disk, url>>
  BY <1>1 DEF Arch!kept, Shelf
<1>2. ASSUME NEW p \in Procs, Write(p)
      PROVE  Arch!Next \/ UNCHANGED Arch!kept
  BY <1>2, WriteArchived DEF Write
<1>3. ASSUME NEW p \in Procs, AdFails(p) \/ Killed(p)
      PROVE  Arch!Next \/ UNCHANGED Arch!kept
  <2>1. UNCHANGED url /\ Leftover(p)
    BY <1>3 DEF AdFails, Killed
  <2> QED BY <1>1, <2>1, WriteArchived DEF Leftover
<1>4. ASSUME NEW p \in Procs, Finish(p) \/ CommitFails(p)
      PROVE  Arch!Next \/ UNCHANGED Arch!kept
  <2>1. UNCHANGED disk /\ (Durable(p) \/ UNCHANGED url)
    BY <1>4 DEF Finish, CommitFails
  <2> QED BY <1>1, <2>1, CommitArchived
<1>5. ASSUME NEW p \in Procs,
             \/ Start(p) \/ \E c \in Confs : BeginAd(p, c)
             \/ Present(p) \/ ChooseTarget(p) \/ EndAd(p)
      PROVE  UNCHANGED <<disk, url>>
  BY <1>5 DEF Start, BeginAd, Present, ChooseTarget, EndAd
<1>6. CASE UNCHANGED vars
  BY <1>1, <1>6 DEF vars
<1> QED BY <1>1, <1>2, <1>3, <1>4, <1>5, <1>6 DEF Next, Step

\* process_pending_receipts, run after run with any failures and kills,
\* implements the archive: a PDF comes into a directory once and stays, and
\* the receipts of an ad are on record together, after their files, for good.
THEOREM ImplementsArchive == ASSUME OneRun PROVE Spec => ArchiveSpec
<1>1. Init => Arch!Init
  <2>1. Init => Shelf = {}
    BY ReceiptsAssumption DEF Init, Shelf
  <2> QED BY <2>1, RangeEmpty DEF Init, Arch!Init
<1> QED BY <1>1, InvHolds, PlaceHolds, NextArchived, PTL
        DEF Spec, ArchiveSpec, Arch!Spec
=============================================================================
