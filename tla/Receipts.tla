------------------------------ MODULE Receipts ------------------------------
(***************************************************************************)
(* The download of receipt PDFs (confirmed_ctl/gmail/receipts.py,          *)
(* process_pending_receipts), started by an operator from the CLI: files   *)
(* are written to disk one by one, the paths are committed to Postgres     *)
(* together at the end, and a run that dies in between is made good by a   *)
(* later run, which recognises the files by their SHA-256.                 *)
(*                                                                         *)
(* Only accepted attachments are modelled.  A path is a directory, the     *)
(* name of an attachment and the number _dedupe_name appends to it (0 for  *)
(* none).  Names are taken to be plain file names: the code joins the name *)
(* of the attachment to the directory as it comes, so one that has a       *)
(* directory part leads to another directory or to none, and nothing here  *)
(* is about it.                                                            *)
(***************************************************************************)
EXTENDS Naturals, Sequences, SequencesExt

CONSTANTS Confs,     \* the confirmations that have a gmail_thread_id
          Thread,    \* Thread[c]: the accepted attachments, [name, sha]
          Dir,       \* Dir[c]: <base>/<year>/<month>/<ad_number>
          Procs,     \* processes that may run at the same time
          NoConf, NoPath, Absent, Torn,
          MaxSuffix, MaxFaults   \* bounds

VARIABLES
    disk,    \* path -> the content of the file, by its SHA-256
    file,    \* Postgres: ad_confirmations.receipt_file_path
    url,     \* Postgres: ad_confirmations.receipt_url, a list of paths
    proc,    \* the runs of process_pending_receipts
    faults   \* failures so far

vars == <<disk, file, url, proc, faults>>

Atts  == UNION {Range(Thread[c]) : c \in Confs}
Shas  == {x.sha : x \in Atts}
Paths == [dir : {Dir[c] : c \in Confs}, name : {x.name : x \in Atts},
          n : 0 .. MaxSuffix]

ASSUME ReceiptsAssumption ==
    /\ Thread \in [Confs -> Seq(Atts)]
    /\ NoPath \notin Paths /\ NoConf \notin Confs
    /\ Absent \notin Shas \union {Torn} /\ Torn \notin Shas
    /\ MaxSuffix \in Nat /\ MaxFaults \in Nat

\* next: between two ads; hits: in the attachments of conf, left to handle;
\* write: a target is chosen.  seen pairs a SHA-256 with the file that has
\* it; todo holds the paths set on the ORM objects and not yet committed.
Idle == [pc |-> "idle", pending |-> {}, conf |-> NoConf, hits |-> <<>>,
         seen |-> {}, target |-> NoPath, saved |-> <<>>, present |-> <<>>,
         set |-> [c \in Confs |-> <<>>]]

Init ==
    /\ disk = [f \in Paths |-> Absent]
    /\ file = [c \in Confs |-> NoPath]
    /\ url = [c \in Confs |-> <<>>]
    /\ proc = [p \in Procs |-> Idle]
    /\ faults = 0

Fault == faults < MaxFaults /\ faults' = faults + 1

Becomes(p, v) == proc' = [proc EXCEPT ![p] = v]

-----------------------------------------------------------------------------
\* The query: a thread and no receipt_file_path.
Start(p) ==
    /\ proc[p].pc = "idle"
    /\ LET pending == {c \in Confs : file[c] = NoPath}
       IN  /\ pending # {}
           /\ Becomes(p, [Idle EXCEPT !.pc = "next", !.pending = pending])
    /\ UNCHANGED <<disk, file, url, faults>>

\* Mutant: the files on disk are not hashed.
ExistingHashes_None(d) == {}

\* _existing_hashes: every file of the directory, a torn one too.
ExistingHashes(d) ==
    {<<disk[f], f>> : f \in {g \in Paths : g.dir = d /\ disk[g] # Absent}}

\* Scan the thread and the directory of the next pending ad.
BeginAd(p, c) ==
    /\ proc[p].pc = "next" /\ c \in proc[p].pending
    /\ Becomes(p, [proc[p] EXCEPT !.pc = "hits", !.conf = c, !.hits = Thread[c],
                     !.pending = @ \ {c}, !.seen = ExistingHashes(Dir[c]),
                     !.saved = <<>>, !.present = <<>>])
    /\ UNCHANGED <<disk, file, url, faults>>

\* duplicate_sha256: the file is there already.
Present(p) ==
    /\ proc[p].pc = "hits" /\ proc[p].hits # <<>>
    /\ \E s \in proc[p].seen :
          /\ s[1] = Head(proc[p].hits).sha
          /\ Becomes(p, [proc[p] EXCEPT !.hits = Tail(@),
                           !.present = Append(@, s[2])])
    /\ UNCHANGED <<disk, file, url, faults>>

\* Mutant: the name of the attachment as it is.
Chosen_AsNamed(d, name, f) == f = [dir |-> d, name |-> name, n |-> 0]

\* _dedupe_name: the first name that is free, for a plain file name.
Chosen(d, name, f) ==
    /\ f \in Paths /\ f.dir = d /\ f.name = name
    /\ disk[f] = Absent
    /\ \A g \in Paths : (g.dir = d /\ g.name = name /\ g.n < f.n) => disk[g] # Absent

ChooseTarget(p) ==
    /\ proc[p].pc = "hits" /\ proc[p].hits # <<>>
    /\ \A s \in proc[p].seen : s[1] # Head(proc[p].hits).sha
    /\ \E f \in Paths :
          /\ Chosen(Dir[proc[p].conf], Head(proc[p].hits).name, f)
          /\ Becomes(p, [proc[p] EXCEPT !.pc = "write", !.target = f])
    /\ UNCHANGED <<disk, file, url, faults>>

\* open(target, "wb"), which truncates what is there.
Write(p) ==
    /\ proc[p].pc = "write"
    /\ LET sha == Head(proc[p].hits).sha
           f   == proc[p].target
       IN  /\ disk' = [disk EXCEPT ![f] = sha]
           /\ Becomes(p, [proc[p] EXCEPT !.pc = "hits", !.hits = Tail(@),
                            !.target = NoPath, !.saved = Append(@, f),
                            !.seen = @ \union {<<sha, f>>}])
    /\ UNCHANGED <<file, url, faults>>

\* Mutants: a file found on disk does not count; "if on_disk" is dropped.
OnDisk_SavedOnly(p) == proc[p].saved

OnDisk_NeverEmpty(p) ==
    IF proc[p].saved \o proc[p].present = <<>> THEN <<NoPath>>
    ELSE proc[p].saved \o proc[p].present

\* on_disk: new files first, then the ones that were there.
OnDisk(p) == proc[p].saved \o proc[p].present

\* The paths of the ad, if it has any, are set on the ORM object.
EndAd(p) ==
    /\ proc[p].pc = "hits" /\ proc[p].hits = <<>>
    /\ Becomes(p, [proc[p] EXCEPT !.pc = "next", !.conf = NoConf, !.seen = {},
                     !.saved = <<>>, !.present = <<>>,
                     !.set = [@ EXCEPT ![proc[p].conf] = OnDisk(p)]])
    /\ UNCHANGED <<disk, file, url, faults>>

\* What a write that does not complete leaves behind.
Leftover(p) ==
    \/ UNCHANGED disk
    \/ /\ proc[p].pc = "write"
       /\ \E x \in {Torn, Head(proc[p].hits).sha} :
             disk' = [disk EXCEPT ![proc[p].target] = x]

\* Mutant: the paths saved before the failure are recorded.
AdFails_Records(p) ==
    /\ proc[p].pc \in {"hits", "write"}
    /\ Fault
    /\ Leftover(p)
    /\ Becomes(p, [proc[p] EXCEPT !.pc = "next", !.conf = NoConf, !.seen = {},
                     !.hits = <<>>, !.target = NoPath,
                     !.saved = <<>>, !.present = <<>>,
                     !.set = [@ EXCEPT ![proc[p].conf] = OnDisk(p)]])
    /\ UNCHANGED <<file, url>>

\* "per-ad isolation; keep going": Gmail or the disk failed.
AdFails(p) ==
    /\ proc[p].pc \in {"hits", "write"}
    /\ Fault
    /\ Leftover(p)
    /\ Becomes(p, [proc[p] EXCEPT !.pc = "next", !.conf = NoConf, !.seen = {},
                     !.hits = <<>>, !.target = NoPath,
                     !.saved = <<>>, !.present = <<>>])
    /\ UNCHANGED <<file, url>>

\* One commit for all ads.
Durable(p) ==
    LET done == {c \in Confs : proc[p].set[c] # <<>>}
    IN  /\ file' = [c \in Confs |-> IF c \in done THEN Head(proc[p].set[c])
                                    ELSE file[c]]
        /\ url' = [c \in Confs |-> IF c \in done THEN proc[p].set[c] ELSE url[c]]

Finish(p) ==
    /\ proc[p].pc = "next" /\ proc[p].pending = {}
    /\ Durable(p)
    /\ Becomes(p, Idle)
    /\ UNCHANGED <<disk, faults>>

\* The commit fails, or its answer is lost.
CommitFails(p) ==
    /\ proc[p].pc = "next" /\ proc[p].pending = {}
    /\ Fault
    /\ Durable(p) \/ UNCHANGED <<file, url>>
    /\ Becomes(p, Idle)
    /\ UNCHANGED disk

Killed(p) ==
    /\ proc[p].pc # "idle"
    /\ Fault
    /\ Leftover(p)
    /\ Becomes(p, Idle)
    /\ UNCHANGED <<file, url>>

-----------------------------------------------------------------------------
Step(p) ==
    \/ \E c \in Confs : BeginAd(p, c)
    \/ Present(p) \/ ChooseTarget(p) \/ Write(p) \/ EndAd(p)
    \/ Finish(p) \/ CommitFails(p)

Next == \E p \in Procs : Start(p) \/ Step(p) \/ AdFails(p) \/ Killed(p)

Spec == Init /\ [][Next]_vars

\* The operator starts the command again as long as ads are pending.
Fairness == \A p \in Procs : WF_vars(Start(p)) /\ WF_vars(Step(p))

LiveSpec == Spec /\ Fairness
-----------------------------------------------------------------------------
(* Properties.                                                             *)

RunType ==
    [pc : {"idle", "next", "hits", "write"}, pending : SUBSET Confs,
     conf : Confs \union {NoConf}, hits : Seq(Atts),
     seen : SUBSET ((Shas \union {Torn}) \X Paths),
     target : Paths \union {NoPath}, saved : Seq(Paths), present : Seq(Paths),
     set : [Confs -> Seq(Paths)]]

\* Every path that a run holds or Postgres has is a path; a run between two
\* files of an ad knows its ad, and one that writes has a file to write.
TypeOK ==
    /\ disk \in [Paths -> Shas \union {Absent, Torn}]
    /\ file \in [Confs -> Paths \union {NoPath}]
    /\ url \in [Confs -> Seq(Paths)]
    /\ proc \in [Procs -> RunType]
    /\ \A p \in Procs :
          /\ proc[p].pc \in {"hits", "write"} => proc[p].conf \in Confs
          /\ proc[p].pc = "write" => /\ proc[p].target \in Paths
                                    /\ proc[p].hits # <<>>
    /\ faults \in 0 .. MaxFaults

ShasOf(c) == {x.sha : x \in Range(Thread[c])}

\* A path that Postgres holds names a whole receipt of that ad's own thread,
\* whatever failed before and whatever other ads share its directory.
RecordedIsReceipt ==
    \A c \in Confs : file[c] # NoPath =>
        \A f \in {file[c]} \union Range(url[c]) : disk[f] \in ShasOf(c)

\* An ad leaves the pending ones only with all the receipts of its thread.
RecordedIsComplete ==
    \A c \in Confs : file[c] # NoPath =>
        ShasOf(c) \subseteq {disk[f] : f \in Range(url[c])}

\* A run never keeps two copies of one PDF in a directory, also when it makes
\* good a run that died before its commit.
NoCopies ==
    \A f, g \in Paths :
        (f # g /\ f.dir = g.dir /\ disk[f] \in Shas) => disk[f] # disk[g]

\* A file once written whole is never replaced.
NothingOverwritten ==
    [][\A f \in Paths : disk[f] \in Shas => disk'[f] = disk[f]]_vars

\* Runs, failures and kills implement the archive of Archive.tla: a PDF comes
\* into a directory once and stays, and the receipts of an ad are on record
\* together or not at all, after their files and for good.
Shelf == {<<f.dir, disk[f]>> : f \in {g \in Paths : disk[g] \in Shas}}

Arch == INSTANCE Archive WITH
           ReceiptsOf <- [c \in Confs |-> ShasOf(c)], Place <- Dir,
           shelf <- Shelf,
           archive <- [c \in Confs |-> {disk[f] : f \in Range(url[c])}]
ArchiveSpec == Arch!Spec

\* Every ad with a receipt in its thread gets its receipt_file_path in the
\* end, also when the files were written by runs that died.
EveryReceiptRecorded ==
    \A c \in Confs : Thread[c] # <<>> => <>(file[c] # NoPath)
=============================================================================
