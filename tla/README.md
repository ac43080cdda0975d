# confirmed-ctl: formal specification

`confirmed-ctl` reconciles newspaper-ad clearances with card charges. Bank alert
e-mails are ingested into Postgres, staff open an ad in the CRM, are offered the
charges that may have paid for it, and confirm one of them: the CRM row is marked
Done and Postgres records the confirmation; receipts are downloaded later.

The program is small, but it works on **two databases without a common
transaction**, in **several processes** (two gunicorn workers, a daemon, operators
at the command line, staff in the CRM), on **external services** that fail. What is
hard about it is what a unit test with one session and one thread does not reach:
that is what these modules are about.

Paths below are relative to `src/confirmed_ctl/` unless they say otherwise.

## 1. Inventory

| Component | State it keeps | Operations | Model |
|---|---|---|---|
| Confirmation (`api/routes.py` `confirm_ad`) | CRM: `statclearancenews`, `trxstring`; Postgres: `ad_confirmations`, `bank_transactions.confirmed_ad_crm_id` | `POST /confirm`, `GET /unconfirmed`, `GET /reconciled` | `Confirm`, `Settlement` |
| CRM adapter (`crm/client.py`) | one MariaDB row per ad, filtered by several columns the staff edit | `update_ad_clearance`, three SELECTs | in `Confirm` |
| Candidates and near misses (`matching/scorer.py`) | none | `GET /candidates/<ad>` | `Candidates`, `Scorer`, `Amounts` |
| Suggestions (`api/routes.py`) | none | `GET /suggested` | `Candidates` |
| E-mail ingest (`ingest/email_scan.py`, `daemon.py`) | `bank_transactions`, `confirmed_ctl_sync_log` | an hourly pass of the daemon, `sync` | `EmailScan`, `Ledger` |
| Ignore patterns (`ingest/ignore.py`) | `ignore_memo_patterns`, `bank_transactions.ignored` | `ignore add / seed / list / backfill` | in `EmailScan`, `Confirm`, `Candidates` |
| Receipt downloads (`gmail/receipts.py`) | files; `receipt_file_path`, `receipt_url` | `receipts`, `receipt download-receipts` | `Receipts`, `Archive` |
| Vendor registry (`vendors.py`) | `ad_reps`, `bank_merchant_strings`, their links | `/vendor-map/*`, `vendors scan` | writers in `Vendors`, `Registry`; read side in `Candidates` |
| Representative scan (`ingest/rep_scan.py`) | the registry, the sync log | `/vendor-map/scan-reps`, `vendors scan-reps` | in `Vendors` |
| Alert parsing, source ids (`email_scan.py`, `dedup.py`) | none | pure functions of the mail | `Alerts`, `Mails` |
| Schema and sessions (`db/`) | constraints, transactions | commit, rollback | where a module meets them |
| Match memory (`matching/rag.py`) | Chroma | a write after the commit of a confirm | changes no modelled state |
| Gmail client (`gmail/client.py`) | token file | list, fetch, download, back-off | "returns or fails" |
| Command line, application, token guard, sync status, migrations | settings | start the operations above | see PROJECT.json |

**How they interact.** Everything meets in Postgres. The ingest adds bank rows and
the backfill flags them; the popup and the page of suggestions rank the rows that
are neither flagged nor consumed; a confirm consumes one, having written the CRM
first; the receipt download works through the confirmations that have a mail thread
and no file. The vendor registry lends the ranking its boosts and is written by requests
and scans of its own. No component calls another one across a process: they see each other's
*commits*, at READ COMMITTED, statement by statement.

**What is hard, and what must hold.**

* *Confirmation.* The CRM UPDATE commits before the Postgres rows do; the worker may
  fail, lose an answer or be killed between the two; two workers may serve one ad, or
  two ads the same charge; the gate `CRM_WRITE_ENABLED` changes with a redeploy; staff
  change the CRM row meanwhile. It must hold that an ad is recorded at most once, that
  a 200 is never revoked, that the stores never disagree *silently*, that a consumed
  charge is backed by its confirmation and never offered again, and that retries heal.
* *Candidates and suggestions.* One request is several SELECTs, each on a newer state
  than the last; SQLAlchemy's identity map keeps older attributes than the SQL filter
  saw; lists are cut; caught failures leave the transaction aborted. A row must not be
  shown twice, not vanish between the lists and not be offered after it was taken.
* *Scoring.* The tolerances for the price and for the price with the 3.99% card fee
  overlap and are coded twice. The two must agree and the score must be monotonic.
* *Ingest.* Passes overlap, each a long transaction full of unique-key inserts; the
  window moves; the pattern list is read once per pass. Nothing may be stored twice,
  lost, deadlocked or misreported in the sync log.
* *Alert parsing.* A batched alert is cut into blocks at its account rows; labels repeat,
  cells may be empty or unreadable, and one that cannot be read today may be read later. A
  transaction must take its fields from its own block, and the keys of the others must
  not move, or a later pass stores them a second time.
* *Vendor registry.* Every writer looks a key up and inserts it when it is missing, with
  other transactions in between; updates are held back until the next statement; scans
  insert in any order and may deadlock; rows are deleted between a look-up and the insert
  of a link. No key may be there twice, no link may dangle, a scan may take nothing away,
  and what is reported as registered must be there.
* *Receipts.* Files are written one by one and committed all together at the end; a
  run that dies is repeated. The record must be complete, true and without copies.

PROJECT.json lists every hazard at its line with the properties that watch it.

## 2. Modules

| Module | Role |
|---|---|
| `Settlement` | abstract specification of what confirming an ad promises |
| `Confirm` | `POST /confirm` in workers and tabs, over the CRM and Postgres; implements `Settlement` |
| `ConfirmProofs` | theorems about `Confirm` |
| `Ledger` | abstract specification of what the ingest promises to the readers of its tables |
| `EmailScan`, `EmailScanProofs` | overlapping ingest passes, patterns and backfill; implements `Ledger`; theorems |
| `Alerts` | the parser of an alert and the keys it derives, as functions |
| `Mails`, `MailsProofs` | a sweep over alert tables that carries the properties of `Alerts`; theorems |
| `Archive` | abstract specification of what the receipt downloads promise |
| `Receipts`, `ReceiptsProofs` | receipt downloads with crashes and repetition; implements `Archive`; theorems |
| `Registry` | abstract specification of the vendor registry for its readers |
| `Vendors`, `VendorsProofs` | the writers of the registry as concurrent transactions; implements `Registry`; theorems |
| `Scorer` | the arithmetic of the score, exactly |
| `Amounts`, `AmountsProofs` | a sweep over amounts that carries the properties of `Scorer`; theorems |
| `Candidates`, `CandidatesProofs` | the popup and the page as sequences of SELECTs; theorems |
| `MC...` | instances for TLC, with the `.cfg` files of the runs |

An operator with a suffix (`Insert_NoConstraint`) and a comment beginning *Mutant*
is a plausible bug in the definition it stands beside; each property is shown to
fail for one of them, so none holds by the shape of the model.

### Confirm

`crmRow`, `stat`, `trx` are the CRM row: whether the list queries show it,
`statclearancenews`, and the transaction from which `trxstring` was built (its text is
display; staff edits of it are not modelled). `conf` is `ad_confirmations`, `rows`,
`ignored`, `pointer` are `bank_transactions`, `gate` is the write gate, `tab` the browser tabs. A tab keeps the
candidate set it was given when its popup opened. Its request is served in three
steps, at which other actors may interleave: **reads** (idempotency check, `txn`
lookup: `AlreadyConfirmed`, `BeginCrmWrite`, `SkipCrmWrite`), **CRM call**
(`CrmWrites`, `CrmMatchesNoRow` when the id is gone, `CrmFails`, before or after the
server committed), **commit** (`Commits`, `CommitMeetsUnique`, `CommitFails`, before or
after). `WorkerKilled` may end it anywhere. A COMMIT is one step because its flush
locks the bank row and then the unique ad key, so Postgres serialises two commits of
one ad. The actions of the others are `StaffMarksDone`, `StaffReopens`, `StaffMovesRow`,
`Ingest`, `Backfill`, `Redeploy`. The status is an enum in the CRM's own form, so it goes
back as well as forth: an ad that was confirmed and is set back to Confirmed is in neither
list, and a new confirm of it is answered 409. Two variables are history: `reopened`, the ads
the staff set back since they were last Done, and `traced`, the ads an error log names or
whose request died with its worker (once traced, an ad stays so). The mode kept in a `conf`
row is the `crm_write` field of the answer, not a column.

`Settlement` has the two stores and nothing else: `crm`, the transaction of the tool's last
UPDATE of an ad, and `record`, the confirmations. An ad is recorded once and for good, and a
record that reports `written` has an UPDATE of its ad before it. `SettlementSpec` maps `crm`
to `trx`; what the staff do is a stutter.

### EmailScan

`run[r]` is a pass of `run_email_scan`: `found` the parsed transactions, `todo` those
left to insert, `own` its uncommitted inserts, `pats` whether the load saw the pattern,
`tx` whether Postgres still accepts statements. The steps are `Scan`/`ScanFails`,
`LoadPatterns`/`LoadFails`, `Skip`/`Insert` per row in the order of the listing,
`StatementFails`, `AllInserted`, `Finish`/`CommitFails`, `Killed`. An INSERT of a key
that another pass holds uncommitted waits for its outcome (`Held`), as Postgres does.
The mailbox is only read, so listing and fetching are one step. `Poison` are rows that
Postgres refuses for another reason than their key (`Numeric(10,2)`).

`Ledger` is what a reader of `bank_transactions` and the sync log may rely on. It has no
passes: mails are delivered, what is new of some mails is stored with its count in one
step, and a backfill flags. `LedgerSpec` maps `table` to the committed rows and `counted`
to the sum of `txns_new`: a batched mail is never half there, however passes overlap,
fail or die, and no key is stored or counted twice. It is about keys: two mails about one
charge are two keys. `confirmed_ctl_sync_log` is shared with the representative scan;
`logged` and `last` are about the rows of source `email-scan`.

### Alerts, Mails

`ParseMessage` follows `parse_message`: `Pairs` drops rows with an empty cell, `Field` takes
the first row of the first label that is present, `Amount` and `Posted` fail closed or
fall back to the day Gmail received the mail, `SplitBlocks` cuts a batched alert, and
`SourceTxnId` numbers the blocks *before* the unreadable ones are dropped. A mail is the
schema its subject routes to and its rows; a cell is kept up to what the regular
expressions extract (an amount, a date, unreadable, empty). `Pairs` and `SplitBlocks` go
through the rows as the loops of the source do, as functions of how many rows were read.
`Mails` grows a table row by row, from the amounts `Values`, and says independently, by positions, where a reader of the table finds what belongs
to a transaction (`LaidOut`): the parser is checked against that. The blocks that
`EmailScan` takes as a constant are those the parser finds in concrete mails
(`MCBlocksAreParsed`, an assumption TLC evaluates).

### Receipts

`proc[p]` is a run of `process_pending_receipts`: `seen` the hashes of the directory,
`hits` the attachments left, `saved`/`present` the files written or recognised, `set`
the paths waiting for the one commit at the end. `ChooseTarget` and `Write` are two
steps because `_dedupe_name` looks before the file is opened. A failed or killed write
leaves a torn or a whole file (`Leftover`). `AdFails` isolates one ad as the loop does.
Which attachments are receipts (`classify_attachment`) is the constant `Thread`. A path is a
directory, a name and a suffix: attachments are taken to have plain file names (section 5).

`Archive` is what a reader of the disk and of `ad_confirmations` may rely on: a PDF comes
into the directory of an ad once and stays, and the receipts of an ad go on record all
together, once, when they are all in its directory. `ArchiveSpec` maps `shelf` to the
whole files and `archive[c]` to the PDFs that `receipt_url` names; runs, torn files and
lost commits are stutters.

### Vendors, Registry

`rows` are `ad_reps` and `bank_merchant_strings` under one set of ids, `links` their
links; each row carries `by`, the transaction that inserted it, or `Db` once committed.
`txn[p]` is a request or a scan, which is one Postgres transaction: `PostRep`,
`PostString`, `PostLink`, `RepScan`, `Seed` begin it with the keys it asks for; `Look` and
`Insert`/`Update` handle them one by one in order; `LookLink` and `InsertLink` follow for a
link; `Commit`, `Refuse` (400 or 404 from inside the session), `FlushFails` (a key, pair or end that
others changed since it was read), `Deadlocked` and `Fails` end it. An UPDATE is computed
when the row is read and sent with the next statement (`hit`), as SQLAlchemy's unit of work
does, and keeps its row locked (`set`). An INSERT waits for an uncommitted row of its key;
a circle of waiting transactions is broken as Postgres does, by cancelling one. The
operator's `Edit`, `Rename`, `Delete` (with its cascade) and `Unlink` look at one row and are
one step each. Ids are kept up to renaming: a key has a few, and one is used again only
when no transaction refers to it. The listing that Gmail returns to the representative
scan is a constant; when Gmail itself fails, the scan writes nothing but a SyncLog row, and
is not modelled. The `domain`, `org` and `notes` columns are display.

`Registry` is what readers see: sets of representatives and strings and the pairs between
them. A request is open with the keys it asked for (`Ask`, `AskPair`); each of them it finds
or goes on missing (`Find`, `FindPair`); then everything it misses comes in one step
(`Register`, or `Pair` with the link), none of it a second time, or nothing does (`Cancel`).
`RegistrySpec` maps the tables to the committed rows, `open` to the transactions that run
and `missing` to the keys they have inserted or still look up: a scan that commits row by row,
or a refused link that leaves the end it registered, does not implement it.

### Scorer, Amounts, Candidates

Amounts are whole cents, compared in ten-thousandths of a cent because the fee
multiplier is 1.0399; partial scores are hundredths, so every constant of the source is
an integer and the model is exact. The source computes in floats: a value *exactly* on a
boundary may fall on the other side there. Prices are not negative.

`Candidates` serves one request at a time: readers change nothing another reader
sees, so two readers would add nothing. The popup is `OpenPopup`,
`ReadLinks`/`LinksFail`, `List`/`ListFails`, `Exclude`/`ExcludeFails`; the page is
`OpenPage`, the same link step, `RankAd`/`RankAdFails` once per ad, `EndPage`. Between
any two the writers commit. The SELECTs of the link index are one step, because only boosts
depend on it. A listing is a set, chosen among all cuts that a stable or
unstable order of equal scores may produce (`Tops`). `SeenMatched` models the identity
map: a row the session already loaded keeps the attributes it had. `_score_vendor`
(substring, alias map, `difflib`) is the constant `Vendor`: any value in 0..100.
`gone`, `closed` and `seen` are history variables.

## 3. Runs

| Run | Question | States |
|---|---|---|
| `confirm_one_ad` | two tabs, one ad, two charges, two failures: `ConfirmedIsDurable`, `DiscrepancyTraced`, `LimboExplained`, and the refinement `SettlementSpec` | 496 thousand |
| `confirm_one_txn` | two ads offered one charge that an ignore pattern matches: `PointerBacked`, `ConsumedNeverReturns` | 1.1 million |
| `confirm_live` | two tabs on one worker, two failures: `EveryRequestEnds`, `OrphanHeals` | 78 thousand |
| `scan_safe` | daemon and operator, three alerts (one batched), a refused row, one failure, a pattern and backfills: `LogsAccountForRows`, `QuietBackfillHolds`, `SuccessMeansStored`, and the refinement `LedgerSpec` | 664 thousand |
| `scan_days` | five days, a look-back of two, one failure: `NoWaitCycle`, `AgedOutIsStored`, `PassEnds`, `AlertIsStored` | 228 thousand |
| `receipts_repeated` | three ads in one directory and one in another, three failures or kills: `RecordedIsReceipt`, `NoCopies`, `NothingOverwritten`, `EveryReceiptRecorded`, and the refinement `ArchiveSpec` | 113 thousand |
| `amounts_sweep` | every amount against eleven prices: `StrongIsPlausible`, `CloserScoresNoLess`; every alert table of up to four rows, of up to six when batched: `ParsedAsLaidOut`, `KeysTellApart`, `UnreadableCostsOne` | 598 thousand |
| `candidates_safe` | writers between the queries: `PopupListsOnce`, `TakenIsNotOffered`, `PlausibleIsShown` | 1.5 million |
| `vendors_safe` | two requests or scans, two senders and a string, an edit or delete, one failure: `UniqueKeys`, `LinksHaveEnds`, `ScanLogIsTrue`, `DoneMeansRegistered`, `NonDestructive`, and the refinement `RegistrySpec` | 972 thousand |

Every run of a protocol also checks its type invariant. Some properties are proved and no
run states them: `WrittenWasDone` (that only the staff take back what a confirm wrote to the
CRM; `SettlementSpec` has the order of the two writes), `StoredOnce` (`LedgerSpec`
and `LogsAccountForRows` do), `RecordedIsComplete` (`ArchiveSpec` does),
`PlausibleClearsThreshold`, and `RecordedExists`, `OneSuggestionPerAd` and `OnlyAdvances`, which are stated in the modules of their proofs.

Three runs expect a violation: the code does not do what its own documentation says.

| Run | What the counterexample shows |
|---|---|
| `confirm_heals` | Two tabs confirm one ad with different charges and *nothing fails*. Both write the CRM, one commit meets the unique key and is told that "retry is idempotent/self-healing" (`api/routes.py:548`); its retry gets 409 before the CRM is written again. If the loser wrote the CRM last, the CRM names a charge no confirmation has, for good. |
| `confirm_pointed_back` | Two popups were opened before either confirmed. Both confirms of one charge succeed, and the first confirmation's bank row points at the second ad: one charge settles two ads. |
| `scan_every_run` | One row that Postgres refuses rolls back the pass *with* its SyncLog row, against "logging every run" (`src/README.md:41-42`). `GET /sync/status` keeps showing the last good pass. |

Each counterexample needs one thing, and a theorem says that without it the statement holds:
two popups of one ad (`RetriesHealAlone`), two popups offering one charge
(`PointedBackAlone`), a refused statement (`LoggedUnlessRefused`).

**Bounds.** Two tabs are the least that race, and one worker fewer than tabs the least
that queue; two charges on one ad, and one charge on two ads, are the two ways two tabs
can disagree. Two failures let the recovery of a failure fail. `scan_safe` needs an
alert of two blocks so that a pass can fail between rows of one message; `scan_days`
needs one day more than the look-back and the failure, so that an alert can leave the
window (`MaxDay` 4, look-back 2, one failure). `receipts_repeated` has two PDFs of one
name, one PDF in two threads under different names, one in two directories, and a thread
without any.
`amounts_sweep` takes prices on both sides of $200, where 0.5% overtakes $1; six rows
(`MaxRows`) hold two whole transactions of a batched alert or three that lack a date, and a
heading or a repeated label in every place. `candidates_safe` cuts its lists at two and its
page at one so that they are full already with four rows; the rows are on the last day of
the window, a day after it, at the price with the fee, and a wrong amount with the right
name. `vendors_safe` has two senders so that scans can meet them in different orders (and
deadlock), one of them in two messages and one without a name, a message of our own and one
beyond `MaxMessages`, and two ids per key so that a deleted row can come back as another.
`MaxFaults`, `MaxDay`, `MaxSuffix`, `MaxRows` and `MaxEdits` are the only bounds in guards.
Symmetry is used in two safety runs of `Confirm`, over tabs and ads, and in `vendors_safe`,
over the transactions, never where liveness is checked. `confirm_one_txn` also has a VIEW
(`WithoutStatus`) that leaves out `stat` and `reopened`: neither property reads them, and only
the staff's own changes of them do.

**Deadlock** is checked in all runs but `amounts_sweep`, where a sweep ends at its
last amount or its last row.

**Fairness.** `Confirm`: a listening socket's queue is first in first out, so a request
that keeps finding a free worker is taken (strong fairness of `Reads`); both store calls
have timeouts (weak fairness of `CrmCall`, `CommitCall`); a user who is told to retry
does (`Retry`, with `MayGiveUp = FALSE`). `EmailScan`: a waiting INSERT is granted in
turn, hence strong fairness of `Pass`, and the daemon wakes every interval (weak
fairness of its `Scan`); the operator owes nothing, nor do failures.
`NextDay` waits for the daemon's pass of the day: the interval is an hour. `Receipts`:
the operator repeats the command as long as ads are pending. Failures are bounded, not
fair: `AlertIsStored` and `AgedOutIsStored` hold only if fewer passes fail than the
window has days, which is what the code can promise.

## 4. Proofs

TLAPS checks the following for *every* value of the constants that satisfies the named
assumptions (`ConfirmAssumption`, `ScanAssumption`, `PricesAssumption`,
`CandidatesAssumption`, `VendorsAssumption`, `ReceiptsAssumption`, `MailsAssumption`), which
say no more than that NULL is not a key, that bounds are naturals, that what the constants
list are rows, messages or files, and that an empty, an unreadable and a readable cell differ. Some theorems need more and say so in their statement: `OneRun` (receipt
runs one after the other), `EnoughDays` (fewer failures than the window has days, and
no row that Postgres refuses for good), `~MayGiveUp` (who is told to retry does), and, of a
behaviour, `[]OneTabPerAd`, `[]NoSharedOffer` or that no transaction of a pass is broken.

* **ConfirmProofs.** The type is not inductive alone: a commit stores the ad of its tab,
  which must be an ad and not NULL. `IInv == TypeOK /\ TabInv` adds that, that a request
  in service has no answer yet, and that a request past its CRM write has an ad that the tool
  wrote and that is Done or was reopened (`WasWritten`). From it: `PointerBacked` (rows of `conf` are only added and only `Commits` moves
  a pointer, together with the row that backs it), `WrittenWasDone` (nobody but the staff takes
  Done back, and then the ad is in `reopened`), `LimboExplained` (from the former), `ConfirmedIsDurable`,
  `DiscrepancyTraced`, the action property `ConsumedNeverReturns`, and
  **`ImplementsSettlement`**: every step of `Confirm` is a step of `Settlement` or a
  stutter, with `crm` the transaction of the tool's last UPDATE and `record` the confirmations.
  Two theorems are about what the runs refute. `RetriesHealAlone`: while no ad is open in two
  tabs (`OneTabPerAd`), a request in service is the first for its ad, and what it wrote to
  the CRM is confirmed or carried by a request that will be sent again (`HealInv`).
  `PointedBackAlone`: while no two tabs offer one row (`NoSharedOffer`), what a popup offers
  stays free until its own ad is confirmed (`OfferedIsFree`), so no commit moves a pointer.
* **EmailScanProofs.** The invariant couples the passes to the table: `PassOK` says
  what a pass has inserted or skipped at each point, `PatternInv` that after a quiet
  backfill every pass that can still commit a row knows the pattern. From it
  `StoredOnce`, `LogsAccountForRows` (the sum of `txns_new` *is* the cardinality of the
  table, by the disjointness of uncommitted inserts), `QuietBackfillHolds`,
  `SuccessMeansStored`, and `NoWaitCycle`, for circles of any length among any number of
  passes: who waits, waits for a pass that is further on in the listing (`WaitsBehind`),
  and of finitely many transactions one is the last (`LastInListing`). `NeverTurnsBack` is
  the other half of the reason why passes end: a bound on the steps a pass has left
  (`Left`) falls with each of its steps and rises with nobody's. `LoggedUnlessRefused`:
  every pass is logged, whatever else fails, if no statement is refused.
  `AgedOutAlwaysStored` needs an account of the failures: `WindowInv` says that an alert
  that waits since *n* days has cost a failure for each of them but the current one
  (`Spent`), and that a pass of the daemon that is not doomed carries every waiting alert; an
  alert outside the window would have cost more failures than there are. The refinement
  **`ImplementsLedger`** adds `FoundInv` (what a pass found is the transactions of mails that
  have arrived); a commit then is `Store` of those mails, by the disjointness above.
* **AmountsProofs.** `StrongIsPlausible`, `PlausibleClearsThreshold` and
  `CloserScoresNoLess` for every price, by integer arithmetic.
* **CandidatesProofs.** `ListInv` says what lists are made of, `TakenInv` that what was
  taken when a request arrived is still taken. From them `TypeOK` with the bounds of the
  lists, `PopupListsOnce` and `TakenIsNotOffered`, for any windows, limits and scores.
  `ShownInv` adds what a listing leaves out: a fitting row is in it unless it was taken or
  the listing is full. From it `PlausibleIsShown`; its arithmetic is that a plausible
  amount alone clears the threshold. `OneRowPerAd`: a page names no ad twice, because what
  is suggested was taken off the list of ads to rank (`PageInv`).
* **ReceiptsProofs.** `TypeOK` for any number of runs. For runs one after the other
  `IInv` says what a run knows: the files of the directory are those it has `seen`, its
  target is free and its hash is not among them (`SeenOK`, `TargetOK`), every attachment
  it is done with is on disk under a path it holds (`HandledOK`), and the paths that wait
  for the commit, like the recorded ones, name all the receipts of their ad and no others
  (`SetOK`, `RecordedOK`). The step of one ad must not disturb the paths of another: whole
  files stay (`Kept`). From it `RecordedIsReceipt`, `RecordedIsComplete`, `NoCopies` and
  `NothingOverwritten`, for any threads, failures and kills. `PlaceInv` adds, for any number
  of runs at once, that every path a run or Postgres holds names a file that is there, if
  perhaps torn by another run (`RecordedExists`): no step takes a file away (`FilesStay`). With it follows the refinement **`ImplementsArchive`**: a write is
  `Save` (or leaves a torn file, a stutter), and a commit is `Record` of the ads that were
  not on record, whose files the invariant knows to be whole and in place.
* **MailsProofs.** The three properties of the parser, for tables and batches of any
  length. What a loop over the rows computes is shown by a least counterexample
  (`LeastElement`: a set of naturals that is not empty has a least element), applied to the
  *set* of table lengths at which the claim fails, because no induction theorem that takes
  an operator can be used. `EveryTable` is the result: for every table the pairs are the
  rows that count, in order, and the blocks are the extents between account rows. From it
  `ParsedIs`: the transactions of a mail are exactly those that a reader finds by positions,
  one for each legible extent. Then `ParsedAsLaidOut`; `KeysTellApart`, because two extents
  have different indices; and `UnreadableCostsOne`, because spoiling a cell moves no account
  row, so that the other extents keep their rows and their indices (`OneExtent`: a row is
  in one extent).
* **VendorsProofs.** `TypeOK`, with what a transaction holds at each point (`TxnOK`);
  `UniqueKeys` and `LinksHaveEnds`, each inductive on top of it because the constraints of
  the database are checked where a row is inserted and the locks keep ends in place
  between then and the commit; and `NonDestructive`, for any number of transactions.
  `CountInv` keeps the books of a scan (what it inserted, what it found, what is left of
  its sample), hence `ScanLogIsTrue`. `DoneInv`: every position that a request is done
  with has a row that the request sees, and no rollback of another takes it back, hence
  `DoneMeansRegistered`. The refinement **`ImplementsRegistry`** needs `RegistryInv`: the
  uncommitted rows of a request are of one kind, or the ends of the link it asked for; and
  a link that was there already had committed ends, so the request then has no rows of
  its own. It also needs `KeysInv`: a request looks a key up once, so what it has inserted it
  does not look up again. Then inserting a key is a stutter (missing before, missing still),
  reading a row that is there is `Find`, a commit is `Register` or `Pair` of exactly what the request
  inserted, and every refusal, failure and deadlock is `Cancel`.

**Only model-checked:** the liveness properties (fairness and ENABLED are outside the
prover's reach). Every invariant, action property and refinement that a passing run checks
is also proved.

## 5. What the models leave out

* The text of anything: the HTML and the regular expressions of the alerts, memo
  patterns, attachment classification, vendor similarity, CRM column parsing, JSON.
* What overlapping receipt runs write. `Receipts` allows several processes (`Procs`), but nothing
  locks the directory between `_dedupe_name` and `open(..., "wb")`: with two,
  `NothingOverwritten` does not hold. The run states the property for runs one after
  the other, as an operator starts them; `RecordedExists` is proved for any number at once.
* Attachment names with a directory part. The file name Gmail reports is joined to the
  directory as it is (`gmail/receipts.py:257`, `329-331`): `a/b.pdf` fails to open on every
  run, and an absolute name or one with `..` leads out of the ad's directory. Where files
  end up is therefore no property here, and `EveryReceiptRecorded` is about plain names.
* Edits of `trxstring` by the staff. What the CRM names is what the tool wrote last;
  `Discrepancy` and the refinement `SettlementSpec` are about that.
* A page of suggestions reads the confirmed ads once. An ad confirmed later may still be
  suggested; its confirm is then answered 409. `TakenIsNotOffered` says what is left: a charge
  taken when the request arrived is not offered.
* Some comments promise more than the models (and the code) do, and the properties here
  state what is left of them. A `crm_write_failed` may come after the CRM committed (an
  acknowledgement lost): `DiscrepancyTraced` and `OrphanHeals` say that it is logged and
  that the retry heals it. A pass that loaded its patterns before one was added commits
  unflagged rows after the backfill: hence `QuietBackfillHolds`. A failed pattern load
  does not degrade to "no pattern": on Postgres the pass stores nothing, and
  `SuccessMeansStored` says it does not claim otherwise. The candidates are cut at eight
  before near misses and `alt_count` are computed: hence the exception for full lists in
  `PlausibleIsShown`. After a failure at the second PDF `receipt_file_path` may name the
  second file first: `RecordedIsComplete` speaks of the whole list. The vendor name,
  the day and a link can pass the suggestion floor without any amount evidence
  (`matching/scorer.py:29-33` says a link cannot "manufacture a high-confidence match").
* Of the registry: a failed read of it is caught without a rollback, so the candidates
  query is refused and the popup answers 500, against "must never sink the popup"
  (`api/routes.py:320-321`); `LinksFail` models it. `raw_examples` is read, extended and
  written back, so of two spellings added at once one is lost, although it "accumulates
  the distinct raw spellings seen" (`db/models.py:348`); in the same way a scan may
  overwrite the name an operator entered meanwhile. No property covers that, for it happens;
  `NonDestructive` says what is left: nothing is blanked. A representative scan whose flush fails is not logged, for the
  reason `scan_every_run` shows, against `ingest/rep_scan.py:215`.
* `Confirm` and `Candidates` are not composed: reading the popup changes nothing, and
  each has the other's commits as actions (`Candidates` the confirms, `Confirm` any popup
  over the rows that are free). A product would check no new interaction.
* The natural key for statement exports (`ingest/dedup.py`) has no caller yet. The CRM
  columns, the match memory and the printing commands feed the display only.
* Migrations and the bearer-token guard: one-off, or a pure function of one header.
