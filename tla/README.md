# A verification model of the Swastik Gold & Silver Testing Lab

The program (`src/`) is the office system of a laboratory that tests gold and silver and
certifies what it tested: an Express server on one SQLite file (`src/backend`), a React front
end (`src/frontend`), a manager that keeps both running (`src/manager.js`), a nightly backup, and
scripts run by hand on the database. These modules model what can go wrong between those parts:
what happens to a test or a certificate between the counter and the archive, what is charged and
paid for it, the numbers it bears and the paper it is printed on, what the pages show of it while
others work on it, and what becomes of the database and the processes underneath. References are
to files under `src/backend` unless they say otherwise.

## How the program runs, and what a step is

The server is one Node process and `better-sqlite3` is synchronous: a handler that does not
`await` runs from beginning to end, and what it writes is one transaction. So on the server a
**handler is one action**, with every statement it makes, its triggers, its ledger rows and its
snapshot. A rejected request changes nothing; it is a stuttering step, and has an action only where
somebody waits for the refusal. What interleaves is

* **clients**: desks work on the same documents, retry, and send requests built from rows they
  read earlier; every action may follow every other;
* **two commits of one handler**: `workflowService` commits its transaction and then stores an
  idempotency key; the process may die between the two (`pending`, `Respond`, `Crash`);
* **awaits**: the hashing of a password, a backup, the manager's scan for a port, and every
  handler of the front end, which continues when an answer comes. Such a handler is as many
  actions as it has stretches between awaits;
* **statements that commit one by one**: a start of the server (`initDb`);
* **timers**: the manager's delays and the retention of keys and of the recycle bin.

Requests and answers may be lost or late wherever a client is modelled, and the process may die
wherever something is left half done.

## Inventory

| component | state | operations | modelled in |
|---|---|---|---|
| Tests and certificates (`services/v2/testService.js`, `certificateService.js`, `services/workflowService.js`, `repositories/photoCertificateRepository.js`, their routes) | `gold_test`, `silver_test`, three certificate tables and their item tables | register, save draft, move, finalize by two routes, convert, add, edit and remove items | `LabWorkflow` (life of a document), `CertItems` (items of one certificate) |
| Request deduplication (`db/db.js`, `workflowService`) | `request_log`, `idempotency_keys`, `completion_request_id` | log, answer from the log, store and expire a key, recognise a retry | `LabWorkflow`, `Intake` |
| Immutability (`db/migrations.js`, `db/init.sql`) | triggers | refuse updates of DONE rows | `LabWorkflow`; that they are installed: `Schema` |
| Recycle bin (`controllers/auditController.js`, `app.js`) | `deletedon` | delete, restore, flush | `LabWorkflow` |
| Ledger, payments, cash register (`services/v2/ledgerService.js`, `creditHistoryService.js`, `cashRegisterService.js`) | `credit_history`, `customer.balance`, `cash_register` | charge a document, enter a payment, roll up the balance, post and delete cash | `Ledger`; charges by `LabWorkflow` against `Charging` |
| Weight loss ledger (`weightLossHistoryService.js`) | `weight_loss_history` | enter | `Ledger` |
| Numbering (`services/v2/sequenceService.js`) | counters in `globals` | mint test, certificate and bill numbers | `Numbering` |
| Printing (`services/v2/printService.js`, `routes/printRoutes.js`, `frontend/src/contexts/PrintContext.jsx`) | `print_snapshot`, the browser cache | seal a snapshot, answer a print, keep an answer | `Printing` |
| Customers (`repositories/customerRepository.js`) | `customer` | create, rename, switch off | `Ledger`, `Printing`, `Intake` |
| Calculations and GST (`services/v2/calculationService.js`, `frontend/src/utils/calculations.js`) | none | weights, fine weight, price, totals | `CertItems`; GST amounts and the previews of the pages left out |
| Photo upload (`middleware/uploadMiddleware.js`) | files, `media_path` | upload | `CertItems` |
| Backup and maintenance (`scripts/backup.js`, `middleware/maintenanceMiddleware.js`) | the lock in `globals`, the backup directory | back up, encrypt, prune, restore, refuse writes | `Backup` |
| Process management (`src/manager.js`, `src/dev.js`) | process handles, timers | start, stop, restart on a new LAN address | `Manager` |
| Schema and scripts (`db/db.js`, `db/init.sql`, `db/migrations.js`, `scripts/`) | the schema, all tables | start, migrate, rebuild, reset, import, empty | `Schema`, `Import`, `Ledger` |
| Accounts (`services/authService.js`, `middleware/authMiddleware.js`, `frontend/src/contexts/AuthContext.js`) | `users`, the browser's token | sign in and out, change and reset a password, change a role | `Accounts` |
| Front end: board and results window (`pages/WorkflowBoard.js`, `components/Phase2Modal.js`) | copies of cards, versions, handlers under way | drop, batch, load, hear, enter readings | `Desk`, `CertItems` |
| Front end: registration (`components/New*Modal.js`, `CertificateForm.js`) | a form, a request identifier | fill, save, retry, hide | `Intake` |
| Front end: page of readings (`pages/ItemMasterPage.jsx`) | rows, marks, a save under way | choose, enter, save a draft | `ItemPage` |
| Front end: forms of the ledger (`NewCreditHistoryModal.js`, `CashInHand.js`, ...) | a form | save, retry | `Ledger` |
| Verification and delivery, reports, audit log, XRF listener, rates | | | not modelled, see below |

On the server components call each other as functions of one process. Completing a test calls the
certificate service (issue), the ledger (charge), the sequence service (numbers) and the print
service (seal) inside one transaction. What couples them over time is the rows they leave: the
charge found by a later finalization, the number found by a later mint, the snapshot served to a
later print, the logged identifier met by a later retry. The front end couples to the server by
requests and by socket events without acknowledgement; the backup by one flag in `globals`; the
manager by processes and ports.

`PROJECT.json` lists the hazards one by one, with the line where each bites and the properties that
watch it. Where it lists none, the property is stated in a module and the code does not keep
it: see the known divergences.

## Modules

No module reaches a RECURSIVE definition. What a module asks of its constants is one named assumption
(`LabAssumption`, `LedgerAssumption`, ...), evaluated by its run and used by its proofs. `Desk`,
`CertItems` and `Manager` define theirs, and `MCOffice`, `MCPaper` and `MCHost` assume it.

### Charging, and LabWorkflow which implements it

`Charging` is what the laboratory promises about money without the workflow behind it: documents
that are closed, and an account with the number and the sum of the DEBIT entries of each. A document
is closed in the transaction that enters its only positive entry, or after it; nothing is taken
back; only a certificate may be charged before it is closed (at the completion of its test).
`LabWorkflow!ImplementsCharging` is `Account!Spec` with `closed` the DONE documents and `account`
the ledger rows.

| LabWorkflow | code |
|---|---|
| `test`, `cert` | the parent rows: `st` status, `bin` the `deletedon` mark, `items` the live item rows, `claim` the `completion_request_id`, `total` |
| `registered`, `measured`, `returned`, `wanted` | item rows: in use, `purity >= 0.01`, `returned = 1`, `certificate_required = 1` |
| `debit` | DEBIT rows of `credit_history` for a document: how many, and their sum |
| `logged`, `keys` | `request_log`, `idempotency_keys` |
| `cmd` | what a client first used an identifier for (it never uses one for two things) |
| `pending` | the request between its two commits |
| `told` | `<<document, status>>` facts that answers have told clients |

A sample keeps its identity from the test row to the certificate row, so that a sample lost or
certified twice can be seen; the code copies the row. Weights, descriptive fields and tax are
left out; fees are kept (30 for a tested item, 50 for a certificate issued with a test, 50 or 100
at the finalization of a certificate), because two of them must agree. `total` is recorded when a
document becomes DONE; what the row holds before is overwritten then. Items of certificates may
be added and removed; where `AddItem` could be refused for its number it is allowed here, and
`CertItems` looks into that. The `version` column is left out: the server checks it when a
request sends one, and no page does.

`Strict` is `SYSTEM_MODE = STRICT`, which production must run in (`config/systemMode.js:11`); the
default is PARITY. `LastmodTriggers` says whether the two triggers of `init.sql:321-322` are
installed; with them no partly converted test can be closed at all (`FinalizeNeverAborts`). They
are obsolete, and no migration drops them.

### CertItems

One certificate with its items in numbers: `cert` (kind, status, totals), `rows` with typed and
computed weights and prices, `window` the results window with the rows it was loaded with, and
`faults` the requests it lost. Weights typed are in tenths of a milligram, purities in hundredths
of a percent, amounts in paise; each `toDecimalPlaces` of the server is a rounding of its own.
`seq` is the number of a row, which `addItems` takes from the count of the live ones and the
`item_number` of which is UNIQUE with the removed ones. `said` notes that a payment wrote the total,
`dragged` that the card was moved past the window. The prices the pages preview are left out.

### Numbering

`day` is the date of the server; `stamped`, `testSeq`, `certSeq`, `billSeq` are the rows of `globals`
(`NoSeq`: the row does not exist yet); `tests` the numbers of the rows in the test tables, `certs`
the certificates in the order of their registration. Only the series of the tests start again every day
and every year; the counters of certificates and bills go on, whatever the comments beside
them say (`CertSeriesDaily`, `BillSeriesYearly`). A number is a record of its series, its year
and its value; its text (`G26-0007`) is left out, and with it what happens from 1000 on, where
`padStart(3)` and `padStart(4)` coincide and an `auto_number` reads like a bill number
(`sequenceService.js:162`). `EraseTest` is a test that leaves its table, by full conversion or by
the flush of the bin. A certificate never leaves its table: no route deletes one.

### Printing

`doc[d].st` is the status of a document, which its layout bears in two places, `doc[d].changes` counts
the changes of its rows, `doc[d].snap` is its `print_snapshot`, `customer` the row of the customer all
documents belong to, `kept` what each browser keeps for the print address of a document. `Layout` is
`getPrintLayout`: it fails for a customer who is switched off, and then aborts the handler that wanted
to seal. A closing writes the total, lays out the row as it is then, still IN_PROGRESS, and writes DONE
with that layout, in one transaction (`Seal`, `Closed`): the paper of a DONE document bears the status
IN_PROGRESS for ever. `PrintDoc` and `Drop` are the browser, which does what the `Cache-Control` header
of the answer allows; `Drop` is external. Prints of one item, the hash of the snapshot and its keys, and
the HTML page of `GET /certificates/:no/print`, which is never sealed, are left out.

### Ledger

`customer` with balance and telephone, `debits` and `credits` the sums of a customer's rows, `doc`
the documents with the sums of the rows that refer to them, `register` the cash rows posted by each
document and form, `form` the forms on the screens with the requests each has under way. Two
services roll the balance up, and each is its own definition. `ClearTransactions`, `FactoryReset`
and `ClearData` are the three scripts, each one transaction that a DONE document aborts.

### Intake

`window` is one of the registration windows: its entry, its kept request identifier, its save and
its new customer under way; `wire` the requests on their way, `rows` what was created, `logged`
the `request_log`, `active` the guard of `certificateGuard.js`, `told` the successes shown. A
hidden window stays mounted: its identifier and its save outlive the closing. Uploads of photos
and `MAX_ITEMS` are left out.

### Desk

`server` is reduced to status, version and readings of a card. `desk[d]` is a board: `copy` of the
cards, `last` the noted versions, `pend` is `pendingIds`, `calls` the socket events on their way
with the handlers they started, `fetch` a load, `drop` the drops with the await each is at, `recent`
the drop that was counted last, `batch` the batch, `modal` the results window, `after` the certificate
it submitted and moves on next. A card may be dropped again while a drop of it is under way, and each drop
has a timer of its own that releases the card (`Release`); a batch goes on beside them. A drop
asks for `moveItem` or `finalizeItem`, which send events; the status routes, which the window and the
bulk button ask for, send none (`StatusUpdated`). 'Submit' of a card that was not started first posts
the readings of the window, which starts a test, and then moves a certificate on (`SubmitMove`).
A connection may break; events are told to those who are connected. `excuse` and `raced` are the
losses the properties name as exceptions. An event that
is sent to two rooms of which the board is in both is heard once here, and the limit of rows in a
column is left out.

### ItemPage

`stored`, `closed` are the tables; `page` is what the page shows with its marks and its save;
`lists`, `details`, `wire` are requests under way, answered in any order. A reading is named after
the act that entered it, so that later is greater. A save bears the identifier the page keeps until a
save succeeds or another test is chosen (`key`); one that is in `logged`, the `request_log`, is answered
with success and not stored, whatever it carries. Previews, the search and the pages of the list
are left out.

### Accounts

`account` is the `users` table, `token` the token in the `localStorage` of a browser, `home` the
browser of a tab, `tab` what a tab shows with its check of the profile and its sign-in, `call` a
change under way: sent, handled up to the await on bcrypt, written, answered. Tokens do not expire
within a behaviour. `said`, `unsure` and `mixed` are for the properties. Nobody registers: no page
calls that route.

### Schema

`schema` is a set of pairs of a table and a part of it: the columns every version had, a group of
later columns, an index, a trigger. `Plan` is the sequence of the statements of `initDb` in their
order, from `init.sql` to the seventh migration; each makes a part and needs others. A start executes
them one by one and may be cut off at any of them; one that throws ends the process. `saved` is the
latest backup. Databases of earlier versions lack any of the column groups in `Gaps`. The two
`add_constraints` scripts and `reset_schema.js` come between and beside the runs of the server.

### Import

`old` is the database of the Python program, still in use; `lab` the rows that came over, `work`
the same inside the open transaction, `run` the run that is on. A run gives new ids and keeps
numbers, `INSERT OR IGNORE` passes rows over, a missing parent ends the run. Left out: the dry
run, users, and the seeding of counters.

### Backup

`lock` is `globals.BACKUP_IN_PROGRESS`, `run` the three executions of `createBackup` (the evening's and
that of `POST /api/audit/backup` in the server, the operator's as a process), `files` what is in the
directory, `wal` whether `lab.db` lacks what was committed. Stages of a run are the stretches between
its awaits. `told` is what a run has said: a success or a failure is mailed and entered in the
history, the copy of the fall back only in a line of the log. Writes, encryptions, copies and processes
fail up to `MaxFaults` times, and so does the middleware's look at the lock, which lets the request
in then ("slipped").

### Manager

Per service the processes spawned, the handle, who listens on the port, the SIGKILL timers and the
starts due. `"left"` on a port is a server that none of the handles names: npm's, left behind when its
shell was killed, or one of an earlier manager. `last` and `note` record the last button and what befell
the service since, for the properties; a restart by the monitor is no button. `killPort` kills whoever
listens on the port, and may hit the other service's server or the manager itself, as it
searches for any socket on the port (`Kill`). Time is `Tick`s that keep the order of the delays in the code.

### The other files

`MCLabWorkflow` gives the metals of the tests and the symmetry set to TLC. `MCPages` and
`MCDatabase` put two modules each into one run that looks at the behaviours in which one of the two
moves; neither reads a variable of the other, so that what one can do it can do while the other
rests. `MCOffice` (`Intake`, `Desk`), `MCPaper` (`Printing`, `CertItems`) and `MCHost` (`Backup`,
`Manager`) put the second beside the first in the same way; there the first rests, as it has a run of
its own. The theorems are in `LabWorkflow_proofs`, `Numbering_proofs` and `Ledger_proofs`, about one module
each, and in `Intake_proofs`, `Printing_proofs`, `Backup_proofs`, `MCPages_proofs` and
`MCDatabase_proofs`, about two each.

## What the runs check

| run | instance | distinct states | properties |
|---|---|---|---|
| `wf_parity` | PARITY; one test, two certificates, two samples, one kept identifier | 91,669 | `ImplementsCharging`, `DoneIsMeasured`, `RetryRecognised`, `CertHasItems`, `SampleHandover`, `DoneFrozen` |
| `wf_clients` | STRICT; two tests, two certificates, one sample, two kept identifiers | 5,903 | `ChargeInv`, `AckInv` |
| `items` | one certificate of each kind, up to three items, one lost request | 199,347 | `TotalsAreSums`, `NumberedOnce`, `WindowNeverStrands` |
| `num` | three days in two years, tests of both metals, three certificates | 368,951 | `MintNeverRefused`, `CertSeriesGrow`, `BillsWithoutGap` |
| `print_sealed` | a test, a metal and a photo certificate, one browser, two changes each, one new name | 1,280,554 | `CertPaperIsLive`, `DonePrintable`, `OneAnswer` |
| `money` | two customers, one telephone, one document, one form with two presses | 124,268 | `BalanceIsRows`, `PhonesUnique`, `TwiceOnlyIfLost` |
| `intake` | the window of gold tests and that of certificates, two fillings, two presses | 1,592,223 | `CreatedOnce`, `ToldIsCreated`, `ForTheChosen` |
| `desk` | a board and another page on a test and a certificate, two drops of a card at a time, two acts | 376,815 | `BoardsSettle`, `ReadingsKept` |
| `pages` | two tabs of one or two browsers, two users, three acts; beside it the page of readings with three tests, six acts | 2,020,152 | `ShownIsOwner`, `PasswordAsTold`, `ToldIsSaved`, `TypedKept` |
| `schema` | a new database, or an older one without versions or karats; beside it the import of a test and two certificates in three runs | 188,314 | `Complete`, `OnceUpAlwaysUp`, `ColumnsKept`, `ImportedWhole` |
| `backup` | the evening's, the route's and the operator's backup, one writer, encryption on, two faults | 452,902 | `ReportedIsWhole`, `NeverWithout`, `NoneAdmitted`, `LockReleased` |
| `manager` | two addresses, two processes at a time of each service, three acts | 836,068 | `NoStrays`, `LastPressPrevails`, `AddressFollowed` |

The properties, in short (their full statements precede them in the modules):

* *charging*: `ChargeInv` (`ChargedOnce`, `DoneIsCharged`, `OpenIsFree`) and the refinement
  `ImplementsCharging`, which adds that nothing is ever taken back;
* *acknowledgement*: `AckInv` (`FinalizeTold`, `LoggedFinalize`, `RetryRecognised`): what the
  log, the key and the answers say of a finalization is true of its document, over crashes, lost
  answers, retries, expiry and the erasing conversion;
* *records*: `DoneFrozen`, `DoneIsMeasured`, `SampleHandover` (a sample leaves a live test only into
  a certificate), `CertHasItems`;
* *items*: the totals of a certificate are sums over what it has left after every edit, removal and
  finalization, no item number is given twice though the next is counted from what is left, and the
  results window never moves a photo certificate on without its photos;
* *numbers*: no number meets a UNIQUE constraint (which would abort every retry of a registration as
  well), the series of certificates grow over three tables, the bills have no gap;
* *paper*: a DONE certificate is printed as its rows are, but for the status, which is the one it was
  closed from; a DONE document can always be printed,
  and the print route answers the same for it for ever;
* *money*: the balance is what the rows add up to whichever of the two services or three scripts
  wrote them; a telephone number finds one customer; an entry is doubled only where an answer
  was lost or a page's button was pressed again;
* *registration*: one filling of a form makes one document, a success is told of what was created
  as it was entered, for the customer chosen last;
* *boards*: a board at rest shows what the server has, outside the losses named in the property,
  and no reading is overwritten by a stale copy unless two desks raced;
* *readings*: 'Draft saved' is true of the tables, a reading typed is stored or still marked, unless a
  save was given up whose identifier is used again;
* *accounts*: what a tab does is done in the name of the user it shows, and the password a person was
  told last opens the account, outside the named overlaps;
* *database*: a server that is up has every column, guard and index the services rely on, whatever
  version, crash, restore or script came before; one that came up once comes up again; no column
  with data goes; what was imported is whole, and there once;
* *backups*: what was mailed and logged is whole and stays, a run that ends without a mail of
  failure leaves a whole file, which is short only if it is a copy; a request finds the lock set
  meanwhile, and a lock that was left is released;
* *processes*: no process the manager spawned itself is out of its reach (of the frontend that is the
  shell: a server of npm that outlives it is not counted), the last button and the new address
  prevail, and a Stop ends with nobody on the port unless a server is there that no handle names.

Several properties name exceptions: races the code has, which were met while the property was
written down. Each exception is as narrow as the run allows, and the statement without it stands
beside it (next section).

### Known divergences

Here a comment, a message or the documentation of the program says something the code does not
do. Each is a property of its module which TLC refutes when it is named in a cfg in place of the
run's own; no run of the project checks them.

| property | what is said | what the code does |
|---|---|---|
| `FinalizeNeverAborts` (`LabWorkflow`, with `LastmodTriggers = TRUE`) | `migrations.js`: the lastmodified triggers never fire during a legitimate finalization | they update the row right after the DONE write and meet the immutability trigger: a partly converted test cannot be closed |
| `CertChargeNeverRefused` (`LabWorkflow`, STRICT) | a certificate is charged when it is moved to DONE | it is charged while IN_PROGRESS, which the cross-check of STRICT refuses: one not charged before can never be closed |
| `MoveTold` (`LabWorkflow`) | bulk-status moves what it reports as moved | one identifier serves many transactions: the second certificate is taken for a repetition of the first and not moved |
| `DebitIsTotal` (`LabWorkflow`) | a certificate is charged the total it shows | charged 50 with its test, shows 100 at its own finalization: two tables of rates, two counts of items |
| `CertifiedOnce` (`LabWorkflow`) | items moved to a certificate live there | an item certified at the completion of its test can be converted into another certificate |
| `OpenForItems` (`CertItems`) | `certificateService.js`: items may be edited in all pre-completed states | `addItems` numbers from the count of live items: after one in the middle was removed the next number is taken, and adding is refused for ever. That no number is given twice is `NumberedOnce` |
| `CertSeriesDaily` (`Numbering`) | `sequenceService.js:239-240`: the counter of certificates is 'which reset at midnight'; `certificateService.js:267`: 'daily-reset' | the counter is never reset, and the series grows for ever (`CertSeriesGrow`) |
| `BillSeriesYearly` (`Numbering`) | `sequenceService.js:237`: 'Sequence is YEARLY' (`certificateService.js:269` says that it never resets) | only their prefix does, the counter goes on |
| `PaperTellsStatus` (`Printing`) | `printService.js:273-275`: a snapshot from before the finalization must not be treated as canonical output | the layout bears the status (`printService.js:316`, `378`) and is computed before the DONE write: the paper says IN_PROGRESS |
| `BillTellsGst` (`Numbering`) | the letter of a bill number tells GST from non-GST | the choice may change until the certificate is closed, the number was minted at its registration |
| `PrintIsFinal` (`Printing`) | a DONE document is printed from its seal | `printRoutes.js:100-101` lets the browser keep a preview, which is printed for the DONE document |
| `PaidIsSettled` (`Ledger`) | `recordRevenue` offsets the charge when payment is instantaneous | a certificate charged in advance by one mode and finalized by another keeps an open debit |
| `ReceiptIsIn` (`Ledger`) | the cash page: Cash IN (Deposit/Sales) | a cash payment is posted as OUT: the type follows the ledger side (`ledgerService.js:131`) |
| `ToldIsEntered` (`Intake`) | 'Gold Test created' | a kept identifier answers a changed form with what the first one made |
| `NeverBackwards` (`Desk`) | 'targeted per-ID updates with version guard' | the version is noted before the request and compared after it: an old answer replaces a newer one |
| `DraftIsSaved` (`ItemPage`) | `ItemMasterPage.jsx:147`: 'Draft saved' | a save repeated under the kept identifier after a lost answer is answered from `request_log`, with the readings entered since not stored |
| `NothingTypedIsLost` (`ItemPage`) | the mark of a reading that is not saved | marks of readings entered while the save was under way, or sent under an identifier that was used, are cleared, and the rows replaced |
| `ToldOpens`, `OneUserPerBrowser` (`Accounts`) | 'Password updated' | a reset during the hashing of a change is overwritten; tabs go on showing a user who is no longer the token's |
| `NeverRefused` (`Schema`) | `migrations.js:371-373`: existing databases are healed without DROP/CREATE | `init.sql:388-389` index a column (`snapshot_hash`) that only a later migration adds: a database without it, a fresh one included, is refused before it is reached |
| `RerunAddsNothing`, `CountedIsThere` (`Import`) | 'Skips records that already exist (idempotent re-runs)'; the summary | customers and entries come over again at each run; an item that breaks a CHECK is counted and not there |
| `NoneSlips` (`Backup`) | `maintenanceMiddleware.js:25`: 'If the DB check fails ... we should also block' | only an SQLITE_BUSY is refused: any other failure of the check lets the request in |
| `CopyIsWhole` (`Backup`) | `backup.js:199`: 'Backup (Copy) completed successfully' | the copy is of the main file without its WAL |
| `AnsweredIsWhole` (`Backup`) | `auditController.js:119`: `success: true`; `manager.js:299-301` logs the same | the answer is given after a copy, or a failure, as well |
| `StopFreesPort` (`Manager`) | the button 'Stop' and the status 'Stopped' (`manager.js:606`, `619`) | the server that npm started may outlive its shell and listen on, and the monitor restarts what is going down |
| `LockedMeansBackup` (`Backup`) | 'A database backup is currently running. Please try again in 1-2 minutes' | the lock outlives a crash and comes back with a restored snapshot, until the next evening |

Other things met on the way, for whoever works on the code:

* *server*: `init.sql` calls the ledger append-only beside a DELETE route; `toggleStatus` ('soft-delete
  or restore') is one-way; every write is refused while the lock is set, the sign-in included;
  `updateItem` without a rate sets the worth of a gold item to nothing; one purity of 0 refuses a
  whole save, as does a purity with more decimals than two, which the step of the input allows;
  `total_tax` is not refreshed, and tax is exclusive at creation and inclusive at DONE;
  `xrf_listener.js` asks for a column `item_no` that no schema has, so no reading ever arrives;
  `auto_archive.js` names `created_at`, which does not exist; `backup.js` has a path of its own
  where the server takes it from the environment, and its `lastBackupInfo` ignores `.enc` files.
* *front end*: the interceptor of `api.js` drops `err.response`, so the board's test for a 409 never
  holds; `item:done` leaves the card in its old column and `moveToDoneColumn` is not used; a test that
  is converted entirely stays on the boards; `Phase2Modal.js:246` says that saving does not advance the
  card, while `saveTestDraft` starts the test; 'Submit to Tested' writes a total of 0; the status routes
  send no event, so other boards learn of such a move at their next load; the returned
  mark and the karats of a photo certificate are not saved; a role `staff` or `superadmin` is offered
  and let in by no route; a network failure of the profile check removes the token of all tabs, and
  a 401 one that is newer; on the page of readings a late answer can leave a gold test under
  silver, whose save is then refused, 'Save failed' is shown when only the reload failed, and an
  empty field is saved as 0.
* *import*: two old bills with one number in one certificate table (the old program had a series for
  each choice of GST) meet the unique index, the second has no row to put its items under, and
  the whole import rolls back; so does every later import once an item was added to an old test
  that came over before. A dry run shows none of this. The counters it seeds are not the ones
  the bills are minted from, which seed themselves from the bills at their first use only.

### Bounds, and why they are enough

Each bound is a CONSTANT, named in its module, and guards actions only.

* *Workflow*: two samples make a test that is partly certified, partly returned or measured; two
  certificates are needed for a second certification and for a bulk move; a second client needs a
  second test and a second kept identifier. `Fresh` stands for any number of identifiers used once.
  The tests are silver (`AllSilver`), whose two fees differ; certificates are of every kind.
* *Items*: three rows are one to keep, one to remove and one to add after it. The weights, purities and
  rates are chosen so that net weight, fine weight and price each fall beside a boundary of rounding;
  zero is the reading not yet entered. One lost request is any of them.
* *Numbers*: three days in two years have a restart within a year, a restart with the year, and
  a day without documents; three certificates have all three kinds or one series after another.
* *Paper*: two changes are one before the closing and the closing itself, or the conversion after it.
  One new name is all a sealed name can differ from.
* *Money*: two customers can want one telephone number; two presses meet the lost answer of the first.
* *Registration*: the gold window and the certificate window differ in their guards, and share the
  request log; two fillings are needed for an answer that comes to the next filling of the form.
  The silver window is the gold one.
* *Board*: a board and another page are the two writers of a race, two acts a read that is overtaken
  by a write; what the server and the sockets do after them is not bounded. `Hands` are the drops of
  one card whose timers run at a time: two are one whose timer releases the other. Three acts on one
  card, a test or a certificate, were checked too.
* *Pages*: two tabs, in one browser or in two, and two users make every sharing of a token; three
  acts are a call, a call that overlaps it, and a sign-in. On the page of readings three tests allow a
  change of the metal and a change within it; six acts are two visits with an edit and a save each.
* *Database*: `Gaps` has one group that `init.sql` makes and migrations add, and one that only
  later statements add; a script is not run in the middle of a start, which takes well under a second,
  and a backup is taken while the server is up. Of the import, two customers and two certificates
  can share a bill number, three runs are one cut off, one that succeeds and one after it.
* *Backup*: one writing request stands for all, as the flag is read by each for itself; two faults are a
  crash and a failure after it. Three runs, as the two of the server can overlap one another too. With
  encryption every stage is passed.
* *Manager*: two processes of a service are the two starts that overlap; three acts are Stop, Start
  and a move of the address, or any other three.

### Deadlock and fairness

All runs disable the deadlock check: an instance ends when its identifiers and acts are used up and
its documents are closed, and nothing more is asked of the program then.

Fairness is assumed where the code itself goes on. In `Manager` it is `WF_vars(Progress)`: timers fire,
a process that was spawned listens or exits, signals are delivered, the monitor looks again. In `Backup`
the evening comes again (`WF_vars(Begin("cron"))`, the timer in `app.js`), and a run that has begun goes
on to its end or to a failure (`WF_vars(Continue(r))`). Presses, crashes, moves of the address and
writes are never fair. From these follow `LastPressPrevails` and `AddressFollowed`, and `LockReleased`.
The other modules assume none: nothing there retries on its own but the `SQLITE_BUSY` loop, and clients
owe nobody a request.

## What is proved

Every theorem holds for all values of the constants that satisfy the assumptions of the modules: for any
number of desks, cards, windows, items, documents, users, tabs, faults and retries. The run `desk`
has one board, the theorems about it hold for any number. TLC found each inductive invariant true of
the run's instance before it was proved.

Every safety property of every run is the property of a theorem. Each component has one inductive
invariant or a few, conjunctions of named parts; the modules say what each part is, and the following
why it is needed.

* **LabWorkflow_proofs.** `TypeCorrect` and `CertHasItemsCorrect` come first. `ChargingCorrect` then
  proves `ChargeInv` inductive: the three charging rules support each other (a certificate is charged at
  its finalization only if `OpenIsFree` or an earlier charge has left one row at most), and the fee is
  positive only because a certificate has items; a last conjunct says that an account without rows sums
  to nothing. `BinCorrect` proves that only a TODO test is in the bin, which is what keeps the flush
  away from a DONE record; from it follow `DoneFrozenCorrect` and the lemma that a closed document stays
  closed. On that lemma rests `AckCorrect`, whose invariant ties the log to the command an identifier is
  bound to and the stored key to its closed document. `DoneIsMeasuredCorrect` needs that the samples of
  a test are registered and belong to no other test: a draft of one could unmeasure them otherwise.
  `ImplementsChargingCorrect` is the refinement: initial states map to initial states, and under
  `ChargeInv` and `BinInv` every step is a `Settle` of the documents it closes and those it charges, or
  a stutter. `SampleHandoverCorrect` needs `BinInv` and that the row of an identifier not used yet has
  no items: a registration would take them away otherwise.
* **Numbering_proofs.** `NumCorrect` proves `NumInv`: every certificate counter is at or above every
  number of its series in all three tables (the healing does not see the photo certificates), the
  bill counter has reached every bill of its series and from any bill up to it every number was
  given out, and the series grow. `MintCorrect`, `CertSeriesCorrect`, `BillSeriesCorrect` and
  `BillsWithoutGapCorrect` follow. The test series needs no counter invariant: the healing alone
  puts a number above its table.
* **Printing_proofs.** One lemma lists what a step may do to a document's row. `PrintCorrect` says that
  a DONE document has a snapshot, and that of a certificate its final rows and the status it was laid
  out in, as a closing seals after its total and before its status; it and the theorems on `TypeOK`,
  `CertPaperIsLive`, `DonePrintable` and `OneAnswer` are read off it.
  *CertItems*: `ItemsInvariant` says what the rows are, that they are numbered in the order they came
  in, and that the results window of a photo certificate was loaded
  with all its items, none of which leaves it, and knows which of their photos are there.
  `NumberedOnceCorrect` rests on the count of the live rows being that of all rows when the number it
  gives fits; `TotalsAreSumsCorrect` on the sums over two lists of rows
  being the same when the lists are, as every handler rolls up the rows it leaves. That a sum of
  numbers is a number is an induction over the rows and is not proved: the totals are left untyped.
* **Ledger_proofs.** `LedgerInvariant` adds to the balance and the telephone numbers that a customer
  who does not exist has no rows, and that a form has no more rows and requests under way than
  presses and lost answers account for. `BalancesRolledUp`, `OneCustomerPerPhone`, `NoDoubleEntry`
  and `AccountsFrozen` (nothing is booked to a customer who is off) follow.
* **Backup_proofs.** `BackupInvariant` says of a run by its stage what it holds (one that is to report,
  or has, exactly one whole file that lacks nothing; one that ends after a copy, a whole file that may
  be short) and that the lock is set as long as a run that ran
  alone is at work. `ReportedIsWholeCorrect`, `NeverWithoutCorrect` and `NoneAdmittedCorrect` follow.
  *Manager*: the invariant says of each service (`Good`) that whoever listens on the port is up and that,
  unless two starts overlapped, what was spawned and is not known to be gone is what the handle names,
  and a start under way is alone, with no handle set. `NoStraysCorrect` follows.
* **Intake_proofs.** *Intake*: the invariant ties the three places of an identifier together. One
  belongs to one window; one filling of a form has one identifier, on the wire, in the window and in
  the log; and as long as no request of it was given up, the one request that bears it is the one the
  window waits for. `CreatedOnceCorrect`, `ToldIsCreatedCorrect`, `ForTheChosenCorrect` and
  `ClosedWhenToldCorrect` follow.
  *Desk*: the invariant relates each board to the row of each card on the server. Every answer on its
  way is true of some version of the row (`TrueAnswer`); a card the desk knows of is shown, or gone, or
  was lost for a named reason (`Seated`); a change that was told and that the desk does not know of is
  on its way to it (`Expected`); the copy is right, or excused, or about to be replaced, or being
  dragged (`Right`); and the readings a drop, a batch or a window holds to post back are the server's,
  or the desk is marked as having raced (`AllFed`), the readings of a submitted certificate included. An
  old answer may replace a newer one (`NeverBackwards` is false), so the versions a board notes prove
  nothing: the argument rests on rows going forward only, from a status to a later one. One lemma per
  action shows what it does to its card, and general ones that it leaves other desks and cards alone. At
  rest nothing is on its way and nothing is dragged, which leaves `BoardsSettleCorrect`;
  `ReadingsKeptCorrect` is read off the same steps.
* **MCPages_proofs.** *Accounts*: an answer under way shows the owner of the token as well as the
  page does, unless the tab is marked `mixed`; and one who is not in doubt is meant by one call at
  most, whose answer is awaited and which either has carried its word into the account or has not.
  `ShownIsOwnerCorrect` and `PasswordAsToldCorrect` follow. *ItemPage*: the save the page
  waits for is the only one, unless one was given up, and bears the identifier the page keeps; that
  identifier is in the log only when this save was answered, or one given up was served; what such a save
  had in hand is written, and stands in the tables if all that were given up hold the same; a reading
  that is not in the tables is marked on the page, and nothing that can show the test again is under way
  but the save that holds the reading. `ToldIsSavedCorrect` and `TypedKeptCorrect` follow.
* **MCDatabase_proofs.** *Schema*: `SchemaInv` says that a start has made everything up to the statement
  it is at, and that all of `Plan` is there in what is healed, a backup included. The rest is about
  `Plan`, for every `Gaps`: it makes every column, index and trigger the services rely on
  (`PlanSuffices`), what is complete makes no statement throw, and the rebuilding
  scripts refuse a complete schema for its column `kt`. `CompleteCorrect`, `OnceUpAlwaysUpCorrect` and
  `ColumnsKeptCorrect` follow. *Import*: the rows of a run that is on belong to documents it has gone
  through, each with all its items but for the one in hand; a transaction that is rolled back leaves
  what was whole. `ImportedWholeCorrect` follows.

Only model-checked: liveness under fairness (`LastPressPrevails`, `AddressFollowed`, `LockReleased`),
which is outside what the prover does. The known divergences are refuted by TLC and have no theorem.

## Not modelled

* *Verification and delivery of documents*: the chain of hashes is cryptography, and
  `deliverCompletedRecord` is called by no handler, so that no public token is ever issued.
* *Reports, lists, analytics, audit log*: they read, or write what nothing reads to decide.
* *XRF listener and rates*: the first never writes a reading (see above), the second are two settings
  no record depends on.
* *GST amounts, numbers as text, item labels*: no decision of the modelled parts depends on the first;
  the others need strings.
* *The functions no route reaches*: `finalizeTest`, `createFromTestItems`, `finalizeCertificate`,
  `deleteCertificate`, `paymentService.applyPayment`, `billingService`, `authController`, and the
  registration of users, which no page calls.
* *The rest*: the lockout the sign-in page counts, permissions of single routes (`rbac.js`), the
  manager's own sign-in, log and installations, the one-off scripts `add_database_indexes.js`,
  `fix_rate_constraint.js`, `backfill_legacy_certs.js`, `reconcile_ledger.js`, `cleanup_tables.js`,
  and the layout of every page.

## Plan

1. Refinements worth stating: `Numbering` of a registry that hands numbers out in order, and `Backup`
   of one that only knows which reports are true.
2. A page on the board: `Desk` on top of `LabWorkflow`'s own handlers in place of its reduced server.
   The lemmas about the steps of a row (`RowMoves`) are what it would have to show of them.
3. The counters the import seeds, against those of `Numbering`.
