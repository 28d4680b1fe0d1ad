# CASI Workspace in TLA+

A model of CASI Workspace: of everything in it whose correctness depends on the
order of steps. Rules react to an event log, reminders must reach their recipient
once, a daily job may run several times at once, invoices arrive by three channels
and overrule one another, charges spend discounts, documents are versioned by a
queue, accounts lose their sessions, and a database is upgraded while processes
start over it. The modules are translations of the Python code; TLC checks them on
small instances; TLAPS proves every safety property a passing run checks, and the refinement,
for every value of the constants.

## The system

A Python server (`run.py`, `app/api/http_server.py`) answers each request in a
thread of its own and calls *services* (`app/services/`). Services keep no state;
they call *repositories* (`app/repositories/`) over SQLite or PostgreSQL. Every
repository call opens a connection, runs its statements and commits
(`get_connection`, `app/db.py:5822`). **A repository call is therefore the unit of
atomicity, and everything may happen between two calls of one service method.**
Nearly every hazard of this program comes from that: a service reads a row,
decides, and writes in a later transaction, usually by primary key alone.

What runs at the same time: requests; two reminder threads
(`app/workers/task_reminder_worker.py`); the e-mail import thread; and processes
that somebody starts from outside (`app/jobs/internal_notifications_scheduler.py`,
`migrate_sqlite_to_configured_db.py`, a second `run.py`). Any of them can die
between two transactions.

### Inventory

| component | state | operations | hard | what makes it correct |
|---|---|---|---|---|
| automation rules engine | rule row with lease, token and cursor; execution rows | create, edit, enable, disable, delete; automatic and manual runs | overlapping runs, expired leases, crashes in a batch, edits during a run | an event is handled at most once; the cursor passes no unclaimed event and never moves back; disabling stops a run |
| event log | append-only rows | log, list after an id | rows that commit out of id order | readers with a cursor miss nothing |
| task reminders | columns of the task, outbox rows | enqueue, claim, send, mark, retry, requeue, manual send | two loops, a timeout that takes rows over, edits in between | one message per delivery, bounded retries, every due reminder settled |
| internal notification scheduler | schedule row, one run per day, lease and attempts | sweep, claim, succeed, fail, save settings | overlapping sweeps with an old time, midnight, crashes | each day served once and completely, no day skipped |
| work items and SLA | item rows, history, policy | create, edit, assign, snooze, escalate, close, reopen, bulk, sweep | the sweep writes rows it read earlier; bulk requests half done | columns that belong together agree; overdue items escalate; histories complete |
| users, sessions, organizations | account, membership, capabilities, sessions by device; channels | sign in and out, create and edit accounts and organizations | count, then insert; an edit in five transactions | the device limit holds; a new password ends old sessions; the membership follows the account |
| billing | families, students, batches, charges, discounts left, imports, matches, ledger, next steps | register, generate charges, import, match, chains of steps | six or more transactions per operation | nobody charged twice; a discount spent once; ledger, status and balance agree |
| invoices and their imports | invoices, contractors, relations, intake items, approvals, overrides, runs | e-mail and KSeF checks, uploads, edits, corrections, decisions | three sources of one invoice, each in a chain of transactions | duplicates are flagged; approved corrections stay; imports leave nothing behind |
| invoice workflow and batches | workflow columns, the log of decisions, batches | ready, hand off, close, reopen, undo, batch, export | undo is derived from the log; a batch is built item by item | a batch counts what it holds |
| knowledge base | document, versions, jobs, watched folder | add, scan, replace, restore, reprocess, approve, process | jobs claimed by read, then write; crashes | versions consecutive and immutable; the last job wins |
| schema and start-up | tables, columns, the recorded version | bootstrap, validate, reset | SQLite commits statement by statement; two processes start | a recorded version means a whole schema; a start ends |
| data migration | a source file, a target | plan, apply, verify | 73 tables in one transaction | all or nothing |
| tasks, notifications inbox | task rows; rows by dedupe key | edits that reminders depend on; insert or ignore | edit and reset are two transactions | covered with the reminders and the scheduler |
| whiteboard, calendar and Google sync, intake forms, task commands, templates, search, dashboards, storage, message channels, HTTP, browser clients, seed | single rows, files, outside services or none | see `PROJECT.json` | input, output and read models, or not yet modelled | - |

`PROJECT.json` lists every component with its sources and status, and every
hazard with its line and the properties that cover it.

## The modules

| module | models | source |
|---|---|---|
| `AutomationRule` | one rule, the log it scans, its runs and administrators | `automation_service.py`, `automation_repository.py`, `event_repository.py` |
| `TaskReminder` | the reminder of one task and its outbox rows | `task_reminder_service.py`, `task_reminder_outbox_repository.py`, the reminder parts of `task_service.py` |
| `NotificationScheduler` | one recipient's schedule, its daily runs, sweeps and settings | `internal_notification_scheduler_service.py`, its repository, `generate_for_organization` |
| `WorkItems` | the items of one organization, requests, the SLA sweep | `work_item_service.py`, its repository |
| `Access` | one account, its sessions, memberships and capabilities; the organizations | `auth_service.py`, `organization_service.py`, their repositories |
| `Billing` | billing of one organization, ledger and import included | `billing_service.py`, `billing_ledger_service.py`, their repositories |
| `Invoices` | invoices of one organization, their imports, edits and approvals | `invoice_service.py`, `approval_service.py`, `duplicate_detector.py`, seven repositories |
| `InvoiceHandoff` | the workflow of invoices, undo, and batches | `invoice_service.py`, `invoice_handoff_repository.py` |
| `Knowledge` | one document, its versions, the job queue | `knowledge_service.py`, its repository |
| `VersionHistory` | what a document's history promises: the abstract specification `Knowledge` implements | columns that versions and the official number are |
| `Schema` | the tables in script order, their foreign keys, later tables and columns | both schema scripts and the `_ensure_*` steps of `db.py` |
| `Database` | processes that start over a database of any release, SQLite and PostgreSQL | `db.py`, `run.py`, `reset_guard.py` |
| `DataMigration` | the copy of a SQLite file into PostgreSQL | `migrate_sqlite_to_configured_db.py`, `data_migration_manifest.py` |
| `MC...` | payloads, symmetry, and bounds for TLC | - |
| `AutomationRuleProofs`, `BillingProofs`, `DatabaseProofs` (with the theorem about `DataMigration`), `DeliveryProofs` (`TaskReminder` and `NotificationScheduler`), `InvoicesProofs`, `KnowledgeProofs`, `OrganizationsProofs` (`Access` and `InvoiceHandoff`), `WorkItemsProofs` | theorems | - |

`Database` and `DataMigration` both extend `Schema`, and `DatabaseProofs` extends both;
`DeliveryProofs` and `OrganizationsProofs` extend two modules as well. That is why `DataMigration`,
`NotificationScheduler` and `InvoiceHandoff` have names that say whose they are (`ScheduleNext`,
`HandoffSpec`). The modules share the grain, not
state: services meet in the tables, and a table that two of them write is modelled
with both writers (the sweep and the requests of `WorkItems`, the approvals inside
`Invoices`, the edits of a task inside `TaskReminder`).

In each module an action is one transaction with the local computation around
it, so the interleavings of the model are those of the program. A process that
works through several transactions has a record with a `pc`, or an *agenda* of the
transactions still to make, and the values it read and still uses. An operation
that ends half way (an exception of a database call, or the process killed) is an
action of its own (`Raise`, `Crash`, `Die`, `Abandon`, `SweepDies`,
`RequestDies`). Definitions named *Faulty* or in a comment *Mutant* are not part of a
specification: each is a plausible slip (a dropped guard, a reset forgotten) and
`PROJECT.json` says which property finds it. Every module states a type invariant
over its variables.

Two history variables recur. `mixed` (in `Knowledge`: `together`) records that two
requests have overlapped, `died` that one ended half way. Many operations of this
program are correct one after another and lose updates when they overlap, and no
source promises more; a property then says *Orderly =>* for the part that needs it,
and states without it what holds however requests overlap.

### AutomationRule

`rule` is the row of `automation_rules`, `log` the organization's events, `exec`
the rows of `automation_executions` by event (their unique index is why a second
claim fails), `run[r]` an invocation of `_process_rule`. `Begin` reads the rule,
`Acquire` takes the lease, `Fetch` lists a batch after the cursor *read by
`Begin`*, `Renew` is the checkpoint before each row, `ClaimExecution`, `Act` and
`CompleteExecution` handle a matching row, `FinalRenew` and `Progress` store the
cursor, `Release` is the `finally` block. `Raise` is an exception of a database
call, `Crash` the end of the process. `ReadRule`, `Activate` and `Update` are the
transactions of a PATCH and a DELETE.

Time is relative: `rule.lease` is what remains of the lease, and a timestamp
taken before a slow statement is up to `lag` units old when it is compared. On
PostgreSQL ids are taken before the commit, so `CommitEvent` may show a row
behind a later one; `Serial` switches this off for SQLite. Events that the
engine itself logs are rows of kind `Engine`, which no trigger names. The audit
row of an administrator or a handler is dropped once the log has `MaxLog` rows: it
is never a matching event, so the omission changes only ids. The automatic and the
manual path differ exactly as in the code: a manual run works on a disabled rule.

### TaskReminder

One task, Telegram only. An outbox row is named by the *anchor* in its delivery
key: `remind_at` for the first message of a cycle, `reminder_sent_at` afterwards.
`ReadDue` ... `QueueFailed` are `enqueue_due_reminders`, called by the loop or, with
`force`, by an operator's dispatch; `Claim` is `claim_due_deliveries`, which also
takes over rows in processing for longer than the timeout; `Load`, `Send`,
`Record` and the `Mark...` actions are `_process_outbox_delivery`, each `Mark...`
an UPDATE by primary key without a guard, as in the code. `Edit` and `Reset` are
the two transactions of an edit, snooze or change of status. `Requeue` is the
operator, `SendNow` the manual send. `SwitchOff` takes the organization, its provider or the
recipient away, `SwitchOn` brings one back: a delivery of another provider is cancelled before it is
sent, and is queued again once the provider is back. Times are minutes, the resolution of every
timestamp the code compares. History variables count messages, failures and
takeovers; every disturbance spends a `budget`.

### NotificationScheduler

Times are ticks in the schedule's zone, `DayLength` to a day, with the UTC offset
fixed. A sweep takes `at` once in `List` and uses it in all later comparisons,
as the command does for up to a hundred schedules; so a lease can be over when
it is written. `Ensure`, `ClaimRun`, `Create` (one insert per candidate), `Succeed`,
`Fail` and `Advance` are the repository's transactions; the lease token is the
number of the attempt, which is as unique. `ReadSettings` and `UpsertSchedule`
are `save_settings`.

### WorkItems

`items` are the rows, `trailed` and `told` what the history and the last event say
of them, `auto` whether the policy derives deadlines. A request reads a row,
computes from it what the UPDATE sets (`Updated`, `Snoozed`, `Reopened`, ...: a
record of the columns it names), and then writes the row, the history and the
event one by one (`WriteItem`, `WriteHistory`, `LogEvent`); a bulk request does so
for one item after another. `ListCandidates` is the query of the sweep, which
decides everything from the rows as it listed them; `SweepItem`, `SweepHistory` and
`SweepEvent` are its writes. The sweep starts with every dispatch of reminders
(`task_reminder_service.py:224`).

### Access

`account`, `membership`, `caps` and `sessions` are the rows of one user, `orgs` the
organizations with their channels. A login deletes expired sessions, then those of
its device, counts the devices, and inserts, in four transactions (`ReadLogin` ...
`CreateSession`). An administrator's request reads the account and its
capabilities, ends the sessions if the payload holds a password, validates,
updates, copies the membership and replaces the capabilities (`ReadAccount` ...
`ReplaceCaps`); `ReadOrg`, `CheckChannel`, `UpdateOrg` and `ReplaceModules` are the
edit of an organization. A session knows which sweep of a password change came
before it (`sweeps`), and the account which one its password belongs to (`since`).

### Billing

One organization. `studentState` and `payerState` are what is left of the
discounts for a year. A generation of charges works through the roll: `ReadCard` reads
what a family has left when its first pupil comes up, `DraftCharge` computes one charge
from what was read, spending the card in memory as it goes; then `CreateBatch`, one
`CreateCharge` and `SaveStudent` per draft, `SavePayer` per family, `ReadBalances` and
one `PostCharge` per draft write them. An import
stores its rows one by one (`LookUpRow`, `StoreRow`) and matches a row to the
family its account number names (`AutoMatch`); a match, by the import or by hand,
is `InsertMatch`, `UpdateTransaction`, `PostMatch` over a balance read before.
`CheckStep` and `InsertStep` are the two transactions of a next step.

### Invoices and InvoiceHandoff

A message is a value with a source, a KSeF number, a number and a supplier
(`Paper`); an invoice keeps the columns that the duplicate check, the authority of
KSeF data and the intake read. An import run looks each message up, creates an
invoice or lets KSeF's values overrule a stored one (`Creation`, `Overruling`: lists
of the transactions that follow), and each path refreshes the contractor's
statistics, evaluates duplicates, flags, and synchronizes the intake item, in the
order of that path. A check fetches all its messages (`Fetch`, `FetchFails`) before it looks the
first of them up. Edits of KSeF fields are corrections: applied at once by who
may, else an approval and an override that `Decide`, `ApplyStatus` and `Settle`
settle; `ReadInvoice` is the read before the corrections are settled, whose values are written later.
The instance begins with an invoice that an e-mail brought and KSeF has
overruled since. An edit of the model always gives a value: a correction that clears a field is
outside it (see below). `Flagged` has one form for both kinds of callers, because
`preserve_manual_status` makes no difference: a status that is kept because of it is also kept
without it.

TwinsAreFlagged says what the code does and no more. A check that finds an invoice with the same
KSeF number does not look for others with the same number and supplier (`DuplicateDetector.evaluate`),
so of two invoices with one number one is known to be a duplicate *of the other*, or is a certain
duplicate of a third (`Flags`). NothingLeftBehind is about e-mail: a message becomes the file of an
invoice, which never changes. There is no such promise for KSeF. A document that overrules an invoice
replaces the identifier of the document that had overruled it before, and it does so whenever number and
supplier are the same, a locally corrected number included
(`_find_authoritative_merge_candidate`, `_build_ksef_authoritative_updates`): the earlier document is then
kept by no row, although the run that brought it is complete. No source of the repository speaks about
this case.

In `InvoiceHandoff` a decision is an update and a log row of what was read before
and after; an undo takes back the newest logged decision that led to the present
state. A batch belongs to the organization of the first invoice selected and takes the number
counted for it. Then it goes through the selection: an invoice of another organization is passed over
(`PassOver`), any other is prepared and handed off (`Choose` ... `AddBatchItem`). The totals are the
request's own count of those it processed (`processed`, `WriteTotals`), not a count of the stored items.

### Knowledge and VersionHistory

`jobs` is the queue, `worker[w]` a question that works it off (`TakeJob` and `MarkJob`
are a SELECT and an UPDATE without a guard), `doc` the row the job's result is stored
in before its version is inserted. A job is marked completed before the event and the relations are
written; an error there marks it failed after all (`CompleteJob`). A request reads the document and writes later
(`Write`), then adds a job (`CreateJob`). `VersionHistory` is the abstract
specification: versions are published once each and never change, and only a
published one becomes official. `Knowledge` implements it with `versions` for
`published` and `doc.official` for `official`.

### Schema, Database, DataMigration

`Schema` holds the tables of the SQLite script in blocks, the seventeen `_ensure_*` steps that add
tables of later releases, the tables that get columns later (in the order of the steps), what a reset
leaves alone, and the foreign keys of the PostgreSQL script; the keys matter only to the order of the
data migration. `Database` runs the bootstrap over any release. On SQLite two processes interleave
statement by statement: `Preflight` refuses a file in which one event was executed twice for one rule;
then come the blocks of the script (`RunBlock`), the steps that add tables (`EnsureTables`, one commit
each), for every table the list of its columns and the ALTER (`ListColumns`, `AddColumns`; `ColumnTables`
includes the parent column of the next steps), the look at the contractors and the four statements that
move them (`ReadContractors` ... `RenameSpare`), the additive indexes (`EnsureIndexes`), and the defaults
with the version in one transaction (`RecordVersion`). **Nothing looks at the schema before the version is
written**: only a table that the defaults themselves read can stop it. `BuildServices` runs the bootstrap
once more when a reset has dropped the organizations under it. A reset (`StartReset`) is refused
only off SQLite: it may drop the tables of a process that serves or starts. `overtaken` are the
processes whose start the last reset has overtaken, and `wiped` lasts until a bootstrap that is not one of
them has finished. On PostgreSQL the bootstrap is one transaction that may lose a race for a
lock and try again. The rows it rewrites are kept: the contractors, the rights of
one account, one document. `DataMigration` copies table by table in the manifest's
order inside one transaction; a row can be inserted only when those it refers to
are visible. `Verify` compares whatever the plan would have objected to.

## Runs

| run | instance | distinct states | shows |
|---|---|---|---|
| `automation_sweeps` | 2 runs, batches of 2, rows out of order, lag 1, a crash, 1 administrator | 2.4 M | an event handled at most once; none skipped; the cursor monotonic; disabling stops a run after one event; a run begun after the activation replays nothing |
| `reminder_deliveries` | 2 workers, the queue loop, a quiet minute, 2 attempts, one disturbance of any kind | 0.43 M | a message repeated only after a takeover; failures in the budget; one message between two resets; a sent row stays sent; liveness: a due reminder is sent or given up, after a retry, a deferral, a cancellation or a crash |
| `scheduler_sweeps` | 2 sweeps, 2 days of 2 ticks, 2 candidates, 1 save, 1 crash | 0.43 M | overlap only after expiry; no day skipped; success complete and final; liveness: a due schedule moves on |
| `work_item_requests` | 1 item, 2 users with 2 requests, the sweep, one death | 0.22 M | columns agree however requests overlap; stages and levels kept; records complete; liveness: an overdue item is escalated |
| `access_requests` | 2 logins, 2 administrators, 4 requests of which 2 edits, any may die | 0.44 M | the device limit exceeded only by overlapping logins; a changed password ends older sessions; the membership follows the account |
| `billing_requests` | 2 operators, 3 requests, 3 students of one family in 2 models | 0.21 M | nobody charged twice and chains of steps not forked, however requests overlap; discounts, statuses, ledger and balance agree when they do not |
| `invoice_requests` | 2 operators, 3 requests, 6 documents, 4 invoices | 0.84 M | rows refer to what exists; duplicates flagged, approved corrections in force, e-mail imports leave nothing behind |
| `handoff_batches` | 2 operators, 3 requests, 3 invoices of 2 organizations, selections that mix them | 4.14 M | a batch counts its items, all of its organization, and is finished when nothing overlaps |
| `knowledge_documents` | 2 questions, 2 editors, 3 requests, 2 jobs, a death | 2.27 M | versions numbered without a gap; text, version and hash agree; the last job wins; `Knowledge` implements `VersionHistory` |
| `database_starts` | 2 processes, 2 starts or resets, 6 databases, both engines, a death | 0.19 M | a recorded version means the schema; contractors kept; liveness: an undisturbed start serves |
| `data_migration` | 2 operators, 3 runs, 5 source files, all 73 tables | 6 k | all or nothing; liveness: a copy ends and meets no missing parent |

The last run ends in a violation. `invoice_reimport`: the documents promise that
an attachment already imported is found again by its identifier; once KSeF data have
overruled the invoice, that identifier is KSeF's, and the next e-mail check imports
the attachment a second time (`app/services/invoice_service.py:4133`).

Every property has a mutant: a plausible slip in a mapped definition under which
the same run finds the property violated.

### Other disagreements with documents and labels

Met while modelling and visible in the models, but not part of a run:

* A sweep that read its rule before a disable and an enable scans from the old cursor
  and handles events of the disabled time, and a PATCH whose read came before another
  request's disable turns the rule on without moving the cursor
  (`app/services/automation_service.py:347`, `:218`), against
  `docs/AUTOMATION_OPERATIONS_CENTER.md:126`. FreshRunsNeverReplay therefore speaks of
  runs that begin after the activation.
* A reminder sent in its own minute never repeats, since the next cycle has the key of
  the row already sent, against the label of the preference (`static/index.html:1477`).
* A queued reminder is sent for a task closed in the meantime
  (`app/services/task_reminder_service.py:473`), against the rule that
  `send_reminder_now` states (`:358`). So is one whose organization was made inactive: only
  enqueueing looks at that.
* The bootstrap cannot upgrade a PostgreSQL database that lacks a column which the
  script indexes (`app/db.py:5657`), against `docs/STAGING_PREREQUISITES.md:38`.
  StartsServe excepts this case.
* A start stops at a database that holds two executions of one rule for one event
  (`app/db.py:4570`), as a release without the unique index could leave it. This is what
  `tests/test_automation_idempotency_claim.py:123` asks for, so no disagreement: StartsServe
  excepts it (`Upgradable`), and the database must be corrected by hand.
* An approved correction that clears a field of KSeF data is lost at the next KSeF check: empty
  values of `local_ksef_overrides` are passed over (`app/services/invoice_service.py:4127`), although
  `_apply_local_ksef_values` records them (`:3593`). `InvoicesAssumption` excludes such edits.

Behaviours that no source speaks about, and no property therefore excludes: on
PostgreSQL a row that commits behind the cursor is never seen (`event_repository.py:82`);
an edit of another column resets `reminder_sent_at` (`task_service.py:2641`), and a row
of the old anchor queued before a snooze is still delivered (`:1289`); the next run of
a schedule follows the local time the sweep listed; a second undo takes back a decision
that an undo has restored (`invoice_service.py:2570`); two deciders of one approval both
apply theirs (`approval_service.py:143`); batch numbers are unique in the database but
counted per organization (`db.py:4993`); two organizations may claim one Slack channel
(`organization_service.py:176`).

### Bounds

Two actors are enough for every overlap here, since each conflict is between an
owner and one that comes after it, or between two that read before either writes;
leases and timeouts of one unit expire as soon as they can. Requests, starts, crashes
and disturbances are budgets in the guards, all named as constants.

* `automation_sweeps`: `MaxLog = 2` with `Limit = 2` makes a batch of several rows, and an
  event that arrives behind the batch. The constraint `SmallAdministration` keeps the
  instance small: one run is manual or dies, not both; once the log holds its last row
  administrators only disable and no run is manual. Every overlap of automatic runs, and
  of a run with a disable and an enable, stays.
* `reminder_deliveries`: times 0 to 2 with minute 0 quiet hold a deferral, a failed send with its
  retry (`MaxAttempts = 2` makes the second failure the last), and a takeover. Reminders are set to
  minute 0 or 2 (`Times`), so an edit leaves a row of another anchor behind. `MaxEvents = 1` lets one of
  the disturbances happen, at any point: an edit (one or both of its transactions), a requeue, a
  dispatch, a crash, a manual send, or a loss of organization, provider or recipient. That it comes back
  (`SwitchOn`) costs nothing: a delivery is cancelled and then due again. `Repeat = 0` asks for one message.
* `scheduler_sweeps`: `LastTick = 3` gives two days, so every order of a sweep and midnight occurs.
* `work_item_requests`: one item, so the order of several items in a bulk request, and the
  limit of a sweep, are modelled but not exercised. A request about another item shares no row.
* `billing_requests`: three students exercise all three discounts at once, and two models
  that share a family card; two payments, one of them negative; three statements, one of
  which cannot be read and one of which repeats a row.
* `invoice_requests`: the tried edit gives an invoice the number of another; three requests allow
  a check, a correction and its decision, with any overlap of two of them.
* `handoff_batches`: three invoices, two of one organization, and selections in both orders, so that
  a batch passes an invoice over as its last one and that its organization is either one; three requests allow a
  batch, a decision on its invoices and an export of it.
* `knowledge_documents`: two versions and two jobs are the least at which order matters.
* `database_starts`: two starts overlap, or follow one another: an upgrade and, after its interruption,
  its repetition, or a reset under a start. The six databases are a new file, two releases that lack
  tables and columns, one whose users lack an indexed column, one with an event executed twice, and one
  that this release has made or upgraded (`marked`), where every further start or reset begins.

The clocks of `TaskReminder` and `NotificationScheduler` stop at `MaxNow` and `LastTick`; liveness
properties name what would have come after them (`BeyondBound`, `EndsLater`). `SYMMETRY` is used only in runs without
liveness, over sets whose members no action tells apart. Initial states are those
the code creates: a new rule, task or schedule, an account that is absent or just
created, an empty billing, a database of an earlier release or of this one.

Runs that end because requests are used up say `CHECK_DEADLOCK FALSE`; in the others
time can always pass, and deadlock is checked.

### Fairness

* `TaskReminder`: both loops poll until the process stops
  (`app/workers/task_reminder_worker.py`), so each scheduler's and worker's next step is
  weakly fair; a request that wrote an edit goes on to its reset; time passes. Nothing is
  assumed of sends (a send may fail each time), users, operators or crashes. DueIsSettled excepts
  what waits for a minute beyond the last one (`BeyondBound`): a retry, a deferral or a takeover
  that the bounded clock never reaches.
* `NotificationScheduler`: the job is started from outside, every five minutes by
  recommendation (`docs/INTERNAL_NOTIFICATION_SCHEDULER_RUNTIME.md:48`), which gives weak
  fairness of a sweep's next step; a request that began a save ends it.
* `WorkItems`: the sweep runs at the start of every dispatch of reminders, which polls, so
  its next step is weakly fair (where reminders are switched off nothing sweeps);
  nothing is assumed of users or of a failing sweep beyond `MaxDeaths`.
* `Database` and `DataMigration`: a started process goes on unless it is killed.
* `AutomationRule` has no fairness and no liveness property: `process_pending_events` has no
  caller in `app/`, so nothing promises that an event is handled. `Access`, `Billing`, `Invoices`,
  `InvoiceHandoff` and `Knowledge` have none because any request may end half way.

## Proofs

All that is assumed is in the modules, and TLC evaluates it in their runs:
`AutomationAssumption` and `SchedulerAssumption` (numbers are naturals, the lease and batch
are not zero, local times lie within a day), `KnowledgeAssumption` and `NoJobAssumption`
(there is a file, bounds are not zero, and no job is mistaken for none), `WorkItemsAssumption`
and `FormsAssumption` (the payloads have the columns the service reads, of their types),
`AccessAssumption` (finitely many logins, numbers are naturals, payloads of their types),
`ReminderAssumption` (finitely many loops and workers, numbers are naturals, times within the bound),
`HandoffAssumption` (an operator selects invoices, each once: the request
drops repeated ids, `invoice_service.py:2067`), `InvoicesAssumption` (messages have a source,
mailboxes hold e-mails and KSeF's inbox documents of KSeF, edits give a value and no edit is mistaken for none),
`BillingAssumption` (finitely many families and statement rows, a student once in the roll,
models with natural amounts, no payment of zero), `DatabaseAssumption`, `ReleasesAssumption`
and `SameTables` (an earlier release lacks tables of the script or columns that a later step adds, a
database that this release has marked lacks nothing).
One theorem, FreshRunsHandleArmed, has a hypothesis of its own.

`AutomationRuleProofs`, for any number of runs, administrators, triggers and rows:

* `TypeCorrect`: TypeOK.
* `HandledAtMostOnce`: AtMostOnce. TypeOK is not enough; `ClaimInv` adds that each
  run past a claim owns it alone: no two runs are at the handler of one event, a
  claimed event has an execution row, and one that was never claimed was never
  handled. The lease plays no part: the unique index alone gives the property.
* `CursorNeverMovesBack`: CursorMonotonic, with `CursorInv`: what is stored is a
  maximum, and a watermark lies at or after any cursor, because a cursor is the
  id of a committed row.
* `NothingSkipped`: NoSkippedEvent, with `SkipInv`. A run's own cursor may be ahead
  of the rule's, so the invariant (`RuleSkip`, `RunSkip`) says of the rule and of
  every run that each matching row between the base and its cursor is claimed,
  except the row at hand; rows the run fetched and those that committed late are
  accounted for apart.
* `DisabledRuleStops`: StopsAfterDisable, with `StopInv`: an automatic run that still has
  a claim to make while the rule is disabled has made none since.
* `FreshRunsHandleArmed`: FreshRunsNeverReplay, for one administrator. `FreshInv` says that
  every matching row after the last activation was written while the rule was armed, and
  that the cursor and whatever a fresh run holds lie after that activation. An administrator
  who read an active rule must still find it active, which a second one can undo: that is
  the overlap described under "Other disagreements" above, and with it the property is false.

`DeliveryProofs`, for any number of sweeps, days and candidates, and any
lease, backoff and number of attempts, from one inductive invariant `IInv`:
`ScheduleTypeCorrect`, `OverlapOnlyAfterExpiry`, `EveryDayServed`, `CompleteOnSuccess` and
`SuccessStays`. Its parts: `SweepInv` (a sweep's knowledge agrees with the tables:
its claim is not above the run's attempts, what it has passed is stored),
`ClaimsDiffer` (no two sweeps share a claim), `LeaseInv` (the last claimant's lease
is in the row, any earlier one's is over), `RunInv`, and `NextInv`: the schedule
never waits for more than tomorrow, without which NoDaySkipped is not preserved
at midnight. Days are kept out of the arithmetic by three lemmas on `DayOf`.

`KnowledgeProofs`, for any number of questions, requests, files, versions and jobs:

* `TypeCorrect`, from the inductive `IInv`: the tables, what each question and request
  knows, and that whatever a request has prepared can be stored.
* `ImplementsVersionHistory`: the refinement. A step that changes the versions adds one
  with a number that has none (`VersionsLemma`, the unique index), a step that changes the
  official number takes one that has a version (`OfficialLemma`: its existence was checked
  in an earlier transaction, and versions stay), and every other step is a stutter.
* `NumberedWithoutGap`: VersionsComplete, with `GapInv`: as long as nobody dies, the
  numbers given to versions and those taken by questions on their way to store one are
  together 1..k, and a question that has read the document takes one of them or k + 1.
  Given numbers alone would not be inductive: two questions may count the same number.
* `TextOfCurrentVersion` (ContentIsCurrentVersion) and `LastJobIsHeld` (LastJobWins), with
  `SerialInv`: while no two requests overlap and nobody died, one process is at work
  (`Alone`); the version a question is about to store has the number and text of the document
  (`TextInv`); jobs complete in the order of their numbers, every one but the last has been
  passed or is at hand, and the document has the hash of the last one completed (`QueueInv`). A job
  that is completed and then fails is at hand until its failure is written.

`WorkItemsProofs`, for any items, users, payloads and policies:

* `TypeCorrect` and `ColumnsStayTogether` (ColumnsAgree), with `TypeInv`. ColumnsAgree is
  not inductive, since a request writes over a row it has not read: the invariant says of
  every pending record of columns that it `Keeps` them together over any row at all
  (`ShapeLemma`: each operation names one of five sets of columns, which are closed).
* `StagesStay` (StagesAreKept), with `OrderInv`: an item that is not mixed has at most one
  request or sweep on it, what that one is about to write keeps stage and level of the
  row as it is now, and what it will report is the status it writes.
* `RecordsAreComplete`, with `TrailInv`: while nobody died, an item without its last
  history row or event has somebody on the way to write it.

`DeliveryProofs`, for any number of loops, workers and minutes, and any delays and limits:

* `ReminderTypeCorrect`, from the inductive `TypeInv`: what each loop and worker holds fits
  the place it is at.
* `DuplicatesAreTakeovers` (DuplicatesNeedTakeover), with `DuplicateInv`, a count per row:
  messages sent, workers about to send it, and one while it may still be claimed afresh, are
  together at most one more than its takeovers. The counts are cardinalities of sets of
  workers, so the proof rests on lemmas about what a set gains and loses when one worker moves.
* `RetriesAreBounded` (RetryBudget), with `BudgetInv`, of the same kind: failures, workers
  that may still fail, those that may send the row back to the queue, and dispatches that
  may, within what claims, takeovers and requeues have granted.
* `OneMessagePerCycle` (OncePerCycle), with `CycleInv`: between two resets at most one worker
  has a batch, and once a message is out, the task records it or that worker is about to.
* `SentRowsStaySent`: the action property SentIsFinal, with `SentInv`: a row marked sent, or
  about to be, has had its message.

`OrganizationsProofs`, for any number of logins, administrators, devices, payloads and organizations,
and, in its last part, any clerks, invoices and selections of the hand-off:

* `AccessTypeCorrect`, from the inductive `TypeInv`: a request at a later stage has the
  payload that leads there.
* `MembershipMirrors` (MembershipMirrorsAccount): inductive as it stands, because every
  transaction that changes the account leaves its request at the copy that follows.
* `PasswordChangeEnds` (PasswordChangeEndsSessions), with `SweepInv`: no session is older than
  the last sweep, and no account and no request knows of a later one.
* `DevicesStayBounded` (DeviceBound), with `DeviceInv`: what will be counted once every login
  under way has created its session is below the limit plus the number of logins. The
  property itself is not inductive: it does not see the logins that have counted already.
* `HandoffTypeCorrect` and `BatchesStayAgreed` (BatchesAgree of `InvoiceHandoff`): a request that
  fills a batch has put in it those of the invoices it has been through that are of the batch's
  organization, each once, its own count is their number, and nothing else writes to it (`Fills`); while requests come one at a time the invoices passed are handed off (`InOrder`).

`BillingProofs`, for any families, students, models, statements, operators and bounds. The
library has no facts about sums over finite sets, so it begins with those: the sum's recursion
is a table on the subsets (`SumTable`), any element can be taken out (`SumTake`, by a least
counterexample, because an induction theorem cannot be instantiated here), one value changes
(`SumChange`), only the values on the set matter (`SumSame`). Then each action gets a lemma
that says what it does to its request and the tables, and the invariants use only those.

* `TypeCorrect`, from `TypeInv`: what a request holds fits its stage; the amounts left of a
  discount are never negative.
* `ChainsStayOpenOnce` (OneOpenStep), with `StepInv`: a checked parent may get its child only
  as long as nobody else got there first, which the unique index decides.
* `StudentsAreChargedOnce` (ChargedOnce), with `ChargeInv`: batches are unique, one request
  owns each batch under construction, its drafts name a student of the model once, and the
  charges of its batch are those of the drafts before the one at hand.
* `BooksStayInAgreement` (BooksAgree), with `StoredInv` (an import has stored the rows up to
  the one it is at, however imports overlap) and `BooksInv`: while requests come one after
  another nobody else works (`LoneInv`), and the books agree but for what the working request
  has still to write: charges without their entry (`Owed`), a match without its entry
  (`Returned`), a payment whose match was just written (`Settled`), an import not yet ended.
* `DiscountsAreAccounted` (DiscountsAccounted), with `SpentInv`: for every student the drafts
  split what was left (`Splits`) until the charge is written and the new rest is still to be
  saved (`Granted`); for every family what was taken, what its card still holds and what
  unwritten drafts take from it are together what the model grants (`FamiliesBooked`).

`DatabaseProofs`, for any processes, databases and bounds, and, in its last part, any
SQLite files and operators of the copy:

* `TypeCorrect`: TypeOK.
* `VersionIsNotAhead` (VersionMeansSchema), with `WholeInv`. Nobody looks at the schema before the
  version is written, so the invariant says what a process knows by the place it is at: every table it has
  come past is there (`Sure`, `MadeInv`; or, for the contractors, being moved: `There`), every column it
  has come past too (`ColumnsInv`). Creating a table never removes one, and only two things do: the move
  of the contractors, which leaves the spare table standing for it (`SpareInv`), and a reset. A process
  that a reset has overtaken knows nothing of the tables any more, so `MadeInv` is not about it; and as
  long as no other has finished, `wiped` holds (`OvertakenInv`, `TablesInv`). A bootstrap that forgets a
  table, or makes it after the version, breaks `MadeInv`.
* `ContractorsStay` (ContractorsKept), with `KeptInv`: a start that neither overlaps nor dies is
  alone, and its place among the four statements of the move says which table has the rows.
* `CopiesAreWhole` (WholeOrNothing of `DataMigration`), with `CopyInv`: an open copy has
  written just the filled tables before the one it is at, so at the end of the order it has
  written the whole snapshot; the target is that or empty.
* `MigrationTypeCorrect` (MigrationTypeOK), from CopyInv as well.

`InvoicesProofs`, for any operators, documents, mailboxes, edits, invoices and numbers of requests.
A request is a list of transactions still to make, so the first invariant is about lists. `Ordered`
says which steps follow which (`Musts`) and which never come after which (`Nevers`); it is shown once
of each list the code makes, and of the rest of a list once its first step is done (`AheadLemma`);
after that a proof asks only what may still come, never which list it is.

* `RequestsKnow` (BaseInv): what a request knows fits what it has still to do (`Aware`): the
  invoice it is about exists before a step that writes it, an approval before it is decided or its
  corrections saved, and an invoice it corrects is KSeF's. Each part may say so only from the step on
  that makes it true, and the lists say when that is. A run belongs to one request and is
  running as long as that request has it (`Conducts`).
* `NothingIsLeftBehind` (NothingLeftBehind), with `MailInv`: every message of the mailbox is
  still to come, the file of an invoice, about to be one, or an error that the run has counted or is
  about to count (`Accounted`). It holds however requests overlap, die or edit in between.
* `CorrectionsStayInForce` (CorrectionsInForce), with `CorrectionsInv`: while requests come one
  at a time, only one works; what it has read of the local corrections is still so when it writes
  them back (`Sees`); an approved correction is in force, or the working request is
  about to apply one for that field (`AwaitedBy`), which is itself approved (`Approved`); and the
  corrections of a pending approval are pending.
* `TwinsEndFlagged` (TwinsAreFlagged), with `TwinsInv`: of two invoices that are alike, one is
  flagged or the working request will flag it (`WillFlag`): it has still to evaluate it, or has, and
  found the other or an exact match (`Compares`). The invariant needs CorrectionsInv: a
  check that KSeF's data bring on must not undo a local correction.
* `InvoicesTypeCorrect` (TypeOK), with `LinksInv` and `KnowingInv`: a request seeks the contractor in one
  transaction and writes the invoice that refers to it in a later one. Once the steps that seek and
  create it are no longer to come, it is stored (`HasContractor`), because the number sought and
  the one written are read from the same place (`NipLemma`) and no table loses a row (`More`); what a
  duplicate check has found are other invoices (`HasFound`).

Only model-checked: the liveness properties (fairness and ENABLED are out of the prover's reach).
The refutation of `invoice_reimport` is TLC's too. The type
invariants are theorems; that of `Invoices`, which says what its rows refer to, belongs to a run
too, the others were checked with TLC while they were written. The inductive invariants of `InvoicesProofs` were
invariants of the instance of `invoice_requests` before they were proved.

## Not modelled

* Data: text of messages, rule conditions beyond the trigger, candidates' contents, ranking,
  parsing, OCR, amounts beyond small numbers. No property here depends on it.
* Limits of a query that no bound here reaches: a match adds up the latest 200 matches of a payment
  (`billing_ledger_service.py:135`), a batch number counts the latest 200 batches of the day
  (`invoice_service.py:2041`). `Billing` and `InvoiceHandoff` have no such limit, and the latter is one
  day: what is proved about them holds below the limits.
* The application that writes to the target of a data migration while an operator verifies it.
* Several rules, tasks, schedules, accounts or documents at once, where they share no row.
* Daylight saving time, which changes the instant of a local time but not the order of days.
* Slack, Google, KSeF and e-mail protocols, storage, HTTP routing, browser clients: input and output.
* Search, dashboards, lists, summaries and the operations centre: they only read.
* Task commands and the parsing of dates and amounts: pure functions without state.
* Whiteboard, intake forms, the calendar and its Google copies, and tasks beyond their
  reminders: they do change state and are next.

## Plan

Done: the modules above, their twelve runs and forty-eight theorems. Next, in this order:

1. `CalendarSync`: connections, their tokens and approvals, and the copies of tasks; a refresh of
   a token that overlaps a disconnect.
2. `Whiteboard`: pollers over an append-only log, sharing the late commits of `AutomationRule`.
3. Tasks and intake: creation with links and visibility, a submission that becomes a task.
