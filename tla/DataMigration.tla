--------------------------- MODULE DataMigration ---------------------------
(***************************************************************************)
(* The one-time copy of a SQLite file into an empty PostgreSQL database    *)
(* (migrate_sqlite_to_configured_db.py), driven by a manifest that names   *)
(* every table, in the order it is copied.                                 *)
(*                                                                         *)
(* A table is modelled by whether it holds rows: "filled" sets of tables.  *)
(* A row that refers to a row of another table can be inserted only when   *)
(* that one is there, in the database or earlier in the same transaction.  *)
(* Several operators may run the command at once, and a run may die.  Not  *)
(* modelled: the application, which writes to the target once it serves.   *)
(* Names of Init, Next and the like are qualified, so that one module can  *)
(* extend this one and Database.                                           *)
(***************************************************************************)
EXTENDS Schema, Integers

CONSTANTS
  Operators,   \* runs of the command
  Sources,     \* SQLite files: [tables, filled, defects]
  MaxRuns      \* bound on runs

ASSUME MigrationAssumption ==
  /\ MaxRuns \in Nat
  /\ \A s \in Sources : s.filled \subseteq s.tables

(***************************************************************************)
(* MIGRATION_MANIFEST, the migrated tables in their order                  *)
(***************************************************************************)
AccountSpecs ==
  <<"organizations", "users", "organization_memberships", "organization_modules",
    "user_capabilities", "system_settings", "user_calendars">>

TaskSpecs ==
  <<"user_google_calendar_connections", "user_calendar_assignments",
    "system_email_google_connections", "tasks", "task_visibility_users", "task_links",
    "task_notes">>

WorkSpecs ==
  <<"task_checklist_items", "task_templates", "approval_requests", "task_attachments",
    "task_history", "work_items", "work_item_history">>

\* Mutant: the items of the handed-over batches come before the batches.
ItemsBeforeBatches ==
  <<"contractors", "contractor_notes", "invoices", "invoice_relations", "invoice_comments",
    "invoice_handoff_batch_items", "invoice_handoff_batches">>

InvoiceSpecs ==
  <<"contractors", "contractor_notes", "invoices", "invoice_relations", "invoice_comments",
    "invoice_handoff_batches", "invoice_handoff_batch_items">>

RegisterSpecs ==
  <<"invoice_ksef_field_overrides", "billing_schools", "billing_models", "billing_payers",
    "billing_students", "billing_charge_batches", "billing_charges">>

ChargeSpecs ==
  <<"billing_student_charge_state", "billing_payer_charge_state", "billing_bank_accounts",
    "billing_statement_imports", "billing_transactions", "billing_payment_review_events",
    "billing_work_queue_events">>

PaymentSpecs ==
  <<"billing_contact_events", "billing_next_step_events", "billing_payment_matches",
    "billing_payer_ledger_entries", "billing_notes", "knowledge_documents",
    "knowledge_document_versions">>

KnowledgeSpecs ==
  <<"knowledge_processing_jobs", "knowledge_folder_watchers", "knowledge_document_comments",
    "intake_forms", "intake_items", "intake_item_comments", "intake_item_history">>

IntakeSpecs ==
  <<"entity_attachments", "saved_views", "automation_rules",
    "organization_whiteboard_events", "event_logs", "automation_executions",
    "email_import_runs">>

ImportSpecs ==
  <<"email_import_items", "ksef_import_runs", "ksef_import_items", "task_reminder_outbox",
    "task_reminder_outbox_attempts", "internal_notifications",
    "internal_notification_state_events">>

ReminderSpecs ==
  <<"internal_notification_schedules", "internal_notification_schedule_runs",
    "user_module_inbox_state">>

TableOrder ==
  AccountSpecs \o TaskSpecs \o WorkSpecs \o InvoiceSpecs \o RegisterSpecs \o ChargeSpecs
    \o PaymentSpecs \o KnowledgeSpecs \o IntakeSpecs \o ImportSpecs \o ReminderSpecs

Migrated == Members(TableOrder)

\* Rebuilt or temporary: the manifest names them and leaves them out.
Excluded ==
  {"casi_schema_metadata", "google_calendar_oauth_states", "system_email_oauth_states",
   "task_reminder_worker_heartbeats", "user_sessions"}

\* A source of a release without notifications may lack these.
LegacyOptional ==
  {"internal_notifications", "internal_notification_state_events",
   "internal_notification_schedules", "internal_notification_schedule_runs"}

VARIABLES
  source,    \* the file; it is opened immutable and never changes
  schemaOk,  \* the target records the schema version
  target,    \* tables of the target with committed rows of the source
  behind,    \* tables whose sequence would give an id that is taken
  run,       \* per operator: [at, next, written]
  begun,     \* runs so far (bound)
  moved,     \* a copy has been committed
  report     \* result of the last verification

migrationVars == <<source, schemaOk, target, behind, run, begun, moved, report>>

Ready == [at |-> "idle", next |-> 1, written |-> {}]

MigrationInit ==
  /\ source \in Sources
  /\ schemaOk \in BOOLEAN
  /\ target = {} /\ behind = {}
  /\ run = [m \in Operators |-> Ready]
  /\ begun = 0 /\ moved = FALSE /\ report = "none"

RunAt(m, place) == run[m].at = place

Ends(m, result) == run' = [run EXCEPT ![m] = [Ready EXCEPT !.at = result]]

(***************************************************************************)
(* The plan: every issue blocks the copy                                   *)
(***************************************************************************)
\* Tables the manifest does not name, also one left by an unfinished upgrade, and
\* migrated tables that the file lacks
SchemaIssues(s) ==
  (s.tables \ (Migrated \cup Excluded)) \cup ((Migrated \ LegacyOptional) \ s.tables)

StoragePathIssues(s) == s.defects \cap {"path"}

InvalidJsonIssues(s) == s.defects \cap {"json"}

RelationIssues(s) == s.defects \cap {"relation"}

Snapshot(s) == s.filled \cap Migrated

Issues(s) ==
  SchemaIssues(s) \cup StoragePathIssues(s) \cup InvalidJsonIssues(s) \cup RelationIssues(s)

TargetHasData == target # {}

\* apply: plan, version, and the check that the target is empty opens the transaction
Apply(m) ==
  /\ RunAt(m, "idle") /\ begun < MaxRuns
  /\ begun' = begun + 1
  /\ IF Issues(source) # {} \/ ~schemaOk \/ TargetHasData
     THEN Ends(m, "refused")
     ELSE run' = [run EXCEPT ![m].at = "copying"]
  /\ UNCHANGED <<source, schemaOk, target, behind, moved, report>>

\* Tables of which rows are visible to the transaction of m
Visible(m) == target \cup run[m].written

\* Filled tables a row of t refers to, except t itself: its rows go in the order of
\* their keys.
Parents(t) == (Keys[t] \ {t}) \cap source.filled

\* Mutant: each table on a connection of its own.
CopyTableAlone(m) ==
  LET t == TableOrder[run[m].next] IN
  /\ RunAt(m, "copying") /\ run[m].next <= Len(TableOrder)
  /\ IF t \in source.filled /\ t \in target THEN Ends(m, "duplicate")
     ELSE run' = [run EXCEPT ![m].next = @ + 1]
  /\ target' = target \cup ({t} \cap source.filled)
  /\ behind' = behind \cup ({t} \cap source.filled)
  /\ UNCHANGED <<source, schemaOk, begun, moved, report>>

\* The next table.  A row that another open transaction has inserted makes this one wait;
\* one that has been committed since is a duplicate key.
CopyTable(m) ==
  LET t == TableOrder[run[m].next] IN
  /\ RunAt(m, "copying") /\ run[m].next <= Len(TableOrder)
  /\ \A o \in Operators \ {m} : t \notin run[o].written
  /\ IF t \notin source.filled
     THEN run' = [run EXCEPT ![m].next = @ + 1]
     ELSE IF t \in target THEN Ends(m, "duplicate")
     ELSE IF ~(Parents(t) \subseteq Visible(m)) THEN Ends(m, "orphan")
     ELSE run' = [run EXCEPT ![m].next = @ + 1, ![m].written = @ \cup {t}]
  /\ UNCHANGED <<source, schemaOk, target, behind, begun, moved, report>>

\* Every migrated table has a sequence column.
Sequences == Migrated

\* setval to the largest id of each table; the rows become visible with the commit.
ResetSequences(m) ==
  /\ RunAt(m, "copying") /\ run[m].next > Len(TableOrder)
  /\ target' = target \cup run[m].written
  /\ behind' = (behind \cup run[m].written) \ Sequences
  /\ moved' = TRUE
  /\ Ends(m, "applied")
  /\ UNCHANGED <<source, schemaOk, begun, report>>

\* The transaction is rolled back with its connection.
RunDies(m) ==
  /\ RunAt(m, "copying")
  /\ Ends(m, "died")
  /\ UNCHANGED <<source, schemaOk, target, behind, begun, moved, report>>

\* verify: both sides row by row, whatever else the plan would object to; a migrated table that
\* the file lacks and the target without a version raise.
Verify(m) ==
  /\ RunAt(m, "idle") /\ begun < MaxRuns
  /\ begun' = begun + 1
  /\ IF schemaOk /\ Migrated \ LegacyOptional \subseteq source.tables
     THEN /\ report' = IF Snapshot(source) = target THEN "pass" ELSE "fail"
          /\ Ends(m, "verified")
     ELSE /\ Ends(m, "refused")
          /\ UNCHANGED report
  /\ UNCHANGED <<source, schemaOk, target, behind, moved>>

\* The command ends; it may be called again.
Leave(m) ==
  /\ run[m].at \notin {"idle", "copying"}
  /\ run' = [run EXCEPT ![m] = Ready]
  /\ UNCHANGED <<source, schemaOk, target, behind, begun, moved, report>>

RunStep(m) == CopyTable(m) \/ ResetSequences(m)

MigrationNext ==
  \E m \in Operators : Apply(m) \/ RunStep(m) \/ RunDies(m) \/ Verify(m) \/ Leave(m)

MigrationSpec == MigrationInit /\ [][MigrationNext]_migrationVars

FairMigrationSpec == MigrationSpec /\ \A m \in Operators : WF_migrationVars(RunStep(m))

-----------------------------------------------------------------------------
\* Tables and runs stay in their sets.
MigrationTypeOK ==
  /\ source \in Sources /\ schemaOk \in BOOLEAN
  /\ target \subseteq Migrated /\ behind \subseteq Migrated
  /\ \A m \in Operators :
       /\ run[m].at \in {"idle", "copying", "refused", "duplicate", "orphan", "applied",
                         "died", "verified"}
       /\ run[m].next \in 1..(Len(TableOrder) + 1)
       /\ run[m].written \subseteq Migrated
  /\ begun \in 0..MaxRuns /\ moved \in BOOLEAN
  /\ report \in {"none", "pass", "fail"}

\* Whatever runs overlap or die, the target holds all migrated rows or none; a commit
\* leaves the next id of every table free; and a verification passed means all are there.
WholeOrNothing ==
  /\ target \in {{}, Snapshot(source)}
  /\ moved => target = Snapshot(source) /\ behind = {}
  /\ report = "pass" /\ Snapshot(source) # {} => moved

\* A copy that has begun ends: committed, stopped by a row that is already there, or killed;
\* no table comes before one its rows refer to, which would stop the copy of a correct file.
CopiesEnd ==
  \A m \in Operators :
    RunAt(m, "copying") ~> run[m].at \in {"applied", "duplicate", "died"}

=============================================================================
