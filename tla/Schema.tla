------------------------------- MODULE Schema -------------------------------
(***************************************************************************)
(* The tables of the database (app/db.py).  The SQLite script is a list of *)
(* tables in the order it creates them, read here in blocks; the           *)
(* PostgreSQL script gives for each table the tables its foreign keys      *)
(* refer to.  The steps that follow the scripts add tables of later        *)
(* releases, columns of older tables, and leave some tables out of a       *)
(* reset.  Only what the start-up, the reset and the data migration tell   *)
(* apart is kept: which table, and which tables it refers to.              *)
(***************************************************************************)
EXTENDS Sequences, FiniteSets, TLC

(***************************************************************************)
(* SQLITE_SCHEMA                                                           *)
(***************************************************************************)
Accounts ==
  <<"organizations", "contractors", "users", "user_calendars", "user_google_calendar_connections">>

Sessions ==
  <<"user_calendar_assignments", "google_calendar_oauth_states", "user_sessions", "invoices">>

TaskTables ==
  <<"tasks", "task_visibility_users", "task_links", "task_notes", "task_checklist_items">>

Requests ==
  <<"task_templates", "approval_requests", "invoice_ksef_field_overrides", "task_attachments",
    "task_history">>

WorkTables ==
  <<"work_items", "work_item_history", "task_reminder_outbox", "task_reminder_outbox_attempts">>

Registers ==
  <<"task_reminder_worker_heartbeats", "billing_schools", "billing_models", "billing_payers",
    "billing_students">>

Charging ==
  <<"billing_charge_batches", "billing_charges", "billing_student_charge_state",
    "billing_payer_charge_state", "billing_bank_accounts", "billing_statement_imports">>

Payments ==
  <<"billing_transactions", "billing_payment_matches", "billing_payer_ledger_entries",
    "billing_notes", "billing_payment_review_events", "billing_work_queue_events">>

Notifying ==
  <<"billing_contact_events", "billing_next_step_events", "internal_notifications",
    "internal_notification_state_events", "internal_notification_schedules">>

Documents ==
  <<"internal_notification_schedule_runs", "invoice_relations", "event_logs", "intake_forms",
    "intake_items">>

Rules ==
  <<"intake_item_comments", "intake_item_history", "entity_attachments", "saved_views",
    "automation_rules", "automation_executions">>

Knowledge ==
  <<"knowledge_documents">>

\* The blocks of the script, in the order it creates them.
Blocks ==
  <<Accounts, Sessions, TaskTables, Requests, WorkTables, Registers, Charging, Payments,
    Notifying, Documents, Rules, Knowledge>>

Members(seq) == {seq[i] : i \in DOMAIN seq}

ScriptTables == UNION {Members(Blocks[i]) : i \in DOMAIN Blocks}

(***************************************************************************)
(* POSTGRES_SCHEMA: the tables each foreign key refers to                  *)
(***************************************************************************)
AccountKeys ==
  [organizations |-> {}, contractors |-> {"organizations"}, users |-> {"organizations", "users"},
   user_calendars |-> {"organizations", "users"}, user_google_calendar_connections |-> {"users"}]

SessionKeys ==
  [user_calendar_assignments |-> {"user_calendars", "users"},
   google_calendar_oauth_states |-> {"users"}, user_sessions |-> {"users"},
   invoices |-> {"contractors", "organizations", "users"}]

TaskKeys ==
  [tasks |-> {"organizations", "user_calendars", "users"},
   task_visibility_users |-> {"organizations", "tasks", "users"},
   task_links |-> {"organizations", "tasks", "users"},
   task_notes |-> {"organizations", "task_notes", "tasks", "users"},
   task_checklist_items |-> {"organizations", "tasks", "users"}]

RequestKeys ==
  [task_templates |-> {"organizations", "users"}, approval_requests |-> {"organizations", "users"},
   invoice_ksef_field_overrides |-> {"approval_requests", "invoices", "organizations", "users"},
   task_attachments |-> {"organizations", "tasks", "users"},
   task_history |-> {"organizations", "tasks"}]

WorkKeys ==
  [work_items |-> {"organizations", "users"},
   work_item_history |-> {"organizations", "work_items"},
   task_reminder_outbox |-> {"organizations", "tasks", "users"},
   task_reminder_outbox_attempts |-> {"organizations", "task_reminder_outbox", "tasks"}]

RegisterKeys ==
  [task_reminder_worker_heartbeats |-> {}, billing_schools |-> {"organizations"},
   billing_models |-> {"organizations"}, billing_payers |-> {"organizations"},
   billing_students |-> {"billing_models", "billing_payers", "billing_schools", "organizations"}]

ChargingKeys ==
  [billing_charge_batches |-> {"billing_models", "organizations", "users"},
   billing_charges |->
     {"billing_charge_batches", "billing_models", "billing_payers", "billing_students", "organizations"},
   billing_student_charge_state |-> {"billing_students", "organizations"},
   billing_payer_charge_state |-> {"billing_payers", "organizations"},
   billing_bank_accounts |-> {"organizations"}]

PaymentKeys ==
  [billing_statement_imports |-> {"billing_bank_accounts", "organizations", "users"},
   billing_transactions |-> {"billing_bank_accounts", "billing_statement_imports", "organizations"},
   billing_payment_matches |->
     {"billing_charges", "billing_payers", "billing_transactions", "organizations", "users"},
   billing_payer_ledger_entries |->
     {"billing_charges", "billing_payers", "billing_transactions", "organizations", "users"},
   billing_notes |-> {"billing_payers", "organizations", "users"}]

ReviewKeys ==
  [billing_payment_review_events |-> {"billing_transactions", "organizations", "users"},
   billing_work_queue_events |-> {"organizations", "users"},
   billing_contact_events |-> {"billing_payers", "billing_transactions", "organizations", "users"},
   billing_next_step_events |-> {"organizations", "users"},
   internal_notifications |-> {"organizations", "users"}]

NoticeKeys ==
  [internal_notification_state_events |-> {"internal_notifications", "organizations", "users"},
   internal_notification_schedules |-> {"organizations", "users"},
   internal_notification_schedule_runs |->
     {"internal_notification_schedules", "organizations", "users"},
   invoice_relations |-> {"invoices"}, event_logs |-> {"invoices", "organizations"}]

IntakeKeys ==
  [intake_forms |-> {"organizations", "users"},
   intake_items |-> {"intake_forms", "invoices", "organizations", "tasks", "users"},
   intake_item_comments |-> {"intake_item_comments", "intake_items", "organizations", "users"},
   intake_item_history |-> {"intake_items", "organizations"},
   entity_attachments |-> {"organizations", "users"}]

RuleKeys ==
  [saved_views |-> {"organizations", "users"}, automation_rules |-> {"organizations", "users"},
   automation_executions |-> {"automation_rules", "organizations"},
   knowledge_documents |-> {"organizations", "users"}]

(***************************************************************************)
(* The tables that the steps after the script create                       *)
(***************************************************************************)
CapabilityTables == [user_capabilities |-> {"users"}]

MembershipTables == [organization_memberships |-> {"organizations", "users"}]

ModuleTables == [organization_modules |-> {"organizations", "users"}]

EmailTables ==
  [email_import_runs |-> {"organizations"},
   email_import_items |-> {"email_import_runs", "invoices", "organizations"}]

KsefTables ==
  [ksef_import_runs |-> {"organizations"},
   ksef_import_items |-> {"invoices", "ksef_import_runs", "organizations"}]

OverrideTables ==
  [invoice_ksef_field_overrides |-> {"approval_requests", "invoices", "organizations", "users"}]

WhiteboardTables == [organization_whiteboard_events |-> {"organizations", "users"}]

PipelineTables ==
  [knowledge_document_versions |-> {"knowledge_documents", "organizations", "users"},
   knowledge_processing_jobs |-> {"knowledge_documents", "organizations", "users"}]

WatcherTables == [knowledge_folder_watchers |-> {"organizations"}]

CommentTables ==
  [knowledge_document_comments |->
     {"knowledge_document_comments", "knowledge_document_versions", "knowledge_documents", "organizations", "users"}]

GoogleTables ==
  [user_google_calendar_connections |-> {"users"},
   user_calendar_assignments |-> {"user_calendars", "users"},
   google_calendar_oauth_states |-> {"users"}]

InvoiceCommentTables ==
  [invoice_comments |-> {"invoice_comments", "invoices", "organizations", "users"}]

ContractorNoteTables == [contractor_notes |-> {"contractors", "organizations", "users"}]

InboxTables == [user_module_inbox_state |-> {"organizations", "users"}]

OAuthTables ==
  [system_email_google_connections |-> {"users"}, system_email_oauth_states |-> {"users"}]

SettingsTables == [system_settings |-> {"users"}]

HandoffTables ==
  [invoice_handoff_batches |-> {"organizations", "users"},
   invoice_handoff_batch_items |-> {"invoice_handoff_batches", "invoices"}]

AddedKeys ==
  CapabilityTables @@ MembershipTables @@ ModuleTables @@ EmailTables @@ KsefTables
    @@ OverrideTables @@ WhiteboardTables @@ PipelineTables @@ WatcherTables @@ CommentTables
    @@ GoogleTables @@ InvoiceCommentTables @@ ContractorNoteTables @@ InboxTables @@ OAuthTables
    @@ SettingsTables @@ HandoffTables

\* The foreign keys of every table; casi_schema_metadata refers to none.
Keys ==
  AccountKeys @@ SessionKeys @@ TaskKeys @@ RequestKeys @@ WorkKeys @@ RegisterKeys
    @@ ChargingKeys @@ PaymentKeys @@ ReviewKeys @@ NoticeKeys @@ IntakeKeys @@ RuleKeys
    @@ AddedKeys

\* The steps after the script, in their order, by the tables each creates
AddedBlocks ==
  <<DOMAIN CapabilityTables, DOMAIN MembershipTables, DOMAIN ModuleTables, DOMAIN EmailTables,
    DOMAIN KsefTables, DOMAIN OverrideTables, DOMAIN WhiteboardTables, DOMAIN PipelineTables,
    DOMAIN WatcherTables, DOMAIN CommentTables, DOMAIN GoogleTables, DOMAIN InvoiceCommentTables,
    DOMAIN ContractorNoteTables, DOMAIN InboxTables, DOMAIN OAuthTables, DOMAIN SettingsTables,
    DOMAIN HandoffTables>>

AddedTables == UNION Members(AddedBlocks)

AllTables == ScriptTables \cup AddedTables

\* The two scripts and the steps after them speak of the same tables.
ASSUME SameTables == DOMAIN Keys = AllTables /\ AddedTables = DOMAIN AddedKeys

(***************************************************************************)
(* Columns of later releases: the table of a step of its own and then the  *)
(* dictionary of columns; the tables of the script with an index over such *)
(* a column; and the tables of the indexes that are made at the end        *)
(***************************************************************************)
ParentColumns == <<"billing_next_step_events">>

AdditiveColumns ==
  <<"organizations", "contractors", "users", "user_calendars", "user_sessions",
    "user_google_calendar_connections", "tasks", "task_notes", "task_checklist_items",
    "task_templates", "approval_requests", "knowledge_documents">>

LaterColumns ==
  <<"billing_payers", "billing_students", "invoices", "event_logs", "automation_rules",
    "invoice_handoff_batches", "invoice_handoff_batch_items">>

ColumnTables == ParentColumns \o AdditiveColumns \o LaterColumns

Indexed ==
  {"contractors", "users", "user_calendars", "user_google_calendar_connections",
   "user_sessions", "invoices", "tasks", "task_notes", "task_templates", "approval_requests",
   "event_logs"}

AdditiveIndexes ==
  {"automation_executions", "billing_charge_batches", "billing_charges", "billing_models",
   "billing_payer_charge_state", "billing_payers", "billing_schools",
   "billing_student_charge_state", "billing_students", "contractors", "email_import_runs",
   "event_logs", "google_calendar_oauth_states", "intake_items",
   "internal_notification_schedule_runs", "invoice_handoff_batch_items",
   "invoice_handoff_batches", "invoices", "knowledge_documents", "knowledge_processing_jobs",
   "ksef_import_runs", "organizations", "task_attachments", "task_links", "task_notes",
   "task_reminder_outbox", "task_reminder_outbox_attempts", "task_visibility_users", "tasks",
   "user_calendar_assignments", "user_calendars", "user_google_calendar_connections", "users",
   "work_item_history", "work_items"}

\* The reset drops every other table.
KeptByReset ==
  {"automation_executions", "automation_rules", "entity_attachments",
   "google_calendar_oauth_states", "intake_forms", "intake_item_comments", "intake_item_history",
   "intake_items", "invoice_handoff_batch_items", "invoice_handoff_batches", "saved_views",
   "system_settings", "task_links", "user_calendar_assignments",
   "user_google_calendar_connections"}

ResetTables == AllTables \ KeptByReset

=============================================================================
