-------------------------- MODULE MCDataMigration --------------------------
EXTENDS DataMigration

Source(with, rows, faults) == [tables |-> with, filled |-> rows, defects |-> faults]

Every == AllTables \cup {"casi_schema_metadata"}

\* A full file, a legacy one without notifications, one with few rows, one that an
\* interrupted upgrade left with a spare table, and one with a broken document.
MCSources ==
  {Source(Every, Every, {}),
   Source(Every \ LegacyOptional, Every \ LegacyOptional, {}),
   Source(Every, {"organizations", "users", "invoices", "event_logs", "user_sessions"}, {}),
   Source(Every \cup {"contractors__migracja"}, Every, {}),
   Source(Every, Every, {"json"})}

=============================================================================
