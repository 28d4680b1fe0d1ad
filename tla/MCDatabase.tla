---------------------------- MODULE MCDatabase ----------------------------
EXTENDS Database

Release(without, old, unique, most, marked) ==
  [missing |-> without, outdated |-> old, unique |-> unique, executions |-> most,
   marked |-> marked]

\* A new file, releases without some of the later tables and columns, a release whose users
\* still need a column that the script indexes, one with an event executed twice, and a
\* database of this release.
MCReleases ==
  {Release(AllTables, {}, FALSE, 0, FALSE),
   Release({"knowledge_document_versions", "organization_memberships"},
           {"organizations", "billing_payers", "billing_next_step_events"}, FALSE, 1, FALSE),
   Release({"user_capabilities"}, {"knowledge_documents"}, TRUE, 1, FALSE),
   Release({"user_capabilities"}, {"users"}, FALSE, 0, FALSE),
   Release({}, {}, FALSE, 2, FALSE),
   Release({}, {}, FALSE, 1, TRUE)}

MCAccounts ==
  {[role |-> "administrator", org |-> TRUE, upload |-> Unset],
   [role |-> "administrator", org |-> FALSE, upload |-> "yes"],
   [role |-> "podglad", org |-> FALSE, upload |-> "yes"],
   [role |-> "operator", org |-> TRUE, upload |-> Unset]}
=============================================================================
