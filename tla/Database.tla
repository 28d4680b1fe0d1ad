------------------------------ MODULE Database ------------------------------
(***************************************************************************)
(* The start-up of the database (app/db.py): every process in bootstrap    *)
(* mode "auto" runs the whole schema bootstrap before it serves, a process *)
(* in mode "validate" only reads the recorded version, and run.py --reset  *)
(* drops the tables of a local SQLite file first.                          *)
(*                                                                         *)
(* SQLite: the script and every ALTER and CREATE commit one by one, so the *)
(* steps of two starting processes interleave and a process can die        *)
(* between them; the defaults and the version record are one transaction.  *)
(* PostgreSQL: the bootstrap is one transaction, tried again when it loses *)
(* a race for a lock.                                                      *)
(*                                                                         *)
(* Of the rows the model keeps what the bootstrap rewrites: where the      *)
(* contractors are, the rights of one account, and one document.           *)
(***************************************************************************)
EXTENDS Schema, Integers

CONSTANTS
  Processes,   \* operating system processes that start
  Engines,     \* subset of {"sqlite", "postgresql"}
  Releases,    \* databases: [missing, outdated, unique, executions, marked]
  OldAccounts, \* the account in a database of an earlier release: [role, org, upload]
  MaxStarts,   \* bound on starts
  MaxTries     \* INVOICE_DB_INIT_MAX_RETRIES

Unset == "unset"

ASSUME DatabaseAssumption ==
  /\ Engines \subseteq {"sqlite", "postgresql"}
  /\ MaxStarts \in Nat /\ MaxTries \in Nat \ {0}
  /\ \A a \in OldAccounts : a.org \in BOOLEAN /\ a.upload \in {Unset, "yes"}

\* An earlier release lacks tables, and columns of tables that it has; contractors come before
\* users in the script, so that none has accounts without them.  A marked database is one that
\* this release has made or upgraded.
ASSUME ReleasesAssumption ==
  \A r \in Releases :
    /\ r.missing \subseteq AllTables
    /\ r.outdated \subseteq AllTables \ r.missing
    /\ r.outdated \subseteq Members(ColumnTables)
    /\ "users" \notin r.missing => "contractors" \notin r.missing
    /\ r.executions \in Nat
    /\ "automation_executions" \in r.missing => r.executions = 0
    /\ r.marked \in BOOLEAN
    /\ r.marked => r.missing = {} /\ r.outdated = {} /\ ~r.unique

VARIABLES
  engine,
  tables,      \* tables that exist
  outdated,    \* tables without the columns of later releases
  nip,         \* "one": a NIP is unique in all contractors; "many": in each organization
  spare,       \* contractors__migracja exists
  held,        \* tables that hold the contractor rows
  marker,      \* casi_schema_metadata records the schema version
  executions,  \* the most executions recorded for one rule and one event
  account,     \* [role, org, upload, caps, member]
  document,    \* [ready, version]: ready with a current version; its row in the versions
  proc,        \* the state of each process
  started,     \* starts so far (bound)
  died,        \* a process has died during a start (bound)
  mixed,       \* two starts have overlapped
  wiped,       \* a reset has dropped tables, and no bootstrap begun since has finished
  overtaken    \* processes whose start the last reset has overtaken

vars == <<engine, tables, outdated, nip, spare, held, marker, executions, account, document,
          proc, started, died, mixed, wiped, overtaken>>

schema == <<tables, outdated, nip, spare, held, marker>>
rows == <<executions, account, document>>
history == <<started, died, mixed, wiped, overtaken>>

Gone == [role |-> Unset, org |-> FALSE, upload |-> Unset, caps |-> {}, member |-> Unset]

Idle == [at |-> "idle", block |-> 0, tries |-> 0]
Starting == {"preflight", "script", "ensure", "columns", "alter", "contractors", "found",
             "created", "copied", "dropped", "indexes", "defaults", "services", "transaction",
             "wait"}

(***************************************************************************)
(* Rights: the knowledge capabilities upload, sync and manage              *)
(***************************************************************************)
Pair == {"upload", "sync"}

DefaultCapabilities(role) ==
  CASE role \in {"system_owner", "organization_admin", "coordinator"} -> Pair \cup {"manage"}
    [] role = "operator" -> Pair
    [] OTHER -> {}

MigratedRole(a) ==
  CASE a.role = "administrator" /\ a.org -> "organization_admin"
    [] a.role = "administrator" /\ ~a.org -> "system_owner"
    [] a.role = "podglad" -> "guest"
    [] OTHER -> a.role

DefaultUpload(a, role) ==
  IF a.upload # Unset THEN a.upload
  ELSE IF role \in {"system_owner", "organization_admin", "coordinator", "operator"}
       THEN "yes" ELSE "no"

\* Missing capabilities of the role are added, also one that an administrator took away;
\* the pair follows the upload flag, and a guest keeps none of the three.
Granted(had, role, upload) ==
  LET wanted == IF upload = "yes" /\ role # "guest"
                THEN DefaultCapabilities(role) \cup Pair
                ELSE DefaultCapabilities(role) \ Pair
      removed == (IF upload = "yes" THEN {} ELSE Pair)
                   \cup (IF role = "guest" THEN had \ wanted ELSE {})
  IN (had \cup wanted) \ removed

\* The primary membership is deleted and written again from the account.
Membership(a, role) == IF a.org THEN role ELSE Unset

Defaulted(a) ==
  LET role == MigratedRole(a)
      upload == DefaultUpload(a, role)
  IN [role |-> role, org |-> a.org, upload |-> upload,
      caps |-> Granted(a.caps, role, upload), member |-> Membership(a, role)]

\* A ready document without any version row gets one.
Versioned(d) == [d EXCEPT !.version = @ \/ d.ready]

\* Before the capabilities and memberships had tables of their own
OldAccount(a) ==
  [role |-> a.role, org |-> a.org, upload |-> a.upload, caps |-> {}, member |-> Unset]

-----------------------------------------------------------------------------
Init ==
  /\ engine \in Engines
  /\ \E r \in Releases :
       /\ tables = AllTables \ r.missing
       /\ outdated = r.outdated
       /\ nip = IF r.unique /\ engine = "sqlite" THEN "one" ELSE "many"
       /\ held = {"contractors"} \ r.missing
       /\ executions = r.executions
       /\ marker = r.marked
       /\ document = [ready |-> "knowledge_documents" \in tables, version |-> r.marked]
  /\ spare = FALSE
  /\ \E a \in OldAccounts :
       account = CASE "users" \notin tables -> Gone
                   [] "users" \in tables /\ marker -> Defaulted(OldAccount(a))
                   [] OTHER -> OldAccount(a)
  /\ proc = [p \in Processes |-> Idle]
  /\ started = 0 /\ died = FALSE /\ mixed = FALSE /\ wiped = FALSE /\ overtaken = {}

Active == {p \in Processes : proc[p].at \in Starting}

At(p, place) == proc[p].at = place

Goes(p, place) == proc' = [proc EXCEPT ![p].at = place]

\* The error ends the process; what SQLite has committed stays.
Fails(p) ==
  /\ proc' = [proc EXCEPT ![p] = [Idle EXCEPT !.at = "failed"]]
  /\ UNCHANGED <<engine, schema, rows, history>>

Begins(p, place) ==
  /\ At(p, "idle") /\ started < MaxStarts
  /\ started' = started + 1
  /\ mixed' = (mixed \/ Active # {})
  /\ Goes(p, place)

\* run.py in bootstrap mode auto, or database_migrate --apply
Start(p) ==
  /\ Begins(p, IF engine = "sqlite" THEN "preflight" ELSE "transaction")
  /\ overtaken' = overtaken \ {p}
  /\ UNCHANGED <<engine, schema, rows, died, wiped>>

\* bootstrap mode validate: only the recorded version is read
StartValidating(p) ==
  /\ At(p, "idle") /\ started < MaxStarts
  /\ started' = started + 1
  /\ Goes(p, IF marker THEN "serving" ELSE "failed")
  /\ UNCHANGED <<engine, schema, rows, died, mixed, wiped, overtaken>>

\* The guard lets a reset through on a local SQLite file only.
ResetAllowed == engine = "sqlite"

\* The file is copied, then the reset script drops its tables, under whoever serves or starts;
\* the version record and the tables of KeptByReset stay.
StartReset(p) ==
  /\ ResetAllowed
  /\ Begins(p, "preflight")
  /\ tables' = tables \ ResetTables
  /\ outdated' = outdated \ ResetTables
  /\ nip' = "many"
  /\ held' = held \ {"contractors"}
  /\ account' = Gone /\ document' = [ready |-> FALSE, version |-> FALSE]
  /\ wiped' = TRUE
  /\ overtaken' = Active \ {p}
  /\ UNCHANGED <<engine, spare, marker, executions, died>>

(***************************************************************************)
(* SQLite: step by step                                                    *)
(***************************************************************************)
\* Mutant: any recorded execution stops the start.
PreflightAny(p) ==
  /\ At(p, "preflight")
  /\ IF executions > 0 THEN Fails(p)
     ELSE /\ proc' = [proc EXCEPT ![p].at = "script", ![p].block = 1]
          /\ UNCHANGED <<engine, schema, rows, history>>

\* Two executions of one rule for one event, of a release without the unique index, stop the
\* start before it has changed anything (but for a reset, which has dropped its tables).
Preflight(p) ==
  /\ At(p, "preflight")
  /\ IF executions > 1 THEN Fails(p)
     ELSE /\ proc' = [proc EXCEPT ![p].at = "script", ![p].block = 1]
          /\ UNCHANGED <<engine, schema, rows, history>>

\* Tables of a block whose index needs a column they lack: the script stops there.
Unindexable(block) == {i \in DOMAIN block : block[i] \in outdated \cap Indexed}

Reached(block) ==
  IF Unindexable(block) = {} THEN Members(block)
  ELSE {block[i] : i \in {j \in DOMAIN block : \A k \in Unindexable(block) : j < k}}

\* The process has done a block of a list of them.
Passes(p, count, place) ==
  proc' = IF proc[p].block = count THEN [proc EXCEPT ![p].at = place, ![p].block = 1]
          ELSE [proc EXCEPT ![p].block = @ + 1]

RunBlock(p) ==
  LET block == Blocks[proc[p].block] IN
  /\ At(p, "script")
  /\ tables' = tables \cup Reached(block)
  /\ IF Unindexable(block) # {}
     THEN proc' = [proc EXCEPT ![p] = [Idle EXCEPT !.at = "failed"]]
     ELSE Passes(p, Len(Blocks), "ensure")
  /\ UNCHANGED <<engine, outdated, nip, spare, held, marker, rows, history>>

\* Mutant: one table is left to the first call that needs it.
EnsureTablesButOne(p) ==
  /\ At(p, "ensure")
  /\ tables' = tables \cup (AddedBlocks[proc[p].block] \ {"user_module_inbox_state"})
  /\ Passes(p, Len(AddedBlocks), "columns")
  /\ UNCHANGED <<engine, outdated, nip, spare, held, marker, rows, history>>

\* The tables of later releases, step by step, each created if it does not exist.
EnsureTables(p) ==
  /\ At(p, "ensure")
  /\ tables' = tables \cup AddedBlocks[proc[p].block]
  /\ Passes(p, Len(AddedBlocks), "columns")
  /\ UNCHANGED <<engine, outdated, nip, spare, held, marker, rows, history>>

\* From the k-th table on, those in which a listing finds a column missing: a table that
\* does not exist has none.
Lacking(k) ==
  {i \in DOMAIN ColumnTables :
     i >= k /\ (ColumnTables[i] \in outdated \/ ColumnTables[i] \notin tables)}

FirstLacking(k) == CHOOSE i \in Lacking(k) : \A j \in Lacking(k) : i <= j

\* PRAGMA table_info, and ALTER TABLE for what was missing: two statements.  The tables that
\* lack nothing are passed in one step.
ListColumns(p) ==
  /\ At(p, "columns")
  /\ proc' = IF Lacking(proc[p].block) = {} THEN [proc EXCEPT ![p].at = "contractors"]
             ELSE [proc EXCEPT ![p].at = "alter", ![p].block = FirstLacking(@)]
  /\ UNCHANGED <<engine, schema, rows, history>>

\* "duplicate column name" when another process has added it meanwhile, "no such table" after
\* a reset
AddColumns(p) ==
  LET t == ColumnTables[proc[p].block] IN
  /\ At(p, "alter")
  /\ IF t \in tables /\ t \in outdated
     THEN /\ outdated' = outdated \ {t}
          /\ proc' = [proc EXCEPT ![p].at = "columns", ![p].block = @ + 1]
          /\ UNCHANGED <<engine, tables, nip, spare, held, marker, rows, history>>
     ELSE Fails(p)

\* _sqlite_table_sql: the contractors of an early release are moved to a new table.
ReadContractors(p) ==
  /\ At(p, "contractors")
  /\ Goes(p, IF nip = "one" THEN "found" ELSE "indexes")
  /\ UNCHANGED <<engine, schema, rows, history>>

CreateSpare(p) ==
  /\ At(p, "found")
  /\ IF spare THEN Fails(p)
     ELSE /\ spare' = TRUE
          /\ Goes(p, "created")
          /\ UNCHANGED <<engine, tables, outdated, nip, held, marker, rows, history>>

\* Mutant: the rows are not copied.
SkipCopy(p) ==
  /\ At(p, "created")
  /\ Goes(p, "copied")
  /\ UNCHANGED <<engine, schema, rows, history>>

CopyContractors(p) ==
  /\ At(p, "created")
  /\ IF spare /\ "contractors" \in tables
     THEN /\ held' = IF "contractors" \in held THEN held \cup {"spare"} ELSE held
          /\ Goes(p, "copied")
          /\ UNCHANGED <<engine, tables, outdated, nip, spare, marker, rows, history>>
     ELSE Fails(p)

DropContractors(p) ==
  /\ At(p, "copied")
  /\ IF "contractors" \in tables
     THEN /\ tables' = tables \ {"contractors"}
          /\ held' = held \ {"contractors"}
          /\ nip' = "many"
          /\ Goes(p, "dropped")
          /\ UNCHANGED <<engine, outdated, spare, marker, rows, history>>
     ELSE Fails(p)

RenameSpare(p) ==
  /\ At(p, "dropped")
  /\ IF spare /\ "contractors" \notin tables
     THEN /\ tables' = tables \cup {"contractors"}
          /\ held' = IF "spare" \in held THEN {"contractors"} ELSE {}
          /\ spare' = FALSE
          /\ Goes(p, "indexes")
          /\ UNCHANGED <<engine, outdated, nip, marker, rows, history>>
     ELSE Fails(p)

\* A missing column is passed over, a missing table is an error.
EnsureIndexes(p) ==
  /\ At(p, "indexes")
  /\ IF AdditiveIndexes \subseteq tables
     THEN /\ Goes(p, "defaults")
          /\ UNCHANGED <<engine, schema, rows, history>>
     ELSE Fails(p)

\* Tables that the defaults read whatever columns there are; rights only for an account.
DefaultTables ==
  {"users", "knowledge_documents", "knowledge_document_versions"}
    \cup (IF account = Gone THEN {} ELSE {"user_capabilities", "organization_memberships"})

\* The defaults and the version record: what the bootstrap has left to do, in one commit.
Finishes(p, place) ==
  /\ account' = IF account = Gone THEN Gone ELSE Defaulted(account)
  /\ document' = Versioned(document)
  /\ marker' = TRUE
  /\ wiped' = (wiped /\ p \in overtaken)
  /\ proc' = [proc EXCEPT ![p].at = place, ![p].block = 0]
  /\ UNCHANGED <<executions, started, died, mixed, overtaken>>

\* The version is written whatever other tables are missing.
RecordVersion(p) ==
  /\ At(p, "defaults")
  /\ IF DefaultTables \subseteq tables
     THEN /\ Finishes(p, "services")
          /\ UNCHANGED <<engine, tables, outdated, nip, spare, held>>
     ELSE Fails(p)

\* build_services reads the organizations; when a reset has dropped them, the bootstrap is run
\* once more.
BuildServices(p) ==
  /\ At(p, "services")
  /\ IF "organizations" \in tables
     THEN /\ proc' = [proc EXCEPT ![p] = [Idle EXCEPT !.at = "serving"]]
          /\ UNCHANGED <<engine, schema, rows, history>>
     ELSE IF proc[p].tries = 0
     THEN /\ proc' = [proc EXCEPT ![p].at = "preflight", ![p].tries = 1]
          /\ overtaken' = overtaken \ {p}
          /\ UNCHANGED <<engine, schema, rows, started, died, mixed, wiped>>
     ELSE Fails(p)

(***************************************************************************)
(* PostgreSQL: one transaction                                             *)
(***************************************************************************)
\* What stops the bootstrap on any engine: an index over a column that is added only later,
\* and executions recorded twice
Upgradable == outdated \cap Indexed = {} /\ executions <= 1

Commit(p) ==
  /\ At(p, "transaction") /\ Upgradable
  /\ tables' = AllTables
  /\ outdated' = {}
  /\ Finishes(p, "serving")
  /\ UNCHANGED <<engine, nip, spare, held>>

CommitRefused(p) ==
  /\ At(p, "transaction") /\ ~Upgradable
  /\ Fails(p)

\* Two bootstraps at once: a deadlock, a lock timeout, a catalogue row created twice, or
\* the other one's session ended as stale; rolled back and tried again after a pause.
LoseRace(p) ==
  /\ At(p, "transaction")
  /\ \E q \in Processes \ {p} : At(q, "transaction")
  /\ IF proc[p].tries + 1 < MaxTries
     THEN /\ proc' = [proc EXCEPT ![p].at = "wait", ![p].tries = @ + 1]
          /\ UNCHANGED <<engine, schema, rows, history>>
     ELSE Fails(p)

Retry(p) ==
  /\ At(p, "wait")
  /\ Goes(p, "transaction")
  /\ UNCHANGED <<engine, schema, rows, history>>

-----------------------------------------------------------------------------
\* A process dies in the middle of its start; an open transaction is rolled back.
Die(p) ==
  /\ ~died /\ proc[p].at \in Starting
  /\ died' = TRUE
  /\ proc' = [proc EXCEPT ![p] = Idle]
  /\ UNCHANGED <<engine, schema, rows, started, mixed, wiped, overtaken>>

Stop(p) ==
  /\ proc[p].at \in {"serving", "failed"}
  /\ proc' = [proc EXCEPT ![p] = Idle]
  /\ UNCHANGED <<engine, schema, rows, history>>

\* An administrator sets the capabilities of the account while a process serves; the
\* upload flag is written with them, and a guest gets none (Access).
EditRights(p) ==
  /\ At(p, "serving") /\ account # Gone /\ account.role # "guest"
  /\ \E caps \in SUBSET {"upload", "sync", "manage"} :
       account' = [account EXCEPT !.caps = caps,
                                  !.upload = IF "upload" \in caps THEN "yes" ELSE "no"]
  /\ UNCHANGED <<engine, schema, executions, document, proc, history>>

Step(p) ==
  \/ Preflight(p) \/ RunBlock(p) \/ EnsureTables(p) \/ ListColumns(p) \/ AddColumns(p)
  \/ ReadContractors(p) \/ CreateSpare(p) \/ CopyContractors(p) \/ DropContractors(p)
  \/ RenameSpare(p) \/ EnsureIndexes(p) \/ RecordVersion(p) \/ BuildServices(p)
  \/ Commit(p) \/ CommitRefused(p) \/ LoseRace(p) \/ Retry(p)

Next ==
  \E p \in Processes :
    \/ Start(p) \/ StartValidating(p) \/ StartReset(p)
    \/ Step(p)
    \/ Die(p) \/ Stop(p) \/ EditRights(p)

Spec == Init /\ [][Next]_vars

FairSpec == Spec /\ \A p \in Processes : WF_vars(Step(p))

-----------------------------------------------------------------------------
\* Tables, rights and processes stay in their sets.
TypeOK ==
  /\ engine \in Engines
  /\ tables \subseteq AllTables /\ outdated \subseteq AllTables
  /\ nip \in {"one", "many"} /\ spare \in BOOLEAN /\ marker \in BOOLEAN
  /\ held \subseteq {"contractors", "spare"}
  /\ executions \in Nat
  /\ account.caps \subseteq {"upload", "sync", "manage"}
  /\ proc \in [Processes -> [at : Starting \cup {"idle", "serving", "failed"},
                             block : 0..(Len(ColumnTables) + 1),
                             tries : {1} \cup 0..(MaxTries - 1)]]
  /\ started \in 0..MaxStarts
  /\ died \in BOOLEAN /\ mixed \in BOOLEAN /\ wiped \in BOOLEAN
  /\ overtaken \subseteq Processes

\* The recorded version, the only thing a process in mode validate reads, is never ahead
\* of the schema: once it is there, every table and every later column is there, whatever
\* died or overlapped, except that contractors may be away while their spare table is there,
\* and after a reset until a bootstrap that began with it or later has finished.
VersionMeansSchema ==
  marker /\ ~wiped => /\ outdated = {}
                      /\ (tables = AllTables \/ (spare /\ AllTables \ tables = {"contractors"}))

\* No start without a death or an overlap loses the contractors: as soon as no process
\* is starting they are in their table, unless a reset has taken them.
ContractorsKept ==
  ~died /\ ~mixed /\ Active = {} /\ "contractors" \in tables /\ account # Gone
    => "contractors" \in held /\ ~spare

\* A start or a reset that nothing disturbs ends with the process serving, on both engines,
\* whatever tables and columns of later releases the database lacks, unless it lacks a column
\* that the schema script indexes or holds executions recorded twice.
StartsServe ==
  \A p \in Processes :
    (At(p, "preflight") \/ At(p, "transaction")) /\ Upgradable
      ~> (At(p, "serving") \/ mixed \/ died)

=============================================================================
