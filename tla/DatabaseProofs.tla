--------------------------- MODULE DatabaseProofs ---------------------------
(***************************************************************************)
(* Theorems about the start-up of the database, for any processes, any     *)
(* databases that ReleasesAssumption admits, and any                      *)
(* bounds: the recorded version is never ahead of the schema, and starts   *)
(* that neither overlap nor die keep the contractors.  The last part is    *)
(* about the copy of a SQLite file (DataMigration): it is whole or not     *)
(* made.                                                                   *)
(***************************************************************************)
EXTENDS Database, DataMigration, NaturalsInduction, SequenceTheorems,
        WellFoundedInduction, TLAPS

RoleNames ==
  {a.role : a \in OldAccounts} \cup {Unset, "organization_admin", "system_owner", "guest"}

AccountRows ==
  [role : RoleNames, org : BOOLEAN, upload : {Unset, "yes", "no"},
   caps : SUBSET {"upload", "sync", "manage"}, member : RoleNames]

Places == Starting \cup {"idle", "serving", "failed"}

ProcessRows ==
  [at : Places, block : 0..(Len(ColumnTables) + 1), tries : {1} \cup 0..(MaxTries - 1)]

\* A process in one of the three lists is at one of its entries; after the last column it has
\* come past them all.
Placed(row) ==
  /\ row.at = "script" => row.block \in 1..Len(Blocks)
  /\ row.at = "ensure" => row.block \in 1..Len(AddedBlocks)
  /\ row.at = "columns" => row.block \in 1..(Len(ColumnTables) + 1)
  /\ row.at = "alter" => row.block \in 1..Len(ColumnTables)

\* TypeOK, and what it needs: the account and the document have their columns, a process in
\* a list is at one of its entries, and every missing column is one that a later step adds.
TypeInv ==
  /\ TypeOK
  /\ account \in AccountRows
  /\ document \in [ready : BOOLEAN, version : BOOLEAN]
  /\ \A p \in Processes : Placed(proc[p])
  /\ outdated \subseteq Members(ColumnTables)

-----------------------------------------------------------------------------
(* Operators                                                                 *)

LEMMA ListCounts ==
  /\ Len(Blocks) = 12 /\ DOMAIN Blocks = 1..12
  /\ Len(AddedBlocks) = 17 /\ DOMAIN AddedBlocks = 1..17
BY DEF Blocks, AddedBlocks

LEMMA Joined ==
  ASSUME NEW S, NEW s \in Seq(S), NEW t \in Seq(S)
  PROVE  s \o t \in Seq(S) /\ Len(s \o t) = Len(s) + Len(t)
BY ConcatProperties

LEMMA ThreeJoined ==
  ASSUME NEW S, NEW s \in Seq(S), NEW t \in Seq(S), NEW u \in Seq(S),
         Len(s) = 1, Len(t) = 12, Len(u) = 7
  PROVE  Len(s \o t \o u) = 20 /\ DOMAIN (s \o t \o u) = 1..20
<1>1. s \o t \in Seq(S) /\ Len(s \o t) = Len(s) + Len(t)
  BY Joined
<1> DEFINE r == s \o t
<1>2. r \in Seq(S) /\ Len(r) = 13
  BY <1>1
<1> HIDE DEF r
<1>3. r \o u \in Seq(S) /\ Len(r \o u) = Len(r) + Len(u)
  BY <1>2, Joined
<1> DEFINE v == r \o u
<1>4. v \in Seq(S) /\ Len(v) = 20
  BY <1>2, <1>3
<1> HIDE DEF v
<1>5. DOMAIN v = 1..20
  BY <1>4
<1>6. QED
  BY <1>4, <1>5 DEF v, r

LEMMA ColumnCount == Len(ColumnTables) = 20 /\ DOMAIN ColumnTables = 1..20
<1> DEFINE S == Members(ParentColumns) \cup Members(AdditiveColumns) \cup Members(LaterColumns)
<1>1. ParentColumns \in Seq(Members(ParentColumns)) /\ Len(ParentColumns) = 1
  BY DEF ParentColumns, Members
<1>2. AdditiveColumns \in Seq(Members(AdditiveColumns)) /\ Len(AdditiveColumns) = 12
  BY DEF AdditiveColumns, Members
<1>3. LaterColumns \in Seq(Members(LaterColumns)) /\ Len(LaterColumns) = 7
  BY DEF LaterColumns, Members
<1>4. ParentColumns \in Seq(S) /\ AdditiveColumns \in Seq(S) /\ LaterColumns \in Seq(S)
  BY <1>1, <1>2, <1>3
<1> HIDE DEF S
<1>5. QED
  BY <1>1, <1>2, <1>3, <1>4, ThreeJoined DEF ColumnTables

LEMMA BlocksAreTables ==
  ASSUME NEW i \in 1..Len(Blocks)
  PROVE  Reached(Blocks[i]) \subseteq AllTables
<1>1. i \in DOMAIN Blocks
  BY ListCounts
<1>2. Members(Blocks[i]) \subseteq AllTables
  BY <1>1 DEF AllTables, ScriptTables
<1>3. Reached(Blocks[i]) \subseteq Members(Blocks[i])
  BY DEF Reached, Members
<1>4. QED
  BY <1>2, <1>3

LEMMA AddedAreTables ==
  ASSUME NEW i \in 1..Len(AddedBlocks)
  PROVE  AddedBlocks[i] \subseteq AllTables
BY ListCounts DEF AllTables, AddedTables, Members

LEMMA TablesNamed == "contractors" \in AllTables /\ "users" \in AllTables
<1>1. 1 \in DOMAIN Blocks /\ Blocks[1] = Accounts
  BY DEF Blocks
<1>2. {"contractors", "users"} \subseteq Members(Accounts)
  BY DEF Members, Accounts
<1>3. QED
  BY <1>1, <1>2 DEF AllTables, ScriptTables

\* A nonempty set of naturals has a least element.
LEMMA Least ==
  ASSUME NEW T \in SUBSET Nat, T # {}
  PROVE  \E x \in T : \A y \in T : x <= y
<1> DEFINE R == {p \in Nat \X Nat : p[1] < p[2]}
<1>1. IsWellFoundedOn(R, Nat)
  BY NatLessThanWellFounded DEF OpToRel
<1>2. PICK x \in T : \A y \in T : <<y, x>> \notin R
  <2> HIDE DEF R
  <2> QED BY <1>1, WFMin
<1>3. ASSUME NEW y \in T
      PROVE  x <= y
  <2>1. <<y, x>> \notin R /\ <<y, x>> \in Nat \X Nat
    BY <1>2
  <2>2. ~(y < x)
    BY <2>1
  <2>3. QED
    BY <2>2
<1>4. QED
  BY <1>3

\* The first table, in the order of the lists of columns, that still lacks one.
LEMMA FirstLackingIs ==
  ASSUME NEW k \in Nat, Lacking(k) # {}
  PROVE  /\ FirstLacking(k) \in Lacking(k)
         /\ \A j \in Lacking(k) : FirstLacking(k) <= j
<1>1. Lacking(k) \in SUBSET Nat
  BY ColumnCount DEF Lacking
<1>2. \E i \in Lacking(k) : \A j \in Lacking(k) : i <= j
  BY <1>1, Least
<1>3. QED
  BY <1>2 DEF FirstLacking

LEMMA DefaultsTyped ==
  ASSUME NEW a \in AccountRows
  PROVE  Defaulted(a) \in AccountRows /\ Defaulted(a) # Gone
<1> DEFINE role == MigratedRole(a)
           upload == DefaultUpload(a, role)
<1>1. role \in RoleNames
  BY DEF AccountRows, MigratedRole, RoleNames
<1>2. upload \in {"yes", "no"}
  BY DEF AccountRows, DefaultUpload, Unset
<1>3. Membership(a, role) \in RoleNames
  BY <1>1 DEF Membership, RoleNames
<1>4. Granted(a.caps, role, upload) \subseteq {"upload", "sync", "manage"}
  <2>1. a.caps \subseteq {"upload", "sync", "manage"}
    BY DEF AccountRows
  <2>2. DefaultCapabilities(role) \subseteq {"upload", "sync", "manage"}
    BY DEF DefaultCapabilities, Pair
  <2>3. QED
    BY <2>1, <2>2 DEF Granted, Pair
<1>5. Defaulted(a) = [role |-> role, org |-> a.org, upload |-> upload,
                      caps |-> Granted(a.caps, role, upload), member |-> Membership(a, role)]
  BY DEF Defaulted
<1>6. a.org \in BOOLEAN
  BY DEF AccountRows
<1> HIDE DEF role, upload
<1>7. Defaulted(a) \in AccountRows
  BY <1>1, <1>2, <1>3, <1>4, <1>5, <1>6 DEF AccountRows
<1>8. Defaulted(a).upload # Gone.upload
  BY <1>2, <1>5 DEF Gone, Unset
<1>9. QED
  BY <1>7, <1>8

-----------------------------------------------------------------------------
(* Type correctness                                                          *)

\* Places outside the lists
Others ==
  {"idle", "serving", "failed", "preflight", "contractors", "found", "created", "copied",
   "dropped", "indexes", "defaults", "services", "transaction", "wait"}

LEMMA PlacesLemma ==
  /\ Others \subseteq Places
  /\ {"script", "ensure", "columns", "alter"} \subseteq Places
BY DEF Others, Places, Starting

LEMMA IdleTyped == Idle \in ProcessRows /\ Idle.at = "idle"
<1>1. 0 \in 0..(Len(ColumnTables) + 1) /\ 0 \in 0..(MaxTries - 1)
  BY ColumnCount, DatabaseAssumption
<1>2. QED
  BY <1>1, PlacesLemma DEF Idle, ProcessRows, Others

LEMMA InitTypeInv == Init => TypeInv
<1> SUFFICES ASSUME Init PROVE TypeInv
  OBVIOUS
<1> USE DatabaseAssumption
<1>1. PICK r \in Releases :
        /\ tables = AllTables \ r.missing
        /\ outdated = r.outdated
        /\ nip = IF r.unique /\ engine = "sqlite" THEN "one" ELSE "many"
        /\ held = {"contractors"} \ r.missing
        /\ executions = r.executions
        /\ marker = r.marked
        /\ document = [ready |-> "knowledge_documents" \in tables, version |-> r.marked]
  BY DEF Init
<1>2. /\ tables \subseteq AllTables /\ outdated \subseteq AllTables
      /\ outdated \subseteq Members(ColumnTables)
      /\ executions \in Nat
  BY <1>1, ReleasesAssumption
<1>3. marker \in BOOLEAN /\ document \in [ready : BOOLEAN, version : BOOLEAN]
  BY <1>1, ReleasesAssumption
<1>4. account \in AccountRows
  <2>1. PICK a \in OldAccounts :
          account = CASE "users" \notin tables -> Gone
                      [] "users" \in tables /\ marker -> Defaulted(OldAccount(a))
                      [] OTHER -> OldAccount(a)
    BY DEF Init
  <2>2. Gone \in AccountRows
    BY DEF Gone, Unset, AccountRows, RoleNames
  <2>3. OldAccount(a) \in AccountRows
    BY DEF OldAccount, Unset, AccountRows, RoleNames
  <2>4. Defaulted(OldAccount(a)) \in AccountRows
    BY <2>3, DefaultsTyped
  <2>5. QED
    BY <2>1, <2>2, <2>3, <2>4
<1>5. Idle \in ProcessRows
  BY IdleTyped
<1>6. /\ proc \in [Processes -> ProcessRows]
      /\ \A p \in Processes : proc[p] = Idle
  BY <1>5 DEF Init
<1>7. \A p \in Processes : Placed(proc[p])
  BY <1>6 DEF Placed, Idle
<1>8. TypeOK
  <2>1. nip \in {"one", "many"} /\ held \subseteq {"contractors", "spare"}
    BY <1>1
  <2>2. account.caps \subseteq {"upload", "sync", "manage"}
    BY <1>4 DEF AccountRows
  <2>3. /\ engine \in Engines
        /\ spare \in BOOLEAN
        /\ died \in BOOLEAN /\ mixed \in BOOLEAN /\ wiped \in BOOLEAN
        /\ overtaken \subseteq Processes
    BY Zenon DEF Init
  <2>4. started \in 0..MaxStarts
    BY DEF Init
  <2>5. QED
    BY <1>2, <1>3, <1>6, <2>1, <2>2, <2>3, <2>4 DEF TypeOK, ProcessRows, Places
<1>9. QED
  BY <1>2, <1>3, <1>4, <1>7, <1>8 DEF TypeInv

\* A process moves, and the others stay where they are.
Moved(p, row) == proc' = [proc EXCEPT ![p] = row]

LEMMA MovedLemma ==
  ASSUME TypeInv, NEW p \in Processes, NEW row \in ProcessRows, Placed(row), Moved(p, row)
  PROVE  /\ proc' \in [Processes -> ProcessRows]
         /\ proc'[p] = row
         /\ \A q \in Processes \ {p} : proc'[q] = proc[q]
         /\ \A q \in Processes : Placed(proc[q])'
<1>1. proc \in [Processes -> ProcessRows] /\ \A q \in Processes : Placed(proc[q])
  BY DEF TypeInv, TypeOK, ProcessRows, Places
<1>2. /\ proc' \in [Processes -> ProcessRows]
      /\ proc'[p] = row
      /\ \A q \in Processes \ {p} : proc'[q] = proc[q]
  BY <1>1 DEF Moved
<1>3. ASSUME NEW q \in Processes
      PROVE  Placed(proc'[q])
  BY <1>1, <1>2
<1>4. QED
  BY <1>2, <1>3 DEF Placed

\* The executions, the account and the document after any step.
LEMMA RowsTyped ==
  ASSUME TypeInv, NEW p \in Processes,
         Start(p) \/ StartValidating(p) \/ StartReset(p) \/ Step(p) \/ Die(p) \/ Stop(p)
           \/ EditRights(p)
  PROVE  /\ executions' \in Nat
         /\ account' \in AccountRows
         /\ document' \in [ready : BOOLEAN, version : BOOLEAN]
<1> USE DEF schema, rows, history
<1>0. /\ executions \in Nat /\ account \in AccountRows
      /\ document \in [ready : BOOLEAN, version : BOOLEAN]
  BY DEF TypeInv, TypeOK
<1>1. CASE StartReset(p)
  BY <1>0, <1>1 DEF StartReset, Gone, AccountRows, RoleNames, Unset
<1>2. ASSUME NEW place, Finishes(p, place)
      PROVE  /\ executions' \in Nat /\ account' \in AccountRows
             /\ document' \in [ready : BOOLEAN, version : BOOLEAN]
  <2>1. account' \in AccountRows
    BY <1>0, <1>2, DefaultsTyped DEF Finishes
  <2>2. document' = [document EXCEPT !.version = @ \/ document.ready]
    BY <1>2 DEF Finishes, Versioned
  <2>3. executions' = executions
    BY <1>2 DEF Finishes
  <2>4. QED
    BY <1>0, <2>1, <2>2, <2>3
<1>3. CASE EditRights(p)
  <2>1. PICK caps \in SUBSET {"upload", "sync", "manage"} :
          account' = [account EXCEPT !.caps = caps,
                                     !.upload = IF "upload" \in caps THEN "yes" ELSE "no"]
    BY <1>3 DEF EditRights
  <2>2. account' \in AccountRows
    BY <1>0, <2>1 DEF AccountRows
  <2>3. QED
    BY <1>0, <1>3, <2>2 DEF EditRights
<1>4. CASE ~StartReset(p) /\ ~(\E place : Finishes(p, place)) /\ ~EditRights(p)
  <2>1. UNCHANGED rows
    BY <1>4 DEF Start, StartValidating, Step, Die, Stop, Begins, Fails, Preflight, RunBlock,
       EnsureTables, ListColumns, AddColumns, ReadContractors, CreateSpare, CopyContractors,
       DropContractors, RenameSpare, EnsureIndexes, RecordVersion, BuildServices, Commit,
       CommitRefused, LoseRace, Retry
  <2>2. QED
    BY <1>0, <2>1
<1>5. QED
  BY <1>1, <1>2, <1>3, <1>4

LEMMA ProcessTyped ==
  ASSUME TypeInv, NEW p \in Processes
  PROVE  proc[p] \in ProcessRows /\ Placed(proc[p])
BY DEF TypeInv, TypeOK, ProcessRows, Places

\* A process moves to a row of its type.
WellMoved(p) == \E row \in ProcessRows : Moved(p, row) /\ Placed(row)

LEMMA GoesTyped ==
  ASSUME TypeInv, NEW p \in Processes, NEW place \in Others, Goes(p, place)
  PROVE  WellMoved(p)
<1> DEFINE row == [proc[p] EXCEPT !.at = place]
<1>1. row \in ProcessRows /\ row.at = place
  BY ProcessTyped, PlacesLemma DEF ProcessRows
<1>2. Moved(p, row)
  BY DEF Goes, Moved
<1>3. Placed(row)
  BY <1>1 DEF Placed, Others
<1>4. QED
  BY <1>1, <1>2, <1>3 DEF WellMoved

LEMMA EndsTyped ==
  ASSUME TypeInv, NEW p \in Processes, NEW place \in Others,
         Moved(p, [Idle EXCEPT !.at = place]) \/ Moved(p, Idle)
  PROVE  WellMoved(p)
<1>1. Idle \in ProcessRows /\ Idle.at = "idle" /\ Placed(Idle)
  BY IdleTyped DEF Placed
<1>2. /\ [Idle EXCEPT !.at = place] \in ProcessRows
      /\ [Idle EXCEPT !.at = place].at = place
  BY <1>1, PlacesLemma DEF ProcessRows
<1>3. Placed([Idle EXCEPT !.at = place])
  BY <1>2 DEF Placed, Others
<1>4. CASE Moved(p, Idle)
  BY <1>1, <1>4 DEF WellMoved
<1>5. CASE Moved(p, [Idle EXCEPT !.at = place])
  BY <1>2, <1>3, <1>5 DEF WellMoved
<1>6. QED
  BY <1>4, <1>5

LEMMA FailsTyped ==
  ASSUME TypeInv, NEW p \in Processes, Fails(p)
  PROVE  WellMoved(p)
<1>1. Moved(p, [Idle EXCEPT !.at = "failed"])
  BY DEF Fails, Moved
<1>2. "failed" \in Others
  BY DEF Others
<1>3. QED
  BY <1>1, <1>2, EndsTyped

\* A process goes to an entry of one of the lists.
Enters(p, place, k) == Moved(p, [proc[p] EXCEPT !.at = place, !.block = k])

LEMMA EntersTyped ==
  ASSUME TypeInv, NEW p \in Processes, NEW place \in {"script", "ensure", "columns", "alter"},
         NEW k \in Nat,
         place = "script" => k \in 1..12, place = "ensure" => k \in 1..17,
         place = "columns" => k \in 1..21, place = "alter" => k \in 1..20,
         Enters(p, place, k)
  PROVE  WellMoved(p)
<1> DEFINE row == [proc[p] EXCEPT !.at = place, !.block = k]
<1>1. k \in 0..(Len(ColumnTables) + 1)
  BY ColumnCount
<1>2. row \in ProcessRows /\ row.at = place /\ row.block = k
  BY <1>1, ProcessTyped, PlacesLemma DEF ProcessRows
<1> HIDE DEF row
<1>3. Placed(row)
  BY <1>2, ListCounts, ColumnCount DEF Placed
<1>4. QED
  BY <1>2, <1>3 DEF WellMoved, Enters, row

LEMMA BlockTyped ==
  ASSUME TypeInv, NEW p \in Processes, Preflight(p) \/ RunBlock(p) \/ EnsureTables(p)
  PROVE  WellMoved(p)
<1>0. proc[p] \in ProcessRows /\ Placed(proc[p])
  BY ProcessTyped
<1>1. CASE Fails(p)
  BY <1>1, FailsTyped
<1>2. CASE Enters(p, "script", 1)
  BY <1>2, EntersTyped
<1>3. CASE Moved(p, [Idle EXCEPT !.at = "failed"])
  BY <1>3, EndsTyped DEF Others
<1>4. CASE At(p, "script") /\ Passes(p, Len(Blocks), "ensure")
  <2>1. proc[p].at = "script" /\ proc[p].block \in 1..12
    BY <1>0, <1>4, ListCounts DEF At, Placed
  <2>2. CASE proc[p].block = 12
    <3>1. Enters(p, "ensure", 1)
      BY <1>4, <2>2, ListCounts DEF Passes, Enters, Moved
    <3>2. QED
      BY <3>1, EntersTyped
  <2>3. CASE proc[p].block # 12
    <3>1. [proc[p] EXCEPT !.block = @ + 1]
            = [proc[p] EXCEPT !.at = "script", !.block = proc[p].block + 1]
      BY <1>0, <2>1 DEF ProcessRows
    <3>2. Enters(p, "script", proc[p].block + 1)
      BY <1>4, <2>3, <3>1, ListCounts DEF Passes, Enters, Moved
    <3>3. proc[p].block + 1 \in 1..12
      BY <2>1, <2>3
    <3>4. QED
      BY <3>2, <3>3, EntersTyped
  <2>4. QED
    BY <2>2, <2>3
<1>5. CASE At(p, "ensure") /\ Passes(p, Len(AddedBlocks), "columns")
  <2>1. proc[p].at = "ensure" /\ proc[p].block \in 1..17
    BY <1>0, <1>5, ListCounts DEF At, Placed
  <2>2. CASE proc[p].block = 17
    <3>1. Enters(p, "columns", 1)
      BY <1>5, <2>2, ListCounts DEF Passes, Enters, Moved
    <3>2. QED
      BY <3>1, EntersTyped
  <2>3. CASE proc[p].block # 17
    <3>1. [proc[p] EXCEPT !.block = @ + 1]
            = [proc[p] EXCEPT !.at = "ensure", !.block = proc[p].block + 1]
      BY <1>0, <2>1 DEF ProcessRows
    <3>2. Enters(p, "ensure", proc[p].block + 1)
      BY <1>5, <2>3, <3>1, ListCounts DEF Passes, Enters, Moved
    <3>3. proc[p].block + 1 \in 1..17
      BY <2>1, <2>3
    <3>4. QED
      BY <3>2, <3>3, EntersTyped
  <2>4. QED
    BY <2>2, <2>3
<1>6. CASE Preflight(p)
  BY <1>1, <1>2, <1>6 DEF Preflight, Enters, Moved
<1>7. CASE RunBlock(p)
  BY <1>3, <1>4, <1>7 DEF RunBlock, Moved
<1>8. CASE EnsureTables(p)
  BY <1>5, <1>8 DEF EnsureTables
<1>9. QED
  BY <1>6, <1>7, <1>8

LEMMA ColumnsTyped ==
  ASSUME TypeInv, NEW p \in Processes, ListColumns(p) \/ AddColumns(p)
  PROVE  WellMoved(p)
<1>0. proc[p] \in ProcessRows /\ Placed(proc[p])
  BY ProcessTyped
<1>1. CASE ListColumns(p)
  <2>1. proc[p].block \in 1..21
    BY <1>0, <1>1, ColumnCount DEF ListColumns, At, Placed
  <2>2. CASE Lacking(proc[p].block) = {}
    <3>1. Goes(p, "contractors")
      BY <1>1, <2>2 DEF ListColumns, Goes
    <3>2. QED
      BY <3>1, GoesTyped DEF Others
  <2>3. CASE Lacking(proc[p].block) # {}
    <3>1. FirstLacking(proc[p].block) \in 1..20
      BY <2>1, <2>3, FirstLackingIs, ColumnCount DEF Lacking
    <3>2. Enters(p, "alter", FirstLacking(proc[p].block))
      BY <1>1, <2>3 DEF ListColumns, Enters, Moved
    <3>3. QED
      BY <3>1, <3>2, EntersTyped
  <2>4. QED
    BY <2>2, <2>3
<1>2. CASE AddColumns(p)
  <2>1. proc[p].block \in 1..20
    BY <1>0, <1>2, ColumnCount DEF AddColumns, At, Placed
  <2>2. CASE Fails(p)
    BY <2>2, FailsTyped
  <2>3. CASE Enters(p, "columns", proc[p].block + 1)
    <3>1. proc[p].block + 1 \in 1..21
      BY <2>1
    <3>2. QED
      BY <2>3, <3>1, EntersTyped
  <2>4. QED
    BY <1>2, <2>2, <2>3 DEF AddColumns, Enters, Moved
<1>3. QED
  BY <1>1, <1>2

LEMMA RaceTyped ==
  ASSUME TypeInv, NEW p \in Processes, LoseRace(p) \/ BuildServices(p)
  PROVE  WellMoved(p)
<1>0. proc[p] \in ProcessRows
  BY ProcessTyped
<1>1. CASE Fails(p)
  BY <1>1, FailsTyped
<1>2. CASE Moved(p, [Idle EXCEPT !.at = "serving"])
  BY <1>2, EndsTyped DEF Others
<1> DEFINE Again(place, n) == Moved(p, [proc[p] EXCEPT !.at = place, !.tries = n])
<1>3. ASSUME NEW place \in {"wait", "preflight"}, NEW n \in {1} \cup 0..(MaxTries - 1),
             Again(place, n)
      PROVE  WellMoved(p)
  <2> DEFINE row == [proc[p] EXCEPT !.at = place, !.tries = n]
  <2>1. row \in ProcessRows /\ row.at = place
    BY <1>0, PlacesLemma DEF ProcessRows, Others
  <2>2. Placed(row)
    BY <2>1 DEF Placed
  <2>3. QED
    BY <1>3, <2>1, <2>2 DEF WellMoved
<1>4. CASE BuildServices(p)
  <2>1. Fails(p) \/ Moved(p, [Idle EXCEPT !.at = "serving"]) \/ Again("preflight", 1)
    BY <1>4 DEF BuildServices, Moved
  <2> HIDE DEF Again
  <2>2. QED
    BY <1>1, <1>2, <1>3, <2>1
<1>5. CASE /\ proc[p].tries + 1 < MaxTries
           /\ Again("wait", proc[p].tries + 1)
  <2>1. proc[p].tries + 1 \in 0..(MaxTries - 1)
    BY <1>0, <1>5, DatabaseAssumption DEF ProcessRows
  <2> HIDE DEF Again
  <2>2. QED
    BY <1>3, <1>5, <2>1
<1>6. CASE LoseRace(p)
  BY <1>1, <1>5, <1>6 DEF LoseRace, Moved
<1>7. QED
  BY <1>4, <1>6

\* Each action but an edit of rights moves one process.
LEMMA StepMoves ==
  ASSUME TypeInv, NEW p \in Processes,
         Start(p) \/ StartValidating(p) \/ StartReset(p) \/ Step(p) \/ Die(p) \/ Stop(p)
  PROVE  WellMoved(p)
<1>1. CASE \E place \in Others : Goes(p, place)
  BY <1>1, GoesTyped
<1>2. CASE Fails(p)
  BY <1>2, FailsTyped
<1>3. CASE Moved(p, Idle)
  BY <1>3, EndsTyped DEF Others
<1>4. CASE Start(p) \/ StartReset(p)
  BY <1>1, <1>4 DEF Start, StartReset, Begins, Others
<1>5. CASE StartValidating(p)
  BY <1>1, <1>5 DEF StartValidating, Others
<1>6. CASE Die(p) \/ Stop(p)
  BY <1>3, <1>6 DEF Die, Stop, Moved
<1>7. CASE ReadContractors(p) \/ CreateSpare(p) \/ CopyContractors(p) \/ DropContractors(p)
             \/ RenameSpare(p) \/ EnsureIndexes(p) \/ Retry(p)
  BY <1>1, <1>2, <1>7 DEF ReadContractors, CreateSpare, CopyContractors, DropContractors,
     RenameSpare, EnsureIndexes, Retry, Others
<1>8. ASSUME NEW place \in Others, Finishes(p, place)
      PROVE  WellMoved(p)
  <2> DEFINE row == [proc[p] EXCEPT !.at = place, !.block = 0]
  <2>0. 0 \in 0..(Len(ColumnTables) + 1) /\ place \in Places
    BY ColumnCount, PlacesLemma
  <2>1. row \in ProcessRows /\ row.at = place
    BY <2>0, ProcessTyped DEF ProcessRows
  <2>2. Moved(p, row)
    BY <1>8 DEF Finishes, Moved
  <2>3. Placed(row)
    BY <2>1 DEF Placed, Others
  <2>4. QED
    BY <2>1, <2>2, <2>3 DEF WellMoved
<1>9. CASE RecordVersion(p) \/ Commit(p) \/ CommitRefused(p)
  BY <1>2, <1>8, <1>9 DEF RecordVersion, Commit, CommitRefused, Others
<1>10. QED
  BY <1>4, <1>5, <1>6, <1>7, <1>9, BlockTyped, ColumnsTyped, RaceTyped DEF Step

Act(p) ==
  \/ Start(p) \/ StartValidating(p) \/ StartReset(p) \/ Step(p) \/ Die(p) \/ Stop(p)

\* What no step but a start, a death, a reset and the end of a bootstrap touches.
LEMMA OthersTyped ==
  ASSUME TypeInv, NEW p \in Processes, Act(p) \/ EditRights(p)
  PROVE  /\ engine' \in Engines
         /\ started' \in 0..MaxStarts
         /\ marker' \in BOOLEAN
         /\ died' \in BOOLEAN /\ mixed' \in BOOLEAN /\ wiped' \in BOOLEAN
         /\ overtaken' \subseteq Processes
<1> USE DEF schema, rows, history, Act, Start, StartValidating, StartReset, Begins, Step, Die,
    Stop, EditRights, Fails, Preflight, RunBlock, EnsureTables, ListColumns, AddColumns,
    ReadContractors, CreateSpare, CopyContractors, DropContractors, RenameSpare, EnsureIndexes,
    RecordVersion, BuildServices, Finishes, Commit, CommitRefused, LoseRace, Retry
<1>0. /\ engine \in Engines /\ started \in 0..MaxStarts /\ MaxStarts \in Nat
      /\ marker \in BOOLEAN /\ died \in BOOLEAN /\ mixed \in BOOLEAN /\ wiped \in BOOLEAN
      /\ overtaken \subseteq Processes
  BY DatabaseAssumption DEF TypeInv, TypeOK
<1>1. UNCHANGED engine
  OBVIOUS
<1>2. started' = started \/ (started < MaxStarts /\ started' = started + 1)
  OBVIOUS
<1>3. started' \in 0..MaxStarts
  BY ONLY <1>0, <1>2
<1>4. UNCHANGED marker \/ marker' = TRUE
  BY Zenon
<1>5. UNCHANGED died \/ died' = TRUE
  BY Zenon
<1>6. UNCHANGED mixed \/ mixed' = (mixed \/ Active # {})
  BY Zenon
<1>7. UNCHANGED wiped \/ wiped' \in BOOLEAN
  BY Zenon
<1>8. overtaken' \in {overtaken, overtaken \ {p}, Active \ {p}}
  OBVIOUS
<1>9. Active \subseteq Processes /\ (mixed \/ Active # {}) \in BOOLEAN
  BY ONLY DEF Active
<1>10. overtaken' \subseteq Processes
  BY ONLY <1>0, <1>8, <1>9
<1>11. QED
  BY ONLY <1>0, <1>1, <1>3, <1>4, <1>5, <1>6, <1>7, <1>9, <1>10, Zenon

\* Tables are only added from the lists, and columns are only added.
LEMMA SchemaTyped ==
  ASSUME TypeInv, NEW p \in Processes, Act(p) \/ EditRights(p)
  PROVE  /\ tables' \subseteq AllTables
         /\ outdated' \subseteq outdated
         /\ nip' \in {"one", "many"} /\ spare' \in BOOLEAN
         /\ held' \subseteq {"contractors", "spare"}
<1> USE DEF schema, rows, history
<1>0. /\ tables \subseteq AllTables
      /\ nip \in {"one", "many"} /\ spare \in BOOLEAN
      /\ held \subseteq {"contractors", "spare"}
  BY DEF TypeInv, TypeOK
<1>1. CASE UNCHANGED schema
  BY <1>0, <1>1
<1>2. CASE StartReset(p)
  BY <1>0, <1>2 DEF StartReset
<1>3. CASE RunBlock(p)
  <2>1. proc[p].block \in 1..Len(Blocks)
    BY <1>3, ProcessTyped DEF RunBlock, At, Placed
  <2>2. Reached(Blocks[proc[p].block]) \subseteq AllTables
    BY <2>1, BlocksAreTables
  <2>3. QED
    BY <1>0, <1>3, <2>2 DEF RunBlock
<1>4. CASE EnsureTables(p)
  <2>1. AddedBlocks[proc[p].block] \subseteq AllTables
    BY <1>4, ProcessTyped, AddedAreTables DEF EnsureTables, At, Placed
  <2>2. QED
    BY <1>0, <1>4, <2>1 DEF EnsureTables
<1>5. CASE AddColumns(p)
  BY <1>0, <1>5 DEF AddColumns, Fails
<1>6. CASE CreateSpare(p) \/ CopyContractors(p) \/ DropContractors(p)
  BY <1>0, <1>6 DEF CreateSpare, CopyContractors, DropContractors, Fails
<1>7. CASE RenameSpare(p)
  BY <1>0, <1>7, TablesNamed DEF RenameSpare, Fails
<1>8. CASE RecordVersion(p) \/ Commit(p)
  BY <1>0, <1>8 DEF RecordVersion, Commit, Fails
<1>9. CASE Start(p) \/ StartValidating(p) \/ Die(p) \/ Stop(p) \/ EditRights(p) \/ Preflight(p)
             \/ ListColumns(p) \/ ReadContractors(p) \/ EnsureIndexes(p) \/ BuildServices(p)
             \/ CommitRefused(p) \/ LoseRace(p) \/ Retry(p)
  <2>1. UNCHANGED schema
    BY <1>9 DEF Start, StartValidating, Die, Stop, EditRights, Preflight, ListColumns,
       ReadContractors, EnsureIndexes, BuildServices, CommitRefused, LoseRace, Retry, Fails
  <2>2. QED
    BY <1>1, <2>1
<1>10. QED
  BY <1>2, <1>3, <1>4, <1>5, <1>6, <1>7, <1>8, <1>9 DEF Act, Step

LEMMA NextTypeInv == TypeInv /\ [Next]_vars => TypeInv'
<1> SUFFICES ASSUME TypeInv, [Next]_vars PROVE TypeInv'
  OBVIOUS
<1>1. CASE UNCHANGED vars
  BY <1>1 DEF vars, TypeInv, TypeOK, Placed
<1>2. ASSUME NEW p \in Processes, Act(p) \/ EditRights(p)
      PROVE  TypeInv'
  <2>1. /\ proc' \in [Processes -> ProcessRows]
        /\ \A q \in Processes : Placed(proc[q])'
    <3>1. CASE EditRights(p)
      <4>1. UNCHANGED proc
        BY <3>1 DEF EditRights
      <4>2. QED
        BY <4>1 DEF TypeInv, TypeOK, ProcessRows, Places, Placed
    <3>2. CASE Act(p)
      <4>1. PICK row \in ProcessRows : Moved(p, row) /\ Placed(row)
        BY <3>2, StepMoves DEF Act, WellMoved
      <4>2. QED
        BY <4>1, MovedLemma
    <3>3. QED
      BY <1>2, <3>1, <3>2
  <2>2. /\ executions' \in Nat /\ account' \in AccountRows
        /\ document' \in [ready : BOOLEAN, version : BOOLEAN]
    BY <1>2, RowsTyped DEF Act
  <2>3. account'.caps \subseteq {"upload", "sync", "manage"}
    BY <2>2 DEF AccountRows
  <2>4. outdated' \subseteq AllTables /\ outdated' \subseteq Members(ColumnTables)
    BY <1>2, SchemaTyped DEF TypeInv, TypeOK
  <2>5. TypeOK'
    BY <1>2, <2>1, <2>2, <2>3, <2>4, OthersTyped, SchemaTyped DEF TypeOK, ProcessRows, Places
  <2>6. QED
    BY <2>1, <2>2, <2>4, <2>5 DEF TypeInv
<1>3. QED
  BY <1>1, <1>2 DEF Next, Act

LEMMA TypeInvariant == Spec => []TypeInv
BY InitTypeInv, NextTypeInv, PTL DEF Spec

\* Tables, rights, processes and bounds stay in their sets, for any releases, processes, roles
\* and bounds: the start-up never makes a table, a place or a right of its own.
THEOREM TypeCorrect == Spec => []TypeOK
<1>1. TypeInv => TypeOK
  BY DEF TypeInv
<1>2. QED
  BY <1>1, TypeInvariant, PTL

-----------------------------------------------------------------------------
(* The recorded version.  Nobody looks at the schema before it is written:   *)
(* what makes it true is that the process has come past every step that      *)
(* makes a table or a column, and that nothing but a reset takes one away,   *)
(* except contractors while they are moved, which the spare table shows.  A  *)
(* process that a reset has overtaken knows nothing of the tables any more.  *)

Moving == {"created", "copied", "dropped"}

\* Past the columns
Altered == {"contractors", "found", "indexes", "defaults"} \cup Moving

ColumnsInv ==
  /\ marker => outdated = {}
  /\ \A p \in Processes :
       /\ proc[p].at \in Altered => outdated = {}
       /\ proc[p].at \in {"columns", "alter"} =>
            \A j \in 1..20 : j < proc[p].block => ColumnTables[j] \notin outdated

SpareInv ==
  /\ \A p \in Processes : proc[p].at \in Moving => spare
  /\ \A p, q \in Processes : proc[p].at \in Moving /\ proc[q].at \in Moving => p = q

\* The table is there, or it is being moved.
There(t) == t \in tables \/ (t = "contractors" /\ spare)

\* The tables that a process with this row has made or found
Sure(row) ==
  {t \in AllTables :
     \/ /\ row.at = "script"
        /\ \E i \in 1..12 : i < row.block /\ t \in Members(Blocks[i])
     \/ /\ row.at = "ensure"
        /\ t \in ScriptTables \/ \E i \in 1..17 : i < row.block /\ t \in AddedBlocks[i]
     \/ row.at \in {"columns", "alter"} \cup Altered}

MadeInv == \A p \in Processes \ overtaken : \A t \in Sure(proc[p]) : There(t)

\* Whoever has finished since a reset has made every table again.
OvertakenInv == overtaken # {} => wiped \/ marker

TablesInv == marker /\ ~wiped => \A t \in AllTables : There(t)

WholeInv == TypeInv /\ ColumnsInv /\ SpareInv /\ MadeInv /\ OvertakenInv /\ TablesInv

LEMMA PlaceAfter ==
  ASSUME TypeInv, NEW p \in Processes
  PROVE  /\ \A place : Goes(p, place) => proc'[p].at = place
         /\ Fails(p) => proc'[p].at = "failed"
         /\ \A place : Finishes(p, place) => proc'[p].at = place
         /\ Act(p) => \A q \in Processes \ {p} : proc'[q] = proc[q]
<1>1. proc \in [Processes -> ProcessRows] /\ Idle \in ProcessRows
  BY IdleTyped DEF TypeInv, TypeOK, ProcessRows, Places
<1>2. ASSUME Act(p)
      PROVE  \A q \in Processes \ {p} : proc'[q] = proc[q]
  <2>1. PICK row \in ProcessRows : Moved(p, row)
    BY <1>2, StepMoves DEF Act, WellMoved
  <2>2. QED
    BY <1>1, <2>1 DEF Moved
<1>3. QED
  BY <1>1, <1>2 DEF Goes, Fails, Finishes, ProcessRows

\* Where a process gets with each action.
LEMMA PlacesAfter ==
  ASSUME TypeInv, NEW p \in Processes, Act(p)
  PROVE  /\ Start(p) \/ StartReset(p) => proc'[p].at \in {"preflight", "transaction"}
         /\ StartValidating(p) => proc'[p].at \in {"serving", "failed"}
         /\ Die(p) \/ Stop(p) => proc'[p].at = "idle"
         /\ Preflight(p) => proc'[p].at = "failed" \/ (proc'[p].at = "script" /\ proc'[p].block = 1)
         /\ ReadContractors(p) => proc'[p].at \in {"found", "indexes"}
         /\ EnsureIndexes(p) => proc'[p].at \in {"defaults", "failed"}
         /\ RecordVersion(p) => proc'[p].at \in {"services", "failed"}
         /\ BuildServices(p) => proc'[p].at \in {"serving", "preflight", "failed"}
         /\ Commit(p) => proc'[p].at = "serving"
         /\ CommitRefused(p) => proc'[p].at = "failed"
         /\ LoseRace(p) => proc'[p].at \in {"wait", "failed"}
         /\ Retry(p) => proc'[p].at = "transaction"
<1>1. proc \in [Processes -> ProcessRows] /\ Idle \in ProcessRows /\ Idle.at = "idle"
  BY IdleTyped DEF TypeInv, TypeOK, ProcessRows, Places
<1>2. /\ Start(p) \/ StartReset(p) => proc'[p].at \in {"preflight", "transaction"}
      /\ StartValidating(p) => proc'[p].at \in {"serving", "failed"}
  BY PlaceAfter DEF Start, StartReset, Begins, StartValidating
<1>3. /\ Die(p) \/ Stop(p) => proc'[p].at = "idle"
      /\ Preflight(p) => proc'[p].at = "failed" \/ (proc'[p].at = "script" /\ proc'[p].block = 1)
  BY <1>1, PlaceAfter DEF Die, Stop, Preflight, ProcessRows
<1>4. /\ ReadContractors(p) => proc'[p].at \in {"found", "indexes"}
      /\ EnsureIndexes(p) => proc'[p].at \in {"defaults", "failed"}
      /\ RecordVersion(p) => proc'[p].at \in {"services", "failed"}
  BY PlaceAfter DEF ReadContractors, EnsureIndexes, RecordVersion
<1>5. BuildServices(p) => proc'[p].at \in {"serving", "preflight", "failed"}
  BY <1>1, PlaceAfter DEF BuildServices, ProcessRows
<1>6. /\ Commit(p) => proc'[p].at = "serving"
      /\ CommitRefused(p) => proc'[p].at = "failed"
      /\ LoseRace(p) => proc'[p].at \in {"wait", "failed"}
      /\ Retry(p) => proc'[p].at = "transaction"
  BY <1>1, PlaceAfter DEF Commit, CommitRefused, LoseRace, Retry, ProcessRows
<1>7. QED
  BY <1>2, <1>3, <1>4, <1>5, <1>6

\* The lists: one entry further, or past the last one.
LEMMA ListsAfter ==
  ASSUME TypeInv, NEW p \in Processes, Act(p)
  PROVE  /\ RunBlock(p) =>
              \/ proc'[p].at = "failed"
              \/ /\ Reached(Blocks[proc[p].block]) = Members(Blocks[proc[p].block])
                 /\ \/ /\ proc[p].block = 12 /\ proc'[p].at = "ensure" /\ proc'[p].block = 1
                    \/ proc'[p].at = "script" /\ proc'[p].block = proc[p].block + 1
         /\ EnsureTables(p) =>
              \/ proc[p].block = 17 /\ proc'[p].at = "columns" /\ proc'[p].block = 1
              \/ proc'[p].at = "ensure" /\ proc'[p].block = proc[p].block + 1
         /\ ListColumns(p) =>
              \/ Lacking(proc[p].block) = {} /\ proc'[p].at = "contractors"
              \/ /\ Lacking(proc[p].block) # {}
                 /\ proc'[p].at = "alter" /\ proc'[p].block = FirstLacking(proc[p].block)
         /\ AddColumns(p) =>
              \/ proc'[p].at = "failed"
              \/ /\ proc'[p].at = "columns" /\ proc'[p].block = proc[p].block + 1
                 /\ outdated' = outdated \ {ColumnTables[proc[p].block]}
<1>1. proc \in [Processes -> ProcessRows] /\ Idle \in ProcessRows
  BY IdleTyped DEF TypeInv, TypeOK, ProcessRows, Places
<1>2. ASSUME RunBlock(p)
      PROVE  \/ proc'[p].at = "failed"
             \/ /\ Reached(Blocks[proc[p].block]) = Members(Blocks[proc[p].block])
                /\ \/ /\ proc[p].block = 12 /\ proc'[p].at = "ensure" /\ proc'[p].block = 1
                   \/ proc'[p].at = "script" /\ proc'[p].block = proc[p].block + 1
  <2>1. CASE proc' = [proc EXCEPT ![p] = [Idle EXCEPT !.at = "failed"]]
    BY <1>1, <2>1 DEF ProcessRows
  <2>2. CASE Unindexable(Blocks[proc[p].block]) = {} /\ Passes(p, Len(Blocks), "ensure")
    <3>1. proc[p].at = "script"
      BY <1>2 DEF RunBlock, At
    <3>2. Reached(Blocks[proc[p].block]) = Members(Blocks[proc[p].block])
      BY <2>2 DEF Reached
    <3>3. QED
      BY <1>1, <2>2, <3>1, <3>2, ListCounts DEF Passes, ProcessRows
  <2>3. QED
    BY <1>2, <2>1, <2>2 DEF RunBlock
<1>3. ASSUME EnsureTables(p)
      PROVE  \/ proc[p].block = 17 /\ proc'[p].at = "columns" /\ proc'[p].block = 1
             \/ proc'[p].at = "ensure" /\ proc'[p].block = proc[p].block + 1
  BY <1>1, <1>3, ListCounts DEF EnsureTables, Passes, At, ProcessRows
<1>4. ASSUME ListColumns(p)
      PROVE  \/ Lacking(proc[p].block) = {} /\ proc'[p].at = "contractors"
             \/ /\ Lacking(proc[p].block) # {}
                /\ proc'[p].at = "alter" /\ proc'[p].block = FirstLacking(proc[p].block)
  BY <1>1, <1>4 DEF ListColumns, ProcessRows
<1>5. ASSUME AddColumns(p)
      PROVE  \/ proc'[p].at = "failed"
             \/ /\ proc'[p].at = "columns" /\ proc'[p].block = proc[p].block + 1
                /\ outdated' = outdated \ {ColumnTables[proc[p].block]}
  BY <1>1, <1>5, PlaceAfter DEF AddColumns, ProcessRows
<1>6. QED
  BY <1>2, <1>3, <1>4, <1>5

\* Where the process comes from: the last steps are reached only along the columns.
LEMMA Comes ==
  ASSUME TypeInv, NEW p \in Processes, Act(p), proc'[p].at \in Altered
  PROVE  proc[p].at \in Altered \/ ListColumns(p)
<1>1. CASE ListColumns(p)
  BY <1>1
<1>2. CASE ReadContractors(p) \/ CreateSpare(p) \/ CopyContractors(p) \/ DropContractors(p)
             \/ RenameSpare(p) \/ EnsureIndexes(p) \/ RecordVersion(p)
  BY <1>2 DEF ReadContractors, CreateSpare, CopyContractors, DropContractors, RenameSpare,
     EnsureIndexes, RecordVersion, At, Altered, Moving
<1>3. CASE RunBlock(p) \/ EnsureTables(p) \/ AddColumns(p)
  BY <1>3, ListsAfter DEF Altered, Moving
<1>4. CASE Start(p) \/ StartReset(p) \/ StartValidating(p) \/ Die(p) \/ Stop(p) \/ Preflight(p)
             \/ BuildServices(p) \/ Commit(p) \/ CommitRefused(p) \/ LoseRace(p) \/ Retry(p)
  BY <1>4, PlacesAfter DEF Altered, Moving
<1>5. QED
  BY <1>1, <1>2, <1>3, <1>4 DEF Act, Step

\* A listing from the k-th table on that finds nothing, when the tables before lack nothing
LEMMA NoneLacking ==
  ASSUME TypeInv, NEW k \in Nat, Lacking(k) = {},
         \A j \in 1..20 : j < k => ColumnTables[j] \notin outdated
  PROVE  outdated = {}
<1>1. ASSUME NEW t \in outdated
      PROVE  FALSE
  <2>1. PICK j \in 1..20 : t = ColumnTables[j]
    BY ColumnCount DEF TypeInv, Members
  <2>2. j >= k
    BY <1>1, <2>1
  <2>3. j \in Lacking(k)
    BY <1>1, <2>1, <2>2, ColumnCount DEF Lacking
  <2>4. QED
    BY <2>3
<1>2. QED
  BY <1>1

\* Columns: nothing takes one away, and a process past the columns has come past every table
\* that lacked one.
LEMMA ColumnsStep ==
  ASSUME TypeInv, ColumnsInv, NEW p \in Processes, Act(p)
  PROVE  ColumnsInv'
<1> USE DEF schema, rows, history
<1>1. outdated' \subseteq outdated
  BY SchemaTyped
<1>2. \A q \in Processes \ {p} : proc'[q] = proc[q]
  BY PlaceAfter
<1>3. proc[p] \in ProcessRows /\ Placed(proc[p])
  BY ProcessTyped
<1>4. marker' => outdated' = {}
  <2>1. CASE RecordVersion(p)
    BY <1>1, <2>1 DEF RecordVersion, ColumnsInv, At, Altered
  <2>2. CASE Commit(p)
    BY <2>2 DEF Commit
  <2>3. CASE ~RecordVersion(p) /\ ~Commit(p)
    <3>1. UNCHANGED marker
      BY <2>3 DEF Act, Start, StartValidating, StartReset, Begins, Step, Die, Stop, Fails,
         Preflight, RunBlock, EnsureTables, ListColumns, AddColumns, ReadContractors,
         CreateSpare, CopyContractors, DropContractors, RenameSpare, EnsureIndexes,
         BuildServices, CommitRefused, LoseRace, Retry
    <3>2. QED
      BY <1>1, <3>1 DEF ColumnsInv
  <2>4. QED
    BY <2>1, <2>2, <2>3
<1>5. ASSUME proc'[p].at \in Altered
      PROVE  outdated' = {}
  <2>1. CASE proc[p].at \in Altered
    BY <1>1, <2>1 DEF ColumnsInv
  <2>2. CASE ListColumns(p)
    <3>1. At(p, "columns") /\ proc[p].block \in Nat
      BY <1>3, <2>2, ColumnCount DEF ListColumns, At, Placed
    <3>2. Lacking(proc[p].block) = {}
      BY <1>5, <2>2, ListsAfter DEF Altered, Moving
    <3>3. outdated = {}
      BY <3>1, <3>2, NoneLacking DEF ColumnsInv, At
    <3>4. QED
      BY <1>1, <3>3
  <2>3. QED
    BY <1>5, <2>1, <2>2, Comes
<1>6. ASSUME proc'[p].at \in {"columns", "alter"}, NEW j \in 1..20, j < proc'[p].block
      PROVE  ColumnTables[j] \notin outdated'
  <2>1. CASE EnsureTables(p)
    <3>1. proc'[p].block = 1
      BY <1>6, <2>1, ListsAfter
    <3>2. QED
      BY <1>6, <3>1
  <2>2. CASE ListColumns(p)
    <3>1. At(p, "columns") /\ proc[p].block \in Nat
      BY <1>3, <2>2, ColumnCount DEF ListColumns, At, Placed
    <3>2. Lacking(proc[p].block) # {} /\ proc'[p].block = FirstLacking(proc[p].block)
      BY <1>6, <2>2, ListsAfter
    <3>3. CASE j < proc[p].block
      BY <1>1, <3>1, <3>3 DEF ColumnsInv, At
    <3>4. CASE ~(j < proc[p].block)
      <4>1. j \notin Lacking(proc[p].block)
        <5>1. FirstLacking(proc[p].block) \in 1..20
          BY <3>1, <3>2, FirstLackingIs, ColumnCount DEF Lacking
        <5>2. QED
          BY <1>6, <3>1, <3>2, <5>1, FirstLackingIs
      <4>2. QED
        BY <1>1, <3>1, <3>4, <4>1, ColumnCount DEF Lacking
    <3>5. QED
      BY <3>3, <3>4
  <2>3. CASE AddColumns(p)
    <3>1. At(p, "alter") /\ proc[p].block \in 1..20
      BY <1>3, <2>3, ColumnCount DEF AddColumns, At, Placed
    <3>2. /\ proc'[p].block = proc[p].block + 1
          /\ outdated' = outdated \ {ColumnTables[proc[p].block]}
      BY <1>6, <2>3, ListsAfter
    <3>3. CASE j = proc[p].block
      BY <3>2, <3>3
    <3>4. CASE j < proc[p].block
      BY <3>1, <3>2, <3>4 DEF ColumnsInv, At
    <3>5. QED
      BY <1>6, <3>1, <3>2, <3>3, <3>4
  <2>4. CASE CreateSpare(p) \/ CopyContractors(p) \/ DropContractors(p) \/ RenameSpare(p)
    <3>1. proc'[p].at \in {"created", "copied", "dropped", "indexes", "failed"}
      BY <2>4, PlaceAfter DEF CreateSpare, CopyContractors, DropContractors, RenameSpare
    <3>2. QED
      BY <1>6, <3>1
  <2>5. CASE RunBlock(p)
    BY <1>6, <2>5, ListsAfter
  <2>6. QED
    BY <1>6, <2>1, <2>2, <2>3, <2>4, <2>5, PlacesAfter DEF Act, Step
<1>7. ASSUME NEW q \in Processes
      PROVE  /\ proc'[q].at \in Altered => outdated' = {}
             /\ proc'[q].at \in {"columns", "alter"} =>
                  \A j \in 1..20 : j < proc'[q].block => ColumnTables[j] \notin outdated'
  <2>1. CASE q = p
    BY <1>5, <1>6, <2>1
  <2>2. CASE q # p
    BY <1>1, <1>2, <2>2 DEF ColumnsInv
  <2>3. QED
    BY <2>1, <2>2
<1>8. QED
  BY <1>4, <1>7 DEF ColumnsInv

\* The spare table: only a process that creates it begins to move, and it is there until that
\* process has renamed it.
LEMMA SpareStep ==
  ASSUME TypeInv, SpareInv, NEW p \in Processes, Act(p)
  PROVE  SpareInv'
<1> USE DEF schema, rows, history
<1>1. \A q \in Processes \ {p} : proc'[q] = proc[q]
  BY PlaceAfter
<1>2. CASE UNCHANGED spare /\ proc'[p].at \notin Moving
  BY <1>1, <1>2 DEF SpareInv
<1>3. CASE Fails(p)
  <2>1. proc'[p].at = "failed"
    BY <1>3, PlaceAfter
  <2>2. QED
    BY <1>2, <1>3, <2>1 DEF Fails, Moving
<1>4. CASE CreateSpare(p)
  <2>1. CASE ~spare /\ spare' = TRUE /\ Goes(p, "created")
    BY <1>1, <2>1, PlaceAfter DEF SpareInv, Moving
  <2>2. QED
    BY <1>3, <1>4, <2>1 DEF CreateSpare
<1>5. CASE CopyContractors(p) \/ DropContractors(p)
  <2>1. CASE /\ proc[p].at \in Moving /\ UNCHANGED spare
             /\ Goes(p, "copied") \/ Goes(p, "dropped")
    BY <1>1, <2>1, PlaceAfter DEF SpareInv, Moving
  <2>2. QED
    BY <1>3, <1>5, <2>1 DEF CopyContractors, DropContractors, At, Moving
<1>6. CASE RenameSpare(p)
  <2>1. CASE proc[p].at \in Moving /\ Goes(p, "indexes")
    BY <1>1, <2>1, PlaceAfter DEF SpareInv, Moving
  <2>2. QED
    BY <1>3, <1>6, <2>1 DEF RenameSpare, At, Moving
<1>7. CASE ~(CreateSpare(p) \/ CopyContractors(p) \/ DropContractors(p) \/ RenameSpare(p))
  <2>1. proc'[p].at \notin Moving
    BY <1>7, PlacesAfter, ListsAfter DEF Act, Step, Moving
  <2>2. UNCHANGED spare
    BY <1>7 DEF Act, Start, StartValidating, StartReset, Step, Die, Stop, Fails, Preflight,
       RunBlock, EnsureTables, ListColumns, AddColumns, ReadContractors, EnsureIndexes,
       RecordVersion, BuildServices, Commit, CommitRefused, LoseRace, Retry
  <2>3. QED
    BY <1>2, <2>1, <2>2
<1>8. QED
  BY <1>4, <1>5, <1>6, <1>7

\* Whatever is there stays there, but for a reset.
LEMMA ThereStays ==
  ASSUME TypeInv, SpareInv, NEW p \in Processes, Act(p), ~StartReset(p),
         NEW t \in AllTables, There(t)
  PROVE  There(t)'
<1> USE DEF schema, rows, history
<1>1. CASE DropContractors(p)
  <2>1. spare
    BY <1>1 DEF DropContractors, At, SpareInv, Moving
  <2>2. UNCHANGED spare /\ tables \ {"contractors"} \subseteq tables'
    BY <1>1 DEF DropContractors, Fails
  <2>3. QED
    BY <2>1, <2>2 DEF There
<1>2. CASE RenameSpare(p)
  <2>1. UNCHANGED <<tables, spare>> \/ tables' = tables \cup {"contractors"}
    BY <1>2 DEF RenameSpare, Fails
  <2>2. QED
    BY <2>1 DEF There
<1>3. CASE Commit(p)
  BY <1>3 DEF Commit, There
<1>4. CASE ~(DropContractors(p) \/ RenameSpare(p) \/ Commit(p))
  <2>1. tables \subseteq tables' /\ (spare => spare')
    BY <1>4 DEF Act, Start, StartValidating, Step, Die, Stop, Fails, Preflight, RunBlock,
       EnsureTables, ListColumns, AddColumns, ReadContractors, CreateSpare, CopyContractors,
       EnsureIndexes, RecordVersion, BuildServices, CommitRefused, LoseRace, Retry
  <2>2. QED
    BY <2>1 DEF There
<1>5. QED
  BY <1>1, <1>2, <1>3, <1>4

\* A process becomes sure only of the tables that it has just made.
LEMMA SureStep ==
  ASSUME TypeInv, NEW p \in Processes, Act(p), NEW t \in Sure(proc'[p])
  PROVE  t \in Sure(proc[p]) \/ t \in tables'
<1>1. t \in AllTables /\ proc[p] \in ProcessRows /\ Placed(proc[p])
  BY ProcessTyped DEF Sure
<1>2. CASE RunBlock(p)
  <2>1. proc[p].at = "script" /\ proc[p].block \in 1..12
    BY <1>1, <1>2, ListCounts DEF RunBlock, At, Placed
  <2>2. /\ proc'[p].at # "failed"
        /\ tables' = tables \cup Reached(Blocks[proc[p].block])
    BY <1>2 DEF RunBlock, Sure, Altered, Moving
  <2>3. Members(Blocks[proc[p].block]) \subseteq tables'
    BY <1>2, <2>2, ListsAfter
  <2>4. CASE proc'[p].at = "script" /\ proc'[p].block = proc[p].block + 1
    <3>1. PICK i \in 1..12 : i < proc[p].block + 1 /\ t \in Members(Blocks[i])
      BY <2>4 DEF Sure, Altered, Moving
    <3>2. CASE i = proc[p].block
      BY <2>3, <3>1, <3>2
    <3>3. CASE i < proc[p].block
      BY <1>1, <2>1, <3>1, <3>3 DEF Sure
    <3>4. QED
      BY <2>1, <3>1, <3>2, <3>3
  <2>5. CASE proc[p].block = 12 /\ proc'[p].at = "ensure" /\ proc'[p].block = 1
    <3>1. t \in ScriptTables
      BY <2>5 DEF Sure, Altered, Moving
    <3>2. PICK i \in 1..12 : t \in Members(Blocks[i])
      BY <3>1, ListCounts DEF ScriptTables
    <3>3. CASE i = 12
      BY <2>3, <2>5, <3>2, <3>3
    <3>4. CASE i < 12
      BY <1>1, <2>1, <2>5, <3>2, <3>4 DEF Sure
    <3>5. QED
      BY <3>2, <3>3, <3>4
  <2>6. QED
    BY <1>2, <2>2, <2>4, <2>5, ListsAfter
<1>3. CASE EnsureTables(p)
  <2>1. proc[p].at = "ensure" /\ proc[p].block \in 1..17
    BY <1>1, <1>3, ListCounts DEF EnsureTables, At, Placed
  <2>2. AddedBlocks[proc[p].block] \subseteq tables'
    BY <1>3 DEF EnsureTables
  <2>3. CASE proc'[p].at = "ensure" /\ proc'[p].block = proc[p].block + 1
    <3>1. CASE t \in ScriptTables
      BY <1>1, <2>1, <3>1 DEF Sure
    <3>2. CASE t \notin ScriptTables
      <4>1. PICK i \in 1..17 : i < proc[p].block + 1 /\ t \in AddedBlocks[i]
        BY <2>3, <3>2 DEF Sure, Altered, Moving
      <4>2. CASE i = proc[p].block
        BY <2>2, <4>1, <4>2
      <4>3. CASE i < proc[p].block
        BY <1>1, <2>1, <4>1, <4>3 DEF Sure
      <4>4. QED
        BY <2>1, <4>1, <4>2, <4>3
    <3>3. QED
      BY <3>1, <3>2
  <2>4. CASE proc[p].block = 17
    <3>1. CASE t \in ScriptTables
      BY <1>1, <2>1, <3>1 DEF Sure
    <3>2. CASE t \notin ScriptTables
      <4>1. t \in UNION Members(AddedBlocks)
        BY <1>1, <3>2 DEF AllTables, AddedTables
      <4>2. PICK i \in 1..17 : t \in AddedBlocks[i]
        BY <4>1, ListCounts DEF Members
      <4>3. CASE i = 17
        BY <2>2, <2>4, <4>2, <4>3
      <4>4. CASE i < 17
        BY <1>1, <2>1, <2>4, <4>2, <4>4 DEF Sure
      <4>5. QED
        BY <4>2, <4>3, <4>4
    <3>3. QED
      BY <3>1, <3>2
  <2>5. QED
    BY <1>3, <2>3, <2>4, ListsAfter
<1>4. CASE proc[p].at \in {"columns", "alter"} \cup Altered
  BY <1>1, <1>4 DEF Sure
<1>5. CASE proc[p].at \notin {"columns", "alter"} \cup Altered /\ ~RunBlock(p) /\ ~EnsureTables(p)
  <2>1. ~ListColumns(p) /\ ~AddColumns(p)
    BY <1>5 DEF ListColumns, AddColumns, At
  <2>2. proc'[p].at \notin Altered
    BY <1>5, <2>1, Comes
  <2>3. ~(CreateSpare(p) \/ CopyContractors(p) \/ DropContractors(p) \/ RenameSpare(p))
    BY <1>5 DEF CreateSpare, CopyContractors, DropContractors, RenameSpare, At, Altered, Moving
  <2>4. /\ proc'[p].at \notin {"ensure", "columns", "alter"}
        /\ proc'[p].at = "script" => proc'[p].block = 1
    BY <1>5, <2>1, <2>3, PlacesAfter DEF Act, Step
  <2>5. FALSE
    BY <2>2, <2>4 DEF Sure
  <2>6. QED
    BY <2>5
<1>6. QED
  BY <1>2, <1>3, <1>4, <1>5

\* Whom a reset has overtaken
LEMMA OvertakenStep ==
  ASSUME NEW p \in Processes, Act(p)
  PROVE  overtaken' = overtaken \/ overtaken' = overtaken \ {p} \/ StartReset(p)
BY DEF Act, Start, StartValidating, Step, Die, Stop, Fails, Preflight, RunBlock, EnsureTables,
   ListColumns, AddColumns, ReadContractors, CreateSpare, CopyContractors, DropContractors,
   RenameSpare, EnsureIndexes, RecordVersion, BuildServices, Finishes, Commit, CommitRefused,
   LoseRace, Retry, rows, schema, history

\* Only a process that no reset has overtaken is sure of tables when it is past them.
LEMMA MadeStep ==
  ASSUME TypeInv, SpareInv, MadeInv, NEW p \in Processes, Act(p)
  PROVE  MadeInv'
<1>1. \A q \in Processes \ {p} : proc'[q] = proc[q]
  BY PlaceAfter
<1>2. CASE StartReset(p)
  <2>1. overtaken' = Active \ {p}
    BY <1>2 DEF StartReset
  <2>2. ASSUME NEW q \in Processes \ overtaken'
        PROVE  Sure(proc'[q]) = {}
    <3>1. CASE q = p
      BY <1>2, <3>1, PlacesAfter DEF Sure, Altered, Moving
    <3>2. CASE q # p
      <4>1. proc'[q].at \notin Starting
        BY <1>1, <2>1, <2>2, <3>2 DEF Active
      <4>2. QED
        BY <4>1 DEF Sure, Altered, Moving, Starting
    <3>3. QED
      BY <3>1, <3>2
  <2>3. QED
    BY <2>2 DEF MadeInv
<1>3. CASE ~StartReset(p)
  <2>1. ASSUME NEW q \in Processes \ overtaken', NEW t \in Sure(proc'[q])
        PROVE  There(t)'
    <3>1. t \in AllTables
      BY <2>1 DEF Sure
    <3>2. CASE t \in tables'
      BY <3>2 DEF There
    <3>3. CASE t \notin tables' /\ q \notin overtaken
      <4>1. t \in Sure(proc[q])
        BY <1>1, <2>1, <3>3, SureStep
      <4>2. There(t)
        BY <3>3, <4>1, <2>1 DEF MadeInv
      <4>3. QED
        BY <1>3, <3>1, <4>2, ThereStays
    <3>4. CASE q \in overtaken
      <4>1. q = p /\ overtaken' # overtaken
        BY <1>3, <2>1, <3>4, OvertakenStep
      <4>2. Start(p) \/ BuildServices(p)
        BY <1>3, <4>1 DEF Act, StartValidating, Step, Die, Stop, Fails, Preflight, RunBlock,
           EnsureTables, ListColumns, AddColumns, ReadContractors, CreateSpare,
           CopyContractors, DropContractors, RenameSpare, EnsureIndexes, RecordVersion,
           Finishes, Commit, CommitRefused, LoseRace, Retry, rows, schema, history
      <4>3. Sure(proc'[p]) = {}
        BY <4>2, PlacesAfter DEF Sure, Altered, Moving
      <4>4. QED
        BY <2>1, <4>1, <4>3
    <3>5. QED
      BY <3>2, <3>3, <3>4
  <2>2. QED
    BY <2>1 DEF MadeInv
<1>4. QED
  BY <1>2, <1>3

\* Tables: the version is true of them from a bootstrap that no reset has overtaken on.
LEMMA TablesStep ==
  ASSUME TypeInv, SpareInv, MadeInv, OvertakenInv, TablesInv, NEW p \in Processes, Act(p)
  PROVE  OvertakenInv' /\ TablesInv'
<1> USE DEF schema, rows, history
<1>1. CASE StartReset(p)
  BY <1>1 DEF StartReset, TablesInv, OvertakenInv
<1>2. ASSUME NEW place, Finishes(p, place), \A t \in AllTables : p \notin overtaken => There(t)',
             ~StartReset(p)
      PROVE  OvertakenInv' /\ TablesInv'
  <2>1. marker' /\ (wiped' <=> wiped /\ p \in overtaken)
    BY <1>2, Zenon DEF Finishes
  <2>2. OvertakenInv'
    BY <2>1 DEF OvertakenInv
  <2>3. CASE p \notin overtaken
    BY <1>2, <2>2, <2>3 DEF TablesInv
  <2>4. CASE p \in overtaken /\ ~wiped'
    <3>1. marker /\ ~wiped
      BY <2>1, <2>4 DEF OvertakenInv
    <3>2. \A t \in AllTables : There(t)'
      BY <1>2, <3>1, ThereStays DEF TablesInv
    <3>3. QED
      BY <2>2, <3>2 DEF TablesInv
  <2>5. CASE wiped'
    BY <2>2, <2>5 DEF TablesInv
  <2>6. QED
    BY <2>2, <2>3, <2>4, <2>5
<1>3. CASE RecordVersion(p)
  <2>1. CASE Fails(p)
    BY <2>1 DEF Fails, TablesInv, OvertakenInv, There
  <2>2. CASE Finishes(p, "services") /\ UNCHANGED <<tables, spare>>
    <3>1. ASSUME NEW t \in AllTables, p \notin overtaken
          PROVE  There(t)'
      <4>1. t \in Sure(proc[p])
        BY <1>3 DEF RecordVersion, At, Sure, Altered
      <4>2. There(t)
        BY <3>1, <4>1 DEF MadeInv
      <4>3. QED
        BY <2>2, <4>2 DEF There
    <3>2. ~StartReset(p)
      BY <1>3 DEF RecordVersion, StartReset, Begins, At
    <3>3. QED
      BY <1>2, <2>2, <3>1, <3>2
  <2>3. QED
    BY <1>3, <2>1, <2>2 DEF RecordVersion
<1>4. CASE Commit(p)
  <2>1. Finishes(p, "serving") /\ tables' = AllTables
    BY <1>4 DEF Commit
  <2>2. ~StartReset(p)
    BY <1>4 DEF Commit, StartReset, Begins, At
  <2>3. QED
    BY <1>2, <2>1, <2>2 DEF There
<1>5. CASE ~(StartReset(p) \/ RecordVersion(p) \/ Commit(p))
  <2>1. UNCHANGED <<marker, wiped>>
    BY <1>5 DEF Act, Start, StartValidating, Begins, Step, Die, Stop, Fails, Preflight, RunBlock,
       EnsureTables, ListColumns, AddColumns, ReadContractors, CreateSpare, CopyContractors,
       DropContractors, RenameSpare, EnsureIndexes, BuildServices, CommitRefused, LoseRace, Retry
  <2>2. TablesInv'
    BY <1>5, <2>1, ThereStays DEF TablesInv
  <2>3. OvertakenInv'
    BY <1>5, <2>1, OvertakenStep DEF OvertakenInv
  <2>4. QED
    BY <2>2, <2>3
<1>6. QED
  BY <1>1, <1>3, <1>4, <1>5

LEMMA WholeStep == WholeInv /\ [Next]_vars => WholeInv'
<1> SUFFICES ASSUME WholeInv, [Next]_vars PROVE WholeInv'
  OBVIOUS
<1>1. TypeInv /\ TypeInv'
  BY NextTypeInv DEF WholeInv
<1>2. CASE UNCHANGED vars \/ \E p \in Processes : EditRights(p)
  <2>1. UNCHANGED <<schema, proc, wiped, overtaken>>
    BY <1>2 DEF vars, EditRights, history, schema
  <2>2. UNCHANGED <<tables, outdated, spare, marker>>
    BY <2>1 DEF schema
  <2>3. ColumnsInv' /\ SpareInv' /\ OvertakenInv'
    BY <2>1, <2>2 DEF WholeInv, ColumnsInv, SpareInv, OvertakenInv
  <2>4. \A t \in AllTables : There(t) => There(t)'
    BY <2>2 DEF There
  <2>5. TablesInv'
    BY <2>1, <2>2, <2>4 DEF WholeInv, TablesInv
  <2>6. \A p \in Processes : Sure(proc'[p]) = Sure(proc[p]) /\ Sure(proc[p]) \subseteq AllTables
    BY <2>1 DEF Sure
  <2>7. MadeInv'
    BY <2>1, <2>4, <2>6 DEF WholeInv, MadeInv
  <2>8. QED
    BY <1>1, <2>3, <2>5, <2>7 DEF WholeInv
<1>3. ASSUME NEW p \in Processes, Act(p)
      PROVE  WholeInv'
  BY <1>1, <1>3, ColumnsStep, SpareStep, MadeStep, TablesStep DEF WholeInv
<1>4. QED
  BY <1>2, <1>3 DEF Next, Act

\* The version that a validating process reads is not ahead of the schema, whatever starts,
\* resets of the file among them, overlap or die, on either engine.  The process that writes it
\* does not look: it has come past every step that makes a table or a column, each step makes
\* what it should or ends the process, and no other process undoes it.  Only two things take a
\* table away: the move of the contractors, while their spare table is there, and a reset, of
\* which the starts it has overtaken know nothing, so that after it the version speaks of the
\* schema again once a bootstrap that it has not overtaken has finished.
THEOREM VersionIsNotAhead == Spec => []VersionMeansSchema
<1>1. Init => WholeInv
  <2> SUFFICES ASSUME Init PROVE WholeInv
    OBVIOUS
  <2>1. overtaken = {} /\ \A p \in Processes : proc[p].at = "idle"
    BY DEF Init, Idle
  <2>0. marker => tables = AllTables /\ outdated = {}
    BY ReleasesAssumption DEF Init
  <2>2. \A p \in Processes : Sure(proc[p]) = {}
    BY <2>1 DEF Sure, Altered, Moving
  <2>3. MadeInv /\ OvertakenInv /\ TablesInv
    BY <2>0, <2>1, <2>2 DEF MadeInv, OvertakenInv, TablesInv, There
  <2>4. ColumnsInv /\ SpareInv
    BY <2>0, <2>1 DEF ColumnsInv, SpareInv, Altered, Moving
  <2>5. QED
    BY <2>3, <2>4, InitTypeInv DEF WholeInv
<1>2. WholeInv => VersionMeansSchema
  <2> SUFFICES ASSUME WholeInv, marker, ~wiped
               PROVE  /\ outdated = {}
                      /\ (tables = AllTables \/ (spare /\ AllTables \ tables = {"contractors"}))
    BY DEF VersionMeansSchema
  <2>1. outdated = {} /\ tables \subseteq AllTables
    BY DEF WholeInv, ColumnsInv, TypeInv, TypeOK
  <2>2. \A t \in AllTables : t \in tables \/ (t = "contractors" /\ spare)
    BY DEF WholeInv, TablesInv, There
  <2>3. QED
    BY <2>1, <2>2, TablesNamed
<1>3. QED
  BY <1>1, <1>2, WholeStep, PTL DEF Spec

-----------------------------------------------------------------------------
(* The contractors.  While starts come one at a time and none dies, the one  *)
(* that moves them leaves them in the table that its place in the move says. *)

Undisturbed == ~died /\ ~mixed /\ account # Gone

AloneInv ==
  ~mixed => \A p, q \in Processes : proc[p].at \in Starting /\ proc[q].at \in Starting => p = q

InPlace == ~spare /\ "contractors" \in tables /\ "contractors" \in held

MoveInv ==
  Undisturbed =>
    /\ \A p \in Processes :
         /\ proc[p].at = "created" => "contractors" \in tables /\ "contractors" \in held
         /\ proc[p].at = "copied" => "contractors" \in tables /\ "spare" \in held
         /\ proc[p].at = "dropped" => "contractors" \notin tables /\ "spare" \in held
    /\ (\A p \in Processes : proc[p].at \notin Moving) => InPlace

KeptInv == TypeInv /\ SpareInv /\ AloneInv /\ MoveInv

LEMMA MovingStarts == Moving \subseteq Starting
BY DEF Moving, Starting

LEMMA StepStarts ==
  ASSUME NEW p \in Processes, Step(p)
  PROVE  proc[p].at \in Starting
BY DEF Step, At, Starting, Preflight, RunBlock, EnsureTables, ListColumns, AddColumns,
   ReadContractors, CreateSpare, CopyContractors, DropContractors, RenameSpare, EnsureIndexes,
   RecordVersion, BuildServices, Commit, CommitRefused, LoseRace, Retry

\* Once disturbed, always disturbed: an account that a reset has taken does not come back.
LEMMA DisturbedStays ==
  ASSUME NEW p \in Processes, Act(p) \/ EditRights(p), Undisturbed'
  PROVE  Undisturbed
<1> USE DEF schema, rows, history, Act, Start, StartValidating, StartReset, Begins, Step, Die,
    Stop, EditRights, Fails, Preflight, RunBlock, EnsureTables, ListColumns, AddColumns,
    ReadContractors, CreateSpare, CopyContractors, DropContractors, RenameSpare, EnsureIndexes,
    RecordVersion, BuildServices, Finishes, Commit, CommitRefused, LoseRace, Retry
<1>1. died' = died \/ died'
  BY Zenon
<1>2. UNCHANGED mixed \/ mixed' = (mixed \/ Active # {})
  BY Zenon
<1>3. account = Gone => account' = Gone
  BY Zenon
<1>4. ~died
  BY ONLY Undisturbed', <1>1 DEF Undisturbed
<1>5. ~mixed
  BY ONLY Undisturbed', <1>2 DEF Undisturbed
<1>6. QED
  BY ONLY Undisturbed', <1>3, <1>4, <1>5 DEF Undisturbed

LEMMA AloneStep ==
  ASSUME TypeInv, AloneInv, NEW p \in Processes, Act(p)
  PROVE  AloneInv'
<1> USE DEF schema, rows, history
<1> SUFFICES ASSUME ~mixed'
             PROVE  \A s, q \in Processes :
                      proc'[s].at \in Starting /\ proc'[q].at \in Starting => s = q
  BY DEF AloneInv
<1>1. \A q \in Processes \ {p} : proc'[q] = proc[q]
  BY PlaceAfter
<1>2. CASE \E place \in {"preflight", "transaction"} : Begins(p, place)
  <2>1. ~mixed /\ Active = {}
    BY <1>2 DEF Begins
  <2>2. \A q \in Processes : proc[q].at \notin Starting
    BY <2>1 DEF Active
  <2>3. QED
    BY <1>1, <2>2
<1>3. CASE ~mixed /\ (proc'[p].at \in Starting => proc[p].at \in Starting)
  BY <1>1, <1>3 DEF AloneInv
<1>4. CASE StartValidating(p) \/ Die(p) \/ Stop(p)
  <2>1. UNCHANGED mixed /\ proc'[p].at \notin Starting
    BY <1>4, PlacesAfter DEF StartValidating, Die, Stop, Starting
  <2>2. QED
    BY <1>3, <2>1
<1>5. CASE Step(p)
  <2>1. UNCHANGED mixed
    BY <1>5 DEF Step, Fails, Preflight, RunBlock, EnsureTables, ListColumns, AddColumns,
       ReadContractors, CreateSpare, CopyContractors, DropContractors, RenameSpare,
       EnsureIndexes, RecordVersion, BuildServices, Finishes, Commit, CommitRefused, LoseRace, Retry
  <2>2. QED
    BY <1>3, <1>5, <2>1, StepStarts
<1>6. QED
  BY <1>2, <1>4, <1>5 DEF Act, Start, StartReset

\* A step of a process that is not moving the contractors leaves them alone.
LEMMA MoveFrame ==
  ASSUME MoveInv, Undisturbed, NEW p \in Processes, proc[p].at \notin Moving,
         \A q \in Processes \ {p} : proc'[q] = proc[q] /\ proc[q].at \notin Moving,
         UNCHANGED <<spare, held>>, tables \subseteq tables', proc'[p].at \notin Moving
  PROVE  MoveInv'
<1>1. InPlace
  BY DEF MoveInv
<1>2. InPlace'
  BY <1>1 DEF InPlace
<1>3. \A q \in Processes : proc'[q].at \notin Moving
  OBVIOUS
<1>4. QED
  BY <1>2, <1>3 DEF MoveInv, Moving

LEMMA MoveStep ==
  ASSUME KeptInv, NEW p \in Processes, Act(p)
  PROVE  MoveInv'
<1> USE DEF schema, rows, history
<1> SUFFICES ASSUME Undisturbed'
             PROVE  MoveInv'
  BY DEF MoveInv
<1>0. TypeInv /\ SpareInv /\ AloneInv /\ MoveInv /\ Undisturbed
  BY DisturbedStays DEF KeptInv
<1>1. \A q \in Processes \ {p} : proc'[q] = proc[q]
  BY <1>0, PlaceAfter
<1>2. CASE StartReset(p)
  BY <1>2 DEF StartReset, Undisturbed
<1>3. CASE Die(p)
  BY <1>3 DEF Die, Undisturbed
<1>4. CASE StartValidating(p) \/ Stop(p)
  <2>1. proc'[p].at \notin Moving /\ UNCHANGED <<tables, spare, held>>
    BY <1>0, <1>4, PlacesAfter DEF StartValidating, Stop, Moving
  <2>2. proc[p].at \notin Moving
    BY <1>4 DEF StartValidating, Stop, At, Moving
  <2>3. QED
    BY <1>0, <1>1, <2>1, <2>2 DEF MoveInv, InPlace, Moving
<1>5. CASE Start(p)
  <2>1. Active = {}
    BY <1>5 DEF Start, Begins, Undisturbed
  <2>2. \A q \in Processes : proc[q].at \notin Moving
    BY <2>1, MovingStarts DEF Active
  <2>3. proc'[p].at \notin Moving
    BY <1>0, <1>5, PlacesAfter DEF Moving
  <2>4. UNCHANGED <<spare, held, tables>>
    BY <1>5 DEF Start
  <2>5. QED
    BY <1>0, <1>1, <2>2, <2>3, <2>4, MoveFrame
<1>6. CASE Step(p)
  <2>1. \A q \in Processes \ {p} : proc[q].at \notin Moving
    BY <1>0, <1>6, StepStarts, MovingStarts DEF AloneInv, Undisturbed
  <2>2. \A q \in Processes \ {p} : proc'[q].at \notin Moving
    BY <1>1, <2>1
  <2>3. CASE CreateSpare(p)
    <3>1. proc[p].at \notin Moving
      BY <2>3 DEF CreateSpare, At, Moving
    <3>2. InPlace
      BY <1>0, <2>1, <3>1 DEF MoveInv
    <3>3. Goes(p, "created") /\ UNCHANGED <<tables, held>>
      BY <2>3, <3>2 DEF CreateSpare, InPlace
    <3>4. proc'[p].at = "created"
      BY <1>0, <3>3, PlaceAfter
    <3>5. QED
      BY <2>2, <3>2, <3>3, <3>4 DEF MoveInv, InPlace, Moving
  <2>4. CASE CopyContractors(p)
    <3>1. spare /\ "contractors" \in tables /\ "contractors" \in held
      BY <1>0, <2>4 DEF CopyContractors, At, SpareInv, MoveInv, Moving
    <3>2. Goes(p, "copied") /\ UNCHANGED tables /\ "spare" \in held'
      BY <2>4, <3>1 DEF CopyContractors
    <3>3. proc'[p].at = "copied"
      BY <1>0, <3>2, PlaceAfter
    <3>4. QED
      BY <2>2, <3>1, <3>2, <3>3 DEF MoveInv, Moving
  <2>5. CASE DropContractors(p)
    <3>1. "contractors" \in tables /\ "spare" \in held
      BY <1>0, <2>5 DEF DropContractors, At, MoveInv
    <3>2. Goes(p, "dropped") /\ "contractors" \notin tables' /\ "spare" \in held'
      BY <2>5, <3>1 DEF DropContractors
    <3>3. proc'[p].at = "dropped"
      BY <1>0, <3>2, PlaceAfter
    <3>4. QED
      BY <2>2, <3>2, <3>3 DEF MoveInv, Moving
  <2>6. CASE RenameSpare(p)
    <3>1. spare /\ "contractors" \notin tables /\ "spare" \in held
      BY <1>0, <2>6 DEF RenameSpare, At, SpareInv, MoveInv, Moving
    <3>2. Goes(p, "indexes") /\ InPlace'
      BY <2>6, <3>1 DEF RenameSpare, InPlace
    <3>3. proc'[p].at = "indexes"
      BY <1>0, <3>2, PlaceAfter
    <3>4. QED
      BY <2>2, <3>2, <3>3 DEF MoveInv, Moving
  <2>7. CASE ~(CreateSpare(p) \/ CopyContractors(p) \/ DropContractors(p) \/ RenameSpare(p))
    <3>1. proc[p].at \notin Moving
      BY <1>6, <2>7 DEF Step, At, Moving, Preflight, RunBlock, EnsureTables, ListColumns,
         AddColumns, ReadContractors, EnsureIndexes, RecordVersion, BuildServices, Commit,
         CommitRefused, LoseRace, Retry
    <3>2. proc'[p].at \notin Moving
      BY <1>0, <1>6, <2>7, PlacesAfter, ListsAfter DEF Step, Moving
    <3>3. UNCHANGED <<spare, held>> /\ (tables \subseteq tables' \/ tables' = AllTables)
      BY <1>6, <2>7 DEF Step, Fails, Preflight, RunBlock, EnsureTables, ListColumns, AddColumns,
         ReadContractors, EnsureIndexes, RecordVersion, BuildServices, Commit, CommitRefused,
         LoseRace, Retry
    <3>4. tables \subseteq tables'
      BY <1>0, <3>3 DEF TypeInv, TypeOK
    <3>5. QED
      BY <1>0, <1>1, <2>1, <3>1, <3>2, <3>3, <3>4, MoveFrame
  <2>8. QED
    BY <2>3, <2>4, <2>5, <2>6, <2>7
<1>7. QED
  BY <1>2, <1>3, <1>4, <1>5, <1>6 DEF Act

LEMMA KeptStep == KeptInv /\ [Next]_vars => KeptInv'
<1> SUFFICES ASSUME KeptInv, [Next]_vars PROVE KeptInv'
  OBVIOUS
<1>1. TypeInv /\ TypeInv'
  BY NextTypeInv DEF KeptInv
<1>2. CASE UNCHANGED vars
  BY <1>1, <1>2 DEF vars, KeptInv, SpareInv, AloneInv, MoveInv, InPlace, Undisturbed
<1>3. ASSUME NEW p \in Processes, EditRights(p)
      PROVE  KeptInv'
  <2>1. UNCHANGED <<schema, proc, mixed>> /\ (Undisturbed' => Undisturbed)
    BY <1>3, DisturbedStays DEF EditRights, history
  <2>2. QED
    BY <1>1, <2>1 DEF KeptInv, SpareInv, AloneInv, MoveInv, InPlace, schema
<1>4. ASSUME NEW p \in Processes, Act(p)
      PROVE  KeptInv'
  BY <1>1, <1>4, SpareStep, AloneStep, MoveStep DEF KeptInv
<1>5. QED
  BY <1>2, <1>3, <1>4 DEF Next, Act

\* As long as starts neither overlap nor die, moving the contractors of an early release to
\* their new table loses none: whoever is between two of its four statements is alone and knows
\* where they are, and no later start finds a spare table in its way.
THEOREM ContractorsStay == Spec => []ContractorsKept
<1>1. Init => KeptInv
  <2> SUFFICES ASSUME Init PROVE KeptInv
    OBVIOUS
  <2>1. ~spare /\ \A p \in Processes : proc[p].at = "idle"
    BY DEF Init, Idle
  <2>2. PICK r \in Releases : tables = AllTables \ r.missing /\ held = {"contractors"} \ r.missing
    BY DEF Init
  <2>3. account # Gone => "users" \in tables
    BY DEF Init
  <2>4. account # Gone => InPlace
    BY <2>1, <2>2, <2>3, ReleasesAssumption, TablesNamed DEF InPlace
  <2>5. QED
    BY <2>1, <2>4, InitTypeInv DEF KeptInv, SpareInv, AloneInv, MoveInv, Undisturbed, Starting, Moving
<1>2. KeptInv => ContractorsKept
  <2> SUFFICES ASSUME KeptInv, ~died, ~mixed, Active = {}, account # Gone PROVE InPlace
    BY DEF ContractorsKept, InPlace
  <2>1. \A p \in Processes : proc[p].at \notin Moving
    BY MovingStarts DEF Active
  <2>2. QED
    BY <2>1 DEF KeptInv, MoveInv, Undisturbed
<1>3. QED
  BY <1>1, <1>2, KeptStep, PTL DEF Spec

-----------------------------------------------------------------------------
(* The copy of a SQLite file into the database                               *)

CopyStates ==
  {"idle", "copying", "refused", "duplicate", "orphan", "applied", "died", "verified"}

CopyRuns ==
  [at : CopyStates, next : 1..(Len(TableOrder) + 1), written : SUBSET Migrated]

\* The tables that come before the k-th one
Before(k) == {TableOrder[i] : i \in 1..(k - 1)}

\* An open copy has written just the filled tables it has come past, and the target has all
\* rows from the moment a copy is committed and none before.
CopyInv ==
  /\ run \in [Operators -> CopyRuns]
  /\ \A m \in Operators :
       /\ RunAt(m, "copying") => run[m].written = source.filled \cap Before(run[m].next)
       /\ RunAt(m, "idle") => run[m] = Ready
  /\ target = IF moved THEN Snapshot(source) ELSE {}
  /\ behind = {}
  /\ report = "pass" /\ Snapshot(source) # {} => moved

\* Sequences of whatever elements
Plain(s) == \E S : s \in Seq(S)

LEMMA SevenPlain ==
  ASSUME NEW a, NEW b, NEW c, NEW d, NEW e, NEW f, NEW g
  PROVE  Plain(<<a, b, c, d, e, f, g>>)
<1>1. <<a, b, c, d, e, f, g>> \in Seq({a, b, c, d, e, f, g})
  OBVIOUS
<1>2. QED
  BY <1>1 DEF Plain

LEMMA ThreePlain ==
  ASSUME NEW a, NEW b, NEW c
  PROVE  Plain(<<a, b, c>>)
<1>1. <<a, b, c>> \in Seq({a, b, c})
  OBVIOUS
<1>2. QED
  BY <1>1 DEF Plain

LEMMA JoinedPlain ==
  ASSUME NEW s, NEW t, Plain(s), Plain(t)
  PROVE  Plain(s \o t)
<1>1. PICK S : s \in Seq(S)
  BY DEF Plain
<1>2. PICK T : t \in Seq(T)
  BY DEF Plain
<1>3. s \in Seq(S \cup T) /\ t \in Seq(S \cup T)
  BY <1>1, <1>2
<1>4. QED
  BY <1>3 DEF Plain

LEMMA OrderIsSequence ==
  /\ Len(TableOrder) \in Nat
  /\ DOMAIN TableOrder = 1..Len(TableOrder)
<1>1. Plain(AccountSpecs) /\ Plain(TaskSpecs)
  BY SevenPlain DEF AccountSpecs, TaskSpecs
<1>2. Plain(WorkSpecs) /\ Plain(InvoiceSpecs)
  BY SevenPlain DEF WorkSpecs, InvoiceSpecs
<1>3. Plain(RegisterSpecs) /\ Plain(ChargeSpecs)
  BY SevenPlain DEF RegisterSpecs, ChargeSpecs
<1>4. Plain(PaymentSpecs) /\ Plain(KnowledgeSpecs)
  BY SevenPlain DEF PaymentSpecs, KnowledgeSpecs
<1>5. Plain(IntakeSpecs) /\ Plain(ImportSpecs)
  BY SevenPlain DEF IntakeSpecs, ImportSpecs
<1>6. Plain(ReminderSpecs)
  BY ThreePlain DEF ReminderSpecs
<1>7. Plain(TableOrder)
  BY <1>1, <1>2, <1>3, <1>4, <1>5, <1>6, JoinedPlain, Zenon DEF TableOrder
<1>8. QED
  BY <1>7 DEF Plain

LEMMA EndedRun ==
  ASSUME NEW m \in Operators, NEW result, Ends(m, result)
  PROVE  run' = [run EXCEPT ![m] = [at |-> result, next |-> 1, written |-> {}]]
<1>1. [Ready EXCEPT !.at = result] = [at |-> result, next |-> 1, written |-> {}]
  BY DEF Ready
<1>2. QED
  BY <1>1, Zenon DEF Ends

\* One table further
LEMMA BeforeGrows ==
  ASSUME NEW k \in 1..Len(TableOrder)
  PROVE  Before(k + 1) = Before(k) \cup {TableOrder[k]}
<1>1. 1..((k + 1) - 1) = 1..(k - 1) \cup {k}
  BY OrderIsSequence
<1>2. QED
  BY <1>1 DEF Before

LEMMA BeforeTheEnd == Before(Len(TableOrder) + 1) = Migrated
<1>1. 1..((Len(TableOrder) + 1) - 1) = DOMAIN TableOrder
  BY OrderIsSequence
<1>2. QED
  BY <1>1 DEF Before, Migrated, Members

\* A run that ends, or one that was not open, holds nothing.
LEMMA EndsStep ==
  ASSUME CopyInv, NEW m \in Operators, NEW result \in CopyStates \ {"copying"},
         Ends(m, result), UNCHANGED <<source, target, behind, moved, report>>
  PROVE  CopyInv'
<1>1. run' = [run EXCEPT ![m] = [at |-> result, next |-> 1, written |-> {}]]
  BY EndedRun, Zenon
<1>2. [at |-> result, next |-> 1, written |-> {}] \in CopyRuns
  BY OrderIsSequence DEF CopyRuns
<1>3. QED
  BY <1>1, <1>2 DEF CopyInv, RunAt, Ready, Snapshot

\* A run that goes on with its copy
LEMMA FurtherStep ==
  ASSUME CopyInv, NEW m \in Operators, UNCHANGED <<source, target, behind, moved, report>>,
         run' \in [Operators -> CopyRuns], \A o \in Operators \ {m} : run'[o] = run[o],
         run'[m].at = "copying", run'[m].written = source.filled \cap Before(run'[m].next)
  PROVE  CopyInv'
<1>1. ASSUME NEW o \in Operators
      PROVE  /\ run'[o].at = "copying" =>
                  run'[o].written = source.filled \cap Before(run'[o].next)
             /\ run'[o].at = "idle" => run'[o] = Ready
  <2>1. CASE o = m
    BY <2>1
  <2>2. CASE o # m
    BY <2>2 DEF CopyInv, RunAt
  <2>3. QED
    BY <2>1, <2>2
<1>2. \A k : Before(k)' = Before(k)
  BY DEF Before
<1>3. /\ (target = IF moved THEN Snapshot(source) ELSE {})'
      /\ (behind = {})' /\ (report = "pass" /\ Snapshot(source) # {} => moved)'
  BY DEF CopyInv, Snapshot
<1>4. QED
  BY <1>1, <1>2, <1>3 DEF CopyInv, RunAt, Ready

LEMMA CopyTableStep ==
  ASSUME CopyInv, NEW m \in Operators, CopyTable(m)
  PROVE  CopyInv'
<1> DEFINE t == TableOrder[run[m].next]
<1>1. /\ RunAt(m, "copying") /\ run[m].next <= Len(TableOrder)
      /\ UNCHANGED <<source, schemaOk, target, behind, begun, moved, report>>
  BY DEF CopyTable
<1>2. run[m] \in CopyRuns /\ run[m].next \in 1..Len(TableOrder)
  BY <1>1, OrderIsSequence DEF CopyInv, CopyRuns
<1>3. Before(run[m].next + 1) = Before(run[m].next) \cup {t}
  BY <1>2, BeforeGrows
<1>4. t \in Migrated
  BY <1>2, OrderIsSequence DEF Migrated, Members
<1>5. run[m].written = source.filled \cap Before(run[m].next)
  BY <1>1 DEF CopyInv
<1>6. CASE run' = [run EXCEPT ![m].next = @ + 1] /\ t \notin source.filled
  <2>1. run'[m] = [run[m] EXCEPT !.next = @ + 1]
    BY <1>6 DEF CopyInv
  <2>2. run'[m] \in CopyRuns
    BY <1>2, <2>1, OrderIsSequence DEF CopyRuns
  <2>3. /\ run'[m].at = "copying" /\ run'[m].next = run[m].next + 1
        /\ run'[m].written = run[m].written
    BY <1>1, <1>2, <2>1 DEF CopyRuns, RunAt
  <2>4. run'[m].written = source.filled \cap Before(run'[m].next)
    BY <1>3, <1>5, <1>6, <2>3
  <2>5. run' \in [Operators -> CopyRuns] /\ \A o \in Operators \ {m} : run'[o] = run[o]
    BY <1>6, <2>2 DEF CopyInv
  <2>6. QED
    BY <1>1, <2>3, <2>4, <2>5, FurtherStep
<1>7. CASE /\ run' = [run EXCEPT ![m].next = @ + 1, ![m].written = @ \cup {t}]
           /\ t \in source.filled
  <2>1. run'[m] = [run[m] EXCEPT !.next = @ + 1, !.written = @ \cup {t}]
    BY <1>7 DEF CopyInv
  <2>2. run'[m] \in CopyRuns
    <3>1. run[m].written \cup {t} \in SUBSET Migrated
      BY <1>2, <1>4 DEF CopyRuns
    <3>2. run[m].next + 1 \in 1..(Len(TableOrder) + 1)
      BY <1>2, OrderIsSequence
    <3>3. run'[m] = [at |-> run[m].at, next |-> run[m].next + 1,
                     written |-> run[m].written \cup {t}]
      BY <1>2, <2>1 DEF CopyRuns
    <3>4. QED
      BY <1>2, <3>1, <3>2, <3>3 DEF CopyRuns
  <2>3. /\ run'[m].at = "copying" /\ run'[m].next = run[m].next + 1
        /\ run'[m].written = run[m].written \cup {t}
    BY <1>1, <1>2, <2>1 DEF CopyRuns, RunAt
  <2>4. run'[m].written = source.filled \cap Before(run'[m].next)
    BY <1>3, <1>5, <1>7, <2>3
  <2>5. run' \in [Operators -> CopyRuns] /\ \A o \in Operators \ {m} : run'[o] = run[o]
    BY <1>7, <2>2 DEF CopyInv
  <2>6. QED
    BY <1>1, <2>3, <2>4, <2>5, FurtherStep
<1>8. CASE Ends(m, "duplicate") \/ Ends(m, "orphan")
  BY <1>1, <1>8, EndsStep DEF CopyStates
<1>9. QED
  BY <1>6, <1>7, <1>8 DEF CopyTable

LEMMA CommitStep ==
  ASSUME CopyInv, NEW m \in Operators, ResetSequences(m)
  PROVE  CopyInv'
<1>1. /\ RunAt(m, "copying") /\ run[m].next > Len(TableOrder)
      /\ target' = target \cup run[m].written
      /\ behind' = (behind \cup run[m].written) \ Migrated
      /\ moved' /\ Ends(m, "applied") /\ UNCHANGED <<source, report>>
  BY DEF ResetSequences, Sequences
<1>2. run[m] \in CopyRuns /\ run[m].next = Len(TableOrder) + 1
  BY <1>1, OrderIsSequence DEF CopyInv, CopyRuns
<1>3. run[m].written = Snapshot(source)
  BY <1>1, <1>2, BeforeTheEnd DEF CopyInv, Snapshot
<1>4. target' = Snapshot(source)'
  BY <1>1, <1>3 DEF CopyInv, Snapshot
<1>5. behind' = {}
  BY <1>1, <1>3 DEF CopyInv, Snapshot
<1>6. run' = [run EXCEPT ![m] = [at |-> "applied", next |-> 1, written |-> {}]]
  BY <1>1, EndedRun, Zenon
<1>7. [at |-> "applied", next |-> 1, written |-> {}] \in CopyRuns
  BY OrderIsSequence DEF CopyRuns, CopyStates
<1>8. QED
  BY <1>1, <1>4, <1>5, <1>6, <1>7 DEF CopyInv, RunAt, Ready

LEMMA CopyStep == CopyInv /\ [MigrationNext]_migrationVars => CopyInv'
<1> SUFFICES ASSUME CopyInv, [MigrationNext]_migrationVars
             PROVE  CopyInv'
  OBVIOUS
<1>1. CASE UNCHANGED migrationVars
  BY <1>1 DEF CopyInv, migrationVars, RunAt, Snapshot
<1>2. ASSUME NEW m \in Operators, Apply(m)
      PROVE  CopyInv'
  <2>1. /\ RunAt(m, "idle")
        /\ UNCHANGED <<source, schemaOk, target, behind, moved, report>>
    BY <1>2 DEF Apply
  <2>2. CASE Ends(m, "refused")
    BY <2>1, <2>2, EndsStep DEF CopyStates
  <2>3. CASE run' = [run EXCEPT ![m].at = "copying"]
    <3>1. run[m] = Ready
      BY <2>1 DEF RunAt, CopyInv
    <3>2. run'[m] = [at |-> "copying", next |-> 1, written |-> {}]
      BY <2>3, <3>1 DEF CopyInv, Ready
    <3>3. run'[m] \in CopyRuns
      BY <3>2, OrderIsSequence DEF CopyRuns, CopyStates
    <3>4. Before(1) = {}
      BY DEF Before
    <3>5. run' \in [Operators -> CopyRuns] /\ \A o \in Operators \ {m} : run'[o] = run[o]
      BY <2>3, <3>3 DEF CopyInv
    <3>6. QED
      BY <2>1, <3>2, <3>4, <3>5 DEF CopyInv, RunAt, Ready, Snapshot, Before
  <2>4. QED
    BY <1>2, <2>2, <2>3 DEF Apply
<1>3. ASSUME NEW m \in Operators, RunDies(m)
      PROVE  CopyInv'
  BY <1>3, EndsStep DEF RunDies, CopyStates
<1>4. ASSUME NEW m \in Operators, Verify(m)
      PROVE  CopyInv'
  <2>1. UNCHANGED <<source, target, behind, moved>>
    BY <1>4 DEF Verify
  <2>2. CASE Ends(m, "refused") /\ UNCHANGED report
    BY <2>1, <2>2, EndsStep DEF CopyStates
  <2>3. CASE /\ Ends(m, "verified")
             /\ report' = IF Snapshot(source) = target THEN "pass" ELSE "fail"
    <3>1. run' = [run EXCEPT ![m] = [at |-> "verified", next |-> 1, written |-> {}]]
      BY <2>3, EndedRun, Zenon
    <3>2. [at |-> "verified", next |-> 1, written |-> {}] \in CopyRuns
      BY OrderIsSequence DEF CopyRuns, CopyStates
    <3>3. report' = "pass" /\ Snapshot(source) # {} => moved
      BY <2>3 DEF CopyInv
    <3>4. QED
      BY <2>1, <3>1, <3>2, <3>3 DEF CopyInv, RunAt, Ready, Snapshot
  <2>4. QED
    BY <1>4, <2>2, <2>3 DEF Verify
<1>5. ASSUME NEW m \in Operators, Leave(m)
      PROVE  CopyInv'
  <2>1. Ends(m, "idle") /\ UNCHANGED <<source, target, behind, moved, report>>
    <3>1. [Ready EXCEPT !.at = "idle"] = Ready
      BY DEF Ready
    <3>2. QED
      BY <1>5, <3>1, Zenon DEF Leave, Ends
  <2>2. QED
    BY <2>1, EndsStep DEF CopyStates
<1>6. QED
  BY <1>1, <1>2, <1>3, <1>4, <1>5, CopyTableStep, CommitStep DEF MigrationNext, RunStep

LEMMA CopyStart == MigrationInit => CopyInv
<1> SUFFICES ASSUME MigrationInit PROVE CopyInv
  OBVIOUS
<1>1. Ready \in CopyRuns
  BY OrderIsSequence DEF Ready, CopyRuns, CopyStates
<1>2. QED
  BY <1>1 DEF MigrationInit, Ready, CopyInv, RunAt

\* However the runs of the copy overlap or die, the target holds all migrated rows or none, the
\* next id of every table is free after a commit, and a verification that passed means the copy
\* was made: for any SQLite files and any number of operators.
THEOREM CopiesAreWhole == MigrationSpec => []WholeOrNothing
<1>1. CopyInv => WholeOrNothing
  BY DEF CopyInv, WholeOrNothing
<1>2. QED
  BY <1>1, CopyStart, CopyStep, PTL DEF MigrationSpec

\* What the other variables of the copy hold
CountInv ==
  /\ source \in Sources /\ schemaOk \in BOOLEAN
  /\ begun \in 0..MaxRuns /\ moved \in BOOLEAN /\ report \in {"none", "pass", "fail"}

LEMMA CountStep == CountInv /\ [MigrationNext]_migrationVars => CountInv'
<1> SUFFICES ASSUME CountInv, [MigrationNext]_migrationVars
             PROVE  CountInv'
  OBVIOUS
<1>1. CASE UNCHANGED migrationVars
  BY <1>1 DEF CountInv, migrationVars
<1>2. ASSUME NEW m \in Operators, Apply(m) \/ Verify(m)
      PROVE  CountInv'
  BY <1>2, MigrationAssumption DEF Apply, Verify, CountInv
<1>3. ASSUME NEW m \in Operators, CopyTable(m) \/ ResetSequences(m) \/ RunDies(m) \/ Leave(m)
      PROVE  CountInv'
  BY <1>3 DEF CopyTable, ResetSequences, RunDies, Leave, CountInv
<1>4. QED
  BY <1>1, <1>2, <1>3 DEF MigrationNext, RunStep

\* Type correctness of the copy: whoever copies at the same time, only tables of the manifest
\* are ever written, and no run goes past the end of the order.
THEOREM MigrationTypeCorrect == MigrationSpec => []MigrationTypeOK
<1>1. MigrationInit => CountInv
  <2> SUFFICES ASSUME MigrationInit PROVE CountInv
    OBVIOUS
  <2>1. begun \in 0..MaxRuns
    BY MigrationAssumption DEF MigrationInit
  <2>2. source \in Sources /\ schemaOk \in BOOLEAN /\ moved \in BOOLEAN
    BY Zenon DEF MigrationInit
  <2>3. report \in {"none", "pass", "fail"}
    BY DEF MigrationInit
  <2>4. QED
    BY <2>1, <2>2, <2>3 DEF CountInv
<1>2. CopyInv /\ CountInv => MigrationTypeOK
  <2> SUFFICES ASSUME CopyInv, CountInv PROVE MigrationTypeOK
    OBVIOUS
  <2>1. target \subseteq Migrated /\ behind \subseteq Migrated
    BY DEF CopyInv, Snapshot
  <2>2. ASSUME NEW m \in Operators
        PROVE  /\ run[m].at \in CopyStates /\ run[m].next \in 1..(Len(TableOrder) + 1)
               /\ run[m].written \subseteq Migrated
    BY DEF CopyInv, CopyRuns
  <2>3. QED
    BY <2>1, <2>2 DEF CountInv, MigrationTypeOK, CopyStates
<1>3. QED
  BY <1>1, <1>2, CopyStart, CopyStep, CountStep, PTL DEF MigrationSpec

=============================================================================
