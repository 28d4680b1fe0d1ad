-------------------------------- MODULE Invoices --------------------------------
(***************************************************************************)
(* Invoices of one organization (app/services/invoice_service.py,           *)
(* approval_service.py, duplicate_detector.py and their repositories): the  *)
(* e-mail and KSeF imports, the KSeF data that overrule an invoice already   *)
(* stored, the duplicate flags, the operators' edits and decisions, the     *)
(* corrections of KSeF data that need an approval, and the intake items     *)
(* that follow an invoice.  Every call of a repository is a transaction of  *)
(* its own; a request is the list of those it has still to make.            *)
(***************************************************************************)
EXTENDS Integers, FiniteSets, Sequences, SequencesExt

CONSTANTS
  Operators,
  Messages,     \* attachments and documents that may become an invoice
  Paper,        \* message -> [source, ksef, number, supplier, weak, aged]
  Mailbox,      \* the e-mail messages a check lists, in order
  KsefInbox,    \* the documents a KSeF check lists, in order
  Changes,      \* <<field, value>>: the edits that are tried
  Early,        \* the e-mail that became the first invoice, before the first request
  EarlyDoc,     \* the KSeF document that has overruled it since
  NoValue, NoOne,
  MaxInvoices, MaxRequests   \* bounds

KsefFields == {"ksef", "number", "supplier"}   \* KSEF_AUTHORITATIVE_FIELDS
Sources == {"EMAIL", "TELEGRAM", "KSEF"}
Given == {c[2] : c \in Changes}

ASSUME InvoicesAssumption ==
  /\ {MaxInvoices, MaxRequests} \subseteq Nat
  /\ \A m \in Messages : Paper[m].source \in Sources /\ Paper[m].weak \in BOOLEAN
  /\ \A m \in Range(Mailbox) : Paper[m].source = "EMAIL"
  /\ \A m \in Range(KsefInbox) : Paper[m].source = "KSEF"
  /\ {Mailbox, KsefInbox} \subseteq Seq(Messages)
  /\ {Early, EarlyDoc} \subseteq Messages /\ Paper[Early].source # "KSEF" /\ Paper[EarlyDoc].source = "KSEF"
  /\ Changes \subseteq KsefFields \X Given
  /\ NoValue \notin Given \cup (KsefFields \X Given)   \* no edit clears a field

VARIABLES
  invoices,    \* the invoices, in the order of their ids
  contractors, \* the contractors by NIP, each with its invoice_count
  relations,   \* invoice_relations, as <<invoice, related invoice, type>>
  intake,      \* the document intake items, in the order of their ids
  exceptions,  \* invoice -> exception code -> status of its intake item
  approvals,   \* approval_requests about invoices, in the order of their ids
  overrides,   \* invoice_ksef_field_overrides, in the order of their ids
  runs,        \* email_import_runs and ksef_import_runs
  cycle,       \* who holds the lock of the e-mail cycle
  request,     \* what each operator's request knows and has still to do
  begun,       \* requests so far
  handled,     \* history: invoices whose status somebody decided
  mixed, died  \* history: two requests have overlapped; a request ended half way

vars == <<invoices, contractors, relations, intake, exceptions, approvals, overrides, runs, cycle,
          request, begun, handled, mixed, died>>

history == <<begun, handled, mixed, died>>
ledger == <<contractors, relations>>
desk == <<intake, exceptions>>
correcting == <<approvals, overrides>>
importing == <<runs, cycle>>

-----------------------------------------------------------------------------
(* Rows *)

Statuses == {"nowa", "weryfikacja", "poprawna", "odrzucona", "podejrzenie_duplikatu", "pewny_duplikat"}
Codes == {"weak_ocr", "duplicate_requires_decision", "missing_ksef_confirmation"}
ItemStatuses == {"none", "nowe", "w_toku", "zakonczone"}

Values == {NoValue} \cup Given \cup UNION {{Paper[m][f] : f \in KsefFields} : m \in Messages}

\* The columns _build_invoice_hash joins; the file is the message's.
Hash(row) == <<row.source, row.file, row.number, row.ksef, row.supplier>>
Hashes == {NoValue} \cup Sources \X Messages \X Values \X Values \X Values

Rows == [source : Sources, file : Messages, external : Messages, authority : Sources,
         ksef : Values, number : Values, supplier : Values, contractor : Values,
         status : Statuses, duplicate : {"brak", "podejrzenie", "pewny"},
         reason : {"none", "ocr", "manual", "duplicate"},
         local : [KsefFields -> Values], hash : Hashes]

NewInvoice(m) ==
  [source |-> Paper[m].source, file |-> m, external |-> m, ksef |-> Paper[m].ksef,
   number |-> Paper[m].number, supplier |-> Paper[m].supplier, contractor |-> Paper[m].supplier,
   authority |-> Paper[m].source, status |-> IF Paper[m].weak THEN "weryfikacja" ELSE "nowa",
   duplicate |-> "brak", reason |-> IF Paper[m].weak THEN "ocr" ELSE "none",
   local |-> [f \in KsefFields |-> NoValue], hash |-> NoValue]

RunRows == [source : {"EMAIL", "KSEF"},
            status : {"running", "failed", "completed", "completed_with_issues", "no_new_documents"},
            imported : Nat, errors : Nat]
ApprovalRows == [invoice : Nat, kind : {"status", "ksef"},
                 status : {"pending", "approved", "rejected", "cancelled"}]
OverrideRows == [invoice : Nat, approval : Nat, field : KsefFields, value : Given,
                 status : {"pending", "approved", "rejected"}]
IntakeRows == [invoice : Nat, status : ItemStatuses \ {"none"}]

\* agenda: the transactions still to make; messages: those of the run still to import; seen: the
\* invoice as the request read it; before: its contractor then; matches: what the duplicate check
\* found.
Idle == [agenda |-> <<>>, messages |-> <<>>, run |-> 0, message |-> NoValue, row |-> 0,
         seen |-> NoValue, before |-> NoValue, type |-> "brak", matches |-> {}, outcome |-> "none",
         change |-> NoValue, approval |-> 0, decision |-> "none"]

\* The first invoice, as an e-mail check and a KSeF check after it left it.
FirstInvoice ==
  LET row == [NewInvoice(Early) EXCEPT !.external = EarlyDoc, !.authority = "KSEF",
                !.ksef = Paper[EarlyDoc].ksef, !.number = Paper[EarlyDoc].number]
  IN [row EXCEPT !.hash = Hash(row)]

Init ==
  /\ invoices = <<FirstInvoice>> /\ contractors = [s \in {FirstInvoice.contractor} |-> 1]
  /\ relations = {}
  /\ intake = <<[invoice |-> 1, status |-> "nowe"]>> /\ exceptions = <<[c \in Codes |-> "none"]>>
  /\ approvals = <<>> /\ overrides = <<>>
  /\ runs = <<>> /\ cycle = NoOne
  /\ request = [o \in Operators |-> Idle]
  /\ begun = 0 /\ handled = {} /\ mixed = FALSE /\ died = FALSE

-----------------------------------------------------------------------------
(* Requests *)

Working(o) == request[o].agenda # <<>>

\* What follows when a message is done: the next one of the run, or the end of the run.
Onward(r) ==
  IF r.run = 0 THEN Idle
  ELSE [Idle EXCEPT !.run = r.run, !.messages = r.messages,
                    !.agenda = IF r.messages = <<>> THEN <<"finalize">> ELSE <<"look_up">>]

Then(r, agenda) == IF agenda = <<>> THEN Onward(r) ELSE [r EXCEPT !.agenda = agenda]

Does(o, step) == Working(o) /\ Head(request[o].agenda) = step

Done(o, r) == request' = [request EXCEPT ![o] = Then(r, Tail(r.agenda))] /\ UNCHANGED history

Begin(o, r) ==
  /\ ~Working(o) /\ begun < MaxRequests
  /\ request' = [request EXCEPT ![o] = r]
  /\ begun' = begun + 1
  /\ mixed' = (mixed \/ \E p \in Operators \ {o} : Working(p))
  /\ UNCHANGED <<handled, died>>

\* A request ends half way: killed, or by an error nothing handles; an e-mail cycle frees its lock.
EndHalfWay(o) ==
  /\ request' = [request EXCEPT ![o] = Idle]
  /\ cycle' = IF cycle = o THEN NoOne ELSE cycle
  /\ died' = TRUE /\ UNCHANGED <<begun, handled, mixed>>

Die(o) ==
  /\ Working(o) /\ ~died
  /\ EndHalfWay(o)
  /\ UNCHANGED <<invoices, ledger, desk, correcting, runs>>

-----------------------------------------------------------------------------
(* Imports *)

StartRun(source) == [source |-> source, status |-> "running", imported |-> 0, errors |-> 0]

CheckMail(o) ==
  /\ Begin(o, [Idle EXCEPT !.agenda = <<"fetch">>, !.messages = Mailbox, !.run = Len(runs) + 1])
  /\ runs' = Append(runs, StartRun("EMAIL"))
  /\ UNCHANGED <<invoices, ledger, desk, correcting, cycle>>

\* A cycle that finds the lock taken returns at once.
RunEmailCycle(o) == cycle = NoOne /\ cycle' = o

CheckMailByCycle(o) ==
  /\ RunEmailCycle(o)
  /\ Begin(o, [Idle EXCEPT !.agenda = <<"fetch">>, !.messages = Mailbox, !.run = Len(runs) + 1])
  /\ runs' = Append(runs, StartRun("EMAIL"))
  /\ UNCHANGED <<invoices, ledger, desk, correcting>>

StartKsefRun == Append(runs, StartRun("KSEF"))

CheckKsef(o) ==
  /\ Begin(o, [Idle EXCEPT !.agenda = <<"fetch">>, !.messages = KsefInbox, !.run = Len(runs) + 1])
  /\ runs' = StartKsefRun
  /\ UNCHANGED <<invoices, ledger, desk, correcting, cycle>>

FetchFails(o) ==
  /\ Does(o, "fetch")
  /\ runs' = [runs EXCEPT ![request[o].run].status = "failed"]
  /\ cycle' = IF cycle = o THEN NoOne ELSE cycle
  /\ request' = [request EXCEPT ![o] = Idle]
  /\ UNCHANGED <<invoices, ledger, desk, correcting, history>>

\* Mutant: a message is looked up by its number.
ImportedByNumber(m) == {i \in DOMAIN invoices : invoices[i].number = Paper[m].number}

\* The stored invoices a message is taken to have become: source_external_id and source.
Imported(m) == {i \in DOMAIN invoices : invoices[i].external = m /\ invoices[i].source = Paper[m].source}

\* Mutant: the invoice is inserted without seeking its contractor.
CreationUnlinked == <<"insert", "stats", "evaluate", "flag", "sync", "item">>

\* create_invoice: the steps of a new invoice, and of KSeF data that overrule a stored one.
Creation == <<"seek_contractor", "create_contractor", "insert", "stats", "evaluate", "flag", "sync", "item">>
Overruling == <<"seek_contractor", "create_contractor", "authority", "evaluate", "flag", "stats", "item">>
Starting(m) == IF Paper[m].source = "KSEF" THEN <<"candidate">> ELSE Creation

Import(r, m) == [r EXCEPT !.message = m, !.agenda = Starting(m), !.outcome = "imported"]

\* The messages are fetched before the first of them is looked up.
Fetch(o) ==
  /\ Does(o, "fetch")
  /\ Done(o, request[o])
  /\ UNCHANGED <<invoices, ledger, desk, correcting, importing>>

LookUp(o) ==
  LET r == request[o]
      m == Head(r.messages)
      rest == [r EXCEPT !.messages = Tail(@)]
  IN /\ Does(o, "look_up")
     /\ request' = [request EXCEPT ![o] =
          IF Imported(m) = {} THEN Import(rest, m)
          ELSE [rest EXCEPT !.message = m, !.agenda = <<"item">>, !.outcome = "skipped_existing"]]
     /\ UNCHANGED <<invoices, ledger, desk, correcting, importing, history>>

AddItem(o) ==
  LET r == request[o] IN
  /\ Does(o, "item")
  /\ runs' = IF r.run = 0 THEN runs
             ELSE [runs EXCEPT ![r.run].imported = @ + IF r.outcome = "imported" THEN 1 ELSE 0,
                               ![r.run].errors = @ + IF r.outcome = "skipped_error" THEN 1 ELSE 0]
  /\ Done(o, r)
  /\ UNCHANGED <<invoices, ledger, desk, correcting, cycle>>

Finished(run) ==
  CASE run.imported = 0 /\ run.errors = 0 -> "no_new_documents"
    [] run.errors > 0 -> "completed_with_issues"
    [] OTHER -> "completed"

Finalize(o) ==
  LET k == request[o].run IN
  /\ Does(o, "finalize")
  /\ runs' = [runs EXCEPT ![k].status = Finished(runs[k])]
  /\ cycle' = IF cycle = o THEN NoOne ELSE cycle
  /\ request' = [request EXCEPT ![o] = Idle]
  /\ UNCHANGED <<invoices, ledger, desk, correcting, history>>

\* A document sent to the messenger becomes an invoice without a look-up.
Upload(o) ==
  \E m \in Messages :
    /\ Paper[m].source = "TELEGRAM"
    /\ Begin(o, Import(Idle, m))
    /\ UNCHANGED <<invoices, ledger, desk, correcting, importing>>

-----------------------------------------------------------------------------
(* create_invoice *)

SameKsef(ksef, others) ==
  IF ksef = NoValue THEN {} ELSE {i \in others : invoices[i].ksef = ksef}

SameNumber(number, supplier, others) ==
  IF number = NoValue THEN {}
  ELSE {i \in others : invoices[i].number = number /\ invoices[i].supplier = supplier}

SourcePriority == [TELEGRAM |-> 1, EMAIL |-> 2, KSEF |-> 3]

\* Of the stored invoices a KSeF document stands for: that of the best source, then the oldest.
Candidates(m) ==
  LET exact == SameKsef(Paper[m].ksef, DOMAIN invoices)
  IN IF exact # {} THEN exact ELSE SameNumber(Paper[m].number, Paper[m].supplier, DOMAIN invoices)

Ranked(found) ==
  CHOOSE i \in found : \A j \in found :
    \/ SourcePriority[invoices[i].authority] > SourcePriority[invoices[j].authority]
    \/ SourcePriority[invoices[i].authority] = SourcePriority[invoices[j].authority] /\ i <= j

FindCandidate(o) ==
  LET r == request[o]
      found == Candidates(r.message)
  IN /\ Does(o, "candidate")
     /\ request' = [request EXCEPT ![o] =
          IF found = {} THEN [r EXCEPT !.agenda = Creation]
          ELSE [r EXCEPT !.agenda = Overruling, !.row = Ranked(found),
                         !.seen = invoices[Ranked(found)], !.before = invoices[Ranked(found)].contractor]]
     /\ UNCHANGED <<invoices, ledger, desk, correcting, importing, history>>

\* Mutant: local corrections do not take part in what KSeF overrules.
AuthoritativeAlways(seen, m) ==
  [f \in KsefFields |-> IF Paper[m][f] # NoValue THEN Paper[m][f] ELSE seen[f]]

\* The values KSeF gives a stored invoice: a local correction the request saw stays in force.
Authoritative(seen, m) ==
  [f \in KsefFields |-> IF seen.local[f] # NoValue THEN seen.local[f]
                        ELSE IF Paper[m][f] # NoValue THEN Paper[m][f] ELSE seen[f]]

\* The NIP the contractor is sought by.
Nip(r) ==
  IF r.change # NoValue THEN r.change[2]
  ELSE IF r.row = 0 THEN Paper[r.message].supplier ELSE Authoritative(r.seen, r.message)["supplier"]

SeekContractor(o) ==
  LET r == request[o]
      known == Nip(r) \in DOMAIN contractors
  IN /\ Does(o, "seek_contractor")
     /\ request' = [request EXCEPT ![o].agenda = IF known THEN Tail(Tail(@)) ELSE Tail(@)]
     /\ UNCHANGED <<invoices, ledger, desk, correcting, importing, history>>

CreateContractor(o) ==
  LET nip == Nip(request[o]) IN
  /\ Does(o, "create_contractor") /\ nip \notin DOMAIN contractors
  /\ contractors' = [s \in DOMAIN contractors \cup {nip} |-> IF s = nip THEN 0 ELSE contractors[s]]
  /\ Done(o, request[o])
  /\ UNCHANGED <<invoices, relations, desk, correcting, importing>>

\* Somebody created it meanwhile: the unique index refuses, and nothing handles that error.
ContractorExists(o) ==
  /\ Does(o, "create_contractor") /\ Nip(request[o]) \in DOMAIN contractors
  /\ EndHalfWay(o)
  /\ UNCHANGED <<invoices, ledger, desk, correcting, runs>>

\* The unique index on invoice_hash.
Stored(hash) == \E i \in DOMAIN invoices : invoices[i].hash = hash

Insert(o) ==
  LET r == request[o]
      new == [NewInvoice(r.message) EXCEPT !.hash = Hash(NewInvoice(r.message))]
  IN /\ Does(o, "insert") /\ Len(invoices) < MaxInvoices
     /\ ~Stored(new.hash)
     /\ invoices' = Append(invoices, new)
     /\ exceptions' = Append(exceptions, [c \in Codes |-> "none"])
     /\ Done(o, [r EXCEPT !.row = Len(invoices) + 1])
     /\ UNCHANGED <<ledger, intake, correcting, importing>>

\* The same document again: an error the import counts, and a refusal of the upload.
InsertRefused(o) ==
  LET r == request[o] IN
  /\ Does(o, "insert") /\ Stored(Hash(NewInvoice(r.message)))
  /\ request' = [request EXCEPT ![o] = [r EXCEPT !.agenda = <<"item">>, !.outcome = "skipped_error"]]
  /\ UNCHANGED <<invoices, ledger, desk, correcting, importing, history>>

ApplyAuthority(o) ==
  LET r == request[o]
      v == Authoritative(r.seen, r.message)
      cleared == r.seen.status = "weryfikacja" /\ r.seen.duplicate = "brak"
      row == [invoices[r.row] EXCEPT
                !.ksef = v["ksef"], !.number = v["number"], !.supplier = v["supplier"],
                !.contractor = v["supplier"], !.external = r.message, !.authority = "KSEF",
                !.local = r.seen.local,
                !.status = IF cleared THEN "nowa" ELSE @, !.reason = IF cleared THEN "none" ELSE @]
  IN /\ Does(o, "authority")
     /\ invoices' = [invoices EXCEPT ![r.row] = [row EXCEPT !.hash = Hash(row)]]
     /\ Done(o, r)
     /\ UNCHANGED <<ledger, desk, correcting, importing>>

Count(s) == Cardinality({i \in DOMAIN invoices : invoices[i].contractor = s})

\* refresh_invoice_stats of the invoice's contractor, now and before.
RefreshStats(o) ==
  LET r == request[o]
      whose == {r.before, invoices[r.row].contractor}
  IN /\ Does(o, "stats")
     /\ contractors' = [s \in DOMAIN contractors |-> IF s \in whose THEN Count(s) ELSE contractors[s]]
     /\ Done(o, [r EXCEPT !.before = NoValue])
     /\ UNCHANGED <<invoices, relations, desk, correcting, importing>>

-----------------------------------------------------------------------------
(* Duplicate flags *)

Evaluate(o) ==
  LET r == request[o]
      row == invoices[r.row]
      others == DOMAIN invoices \ {r.row}
      exact == SameKsef(row.ksef, others)
      suspected == SameNumber(row.number, row.supplier, others)
  IN /\ Does(o, "evaluate")
     /\ relations' = {x \in relations : x[1] # r.row}
     /\ Done(o, [r EXCEPT !.seen = row,
                          !.matches = IF exact # {} THEN exact ELSE suspected,
                          !.type = IF exact # {} THEN "pewny"
                                   ELSE IF suspected # {} THEN "podejrzenie" ELSE "brak"])
     /\ UNCHANGED <<invoices, contractors, desk, correcting, importing>>

\* The status and reason a check leaves: a decision stays where it is, with preserve_manual_status or
\* without, and so does a verification with its reason, of an invoice that matches no other.
Flagged(row, type) ==
  IF type # "brak"
  THEN [status |-> IF type = "pewny" THEN "pewny_duplikat" ELSE "podejrzenie_duplikatu", reason |-> "duplicate"]
  ELSE [status |-> IF row.status \in {"podejrzenie_duplikatu", "pewny_duplikat"} THEN "nowa" ELSE row.status,
        reason |-> IF row.status = "weryfikacja" THEN row.reason ELSE "none"]

Flag(o) ==
  LET r == request[o]
      new == Flagged(r.seen, r.type)
      row == [invoices[r.row] EXCEPT !.status = new.status, !.reason = new.reason, !.duplicate = r.type]
  IN /\ Does(o, "flag")
     /\ invoices' = [invoices EXCEPT ![r.row] = row]
     /\ relations' = relations \cup {<<r.row, j, r.type>> : j \in r.matches}
     /\ Done(o, [r EXCEPT !.seen = row, !.matches = {}, !.type = "brak"])
     /\ UNCHANGED <<contractors, desk, correcting, importing>>

-----------------------------------------------------------------------------
(* Intake items that follow an invoice *)

DocumentStatus(row) == IF row.status = "weryfikacja" THEN "w_toku" ELSE "nowe"

ItemOf(i) == {k \in DOMAIN intake : intake[k].invoice = i}

SaveItem(i, row) ==
  IF ItemOf(i) = {} THEN Append(intake, [invoice |-> i, status |-> DocumentStatus(row)])
  ELSE [k \in DOMAIN intake |-> IF k \in ItemOf(i) THEN [intake[k] EXCEPT !.status = DocumentStatus(row)]
                                ELSE intake[k]]

ActiveCodes(row) ==
  {c \in Codes :
    \/ c = "weak_ocr" /\ row.reason = "ocr"
    \/ c = "duplicate_requires_decision" /\ row.duplicate # "brak"
    \/ c = "missing_ksef_confirmation" /\ row.authority # "KSEF" /\ row.ksef = NoValue
         /\ Paper[row.file].aged}

SyncExceptions(i, row) ==
  [exceptions EXCEPT ![i] = [c \in Codes |->
     IF c \in ActiveCodes(row) THEN IF exceptions[i][c] = "none" THEN "nowe" ELSE "w_toku"
     ELSE IF exceptions[i][c] = "none" THEN "none" ELSE "zakonczone"]]

\* The items follow the invoice as it was last read; a new one is read again.
Sync(o) ==
  LET r == request[o]
      row == IF r.message # NoValue THEN invoices[r.row] ELSE r.seen
  IN /\ Does(o, "sync")
     /\ intake' = SaveItem(r.row, row) /\ exceptions' = SyncExceptions(r.row, row)
     /\ Done(o, r)
     /\ UNCHANGED <<invoices, ledger, correcting, importing>>

-----------------------------------------------------------------------------
(* update_invoice *)

\* Mutant: an edit is not followed by a duplicate check.
EditingUnchecked(field) ==
  IF field = "supplier" THEN <<"seek_contractor", "create_contractor", "save", "rehash", "stats", "sync">>
  ELSE <<"save", "rehash", "stats", "sync">>
Editing(field) ==
  IF field = "supplier"
  THEN <<"seek_contractor", "create_contractor", "save", "rehash", "evaluate", "flag", "stats", "sync">>
  ELSE <<"save", "rehash", "evaluate", "flag", "stats", "sync">>

\* Who may approve corrections: admins, and the one they delegate it to until a time that passes.
Approves == BOOLEAN
Correcting(may) ==
  IF may THEN <<"evaluate", "flag", "stats", "approve_directly", "local", "sync">>
  ELSE <<"evaluate", "flag", "stats", "ask", "override", "sync">>

\* Data KSeF confirmed are not written but corrected: at once by who may, else after an approval.
UpdateInvoice(o) ==
  \E i \in DOMAIN invoices, c \in Changes, may \in Approves :
    /\ invoices[i][c[1]] # c[2]
    /\ Begin(o, [Idle EXCEPT !.row = i, !.change = c, !.before = invoices[i].contractor,
                             !.agenda = IF invoices[i].authority = "KSEF" THEN Correcting(may)
                                        ELSE Editing(c[1])])
    /\ UNCHANGED <<invoices, ledger, desk, correcting, importing>>

SaveInvoice(o) ==
  LET r == request[o]
      row == [invoices[r.row] EXCEPT ![r.change[1]] = r.change[2],
                                     !.contractor = IF r.change[1] = "supplier" THEN r.change[2] ELSE @]
  IN /\ Does(o, "save")
     /\ invoices' = [invoices EXCEPT ![r.row] = row]
     /\ Done(o, [r EXCEPT !.seen = row])
     /\ UNCHANGED <<ledger, desk, correcting, importing>>

Rehash(o) ==
  LET r == request[o] IN
  /\ Does(o, "rehash")
  /\ invoices' = [invoices EXCEPT ![r.row].hash = Hash(r.seen)]
  /\ Done(o, r)
  /\ UNCHANGED <<ledger, desk, correcting, importing>>

InsertOverride(r, approval, status) ==
  Append(overrides, [invoice |-> r.row, approval |-> approval, field |-> r.change[1],
                     value |-> r.change[2], status |-> status])

ApproveDirectly(o) ==
  LET r == request[o] IN
  /\ Does(o, "approve_directly")
  /\ overrides' = InsertOverride(r, 0, "approved")
  /\ Done(o, r)
  /\ UNCHANGED <<invoices, ledger, desk, approvals, importing>>

\* The corrections kept with the invoice are written back as they were read.
ApplyLocal(o) ==
  LET r == request[o]
      local == [r.seen.local EXCEPT ![r.change[1]] = r.change[2]]
      projection == [r.seen EXCEPT ![r.change[1]] = r.change[2]]
      row == [invoices[r.row] EXCEPT ![r.change[1]] = r.change[2], !.local = local,
                                     !.hash = Hash(projection)]
  IN /\ Does(o, "local")
     /\ invoices' = [invoices EXCEPT ![r.row] = row]
     /\ Done(o, [r EXCEPT !.seen = row])
     /\ UNCHANGED <<ledger, desk, correcting, importing>>

NewApproval(i, kind) == Append(approvals, [invoice |-> i, kind |-> kind, status |-> "pending"])

AskForCorrection(o) ==
  LET r == request[o] IN
  /\ Does(o, "ask")
  /\ approvals' = NewApproval(r.row, "ksef")
  /\ Done(o, [r EXCEPT !.approval = Len(approvals) + 1])
  /\ UNCHANGED <<invoices, ledger, desk, overrides, importing>>

SaveOverride(o) ==
  LET r == request[o] IN
  /\ Does(o, "override")
  /\ overrides' = InsertOverride(r, r.approval, "pending")
  /\ Done(o, [r EXCEPT !.seen = invoices[r.row]])
  /\ UNCHANGED <<invoices, ledger, desk, approvals, importing>>

-----------------------------------------------------------------------------
(* Decisions *)

MarkRow(i, status, duplicate) ==
  invoices' = [invoices EXCEPT ![i].status = status, ![i].duplicate = duplicate, ![i].reason = "manual"]

Decides(o, i) ==
  /\ ~Working(o) /\ begun < MaxRequests
  /\ begun' = begun + 1 /\ handled' = handled \cup {i}
  /\ mixed' = (mixed \/ \E p \in Operators : Working(p))
  /\ UNCHANGED <<died, request>>

MarkForVerification(o) ==
  \E i \in DOMAIN invoices :
    /\ Decides(o, i) /\ MarkRow(i, "weryfikacja", invoices[i].duplicate)
    /\ UNCHANGED <<ledger, desk, correcting, importing>>

ConfirmDuplicate(o) ==
  \E i \in DOMAIN invoices :
    /\ Decides(o, i) /\ MarkRow(i, "pewny_duplikat", "pewny")
    /\ UNCHANGED <<ledger, desk, correcting, importing>>

\* mark_correct and reject_duplicate.
MarkCorrect(o) ==
  \E i \in DOMAIN invoices :
    /\ Decides(o, i) /\ MarkRow(i, "poprawna", "brak")
    /\ relations' = {x \in relations : x[1] # i}
    /\ UNCHANGED <<contractors, desk, correcting, importing>>

CreateRequest(o) ==
  \E i \in DOMAIN invoices :
    /\ ~Working(o) /\ begun < MaxRequests
    /\ approvals' = NewApproval(i, "status")
    /\ begun' = begun + 1 /\ mixed' = (mixed \/ \E p \in Operators : Working(p))
    /\ UNCHANGED <<invoices, ledger, desk, overrides, importing, request, handled, died>>

CanDecide(a, may) == approvals[a].status = "pending" /\ (approvals[a].kind = "ksef" => may)

Deciding(a, decision) ==
  IF decision = "cancelled" THEN <<"decide">>
  ELSE IF approvals[a].kind = "status" THEN <<"decide", "status">>
  ELSE IF decision = "approved" THEN <<"decide", "read", "settle", "local">>
  ELSE <<"decide", "read", "settle">>

DecideRequest(o) ==
  \E a \in DOMAIN approvals, d \in {"approved", "rejected", "cancelled"}, may \in Approves :
    /\ CanDecide(a, may)
    /\ Begin(o, [Idle EXCEPT !.agenda = Deciding(a, d), !.approval = a, !.decision = d,
                             !.row = approvals[a].invoice])
    /\ UNCHANGED <<invoices, ledger, desk, correcting, importing>>

\* The update is not guarded: who read the request as pending decides it, again if need be.
Decide(o) ==
  LET r == request[o] IN
  /\ Does(o, "decide")
  /\ approvals' = [approvals EXCEPT ![r.approval].status = r.decision]
  /\ Done(o, r)
  /\ UNCHANGED <<invoices, ledger, desk, overrides, importing>>

EntityStatus(decision) == IF decision = "approved" THEN "poprawna" ELSE "odrzucona"

ApplyStatus(o) ==
  LET r == request[o] IN
  /\ Does(o, "status")
  /\ invoices' = [invoices EXCEPT ![r.row].status = EntityStatus(r.decision)]
  /\ request' = [request EXCEPT ![o] = Idle]
  /\ handled' = handled \cup {r.row}
  /\ UNCHANGED <<ledger, desk, correcting, importing, begun, mixed, died>>

OverridesOf(a) == {k \in DOMAIN overrides : overrides[k].approval = a}

\* The invoice is read before its corrections are looked for and settled.
ReadInvoice(o) ==
  LET r == request[o] IN
  /\ Does(o, "read")
  /\ Done(o, [r EXCEPT !.seen = invoices[r.row]])
  /\ UNCHANGED <<invoices, ledger, desk, correcting, importing>>

Settle(o) ==
  LET r == request[o] IN
  /\ Does(o, "settle") /\ OverridesOf(r.approval) # {}
  /\ \E k \in OverridesOf(r.approval) :
       /\ overrides' = [overrides EXCEPT ![k].status = r.decision]
       /\ Done(o, [r EXCEPT !.change = <<overrides[k].field, overrides[k].value>>])
  /\ UNCHANGED <<invoices, ledger, desk, approvals, importing>>

\* A request without saved corrections: its creation ended half way, or has not saved them yet.
NothingToSettle(o) ==
  /\ Does(o, "settle") /\ OverridesOf(request[o].approval) = {}
  /\ EndHalfWay(o)
  /\ UNCHANGED <<invoices, ledger, desk, correcting, runs>>

-----------------------------------------------------------------------------

Importing(o) ==
  \/ CheckMail(o) \/ CheckMailByCycle(o) \/ CheckKsef(o) \/ Upload(o)
  \/ FetchFails(o) \/ Fetch(o) \/ LookUp(o) \/ AddItem(o) \/ Finalize(o)

Creating(o) ==
  \/ FindCandidate(o) \/ SeekContractor(o) \/ CreateContractor(o) \/ ContractorExists(o)
  \/ Insert(o) \/ InsertRefused(o) \/ ApplyAuthority(o)
  \/ RefreshStats(o) \/ Evaluate(o) \/ Flag(o) \/ Sync(o)

Changing(o) ==
  \/ UpdateInvoice(o) \/ SaveInvoice(o) \/ Rehash(o)
  \/ ApproveDirectly(o) \/ ApplyLocal(o) \/ AskForCorrection(o) \/ SaveOverride(o)

DecidingOn(o) ==
  \/ MarkForVerification(o) \/ ConfirmDuplicate(o) \/ MarkCorrect(o)
  \/ CreateRequest(o) \/ DecideRequest(o) \/ Decide(o) \/ ApplyStatus(o)
  \/ ReadInvoice(o) \/ Settle(o) \/ NothingToSettle(o)

Next == \E o \in Operators : Importing(o) \/ Creating(o) \/ Changing(o) \/ DecidingOn(o) \/ Die(o)

Spec == Init /\ [][Next]_vars

-----------------------------------------------------------------------------
(* Properties *)

\* Rows keep the shape of their tables, and what refers to an invoice refers to one that exists.
TypeOK ==
  /\ \A i \in DOMAIN invoices :
       invoices[i] \in Rows /\ invoices[i].contractor \in DOMAIN contractors
  /\ \A x \in relations : x[1] \in DOMAIN invoices /\ x[2] \in DOMAIN invoices /\ x[1] # x[2]
  /\ \A k \in DOMAIN intake : intake[k] \in IntakeRows
  /\ DOMAIN exceptions = DOMAIN invoices
  /\ \A a \in DOMAIN approvals : approvals[a] \in ApprovalRows
  /\ \A k \in DOMAIN overrides :
       overrides[k] \in OverrideRows /\ overrides[k].approval \in {0} \cup DOMAIN approvals
  /\ \A k \in DOMAIN runs : runs[k] \in RunRows
  /\ cycle \in Operators \cup {NoOne} /\ handled \subseteq DOMAIN invoices

Quiet == \A o \in Operators : ~Working(o)

\* Requests came one after the other and none ended half way.
Orderly == ~mixed /\ ~died

Twins(i, j) ==
  \/ invoices[i].ksef # NoValue /\ invoices[i].ksef = invoices[j].ksef
  \/ /\ invoices[i].number # NoValue /\ invoices[i].number = invoices[j].number
     /\ invoices[i].supplier = invoices[j].supplier

Corrected(i) == \E f \in KsefFields : invoices[i].local[f] # NoValue

\* The invoice i is known to be a duplicate: of j, or for certain of an invoice with its KSeF number,
\* in which case the code does not look for others with its number.
Flags(i, j) ==
  \/ invoices[i].duplicate # "brak" /\ \E t \in {"pewny", "podejrzenie"} : <<i, j, t>> \in relations
  \/ invoices[i].duplicate = "pewny" /\ \E k \in DOMAIN invoices : <<i, k, "pewny">> \in relations

\* Of two invoices with one KSeF number, or one number of one supplier, one is known to be a
\* duplicate, unless somebody has decided about one of them or corrected its KSeF data locally,
\* after which the code does not look again.
TwinsAreFlagged ==
  (Orderly /\ Quiet) =>
    \A i, j \in DOMAIN invoices :
      (i # j /\ Twins(i, j) /\ {i, j} \cap handled = {} /\ ~Corrected(i) /\ ~Corrected(j)) =>
        Flags(i, j) \/ Flags(j, i)

\* An approved correction of KSeF data is in force, however often KSeF is checked again after
\* it: the invoice has the value of the correction kept with it, which is an approved one.
CorrectionsInForce ==
  (Orderly /\ Quiet) =>
    \A k \in DOMAIN overrides :
      LET i == overrides[k].invoice
          f == overrides[k].field
      IN overrides[k].status = "approved" =>
           /\ invoices[i][f] = invoices[i].local[f]
           /\ \E l \in DOMAIN overrides : /\ overrides[l].invoice = i /\ overrides[l].field = f
                                          /\ overrides[l].value = invoices[i].local[f]
                                          /\ overrides[l].status = "approved"

Finishes(k) == runs[k].status \in {"completed", "no_new_documents"}

\* A finished e-mail import has left nothing behind: each message it listed has become an invoice,
\* or the run counted its error, whoever else was importing, editing or killed meanwhile.
NothingLeftBehind ==
  \A k \in DOMAIN runs :
    runs[k].source = "EMAIL" /\ Finishes(k) =>
      \A m \in Range(Mailbox) : \E i \in DOMAIN invoices : invoices[i].file = m

\* docs/AUTOMATION_OPERATIONS_CENTER.md: the look-up by source_external_id keeps an attachment
\* from being imported twice.  It does not once KSeF has overruled the invoice.
ImportedOnce ==
  Orderly => \A i, j \in DOMAIN invoices : i # j => invoices[i].file # invoices[j].file
================================================================================
