-------------------------------- MODULE Billing --------------------------------
(***************************************************************************)
(* Billing of one organization (app/services/billing_service.py,            *)
(* billing_ledger_service.py and their repositories): families and their    *)
(* students, the charges generated for a model and a period with three      *)
(* discounts, bank statements imported row by row, payments matched to      *)
(* families, the ledger, and chains of next steps.  Operators work at the   *)
(* same time; each action is one transaction with the computation around    *)
(* it, so a request is several actions and may end between two of them.     *)
(***************************************************************************)
EXTENDS Integers, FiniteSets, Sequences, SequencesExt

CONSTANTS
  Operators,
  Payers, Models, Schools, Accounts,
  Model,        \* model -> [rate, lessons, intro, sibling, large]
  Card,         \* the payers with a large family card
  Roll,         \* the students, in the order they are charged: by family, then by their order in it
  Student,      \* student -> [payer, model, school, order]
  Periods,
  Row,          \* statement row -> [amount, payer]: payer is whose telephone number it quotes
  Statements,   \* statement -> the rows of its file
  Unreadable,   \* the statements with a row that cannot be normalised
  Account,      \* statement -> the bank account it is imported to
  NoPayer, NoState,
  Later,        \* rows registered by requests, not at the start
  Amounts,      \* amounts matched by hand that are tried
  MaxDate,      \* dates of next steps are 1..MaxDate, 0 is none
  MaxRequests   \* bound

Students == Range(Roll)
Rows == DOMAIN Row
StudentStates == [intro : Nat, sibling : Nat]

\* The roll names a student once; a statement is a file of rows, each of an amount that is not zero.
ASSUME BillingAssumption ==
  /\ MaxDate \in Nat \ {0} /\ MaxRequests \in Nat /\ Amounts \subseteq Nat \ {0}
  /\ Model \in [Models -> [rate : Nat, lessons : Nat, intro : Nat, sibling : Nat, large : Nat]]
  /\ Roll \in Seq(Students) /\ IsInjective(Roll)
  /\ \A s \in Students : /\ Student[s].payer \in Payers /\ Student[s].model \in Models
                         /\ Student[s].order \in Nat \ {0}
  /\ IsFiniteSet(Payers) /\ IsFiniteSet(Rows)
  /\ \A r \in Rows : Row[r].payer \in Payers \cup {NoPayer} /\ Row[r].amount \in Int \ {0}
  /\ \A k \in DOMAIN Statements : Statements[k] \in Seq(Rows)
  /\ NoPayer \notin Payers /\ NoState \notin Nat \cup StudentStates \cup Rows

VARIABLES
  rows,          \* registered schools, models, payers, students and bank accounts
  batches,       \* billing_charge_batches, in the order of their ids
  charges,       \* billing_charges, a set of rows
  studentState,  \* billing_student_charge_state of the school year
  payerState,    \* billing_payer_charge_state of the school year
  imports,       \* billing_statement_imports, in the order of their ids
  transaction,   \* row -> its billing_transactions row: whether stored, and matched_status
  matched,       \* row -> payer -> sum of its billing_payment_matches
  ledger,        \* payer -> [posted, after]: sum of its entries and balance_after of the last
  steps,         \* billing_next_step_events, in the order of their ids
  remarks,       \* notes, contacts, reviews and decisions recorded, as <<kind, target>>
  request,       \* what each operator's request knows between two transactions
  begun,         \* requests so far
  mixed, died    \* history: two requests have overlapped; a request ended half way (once)

vars == <<rows, batches, charges, studentState, payerState, imports, transaction, matched, ledger,
          steps, remarks, request, begun, mixed, died>>

charging == <<batches, charges, studentState, payerState>>
paying == <<imports, transaction, matched>>
register == <<rows, steps, remarks>>

-----------------------------------------------------------------------------
(* Rows *)

\* What can be registered.  A unique index keeps a school, a model, a payer and an account from
\* being registered twice; two rows of students with the same data are two students here.
Registrable == Schools \cup Models \cup Payers \cup Students \cup Accounts
BatchRows == [model : Models, period : Periods]
ChargeRows == [batch : Nat \ {0}, student : Students, total : Nat, intro : Nat, sibling : Nat, large : Nat]
ImportRows == [statement : DOMAIN Statements, status : {"przetwarzany", "zaimportowany", "blad"}]
TransactionRows == [stored : BOOLEAN, status : {"nieprzypisana", "czesciowo_rozliczona", "rozliczona"}]
LedgerRows == [posted : Int, after : Int]
RemarkRows == {"note", "contact", "decision", "review"} \X (Payers \cup Rows)
StepRows == [action : {"planned", "snoozed", "completed"}, parent : Nat, date : 0..MaxDate]

\* A draft is a charge that is not written yet and the state its student is left with;
\* fresh: no state of the student was stored when it was read.
Drafts == [student : Students, total : Nat, intro : Nat, sibling : Nat, large : Nat,
           introLeft : Nat, siblingLeft : Nat, fresh : BOOLEAN]

Nobody == [f \in {} |-> 0]

\* left: places on the roll of the pupils still to be drafted; cards: what is left of each family's
\* discount; freshCards: families without a stored state when it was read; after: the balance the
\* ledger entries of a family go on from; import: the statement import, 0 for a match by hand;
\* parent, date: of the next step to insert.
Idle == [pc |-> "idle", model |-> NoState, period |-> NoState, batch |-> 0, left |-> {},
         drafts |-> <<>>, i |-> 0, cards |-> Nobody, freshCards |-> {}, after |-> Nobody,
         import |-> 0, row |-> NoState, payer |-> NoPayer, amount |-> 0, status |-> NoState,
         action |-> NoState, parent |-> 0, date |-> 0]

Init ==
  /\ rows = Registrable \ Later
  /\ batches = <<>> /\ charges = {}
  /\ studentState = [s \in Students |-> NoState]
  /\ payerState = [f \in Payers |-> NoState]
  /\ imports = <<>>
  /\ transaction = [r \in Rows |-> [stored |-> FALSE, status |-> "nieprzypisana"]]
  /\ matched = [r \in Rows |-> [f \in Payers |-> 0]]
  /\ ledger = [f \in Payers |-> [posted |-> 0, after |-> 0]]
  /\ steps = <<[action |-> "planned", parent |-> 0, date |-> 1]>>
  /\ remarks = {}
  /\ request = [o \in Operators |-> Idle]
  /\ begun = 0 /\ mixed = FALSE /\ died = FALSE

-----------------------------------------------------------------------------
(* Sums *)

ChargesOf(f) == {c \in charges : Student[c.student].payer = f}

Charged(f) == SumFunctionOnSet([c \in charges |-> c.total], ChargesOf(f))

Paid(f) == SumFunctionOnSet([r \in Rows |-> matched[r][f]], Rows)

Balance(f) == Charged(f) - Paid(f)

MatchedOf(r) == SumFunctionOnSet(matched[r], Payers)

Absolute(n) == IF n < 0 THEN -n ELSE n

Working(o) == request[o].pc \notin {"idle", "dead"}

\* A request begins; a request of one transaction begins and ends with it.
Begin(o) ==
  /\ request[o].pc = "idle" /\ begun < MaxRequests
  /\ begun' = begun + 1
  /\ mixed' = (mixed \/ \E p \in Operators \ {o} : Working(p))
  /\ UNCHANGED died

Continue == UNCHANGED <<begun, mixed, died>>

Goto(o, record) == request' = [request EXCEPT ![o] = record]

-----------------------------------------------------------------------------
(* Registration: every row is inserted once, its unique index sees to that *)

Registers(o, kind, row, needs) ==
  /\ row \in kind /\ row \notin rows /\ needs \subseteq rows
  /\ Begin(o)
  /\ rows' = rows \cup {row}
  /\ UNCHANGED <<charging, paying, ledger, steps, remarks, request>>

CreateSchool(o, x) == Registers(o, Schools, x, {})
CreateModel(o, x) == Registers(o, Models, x, {})
CreatePayer(o, x) == Registers(o, Payers, x, {})
CreateBankAccount(o, x) == Registers(o, Accounts, x, {})

\* A family that is not registered yet is registered first, in a transaction of its own.
CreateStudent(o, x) ==
  /\ x \in Students
  /\ Registers(o, Students, x, {Student[x].payer, Student[x].model, Student[x].school})

Remark(o, kind, target) ==
  /\ Begin(o)
  /\ remarks' = remarks \cup {<<kind, target>>}
  /\ UNCHANGED <<rows, charging, paying, ledger, steps, request>>

AddPayerNote(o, f) == f \in rows \cap Payers /\ Remark(o, "note", f)
AddContactEvent(o, f) == f \in rows \cap Payers /\ Remark(o, "contact", f)
AddWorkQueueEvent(o, r) == r \in Rows /\ transaction[r].stored /\ Remark(o, "decision", r)

\* Only an incoming payment is reviewed.
AddPaymentReviewEvent(o, r) ==
  r \in Rows /\ transaction[r].stored /\ Row[r].amount > 0 /\ Remark(o, "review", r)

-----------------------------------------------------------------------------
(* Charges of a model and a period *)

Lesser(a, b) == IF a < b THEN a ELSE b

\* The places on the roll of the active students of the model.
Pupils(m) == {i \in DOMAIN Roll : Roll[i] \in rows /\ Student[Roll[i]].model = m}

HasCard(f, m) == f \in Card /\ Model[m].large > 0

CardLeft(f, m) == IF payerState[f] = NoState THEN Model[m].large ELSE payerState[f]

StateOf(s) ==
  LET m == Model[Student[s].model]
      stored == studentState[s]
  IN [intro |-> IF stored = NoState THEN m.intro ELSE stored.intro,
      sibling |-> IF Student[s].order = 1 \/ m.sibling = 0 THEN 0
                  ELSE IF stored = NoState THEN m.sibling ELSE stored.sibling]

\* The free lessons first, then the sibling discount, then the family's.
Draft(s, m, card) ==
  LET state == StateOf(s)
      base == Model[m].rate * Model[m].lessons
      used == Lesser(state.intro, Model[m].lessons)
      afterIntro == base - used * Model[m].rate
      sibling == Lesser(state.sibling, afterIntro)
      large == Lesser(card, afterIntro - sibling)
  IN [student |-> s, total |-> afterIntro - sibling - large,
      intro |-> used * Model[m].rate, sibling |-> sibling, large |-> large,
      introLeft |-> state.intro - used, siblingLeft |-> state.sibling - sibling,
      fresh |-> studentState[s] = NoState]

PayersOf(drafts) == {Student[drafts[i].student].payer : i \in DOMAIN drafts}

Generated(m, p) == \E i \in DOMAIN batches : batches[i] = [model |-> m, period |-> p]

\* generate_charges_for_model: who is to be charged is listed before anything else is read.
Generate(o, m, p) ==
  /\ m \in rows /\ ~Generated(m, p) /\ Pupils(m) # {}
  /\ Begin(o)
  /\ Goto(o, [Idle EXCEPT !.pc = "draft", !.model = m, !.period = p, !.left = Pupils(m)])
  /\ UNCHANGED <<register, charging, paying, ledger>>

NextPlace(o) == CHOOSE i \in request[o].left : \A j \in request[o].left : i <= j

NextPupil(o) == Roll[NextPlace(o)]

CardKnown(o, f) == f \in DOMAIN request[o].cards

CardNeeded(o, f) == HasCard(f, request[o].model) /\ ~CardKnown(o, f)

WithCard(cards, f, left) ==
  [g \in DOMAIN cards \cup {f} |-> IF g = f THEN left ELSE cards[g]]

\* The discount of the next pupil's family is read once, before its first pupil.
ReadCard(o) ==
  /\ request[o].pc = "draft"
  /\ LET f == Student[NextPupil(o)].payer
     IN /\ CardNeeded(o, f)
        /\ Goto(o, [request[o] EXCEPT
                      !.cards = WithCard(@, f, CardLeft(f, request[o].model)),
                      !.freshCards = IF payerState[f] = NoState THEN @ \cup {f} ELSE @])
  /\ UNCHANGED <<register, charging, paying, ledger>>
  /\ Continue

\* The next pupil's state is read and the charge computed, what is left of the family's discount
\* running from one pupil to the next.
DraftCharge(o) ==
  /\ request[o].pc = "draft"
  /\ LET r == request[o]
         s == NextPupil(o)
         f == Student[s].payer
         draft == Draft(s, r.model, IF CardKnown(o, f) THEN r.cards[f] ELSE 0)
         left == r.left \ {NextPlace(o)}
     IN /\ ~CardNeeded(o, f)
        /\ Goto(o, [r EXCEPT !.pc = IF left = {} THEN "batch" ELSE "draft", !.left = left,
                             !.drafts = Append(@, draft),
                             !.cards = IF CardKnown(o, f) THEN WithCard(@, f, r.cards[f] - draft.large) ELSE @])
  /\ UNCHANGED <<register, charging, paying, ledger>>
  /\ Continue

NewBatch(o) == [model |-> request[o].model, period |-> request[o].period]

\* idx_billing_charge_batches_org_model_period refuses the second batch of a period.
FaultyCreateBatch(o) ==
  /\ request[o].pc = "batch"
  /\ batches' = Append(batches, NewBatch(o))
  /\ Goto(o, [request[o] EXCEPT !.pc = "charge", !.i = 1, !.batch = Len(batches) + 1])
  /\ UNCHANGED <<register, charges, studentState, payerState, paying, ledger>>
  /\ Continue

CreateBatch(o) ==
  /\ request[o].pc = "batch"
  /\ IF Generated(request[o].model, request[o].period)
     THEN /\ Goto(o, Idle)
          /\ UNCHANGED batches
     ELSE /\ batches' = Append(batches, NewBatch(o))
          /\ Goto(o, [request[o] EXCEPT !.pc = "charge", !.i = 1, !.batch = Len(batches) + 1])
  /\ UNCHANGED <<register, charges, studentState, payerState, paying, ledger>>
  /\ Continue

Current(o) == request[o].drafts[request[o].i]

NewCharge(n, d) == [batch |-> n, student |-> d.student, total |-> d.total, intro |-> d.intro,
                    sibling |-> d.sibling, large |-> d.large]

\* After the i-th draft comes the next one, after the last the next stage.
Onward(o, stage) ==
  IF request[o].i < Len(request[o].drafts)
  THEN [request[o] EXCEPT !.i = @ + 1]
  ELSE [request[o] EXCEPT !.i = 1, !.pc = stage]

CreateCharge(o) ==
  /\ request[o].pc = "charge"
  /\ charges' = charges \cup {NewCharge(request[o].batch, Current(o))}
  /\ Goto(o, Onward(o, "student"))
  /\ UNCHANGED <<register, batches, studentState, payerState, paying, ledger>>
  /\ Continue

\* A state that was not stored is inserted, and the unique index ends the request if it is by now.
FaultySaveStudent(o) ==
  /\ request[o].pc = "student"
  /\ Goto(o, Onward(o, IF DOMAIN request[o].cards = {} THEN "balance" ELSE "payer"))
  /\ UNCHANGED <<register, charging, paying, ledger>>
  /\ Continue

SaveStudent(o) ==
  /\ request[o].pc = "student"
  /\ LET d == Current(o)
     IN IF d.fresh /\ studentState[d.student] # NoState
        THEN /\ Goto(o, Idle)
             /\ UNCHANGED studentState
        ELSE /\ studentState' = [studentState EXCEPT ![d.student] =
                  [intro |-> d.introLeft, sibling |-> d.siblingLeft]]
             /\ Goto(o, Onward(o, IF DOMAIN request[o].cards = {} THEN "balance" ELSE "payer"))
  /\ UNCHANGED <<register, batches, charges, payerState, paying, ledger>>
  /\ Continue

SavePayer(o) ==
  /\ request[o].pc = "payer"
  /\ \E f \in DOMAIN request[o].cards :
       IF f \in request[o].freshCards /\ payerState[f] # NoState
       THEN /\ Goto(o, Idle)
            /\ UNCHANGED payerState
       ELSE /\ payerState' = [payerState EXCEPT ![f] = request[o].cards[f]]
            /\ LET left == DOMAIN request[o].cards \ {f}
               IN Goto(o, [request[o] EXCEPT !.cards = [g \in left |-> request[o].cards[g]],
                                             !.pc = IF left = {} THEN "balance" ELSE "payer"])
  /\ UNCHANGED <<register, batches, charges, studentState, paying, ledger>>
  /\ Continue

\* record_charge_generation reads the balances, without the charges of the batch.
ReadBalances(o) ==
  /\ request[o].pc = "balance"
  /\ LET drafts == request[o].drafts
         Mine(f) == {i \in DOMAIN drafts : Student[drafts[i].student].payer = f}
         Total(f) == SumFunctionOnSet([i \in DOMAIN drafts |-> drafts[i].total], Mine(f))
     IN Goto(o, [request[o] EXCEPT !.pc = "entry",
                   !.after = [f \in PayersOf(drafts) |-> Balance(f) - Total(f)]])
  /\ UNCHANGED <<register, charging, paying, ledger>>
  /\ Continue

Entry(f, delta, after) == [posted |-> ledger[f].posted + delta, after |-> after]

PostCharge(o) ==
  /\ request[o].pc = "entry" /\ request[o].row = NoState
  /\ LET f == Student[Current(o).student].payer
         after == request[o].after[f] + Current(o).total
     IN /\ ledger' = [ledger EXCEPT ![f] = Entry(f, Current(o).total, after)]
        /\ Goto(o, IF request[o].i < Len(request[o].drafts)
                   THEN [request[o] EXCEPT !.i = @ + 1, !.after[f] = after]
                   ELSE Idle)
  /\ UNCHANGED <<register, charging, paying>>
  /\ Continue

-----------------------------------------------------------------------------
(* Statements *)

NewImport(k) == [statement |-> k, status |-> "przetwarzany"]

\* The row's hash is known: it covers the account and every column of the row.
Known(r) == transaction[r].stored

\* import_statement_csv, for an active account of the organization.
ImportStatement(o, k) ==
  /\ Account[k] \in rows
  /\ Begin(o)
  /\ imports' = Append(imports, NewImport(k))
  /\ Goto(o, [Idle EXCEPT !.pc = IF k \in Unreadable THEN "refuse" ELSE "row",
                          !.import = Len(imports) + 1, !.i = 1])
  /\ UNCHANGED <<register, charging, transaction, matched, ledger>>

EndImport(o, status) ==
  /\ imports' = [imports EXCEPT ![request[o].import].status = status]
  /\ Goto(o, Idle)
  /\ UNCHANGED <<register, charging, transaction, matched, ledger>>
  /\ Continue

\* Every row is normalised before the first one is stored.
RefuseImport(o) == request[o].pc = "refuse" /\ EndImport(o, "blad")

StatementOf(o) == Statements[imports[request[o].import].statement]

MoreRows(o) == request[o].i <= Len(StatementOf(o))

FinishImport(o) == request[o].pc = "row" /\ ~MoreRows(o) /\ EndImport(o, "zaimportowany")

NextRow(o) == [Idle EXCEPT !.pc = "row", !.import = request[o].import, !.i = request[o].i + 1]

\* A transaction with the same hash is skipped.
LookUpRow(o) ==
  /\ request[o].pc = "row" /\ MoreRows(o)
  /\ LET r == StatementOf(o)[request[o].i]
     IN Goto(o, IF Known(r) THEN NextRow(o)
                ELSE [request[o] EXCEPT !.pc = "store", !.row = r])
  /\ UNCHANGED <<register, charging, paying, ledger>>
  /\ Continue

\* The unique index refuses a row another import has stored meanwhile; that is no ValueError,
\* so the request ends and its import stays unfinished.
StoreRow(o) ==
  /\ request[o].pc = "store"
  /\ LET r == request[o].row
     IN IF transaction[r].stored
        THEN /\ Goto(o, Idle)
             /\ UNCHANGED transaction
        ELSE /\ transaction' = [transaction EXCEPT ![r].stored = TRUE]
             /\ Goto(o, IF Row[r].payer # NoPayer
                        THEN [request[o] EXCEPT !.pc = "auto"] ELSE NextRow(o))
  /\ UNCHANGED <<register, charging, imports, matched, ledger>>
  /\ Continue

-----------------------------------------------------------------------------
(* Matching a payment to a family *)

\* Mutant: the earlier matches of the row are not added up.
FaultyMatching(o, r, f, amount) ==
  [request[o] EXCEPT !.pc = "insert", !.row = r, !.payer = f, !.amount = amount,
     !.after = [g \in {f} |-> Balance(f) - amount],
     !.status = IF amount >= Absolute(Row[r].amount) THEN "rozliczona" ELSE "czesciowo_rozliczona"]

\* match_transaction up to its first write: the balance and the earlier matches are read.
\* Only the latest 200 matches of a row are added up; no bound here reaches that many.
Matching(o, r, f, amount) ==
  [request[o] EXCEPT !.pc = "insert", !.row = r, !.payer = f, !.amount = amount,
     !.after = [g \in {f} |-> Balance(f) - amount],
     !.status = IF MatchedOf(r) + amount >= Absolute(Row[r].amount)
                THEN "rozliczona" ELSE "czesciowo_rozliczona"]

\* auto_match_transaction: the whole amount, also of an outgoing payment, goes to the family
\* whose telephone number the row quotes, if it is registered.
AutoMatch(o) ==
  /\ request[o].pc = "auto"
  /\ LET r == request[o].row
     IN Goto(o, IF Row[r].payer \in rows
                THEN Matching(o, r, Row[r].payer, Absolute(Row[r].amount)) ELSE NextRow(o))
  /\ UNCHANGED <<register, charging, paying, ledger>>
  /\ Continue

\* An amount matched by hand has no upper limit.
MatchByHand(o, r, f, amount) ==
  /\ transaction[r].stored /\ f \in rows
  /\ Begin(o)
  /\ Goto(o, Matching(o, r, f, amount))
  /\ UNCHANGED <<register, charging, paying, ledger>>

InsertMatch(o) ==
  /\ request[o].pc = "insert"
  /\ matched' = [matched EXCEPT ![request[o].row][request[o].payer] = @ + request[o].amount]
  /\ Goto(o, [request[o] EXCEPT !.pc = "status"])
  /\ UNCHANGED <<register, charging, imports, transaction, ledger>>
  /\ Continue

UpdateTransaction(o) ==
  /\ request[o].pc = "status"
  /\ transaction' = [transaction EXCEPT ![request[o].row].status = request[o].status]
  /\ Goto(o, [request[o] EXCEPT !.pc = "entry"])
  /\ UNCHANGED <<register, charging, imports, matched, ledger>>
  /\ Continue

PostMatch(o) ==
  /\ request[o].pc = "entry" /\ request[o].row # NoState
  /\ LET f == request[o].payer
     IN ledger' = [ledger EXCEPT ![f] = Entry(f, -request[o].amount, request[o].after[f])]
  /\ Goto(o, IF request[o].import = 0 THEN Idle ELSE NextRow(o))
  /\ UNCHANGED <<register, charging, paying>>
  /\ Continue

-----------------------------------------------------------------------------
(* Next steps: an event changes the state of its parent, once *)

Child(n) == \E i \in DOMAIN steps : steps[i].parent = n

\* A snoozed event without a parent is history and no active step.
Active(n) ==
  /\ n \in DOMAIN steps /\ ~Child(n)
  /\ \/ steps[n].action = "planned"
     \/ steps[n].action = "snoozed" /\ steps[n].parent # 0

PlanStep(o, d) ==
  /\ Begin(o)
  /\ steps' = Append(steps, [action |-> "planned", parent |-> 0, date |-> d])
  /\ UNCHANGED <<rows, remarks, charging, paying, ledger, request>>

NewStep(o) ==
  [action |-> request[o].action, parent |-> request[o].parent, date |-> request[o].date]

\* A new date lies after the date of the step that is put off, if that one has a date.
LaterDate(n, d) == d > 0 /\ (steps[n].date > 0 => d > steps[n].date)

CheckStep(o, n, action, d) ==
  /\ action \in {"snoozed", "completed"} /\ Active(n)
  /\ (action = "snoozed") => LaterDate(n, d)
  /\ Begin(o)
  /\ Goto(o, [Idle EXCEPT !.pc = "step", !.action = action, !.parent = n, !.date = d])
  /\ UNCHANGED <<register, charging, paying, ledger>>

\* idx_billing_next_step_events_parent_unique refuses a second child.
FaultyInsertStep(o) ==
  /\ request[o].pc = "step"
  /\ steps' = Append(steps, NewStep(o))
  /\ Goto(o, Idle)
  /\ UNCHANGED <<rows, remarks, charging, paying, ledger>>
  /\ Continue

InsertStep(o) ==
  /\ request[o].pc = "step"
  /\ steps' = IF Child(request[o].parent) THEN steps ELSE Append(steps, NewStep(o))
  /\ Goto(o, Idle)
  /\ UNCHANGED <<rows, remarks, charging, paying, ledger>>
  /\ Continue

-----------------------------------------------------------------------------
\* The process ends between two transactions of a request (once).
Die(o) ==
  /\ Working(o) /\ ~died /\ died' = TRUE
  /\ Goto(o, [Idle EXCEPT !.pc = "dead"])
  /\ UNCHANGED <<register, charging, paying, ledger, begun, mixed>>

Registration(o) ==
  \/ \E x \in Later : CreateSchool(o, x) \/ CreateModel(o, x) \/ CreatePayer(o, x)
                      \/ CreateStudent(o, x) \/ CreateBankAccount(o, x)
  \/ \E f \in Payers : AddPayerNote(o, f) \/ AddContactEvent(o, f)
  \/ \E r \in Rows : AddWorkQueueEvent(o, r) \/ AddPaymentReviewEvent(o, r)

Charging(o) ==
  \/ \E m \in Models, p \in Periods : Generate(o, m, p)
  \/ ReadCard(o) \/ DraftCharge(o) \/ CreateBatch(o) \/ CreateCharge(o) \/ SaveStudent(o) \/ SavePayer(o)
  \/ ReadBalances(o) \/ PostCharge(o)

Paying(o) ==
  \/ \E k \in DOMAIN Statements : ImportStatement(o, k)
  \/ LookUpRow(o) \/ StoreRow(o) \/ AutoMatch(o) \/ FinishImport(o) \/ RefuseImport(o)
  \/ \E r \in Rows, f \in Payers, amount \in Amounts : MatchByHand(o, r, f, amount)
  \/ InsertMatch(o) \/ UpdateTransaction(o) \/ PostMatch(o)

Stepping(o) ==
  \/ \E d \in 0..MaxDate : PlanStep(o, d)
  \/ \E n \in DOMAIN steps, action \in {"snoozed", "completed"}, d \in 0..MaxDate :
       CheckStep(o, n, action, d)
  \/ InsertStep(o)

Next == \E o \in Operators :
  Registration(o) \/ Charging(o) \/ Paying(o) \/ Stepping(o) \/ Die(o)

Spec == Init /\ [][Next]_vars

-----------------------------------------------------------------------------
(* Properties *)

Quiet == \A o \in Operators : ~Working(o)
Orderly == Quiet /\ ~mixed /\ ~died

\* Every row has the shape its table gives it; the discounts left are never negative.
TypeOK ==
  /\ rows \subseteq Registrable
  /\ batches \in Seq(BatchRows) /\ charges \subseteq ChargeRows
  /\ \A s \in Students : studentState[s] = NoState \/ studentState[s] \in StudentStates
  /\ \A f \in Payers : payerState[f] = NoState \/ payerState[f] \in Nat
  /\ imports \in Seq(ImportRows) /\ steps \in Seq(StepRows)
  /\ transaction \in [Rows -> TransactionRows]
  /\ matched \in [Rows -> [Payers -> Nat]]
  /\ ledger \in [Payers -> LedgerRows]
  /\ remarks \subseteq RemarkRows
  /\ \A o \in Operators : request[o].drafts \in Seq(Drafts)

\* No student is charged twice for a period, however requests overlap or end: the batch of a
\* model and a period exists once, and its charges are written once.
ChargedOnce ==
  \A c, d \in charges :
    (c.student = d.student /\ batches[c.batch].period = batches[d.batch].period) => c = d

\* Requests one after another spend each discount exactly once: what the charges of a year took
\* and what is left together are what the model grants, for free lessons, siblings and families.
DiscountsAccounted ==
  Orderly =>
    /\ \A s \in Students :
         LET mine == {c \in charges : c.student = s}
             m == Model[Student[s].model]
         IN IF studentState[s] = NoState THEN mine = {}
            ELSE /\ SumFunctionOnSet([c \in charges |-> c.intro], mine) + studentState[s].intro * m.rate
                      = m.intro * m.rate
                 /\ (Student[s].order > 1) =>
                      SumFunctionOnSet([c \in charges |-> c.sibling], mine) + studentState[s].sibling = m.sibling
    /\ \A f \in Payers : payerState[f] # NoState =>
         \E m \in Models :
           SumFunctionOnSet([c \in charges |-> c.large], ChargesOf(f)) + payerState[f] = Model[m].large

\* A finished import has stored every row of its statement, and after requests one after another
\* the status of a payment agrees with its matches, and the ledger with the balance.
BooksAgree ==
  /\ \A n \in DOMAIN imports : imports[n].status = "zaimportowany" =>
       \A i \in DOMAIN Statements[imports[n].statement] :
         transaction[Statements[imports[n].statement][i]].stored
  /\ Orderly =>
       /\ \A n \in DOMAIN imports : imports[n].status # "przetwarzany"
       /\ \A r \in Rows : transaction[r].status =
            IF MatchedOf(r) = 0 THEN "nieprzypisana"
            ELSE IF MatchedOf(r) >= Absolute(Row[r].amount) THEN "rozliczona"
            ELSE "czesciowo_rozliczona"
       /\ \A f \in Payers : ledger[f].posted = Balance(f) /\ ledger[f].after = Balance(f)

\* However requests overlap or end, a chain of next steps has one open end: no step has two
\* children, nothing follows a completed step, and putting a step off moves its date forward.
OneOpenStep ==
  \A i, j \in DOMAIN steps :
    /\ (steps[i].parent # 0 /\ steps[i].parent = steps[j].parent) => i = j
    /\ steps[i].parent = j =>
         /\ steps[j].action # "completed" /\ j < i
         /\ steps[i].action = "snoozed" => steps[i].date > steps[j].date
================================================================================
