---------------------------- MODULE InvoiceHandoff ----------------------------
(***************************************************************************)
(* The workflow of an invoice (app/services/invoice_service.py): prepared,   *)
(* handed off, closed, opened again, each decision logged and the last one   *)
(* taken back on request; and the batches in which invoices are handed off   *)
(* together.  A decision reads the invoice, updates it and logs what it read  *)
(* before and after, in three transactions.                                  *)
(***************************************************************************)
EXTENDS Integers, FiniteSets, Sequences, SequencesExt

CONSTANTS
  Clerks,
  Organization,   \* invoice -> the organization it belongs to
  Selections,     \* the invoices a batch is asked for, each once, of any organizations
  NoRow,
  MaxHandoffs     \* bound

Invoices == DOMAIN Organization

ASSUME HandoffAssumption ==
  /\ MaxHandoffs \in Nat
  /\ \A s \in Selections : s \in Seq(Invoices) /\ s # <<>> /\ IsInjective(s)

VARIABLES
  workflow,   \* invoice -> its state, and which of its stamps are set
  log,        \* invoice -> the workflow decisions in event_logs, oldest first
  batches,    \* invoice_handoff_batches, in the order of their ids
  handoff,    \* what each clerk's request knows and has still to do
  handoffs,   \* requests so far
  handoffsMixed, handoffDied   \* history: two requests have overlapped; a request ended half way

handoffVars == <<workflow, log, batches, handoff, handoffs, handoffsMixed, handoffDied>>
handoffHistory == <<handoffs, handoffsMixed, handoffDied>>

-----------------------------------------------------------------------------
(* Rows *)

States == {"w_pracy", "gotowa_do_przekazania", "przekazana", "zamknieta"}
Decisions == {"ready", "hand_off", "close", "reopen"}   \* INVOICE_WORKFLOW_UNDO_EVENT_TYPES
WorkflowRows == [state : States, ready : BOOLEAN, handed : BOOLEAN, closed : BOOLEAN, reopened : BOOLEAN]
LogRows == [type : Decisions, before : States, after : States]
BatchRows == [organization : Range(Organization), number : Nat \ {0},
              status : {"utworzona", "przekazana", "wyeksportowana"}, count : Nat,
              items : SUBSET (Invoices \X States), exported : BOOLEAN]

\* agenda: the transactions still to make; seen: the invoice as it was read; left: the invoices
\* of the selection still to hand off; number, batch: of the batch; processed: the invoices put
\* into it, by the request's own count; event: the decision to undo.
IdleHandoff ==
  [agenda |-> <<>>, invoice |-> NoRow, type |-> "none", seen |-> NoRow, left |-> <<>>,
   number |-> 0, batch |-> 0, processed |-> 0, event |-> NoRow]

HandoffInit ==
  /\ workflow = [i \in Invoices |-> [state |-> "w_pracy", ready |-> FALSE, handed |-> FALSE,
                                     closed |-> FALSE, reopened |-> FALSE]]
  /\ log = [i \in Invoices |-> <<>>] /\ batches = <<>>
  /\ handoff = [o \in Clerks |-> IdleHandoff]
  /\ handoffs = 0 /\ handoffsMixed = FALSE /\ handoffDied = FALSE

-----------------------------------------------------------------------------
(* Requests *)

HandingOff(o) == handoff[o].agenda # <<>>
HandoffDoes(o, step) == HandingOff(o) /\ Head(handoff[o].agenda) = step

Goto(o, r) == handoff' = [handoff EXCEPT ![o] = IF r.agenda = <<>> THEN IdleHandoff ELSE r]
HandoffDone(o, r) == Goto(o, [r EXCEPT !.agenda = Tail(@)])

Begins(o) ==
  /\ ~HandingOff(o) /\ handoffs < MaxHandoffs
  /\ handoffs' = handoffs + 1
  /\ handoffsMixed' = (handoffsMixed \/ \E p \in Clerks \ {o} : HandingOff(p))
  /\ UNCHANGED handoffDied

\* A request ends half way: killed, or by an error.
HandoffEndsHalfWay(o) ==
  /\ handoff' = [handoff EXCEPT ![o] = IdleHandoff] /\ handoffDied' = TRUE
  /\ UNCHANGED <<workflow, log, batches, handoffs, handoffsMixed>>

HandoffDies(o) == HandingOff(o) /\ ~handoffDied /\ HandoffEndsHalfWay(o)

-----------------------------------------------------------------------------
(* Decisions *)

DecidingSteps == <<"update", "log">>
DecisionOn(i, type) ==
  [IdleHandoff EXCEPT !.agenda = DecidingSteps, !.invoice = i, !.type = type, !.seen = workflow[i]]

ReadyAllowed(i) == workflow[i].state # "przekazana"
HandOffAllowed(i) == workflow[i].state # "przekazana"
CloseAllowed(i) == workflow[i].state \notin {"zamknieta", "w_pracy"}
ReopenAllowed(i) == workflow[i].state # "w_pracy"

MarkReady(o) ==
  \E i \in Invoices :
    /\ ReadyAllowed(i) /\ Begins(o) /\ Goto(o, DecisionOn(i, "ready"))
    /\ UNCHANGED <<workflow, log, batches>>

HandOff(o) ==
  \E i \in Invoices :
    /\ HandOffAllowed(i) /\ Begins(o) /\ Goto(o, DecisionOn(i, "hand_off"))
    /\ UNCHANGED <<workflow, log, batches>>

Close(o) ==
  \E i \in Invoices :
    /\ CloseAllowed(i) /\ Begins(o) /\ Goto(o, DecisionOn(i, "close"))
    /\ UNCHANGED <<workflow, log, batches>>

Reopen(o) ==
  \E i \in Invoices :
    /\ ReopenAllowed(i) /\ Begins(o) /\ Goto(o, DecisionOn(i, "reopen"))
    /\ UNCHANGED <<workflow, log, batches>>

\* The columns a decision writes; a hand-off stamps the preparation only if it saw none.
Written(row, seen, type) ==
  CASE type = "ready" -> [row EXCEPT !.state = "gotowa_do_przekazania", !.ready = TRUE]
    [] type = "hand_off" -> [row EXCEPT !.state = "przekazana", !.handed = TRUE,
                                        !.ready = @ \/ ~seen.ready]
    [] type = "close" -> [row EXCEPT !.state = "zamknieta", !.closed = TRUE]
    [] type = "reopen" -> [row EXCEPT !.state = "w_pracy", !.reopened = TRUE]

Update(o) ==
  LET r == handoff[o]
      row == Written(workflow[r.invoice], r.seen, r.type)
  IN /\ HandoffDoes(o, "update")
     /\ workflow' = [workflow EXCEPT ![r.invoice] = row]
     /\ HandoffDone(o, r)
     /\ UNCHANGED <<log, batches, handoffs, handoffsMixed, handoffDied>>

Logged(r) == [type |-> r.type, before |-> r.seen.state, after |-> workflow[r.invoice].state]

Log(o) ==
  LET r == handoff[o] IN
  /\ HandoffDoes(o, "log")
  /\ log' = [log EXCEPT ![r.invoice] = Append(@, Logged(r))]
  /\ HandoffDone(o, [r EXCEPT !.seen = workflow[r.invoice]])
  /\ UNCHANGED <<workflow, batches, handoffHistory>>

\* The decision an undo takes back: the newest logged one that led to the present state.
Reversible(i) == {k \in DOMAIN log[i] : log[i][k].after = workflow[i].state}
LastDecision(i) == log[i][CHOOSE k \in Reversible(i) : \A l \in Reversible(i) : l <= k]

UndoLastDecision(o) ==
  \E i \in Invoices :
    /\ Reversible(i) # {} /\ Begins(o)
    /\ Goto(o, [IdleHandoff EXCEPT !.agenda = <<"undo">>, !.invoice = i, !.event = LastDecision(i)])
    /\ UNCHANGED <<workflow, log, batches>>

Undone(row, event) ==
  LET back == [row EXCEPT !.state = event.before] IN
  CASE event.type = "ready" -> [back EXCEPT !.ready = FALSE]
    [] event.type = "hand_off" -> [back EXCEPT !.handed = FALSE,
                                     !.ready = @ /\ event.before = "gotowa_do_przekazania"]
    [] event.type = "close" -> [back EXCEPT !.closed = FALSE]
    [] event.type = "reopen" -> [back EXCEPT !.reopened = FALSE]

Undo(o) ==
  LET r == handoff[o] IN
  /\ HandoffDoes(o, "undo")
  /\ workflow' = [workflow EXCEPT ![r.invoice] = Undone(@, r.event)]
  /\ HandoffDone(o, r)
  /\ UNCHANGED <<log, batches, handoffs, handoffsMixed, handoffDied>>

-----------------------------------------------------------------------------
(* Batches *)

\* The number of the next batch: those of the organization are counted, one is added.  Numbers
\* start again every day and only the latest 200 batches are counted: the model is one day of fewer.
NextNumber(organization) ==
  1 + Cardinality({k \in DOMAIN batches : batches[k].organization = organization})

CreateBatch(o) ==
  \E s \in Selections :
    /\ Begins(o)
    /\ Goto(o, [IdleHandoff EXCEPT !.agenda = <<"batch">>, !.left = s,
                                   !.number = NextNumber(Organization[s[1]])])
    /\ UNCHANGED <<workflow, log, batches>>

Taking == <<"choose">>
NewBatch(organization, number) ==
  [organization |-> organization, number |-> number, status |-> "utworzona", count |-> 0,
   items |-> {}, exported |-> FALSE]
NumberTaken(number) == \E k \in DOMAIN batches : batches[k].number = number

InsertBatch(o) ==
  LET r == handoff[o] IN
  /\ HandoffDoes(o, "batch") /\ ~NumberTaken(r.number)
  /\ batches' = Append(batches, NewBatch(Organization[Head(r.left)], r.number))
  /\ Goto(o, [r EXCEPT !.batch = Len(batches) + 1, !.agenda = Taking])
  /\ UNCHANGED <<workflow, log, handoffHistory>>

\* The number is unique in the whole database, but counted in one organization.
BatchRefused(o) == HandoffDoes(o, "batch") /\ NumberTaken(handoff[o].number) /\ HandoffEndsHalfWay(o)

\* The first of the selection made the batch its organization's.
Belongs(r) == Organization[Head(r.left)] = batches[r.batch].organization
Onward(r) ==
  [r EXCEPT !.left = Tail(@), !.agenda = IF Len(r.left) = 1 THEN <<"totals">> ELSE Taking]

\* Mutant: an invoice passed over is counted too.
CountedPassOver(o) ==
  /\ HandoffDoes(o, "choose") /\ ~Belongs(handoff[o])
  /\ Goto(o, Onward([handoff[o] EXCEPT !.processed = @ + 1]))
  /\ UNCHANGED <<workflow, log, batches, handoffHistory>>

\* An invoice of another organization is passed over.
PassOver(o) ==
  /\ HandoffDoes(o, "choose") /\ ~Belongs(handoff[o])
  /\ Goto(o, Onward(handoff[o]))
  /\ UNCHANGED <<workflow, log, batches, handoffHistory>>

\* The next invoice of the selection: prepared if it is in work, handed off if it is not.
Choose(o) ==
  LET r == handoff[o]
      i == Head(r.left)
      now == [r EXCEPT !.invoice = i, !.seen = workflow[i]]
  IN /\ HandoffDoes(o, "choose") /\ Belongs(r)
     /\ Goto(o, [now EXCEPT !.agenda = IF workflow[i].state = "w_pracy" THEN <<"start_ready">>
                                        ELSE <<"check">>])
     /\ UNCHANGED <<workflow, log, batches, handoffHistory>>

StartReady(o) ==
  LET r == handoff[o] IN
  /\ HandoffDoes(o, "start_ready") /\ ReadyAllowed(r.invoice)
  /\ Goto(o, [r EXCEPT !.agenda = DecidingSteps \o <<"check">>, !.type = "ready",
                       !.seen = workflow[r.invoice]])
  /\ UNCHANGED <<workflow, log, batches, handoffHistory>>

Check(o) ==
  LET r == handoff[o] IN
  /\ HandoffDoes(o, "check")
  /\ Goto(o, [r EXCEPT !.agenda = IF r.seen.state = "przekazana" THEN <<"item">>
                                  ELSE <<"start_hand_off">>])
  /\ UNCHANGED <<workflow, log, batches, handoffHistory>>

StartHandOff(o) ==
  LET r == handoff[o] IN
  /\ HandoffDoes(o, "start_hand_off") /\ HandOffAllowed(r.invoice)
  /\ Goto(o, [r EXCEPT !.agenda = DecidingSteps \o <<"item">>, !.type = "hand_off",
                       !.seen = workflow[r.invoice]])
  /\ UNCHANGED <<workflow, log, batches, handoffHistory>>

\* Somebody has handed it off meanwhile: an error, and the batch stays as it is.
AlreadyHandedOff(o) ==
  /\ \/ HandoffDoes(o, "start_ready") /\ ~ReadyAllowed(handoff[o].invoice)
     \/ HandoffDoes(o, "start_hand_off") /\ ~HandOffAllowed(handoff[o].invoice)
  /\ HandoffEndsHalfWay(o)

AddBatchItem(o) ==
  LET r == handoff[o] IN
  /\ HandoffDoes(o, "item")
  /\ batches' = [batches EXCEPT ![r.batch].items = @ \cup {<<r.invoice, r.seen.state>>}]
  /\ Goto(o, Onward([r EXCEPT !.processed = @ + 1]))
  /\ UNCHANGED <<workflow, log, handoffHistory>>

UpdateBatch(k, status, count) ==
  batches' = [batches EXCEPT ![k].status = status, ![k].count = count]

WriteTotals(o) ==
  LET r == handoff[o] IN
  /\ HandoffDoes(o, "totals")
  /\ UpdateBatch(r.batch, IF r.processed > 0 THEN "przekazana" ELSE "utworzona", r.processed)
  /\ HandoffDone(o, r)
  /\ UNCHANGED <<workflow, log, handoffHistory>>

MarkExported(k) == [batches EXCEPT ![k].status = "wyeksportowana", ![k].exported = TRUE]

ExportBatch(o) ==
  \E k \in DOMAIN batches :
    /\ Begins(o)
    /\ batches' = MarkExported(k)
    /\ UNCHANGED <<workflow, log, handoff>>

-----------------------------------------------------------------------------

Decision(o) ==
  \/ MarkReady(o) \/ HandOff(o) \/ Close(o) \/ Reopen(o) \/ Update(o) \/ Log(o)
  \/ UndoLastDecision(o) \/ Undo(o)

Batch(o) ==
  \/ CreateBatch(o) \/ InsertBatch(o) \/ BatchRefused(o) \/ PassOver(o) \/ Choose(o)
  \/ StartReady(o) \/ Check(o) \/ StartHandOff(o) \/ AlreadyHandedOff(o)
  \/ AddBatchItem(o) \/ WriteTotals(o) \/ ExportBatch(o)

HandoffNext == \E o \in Clerks : Decision(o) \/ Batch(o) \/ HandoffDies(o)

HandoffSpec == HandoffInit /\ [][HandoffNext]_handoffVars

-----------------------------------------------------------------------------
(* Properties *)

\* States, logged decisions and batches have the shape of their tables.
HandoffTypeOK ==
  /\ workflow \in [Invoices -> WorkflowRows]
  /\ \A i \in Invoices : \A k \in DOMAIN log[i] : log[i][k] \in LogRows
  /\ \A k \in DOMAIN batches : batches[k] \in BatchRows
  /\ handoffs \in 0..MaxHandoffs

NoHandoffs == \A o \in Clerks : ~HandingOff(o)
OrderlyHandoffs == ~handoffsMixed /\ ~handoffDied

\* A batch takes only invoices of its organization, whatever it is asked for; once its totals are
\* written, the request has counted each of its items once, whatever other requests did to its
\* invoices; when requests came one at a time every batch got that far, with each invoice handed
\* off, and an export stays visible in its status (create_handoff_batch, export_handoff_batch_csv).
BatchesAgree ==
  \A k \in DOMAIN batches :
    LET b == batches[k]
        members == {x[1] : x \in b.items}
    IN /\ b.status = "przekazana" => (b.count = Cardinality(members) /\ b.count > 0)
       /\ \A i \in members : Organization[i] = b.organization
       /\ (OrderlyHandoffs /\ NoHandoffs) =>
            /\ b.status # "utworzona" /\ b.count = Cardinality(members)
            /\ \A x \in b.items : x[2] = "przekazana"
            /\ b.exported => b.status = "wyeksportowana"
================================================================================
