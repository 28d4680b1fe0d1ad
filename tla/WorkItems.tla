------------------------------- MODULE WorkItems -------------------------------
(***************************************************************************)
(* Work items of one organization and their service level deadlines         *)
(* (app/services/work_item_service.py and its repository): users create,    *)
(* edit, assign, snooze, escalate, close and reopen items while the worker  *)
(* sweeps over the overdue ones.  A request reads the row, computes, and    *)
(* then updates the row, its history and the event log, each in a           *)
(* transaction of its own; the sweep lists its candidates once and updates  *)
(* them one by one.  No update checks that the row is still the one read.   *)
(* A level is urgent (krytyczny) or not; the score only raises it.          *)
(***************************************************************************)
EXTENDS Integers, FiniteSets

CONSTANTS
  Items, Users,
  NoTime, Keep,      \* no deadline or warning; a column the payload does not name
  CreateForms,       \* [status, deadline, warning, urgent]
  PatchForms,        \* [status, deadline, warning, urgent, other], each a value or Keep
  ByMode,            \* a snooze by an amount of time
  SnoozeForms,       \* ByMode, or the deadline that remains with explicit dates
  ReopenForms,       \* [deadline, warning, dated]
  DueDates,          \* due_at of the items whose deadline is derived
  Target,            \* time the policy gives an item
  Scores,            \* whether a score alone makes an item urgent
  Lead,              \* sla_warning_minutes
  SweepLimit,        \* items a sweep takes
  MaxTime, MaxRequests, MaxDeaths   \* bounds

Statuses == {"open", "closed"}
Stages == {"on_track", "warning", "breached", "escalated", "resolved"}
Times == Int \cup {NoTime}

ASSUME WorkItemsAssumption ==
  /\ {Target, MaxTime, MaxRequests, MaxDeaths} \subseteq Nat
  /\ {Lead, SweepLimit} \subseteq Nat \ {0} /\ DueDates \subseteq Nat
  /\ NoTime \notin Int \cup Items /\ Scores \subseteq BOOLEAN

ASSUME FormsAssumption ==
  /\ CreateForms \subseteq [status : Statuses, deadline : Times, warning : Times, urgent : BOOLEAN]
  /\ PatchForms \subseteq [status : Statuses \cup {Keep}, deadline : Times \cup {Keep},
                          warning : Times \cup {Keep}, urgent : BOOLEAN \cup {Keep}, other : BOOLEAN]
  /\ SnoozeForms \subseteq Times \cup {ByMode}
  /\ ReopenForms \subseteq [deadline : Times \cup {Keep}, warning : Times \cup {Keep}, dated : BOOLEAN]

VARIABLES
  now,
  items,      \* work_items
  trailed,    \* items whose last write has its work_item_history row
  told,       \* item -> status_after of its last event
  auto,       \* auto_deadline_enabled of the organization's policy
  request,    \* user -> what the request knows
  sweep,      \* the worker's sweep: the items still to update, and the one being recorded
  begun, deaths,
  mixed,      \* history: items two requests or sweeps worked on at the same time
  lowered,    \* history: items a payload set to a lower level
  byHand      \* history: items escalated by hand when closed

vars == <<now, items, trailed, told, auto, request, sweep, begun, deaths, mixed, lowered, byHand>>

-----------------------------------------------------------------------------
(* Rows *)

NoRow == [status |-> "none", stage |-> "on_track", deadline |-> NoTime, warning |-> NoTime,
          resolved |-> FALSE, urgent |-> FALSE]

Idle == [pc |-> "idle"]
Rest == [agenda |-> <<>>, pc |-> "update", item |-> NoTime]

TakenBy(u, i) == request[u].pc # "idle" /\ request[u].pc # "next" /\ request[u].item = i
SweptNow(i) == i \in DOMAIN sweep.agenda \/ sweep.item = i

InFlight(i) == SweptNow(i) \/ \E u \in Users : TakenBy(u, i)

-----------------------------------------------------------------------------
(* Times, stages and levels *)

Reached(t) == t # NoTime /\ t <= now

\* _build_sla_warning_at; an explicit warning later than the deadline is refused by Fits.
WarningAt(deadline, explicit) ==
  IF deadline = NoTime THEN NoTime ELSE IF explicit # NoTime THEN explicit ELSE deadline - Lead

Fits(deadline, explicit) == deadline = NoTime \/ explicit = NoTime \/ explicit <= deadline

\* _derive_sla_stage
Stage(status, warning, deadline, stage) ==
  CASE status = "closed"                      -> "resolved"
    [] status # "closed" /\ Reached(deadline) -> IF stage = "escalated" THEN stage ELSE "breached"
    [] OTHER -> IF Reached(warning) /\ stage \in {"breached", "escalated"} THEN stage
                ELSE IF Reached(warning) THEN "warning"
                ELSE IF stage = "escalated" THEN stage ELSE "on_track"

\* _calculate_priority_score and _priority_level_from_score: the score of age and dates may
\* make any item urgent, and never takes a level below the least one given.
Levels(least) == {least \/ score : score \in Scores}

\* The deadline given, or the ones the policy derives for the possible due dates.
DeadlinesOf(given) ==
  IF given = NoTime /\ auto
  THEN {now + Target} \cup {d \in DueDates : d < now + Target}
  ELSE {given}

-----------------------------------------------------------------------------
(* What a request writes, computed from the row it has read; none when it is refused *)

Columns(status, stage, deadline, warning, resolved, urgent) ==
  [status |-> status, stage |-> stage, deadline |-> deadline, warning |-> warning,
   resolved |-> resolved, urgent |-> urgent]

\* Rows computed as if they were new.
FreshRows(status, given, explicit, least) ==
  {Columns(status, Stage(status, WarningAt(d, explicit), d, "on_track"),
           d, WarningAt(d, explicit), status = "closed", level) :
     d \in {t \in DeadlinesOf(given) : Fits(t, explicit)}, level \in Levels(least)}

Created(form) == FreshRows(form.status, form.deadline, form.warning, form.urgent)

\* Items created before, by whole requests, or not yet.
Init ==
  /\ now = 0 /\ auto \in BOOLEAN
  /\ items \in [Items -> {NoRow} \cup UNION {Created(form) : form \in CreateForms}]
  /\ trailed = {i \in Items : items[i] # NoRow}
  /\ told = [i \in Items |-> items[i].status]
  /\ request = [u \in Users |-> Idle]
  /\ sweep = Rest
  /\ begun = 0 /\ deaths = 0
  /\ mixed = {} /\ lowered = {} /\ byHand = {}

Given(value, old) == IF value = Keep THEN old ELSE value

\* A payload with nothing but a level or a warning leaves updated_data empty and changes nothing.
Names(form) == form.other \/ form.status # Keep \/ form.deadline # Keep

WarningInput(form, row) ==
  IF form.warning # Keep THEN form.warning ELSE IF form.deadline # Keep THEN NoTime ELSE row.warning

Merged(row, form) ==
  [row EXCEPT !.status = Given(form.status, row.status), !.deadline = Given(form.deadline, row.deadline)]

\* A bug for Outcome: an edit that reopens an item leaves its resolution time.
FaultyOutcome(row, merged, warning) ==
  LET stage == Stage(merged.status, warning, merged.deadline, row.stage)
  IN IF row.status # "closed" /\ merged.status = "closed" THEN [stage |-> "resolved", resolved |-> TRUE]
     ELSE [stage |-> stage, resolved |-> row.resolved]

Outcome(row, merged, warning) ==
  LET stage == Stage(merged.status, warning, merged.deadline, row.stage)
  IN CASE row.status # "closed" /\ merged.status = "closed" -> [stage |-> "resolved", resolved |-> TRUE]
       [] row.status = "closed" /\ merged.status # "closed" ->
            [stage |-> IF stage = "resolved" THEN "on_track" ELSE stage, resolved |-> FALSE]
       [] OTHER -> [stage |-> stage, resolved |-> row.resolved]

Updated(row, form) ==
  LET merged == Merged(row, form)
      explicit == WarningInput(form, row)
      warning == WarningAt(merged.deadline, explicit)
      outcome == Outcome(row, merged, warning)
  IN IF ~Names(form) \/ ~Fits(merged.deadline, explicit) THEN {}
     ELSE {Columns(merged.status, outcome.stage, merged.deadline, warning, outcome.resolved, level) :
             level \in Levels(Given(form.urgent, row.urgent))}

Assigned(row) == {[urgent |-> level] : level \in Levels(row.urgent)}

\* Shifted by a mode, or the explicit deadlines alone: one that is not given is dropped.
SnoozedTo(row, form) ==
  IF form # ByMode THEN form ELSE IF row.deadline = NoTime THEN NoTime ELSE row.deadline + 1

\* A bug for Snoozed: a closed item is put off too.
FaultySnoozed(row, form) ==
  {[deadline |-> SnoozedTo(row, form), warning |-> WarningAt(SnoozedTo(row, form), NoTime),
    stage |-> "on_track", urgent |-> level] : level \in Levels(row.urgent)}

Snoozed(row, form) ==
  IF row.status = "closed" THEN {}
  ELSE {[deadline |-> SnoozedTo(row, form), warning |-> WarningAt(SnoozedTo(row, form), NoTime),
         stage |-> "on_track", urgent |-> level] : level \in Levels(row.urgent)}

Escalated == {[stage |-> "escalated", urgent |-> TRUE]}

Closed == {[status |-> "closed", stage |-> "resolved", resolved |-> TRUE]}

\* The warning stays only when the payload names no date.
ReopenWarning(row, form) ==
  IF form.warning # Keep THEN form.warning
  ELSE IF form.deadline # Keep \/ form.dated THEN NoTime ELSE row.warning

Reopened(row, form) ==
  IF row.status # "closed" THEN {}
  ELSE FreshRows("open", Given(form.deadline, row.deadline), ReopenWarning(row, form), row.urgent)

Writes(kind, row, form) ==
  IF row.status = "none" THEN {}
  ELSE CASE kind = "update"   -> Updated(row, form)
         [] kind = "assign"   -> Assigned(row)
         [] kind = "snooze"   -> Snoozed(row, form)
         [] kind = "escalate" -> Escalated
         [] kind = "close"    -> Closed
         [] kind = "reopen"   -> Reopened(row, form)

\* _validate_assigned_user refuses somebody who is not an active member.
Refusable(kind) == kind \in {"update", "assign", "escalate"}

-----------------------------------------------------------------------------
(* Requests *)

Goto(u, record) == request' = [request EXCEPT ![u] = record]

\* A bug for Reported: a closing edit is logged with the status from before.
FaultyReported(row, fields) == row.status

\* status_after of the event.
Reported(row, fields) == IF "status" \in DOMAIN fields THEN fields.status ELSE row.status

\* What follows the item a request has done with: the next id of a bulk request, or nothing.
After(kind, form, rest) ==
  IF rest = {} THEN Idle ELSE [pc |-> "next", kind |-> kind, form |-> form, rest |-> rest]

\* Read the row and compute: go on to the update, or fail on this item.
Attempt(u, kind, i, form, rest) ==
  \/ /\ \E fields \in Writes(kind, items[i], form) :
          Goto(u, [pc |-> "update", kind |-> kind, form |-> IF rest = {} THEN NoTime ELSE form,
                   rest |-> rest, item |-> i, fields |-> fields,
                   tells |-> Reported(items[i], fields)])
     /\ mixed' = IF InFlight(i) THEN mixed \cup {i} ELSE mixed
     /\ lowered' = IF kind = "update" /\ form.urgent = FALSE THEN lowered \cup {i} ELSE lowered
     /\ byHand' = IF kind = "escalate" /\ items[i].status = "closed" THEN byHand \cup {i} ELSE byHand
  \/ /\ Writes(kind, items[i], form) = {} \/ Refusable(kind)
     /\ Goto(u, After(kind, form, rest))
     /\ UNCHANGED <<mixed, lowered, byHand>>

Begin(u) == request[u].pc = "idle" /\ begun < MaxRequests /\ begun' = begun + 1

Asks(u, kind, i, form) ==
  /\ Begin(u) /\ items[i] # NoRow
  /\ Attempt(u, kind, i, form, {})
  /\ UNCHANGED <<now, items, trailed, told, auto, sweep, deaths>>

CreateWorkItem(u, i) ==
  /\ Begin(u) /\ items[i] = NoRow
  /\ \E form \in CreateForms : \E row \in Created(form) :
       /\ items' = [items EXCEPT ![i] = row]
       /\ Goto(u, [pc |-> "history", kind |-> "create", form |-> NoTime, rest |-> {}, item |-> i,
                   fields |-> <<>>, tells |-> row.status])
  /\ UNCHANGED <<now, trailed, told, auto, sweep, deaths, mixed, lowered, byHand>>

UpdateWorkItem(u, i) == \E form \in PatchForms : Asks(u, "update", i, form)
AssignWorkItem(u, i) == Asks(u, "assign", i, NoTime)
SnoozeWorkItem(u, i) == \E form \in SnoozeForms : Asks(u, "snooze", i, form)
EscalateWorkItem(u, i) == Asks(u, "escalate", i, NoTime)
CloseWorkItem(u, i) == Asks(u, "close", i, NoTime)
ReopenWorkItem(u, i) == \E form \in ReopenForms : Asks(u, "reopen", i, form)

BulkForms == {<<"assign", NoTime>>, <<"escalate", NoTime>>, <<"close", NoTime>>}
               \cup ({"snooze"} \X SnoozeForms) \cup ({"reopen"} \X ReopenForms)

\* The same request for every id of a list; an id without a row is reported and passed over.
BulkApply(u) ==
  /\ Begin(u)
  /\ \E ask \in BulkForms, ids \in SUBSET Items :
       /\ ids # {}
       /\ Goto(u, After(ask[1], ask[2], ids))
  /\ UNCHANGED <<now, items, trailed, told, auto, sweep, deaths, mixed, lowered, byHand>>

NextOfBulk(u) ==
  /\ request[u].pc = "next"
  /\ \E i \in request[u].rest :
       Attempt(u, request[u].kind, i, request[u].form, request[u].rest \ {i})
  /\ UNCHANGED <<now, items, trailed, told, auto, sweep, begun, deaths>>

\* The columns named, over a row.
Over(fields, row) == [c \in DOMAIN row |-> IF c \in DOMAIN fields THEN fields[c] ELSE row[c]]

\* WorkItemRepository.update, by id alone.
Write(i, fields) ==
  /\ items' = [items EXCEPT ![i] = Over(fields, @)]
  /\ trailed' = trailed \ {i}

WriteItem(u) ==
  /\ request[u].pc = "update"
  /\ Write(request[u].item, request[u].fields)
  /\ Goto(u, [request[u] EXCEPT !.pc = "history", !.fields = <<>>])
  /\ UNCHANGED <<now, told, auto, sweep, begun, deaths, mixed, lowered, byHand>>

WriteHistory(u) ==
  /\ request[u].pc = "history"
  /\ trailed' = trailed \cup {request[u].item}
  /\ Goto(u, [request[u] EXCEPT !.pc = "event"])
  /\ UNCHANGED <<now, items, told, auto, sweep, begun, deaths, mixed, lowered, byHand>>

LogEvent(u) ==
  /\ request[u].pc = "event"
  /\ told' = [told EXCEPT ![request[u].item] = request[u].tells]
  /\ Goto(u, After(request[u].kind, request[u].form, request[u].rest))
  /\ UNCHANGED <<now, items, trailed, auto, sweep, begun, deaths, mixed, lowered, byHand>>

\* The policy is one JSON column of the organization.
UpdateSlaPolicy(u) ==
  /\ Begin(u) /\ auto' = ~auto
  /\ UNCHANGED <<now, items, trailed, told, request, sweep, deaths, mixed, lowered, byHand>>

\* An exception, or the end of the process, between two transactions of a request.
RequestDies(u) ==
  /\ request[u].pc # "idle" /\ deaths < MaxDeaths
  /\ deaths' = deaths + 1 /\ Goto(u, Idle)
  /\ UNCHANGED <<now, items, trailed, told, auto, sweep, begun, mixed, lowered, byHand>>

-----------------------------------------------------------------------------
(* The sweep, at the beginning of every dispatch of reminders *)

DueForWarning(row) == row.stage = "on_track" /\ Reached(row.warning)
\* A bug for DueForEscalation: an item an edit left in stage breached is taken for escalated.
FaultyDueForEscalation(row) == row.stage \in {"on_track", "warning"} /\ Reached(row.deadline)

DueForEscalation(row) == row.stage \in {"on_track", "warning", "breached"} /\ Reached(row.deadline)

DueSlaCandidates ==
  {i \in Items : items[i].status = "open" /\ (DueForWarning(items[i]) \/ DueForEscalation(items[i]))}

\* The first SweepLimit candidates by their deadlines; there is one whenever a warning is due.
Listed ==
  {S \in SUBSET DueSlaCandidates :
     /\ Cardinality(S) <= SweepLimit
     /\ Cardinality(S) = SweepLimit \/ S = DueSlaCandidates
     /\ \A i \in S, j \in DueSlaCandidates \ S : items[i].deadline <= items[j].deadline}

\* What the sweep writes to an item, decided from the row it listed.
SweepWrites(row) ==
  IF DueForEscalation(row) THEN Escalated
  ELSE {[stage |-> "warning", urgent |-> level] : level \in Levels(row.urgent)}

ListCandidates ==
  /\ sweep = Rest /\ DueSlaCandidates # {}
  /\ \E S \in Listed :
       /\ \E choice \in [S -> UNION {SweepWrites(items[i]) : i \in S}] :
            /\ \A i \in S : choice[i] \in SweepWrites(items[i])
            /\ sweep' = [Rest EXCEPT !.agenda = choice]
       /\ mixed' = mixed \cup {i \in S : InFlight(i)}
  /\ UNCHANGED <<now, items, trailed, told, auto, request, begun, deaths, lowered, byHand>>

SweepItem ==
  /\ sweep.pc = "update" /\ sweep.agenda # <<>>
  /\ \E i \in DOMAIN sweep.agenda :
       /\ Write(i, sweep.agenda[i])
       /\ sweep' = [agenda |-> [j \in DOMAIN sweep.agenda \ {i} |-> sweep.agenda[j]],
                    pc |-> "history", item |-> i]
  /\ UNCHANGED <<now, told, auto, request, begun, deaths, mixed, lowered, byHand>>

SweepHistory ==
  /\ sweep.pc = "history"
  /\ trailed' = trailed \cup {sweep.item}
  /\ sweep' = [sweep EXCEPT !.pc = "event"]
  /\ UNCHANGED <<now, items, told, auto, request, begun, deaths, mixed, lowered, byHand>>

SweepEvent ==
  /\ sweep.pc = "event"
  /\ told' = [told EXCEPT ![sweep.item] = "open"]
  /\ sweep' = [sweep EXCEPT !.pc = "update", !.item = NoTime]
  /\ UNCHANGED <<now, items, trailed, auto, request, begun, deaths, mixed, lowered, byHand>>

\* An exception ends the sweep; the reminders go on and the next sweep lists anew.
SweepDies ==
  /\ sweep # Rest /\ deaths < MaxDeaths
  /\ deaths' = deaths + 1 /\ sweep' = Rest
  /\ UNCHANGED <<now, items, trailed, told, auto, request, begun, mixed, lowered, byHand>>

Sweep == ListCandidates \/ SweepItem \/ SweepHistory \/ SweepEvent

Tick ==
  /\ now < MaxTime /\ now' = now + 1
  /\ UNCHANGED <<items, trailed, told, auto, request, sweep, begun, deaths, mixed, lowered, byHand>>

Requests(u) ==
  \/ \E i \in Items :
       \/ CreateWorkItem(u, i) \/ UpdateWorkItem(u, i) \/ AssignWorkItem(u, i) \/ SnoozeWorkItem(u, i)
       \/ EscalateWorkItem(u, i) \/ CloseWorkItem(u, i) \/ ReopenWorkItem(u, i)
  \/ BulkApply(u) \/ NextOfBulk(u) \/ UpdateSlaPolicy(u)
  \/ WriteItem(u) \/ WriteHistory(u) \/ LogEvent(u) \/ RequestDies(u)

Next == Tick \/ Sweep \/ SweepDies \/ \E u \in Users : Requests(u)

Spec == Init /\ [][Next]_vars

\* The worker keeps dispatching reminders, and every dispatch sweeps first.
FairSpec == Spec /\ WF_vars(Sweep)

-----------------------------------------------------------------------------
(* Properties *)

RowOK(row) ==
  \/ row = NoRow
  \/ /\ row.status \in Statuses /\ row.stage \in Stages /\ row.resolved \in BOOLEAN
     /\ row.deadline \in Times /\ row.warning \in Times /\ row.urgent \in BOOLEAN

\* Every variable stays in its set: rows have a known status and stage, requests and the
\* sweep are at one of their steps.
TypeOK ==
  /\ now \in 0..MaxTime /\ begun \in 0..MaxRequests /\ deaths \in 0..MaxDeaths /\ auto \in BOOLEAN
  /\ DOMAIN items = Items /\ \A i \in Items : RowOK(items[i])
  /\ told \in [Items -> Statuses \cup {"none"}]
  /\ {trailed, mixed, lowered, byHand} \subseteq SUBSET Items
  /\ \A u \in Users : request[u].pc \in {"idle", "next", "update", "history", "event"}
  /\ sweep.pc \in {"update", "history", "event"} /\ DOMAIN sweep.agenda \subseteq Items

\* However requests and sweeps overlap and end half way, an item has a resolution time exactly
\* when it is closed, only a closed item is in stage resolved, and a warning comes with a
\* deadline and not after it: the columns that one request computes together are written
\* together, also over a row that has changed since.
ColumnsAgree ==
  \A i \in Items : items[i] # NoRow =>
    /\ items[i].resolved <=> items[i].status = "closed"
    /\ items[i].stage = "resolved" => items[i].status = "closed"
    /\ (items[i].warning # NoTime) =>
         (items[i].deadline # NoTime /\ items[i].warning <= items[i].deadline)

\* An item on which no two requests or sweeps ever worked at the same time.
Orderly(i) == items[i] # NoRow /\ i \notin mixed

\* Such a closed item is out of the sweep's and of a snooze's reach: it stays in stage
\* resolved unless somebody escalates it by hand; and while it is escalated it is urgent,
\* whatever assignments, edits and reopenings compute, unless a payload lowers it.
StagesAreKept ==
  \A i \in Items : Orderly(i) =>
    /\ items[i].status = "closed" /\ i \notin byHand => items[i].stage = "resolved"
    /\ items[i].stage = "escalated" /\ i \notin lowered => items[i].urgent

\* When nothing is in flight on an item and nothing died, its last change is in its history,
\* and the last event of an orderly item reports the status it has.
RecordsComplete ==
  \A i \in Items : (items[i] # NoRow /\ ~InFlight(i) /\ deaths = 0) =>
    /\ i \in trailed
    /\ i \notin mixed => told[i] = items[i].status

Overdue(i) == items[i].status = "open" /\ Reached(items[i].deadline)

\* An open item past its deadline is escalated in the end, or closed or given another
\* deadline, whatever requests do and even if a sweep fails half way.
OverdueEscalates ==
  \A i \in Items : Overdue(i) ~> (items[i].stage = "escalated" \/ ~Overdue(i))
=============================================================================
