--------------------------- MODULE AutomationRule ---------------------------
(***************************************************************************)
(* One automation rule of one organization: the event log it scans, the     *)
(* lease that lets one run at a time scan it, the cursor it has reached,    *)
(* the execution rows that make an event run at most once, the sweeps and   *)
(* manual runs that scan it, and the administrators who edit, enable and    *)
(* disable it meanwhile (app/services/automation_service.py and             *)
(* app/repositories/automation_repository.py).                              *)
(*                                                                          *)
(* Each action is one database transaction of the code with the local       *)
(* computation around it; everything may happen between two transactions.   *)
(* A definition called Faulty is not part of the specification: it is a     *)
(* plausible slip that a property is shown to detect when it replaces the   *)
(* definition after it.                                                     *)
(*                                                                          *)
(* Time is kept relative to now.  rule.lease is processing_lease_until      *)
(* minus the current time and run[r].lag is the time since r's last step,   *)
(* so a timestamp that r took since then is d units old, 0 <= d <= lag.     *)
(***************************************************************************)
EXTENDS Integers, Sequences, FiniteSets

CONSTANTS
  Runs,      \* invocations of _process_rule in flight; each one is its claim token
  Admins,    \* requests of administrators in flight
  Triggers,  \* trigger_event_type values
  Edits,     \* the triggers that an edit may set (bound)
  None,      \* the NULL claim token
  Engine,    \* the kind of a row whose source is AUTOMATION
  Lease,     \* AUTOMATION_RULE_LEASE_SECONDS, in time units
  MaxLag,    \* the oldest timestamp a run can still use (bound)
  MaxLog,    \* rows of event_logs (bound)
  Limit,     \* rows that one scan fetches
  Serial,    \* TRUE: one writer at a time, as on SQLite
  MaxCrashes \* runs that die without their finally block (bound)

ASSUME AutomationAssumption ==
  /\ None \notin Runs
  /\ Triggers # {} /\ Engine \notin Triggers /\ Edits \subseteq Triggers
  /\ Lease \in Nat \ {0} /\ MaxLag \in Nat /\ MaxLog \in Nat
  /\ Limit \in Nat \ {0} /\ MaxCrashes \in Nat /\ Serial \in BOOLEAN

VARIABLES
  rule,       \* the row of automation_rules
  log,        \* event_logs of the organization; a row's id is its position
  exec,       \* automation_executions: the status of the row of each event
  run,        \* what each run knows between two transactions
  admin,      \* what each administrator's request knows
  crashes,    \* runs that died so far
  calls,      \* history: handler calls per event
  base,       \* history: the watermark of the latest fresh activation
  retargeted  \* history: the trigger has been edited

vars == <<rule, log, exec, run, admin, crashes, calls, base, retargeted>>

Ids      == 1..MaxLog
Statuses == {"none", "processing", "success", "failed"}

\* A row of the log is shown once its transaction has committed; it is overtaken
\* when a row with a higher id was shown before it; it is armed when the rule was
\* active while it was inserted or committed (the last two are history).
LogRows == [kind : Triggers \cup {Engine}, shown : BOOLEAN, overtaken : BOOLEAN, armed : BOOLEAN]

\* The points where a run holds, or may take, a timestamp for its next statement.
Timed == {"acquire", "idleRenew", "renew", "finalRenew", "progress"}

RunPC == {"idle", "acquire", "fetch", "idleRenew", "renew", "claim", "act",
          "complete", "finalRenew", "progress", "release"}

\* cursor is last_cursor, then latest_event_id; todo holds the rows fetched and
\* not yet reached, next the row at hand, done is matches + errors.  late (claims
\* since the rule was disabled) and fresh (begun since the last activation) are history.
NoRun == [pc |-> "idle", manual |-> FALSE, cursor |-> 0, trigger |-> CHOOSE t \in Triggers : TRUE,
          todo |-> {}, next |-> 0, result |-> "none", done |-> 0,
          lost |-> FALSE, lag |-> 0, late |-> 0, fresh |-> FALSE]

NoRequest == [pc |-> "idle", saw |-> FALSE, want |-> "keep", trigger |-> None]

SmallerOf(a, b) == IF a < b THEN a ELSE b
LargerOf(a, b)  == IF a < b THEN b ELSE a

RuleRows == [active : BOOLEAN, trigger : Triggers, cursor : 0..MaxLog,
             token : Runs \cup {None}, lease : -MaxLag..Lease, count : Nat]

RunStates == [pc : RunPC, manual : BOOLEAN, cursor : 0..MaxLog, trigger : Triggers,
              todo : SUBSET Ids, next : 0..MaxLog, result : Statuses, done : Nat,
              lost : BOOLEAN, lag : 0..MaxLag, late : Nat, fresh : BOOLEAN]

Requests == [pc : {"idle", "apply"}, saw : BOOLEAN,
             want : {"on", "off", "keep"}, trigger : Triggers \cup {None}]

TypeOK ==
  /\ rule \in RuleRows
  /\ log \in Seq(LogRows) /\ Len(log) <= MaxLog
  /\ exec \in [Ids -> Statuses]
  /\ run \in [Runs -> RunStates]
  /\ admin \in [Admins -> Requests]
  /\ crashes \in 0..MaxCrashes
  /\ calls \in [Ids -> Nat]
  /\ base \in 0..MaxLog
  /\ retargeted \in BOOLEAN

\* create_rule: inactive behind an empty log, or active from its watermark.
Init ==
  /\ rule \in [active : BOOLEAN, trigger : Triggers, cursor : {0},
               token : {None}, lease : {-MaxLag}, count : {0}]
  /\ log = <<>>
  /\ exec = [e \in Ids |-> "none"]
  /\ run = [r \in Runs |-> NoRun]
  /\ admin = [a \in Admins |-> NoRequest]
  /\ crashes = 0
  /\ calls = [e \in Ids |-> 0]
  /\ base = 0
  /\ retargeted = FALSE

-----------------------------------------------------------------------------
(* Guards and updates shared by the statements.                              *)

\* The row the engine itself logs.  It is dropped once the table has MaxLog rows.
WithAudit(rows) ==
  IF Len(rows) < MaxLog
  THEN Append(rows, [kind |-> Engine, shown |-> TRUE, overtaken |-> FALSE, armed |-> FALSE])
  ELSE rows

\* Faulty: activation keeps the old cursor.
OldCursorAsWatermark(w) == w = rule.cursor

\* COALESCE(MAX(id), 0) over the rows that the transaction sees
IsWatermark(w) ==
  /\ w \in 0..Len(log)
  /\ w > 0 => log[w].shown
  /\ \A e \in 1..Len(log) : log[e].shown => e <= w

\* processing_lease_until > now, for a timestamp that is d units old
LeaseLive(d) == rule.lease > -d

\* Faulty: the checkpoint forgets is_active.
MayRenewWhenDisabled(r, d) == rule.token = r /\ LeaseLive(d)

\* The WHERE clause of renew_rule_claim
MayRenew(r, d) ==
  /\ rule.token = r
  /\ LeaseLive(d)
  /\ run[r].manual \/ rule.active

Renewed(d) == [rule EXCEPT !.lease = Lease - d]

Released == [rule EXCEPT !.token = None, !.lease = -MaxLag]

\* r goes on to pc; it has just made a step.
At(r, pc) == [run[r] EXCEPT !.pc = pc, !.lag = 0]

\* A run in state s is done with the row at hand.
NextRow(s) == [s EXCEPT !.lag = 0, !.next = 0, !.result = "none",
                        !.pc = IF s.todo = {} THEN "finalRenew" ELSE "renew"]

\* A run that only has its finally block left.
Leaving == [NoRun EXCEPT !.pc = "release"]

Matches(r, e) == log[e].kind = run[r].trigger

Quiet == UNCHANGED <<admin, crashes, base, retargeted>>
-----------------------------------------------------------------------------
(* A run: process_pending_events (automatic) or run_rule (manual), then      *)
(* _process_rule.                                                            *)

\* list_rules returns active rules only, get_by_id any; the row read here is
\* the one the whole run works from.  A token is fresh: no claim carries it.
Begin(r, manual) ==
  /\ run[r].pc = "idle"
  /\ rule.token # r
  /\ manual \/ rule.active
  /\ run' = [run EXCEPT ![r] = [NoRun EXCEPT !.pc = "acquire", !.manual = manual,
                                  !.cursor = rule.cursor, !.trigger = rule.trigger,
                                  !.fresh = TRUE]]
  /\ Quiet /\ UNCHANGED <<rule, log, exec, calls>>

Acquire(r) ==
  /\ run[r].pc = "acquire"
  /\ \E d \in 0..run[r].lag :
       LET free == (rule.token = None \/ ~LeaseLive(d)) /\ (run[r].manual \/ rule.active)
       IN  /\ rule' = IF free THEN [rule EXCEPT !.token = r, !.lease = Lease - d] ELSE rule
           /\ run' = [run EXCEPT ![r] = IF free THEN At(r, "fetch") ELSE NoRun]
  /\ Quiet /\ UNCHANGED <<log, exec, calls>>

\* The first Limit rows after c: list_logs_after(c, limit)
LogsAfter(c) ==
  LET after == {e \in 1..Len(log) : log[e].shown /\ e > c}
  IN  {e \in after : Cardinality({f \in after : f < e}) < Limit}

\* The cursor is that of the row Begin read.
Fetch(r) ==
  /\ run[r].pc = "fetch"
  /\ LET rows == LogsAfter(run[r].cursor)
     IN run' = [run EXCEPT ![r] =
                  CASE rows # {} -> [At(r, "renew") EXCEPT !.todo = rows]
                    [] rows = {} /\ run[r].manual -> At(r, "idleRenew")
                    [] OTHER -> Leaving]
  /\ Quiet /\ UNCHANGED <<rule, log, exec, calls>>

\* A manual run that finds nothing renews its claim and stores last_run_at.
IdleRenew(r) ==
  /\ run[r].pc = "idleRenew"
  /\ \E d \in 0..run[r].lag : rule' = IF MayRenew(r, d) THEN Renewed(d) ELSE rule
  /\ run' = [run EXCEPT ![r] = Leaving]
  /\ Quiet /\ UNCHANGED <<log, exec, calls>>

\* The checkpoint in front of every row, and the three `continue`s after it.
Renew(r) ==
  /\ run[r].pc = "renew"
  /\ \E d \in 0..run[r].lag :
       \/ /\ MayRenew(r, d)
          /\ rule' = Renewed(d)
          /\ \E e \in run[r].todo :
               /\ \A f \in run[r].todo : e <= f
               /\ LET here == [At(r, "claim") EXCEPT !.todo = @ \ {e}, !.next = e, !.cursor = LargerOf(@, e)]
                  IN run' = [run EXCEPT ![r] = IF Matches(r, e) THEN here ELSE NextRow(here)]
       \/ /\ ~MayRenew(r, d)
          /\ rule' = rule
          /\ run' = [run EXCEPT ![r] = [At(r, "finalRenew") EXCEPT !.lost = TRUE, !.todo = {}]]
  /\ Quiet /\ UNCHANGED <<log, exec, calls>>

\* Faulty: INSERT OR REPLACE, so that a claimed event can be claimed again.
ClaimExecutionAgain(r) ==
  /\ run[r].pc = "claim"
  /\ exec' = [exec EXCEPT ![run[r].next] = "processing"]
  /\ run' = [run EXCEPT ![r] = [At(r, "act") EXCEPT !.late = IF rule.active THEN @ ELSE @ + 1]]
  /\ Quiet /\ UNCHANGED <<rule, log, calls>>

\* try_claim_execution: the unique index on (rule, event) turns a second
\* claim into already_claimed.
ClaimExecution(r) ==
  /\ run[r].pc = "claim"
  /\ LET e == run[r].next
         won == exec[e] = "none"
     IN /\ exec' = IF won THEN [exec EXCEPT ![e] = "processing"] ELSE exec
        /\ run' = [run EXCEPT ![r] =
                     IF won THEN [At(r, "act") EXCEPT !.late = IF rule.active THEN @ ELSE @ + 1]
                     ELSE NextRow(run[r])]
  /\ Quiet /\ UNCHANGED <<rule, log, calls>>

\* _execute_actions.  create_inbox_item logs a row with source AUTOMATION, log
\* does not; an action that raises may have come after one that succeeded.
Act(r, result) ==
  /\ run[r].pc = "act"
  /\ result \in {"success", "failed"}
  /\ calls' = [calls EXCEPT ![run[r].next] = @ + 1]
  /\ log' \in {log, WithAudit(log)}
  /\ run' = [run EXCEPT ![r] = [At(r, "complete") EXCEPT !.result = result]]
  /\ Quiet /\ UNCHANGED <<rule, exec>>

\* complete_execution and, when it changed the row, the audit row.
CompleteExecution(r) ==
  /\ run[r].pc = "complete"
  /\ LET e == run[r].next
         open == exec[e] = "processing"
     IN /\ exec' = IF open THEN [exec EXCEPT ![e] = run[r].result] ELSE exec
        /\ log' = IF open THEN WithAudit(log) ELSE log
        /\ run' = [run EXCEPT ![r] = [NextRow(run[r]) EXCEPT !.done = IF open THEN @ + 1 ELSE @]]
  /\ Quiet /\ UNCHANGED <<rule, calls>>

\* The renewal after the loop, skipped once the lease is lost.  Its timestamp
\* is the one update_rule_progress uses too, so lag keeps its age.
FinalRenew(r) ==
  /\ run[r].pc = "finalRenew"
  /\ \E d \in 0..run[r].lag :
       /\ rule' = IF ~run[r].lost /\ MayRenew(r, d) THEN Renewed(d) ELSE rule
       /\ run' = [run EXCEPT ![r].pc = "progress", ![r].lag = d]
  /\ Quiet /\ UNCHANGED <<log, exec, calls>>

\* Faulty: a plain assignment of the cursor.
ProgressOverwriting(r) ==
  /\ run[r].pc = "progress"
  /\ rule' = IF rule.token = r /\ LeaseLive(run[r].lag) /\ (run[r].lost => ~rule.active)
             THEN [rule EXCEPT !.cursor = run[r].cursor, !.count = @ + run[r].done]
             ELSE rule
  /\ run' = [run EXCEPT ![r] = Leaving]
  /\ Quiet /\ UNCHANGED <<log, exec, calls>>

\* update_rule_progress: latest_event_id is the last row whose checkpoint held.
Progress(r) ==
  /\ run[r].pc = "progress"
  /\ rule' = IF /\ rule.token = r
                /\ LeaseLive(run[r].lag)
                /\ run[r].lost => ~rule.active
             THEN [rule EXCEPT !.cursor = LargerOf(@, run[r].cursor), !.count = @ + run[r].done]
             ELSE rule
  /\ run' = [run EXCEPT ![r] = Leaving]
  /\ Quiet /\ UNCHANGED <<log, exec, calls>>

\* The finally block.
Release(r) ==
  /\ run[r].pc = "release"
  /\ rule' = IF rule.token = r THEN Released ELSE rule
  /\ run' = [run EXCEPT ![r] = NoRun]
  /\ Quiet /\ UNCHANGED <<log, exec, calls>>

\* Faulty: an exception in the loop is swallowed and the progress is stored.
RaiseThenProgress(r) ==
  /\ run[r].pc \in RunPC \ {"idle", "acquire", "release"}
  /\ run' = [run EXCEPT ![r] = At(r, "finalRenew")]
  /\ Quiet /\ UNCHANGED <<rule, log, exec, calls>>

\* A database call raises: the exception leaves the loop, finally still runs.
Raise(r) ==
  /\ run[r].pc \in RunPC \ {"idle", "acquire", "release"}
  /\ run' = [run EXCEPT ![r] = Leaving]
  /\ Quiet /\ UNCHANGED <<rule, log, exec, calls>>

\* The process dies: nothing releases the claim or completes the execution.
Crash(r) ==
  /\ run[r].pc # "idle"
  /\ crashes < MaxCrashes
  /\ crashes' = crashes + 1
  /\ run' = [run EXCEPT ![r] = NoRun]
  /\ UNCHANGED <<rule, log, exec, admin, calls, base, retargeted>>
-----------------------------------------------------------------------------
(* Administrators: update_rule and delete_rule.                              *)

\* get_by_id, and the fields that the request carries.
ReadRule(a) ==
  /\ admin[a].pc = "idle"
  /\ \E want \in {"on", "off", "keep"}, t \in Edits \cup {None} :
       /\ want # "keep" \/ t # None
       /\ admin' = [admin EXCEPT ![a] = [pc |-> "apply", saw |-> rule.active, want |-> want, trigger |-> t]]
  /\ UNCHANGED <<rule, log, exec, run, crashes, calls, base, retargeted>>

Retarget(a, row) == IF admin[a].trigger = None THEN row ELSE [row EXCEPT !.trigger = admin[a].trigger]

\* activate_rule_from_now, when the row read was inactive: one serializable
\* transaction that refuses an active rule and an unexpired lease (busy).
Activate(a) ==
  /\ admin[a].pc = "apply"
  /\ admin[a].want = "on" /\ ~admin[a].saw
  /\ IF ~rule.active /\ (rule.token = None \/ ~LeaseLive(0))
     THEN \E w \in 0..Len(log) :
            /\ IsWatermark(w)
            /\ rule' = Retarget(a, [rule EXCEPT !.active = TRUE, !.cursor = w])
            /\ base' = w
            /\ log' = WithAudit(log)
            /\ run' = [r \in Runs |-> [run[r] EXCEPT !.fresh = FALSE]]
            /\ retargeted' = (retargeted \/ rule'.trigger # rule.trigger)
     ELSE UNCHANGED <<rule, base, log, run, retargeted>>
  /\ admin' = [admin EXCEPT ![a] = NoRequest]
  /\ UNCHANGED <<exec, crashes, calls>>

\* The plain UPDATE of every other request, delete_rule's included.
Update(a) ==
  /\ admin[a].pc = "apply"
  /\ admin[a].want # "on" \/ admin[a].saw
  /\ rule' = Retarget(a, [rule EXCEPT !.active = CASE admin[a].want = "on" -> TRUE
                                                   [] admin[a].want = "off" -> FALSE
                                                   [] OTHER -> @])
  /\ log' = WithAudit(log)
  /\ run' = IF rule.active /\ ~rule'.active
            THEN [r \in Runs |-> [run[r] EXCEPT !.late = 0]] ELSE run
  /\ retargeted' = (retargeted \/ rule'.trigger # rule.trigger)
  /\ admin' = [admin EXCEPT ![a] = NoRequest]
  /\ UNCHANGED <<exec, crashes, calls, base>>
-----------------------------------------------------------------------------
(* The rest of the application logs events; time passes.                     *)

\* An event's INSERT takes the next id.  On SQLite, with one writer at a time,
\* (Serial) it commits before the next one; on PostgreSQL other rows may come in between.
LogEvent ==
  /\ Len(log) < MaxLog
  /\ \E k \in Triggers, shown \in {TRUE, Serial} :
       log' = Append(log, [kind |-> k, shown |-> shown, overtaken |-> FALSE, armed |-> rule.active])
  /\ UNCHANGED <<rule, exec, run, admin, crashes, calls, base, retargeted>>

CommitEvent(e) ==
  /\ e \in 1..Len(log) /\ ~log[e].shown
  /\ LET passed == \E f \in e + 1..Len(log) : log[f].shown
         armed  == log[e].armed \/ rule.active
     IN log' = [log EXCEPT ![e] = [kind |-> log[e].kind, shown |-> TRUE, overtaken |-> passed, armed |-> armed]]
  /\ UNCHANGED <<rule, exec, run, admin, crashes, calls, base, retargeted>>

Tick ==
  /\ rule' = [rule EXCEPT !.lease = LargerOf(@ - 1, -MaxLag)]
  /\ run' = [r \in Runs |-> IF run[r].pc \notin Timed THEN run[r]
                            ELSE [run[r] EXCEPT !.lag = SmallerOf(@ + 1, MaxLag)]]
  /\ UNCHANGED <<log, exec, admin, crashes, calls, base, retargeted>>

\* The next transaction of a run.
RunStep(r) ==
  \/ Acquire(r) \/ Fetch(r) \/ IdleRenew(r) \/ Renew(r) \/ ClaimExecution(r)
  \/ \E result \in {"success", "failed"} : Act(r, result)
  \/ CompleteExecution(r) \/ FinalRenew(r) \/ Progress(r) \/ Release(r)

Next ==
  \/ \E r \in Runs : \/ \E manual \in BOOLEAN : Begin(r, manual)
                     \/ RunStep(r) \/ Raise(r) \/ Crash(r)
  \/ \E a \in Admins : ReadRule(a) \/ Activate(a) \/ Update(a)
  \/ LogEvent
  \/ \E e \in Ids : CommitEvent(e)
  \/ Tick

Spec == Init /\ [][Next]_vars
-----------------------------------------------------------------------------
(* Properties.                                                               *)

\* The handler of a rule is called at most once for an event, whatever happens
\* to the runs, the lease and the cursor: overlapping runs, a lease that expires
\* under a slow handler, crashes (docs/AUTOMATION_OPERATIONS_CENTER.md:122,132).
AtMostOnce == \A e \in Ids : calls[e] <= 1

\* The cursor of a rule never moves back: neither the late progress of a run
\* that overlapped another nor an activation makes handled rows pending again.
CursorMonotonic == [][rule'.cursor >= rule.cursor]_vars

\* Every row that the cursor has passed since the last activation, that the
\* trigger selects and that was not committed behind a row already visible, has
\* been claimed by some run: losing the lease, the checkpoint or the process in
\* the middle of a batch never drops an event.
NoSkippedEvent ==
  ~retargeted => \A e \in base + 1..rule.cursor :
                   log[e].kind = rule.trigger /\ log[e].shown /\ ~log[e].overtaken => exec[e] # "none"

\* After the rule is disabled an automatic run claims at most the event whose
\* checkpoint it had already passed (docs/AUTOMATION_OPERATIONS_CENTER.md:130).
StopsAfterDisable == \A r \in Runs : ~run[r].manual => run[r].late <= 1

\* With one administrator at a time, an automatic run that began after the last
\* activation handles no event logged while the rule was disabled.
FreshRunsNeverReplay ==
  \A r \in Runs : run[r].pc = "act" /\ ~run[r].manual /\ run[r].fresh => log[run[r].next].armed
=============================================================================
