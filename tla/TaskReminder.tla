----------------------------- MODULE TaskReminder -----------------------------
(***************************************************************************)
(* The reminder of one task: the columns of its row in tasks, the outbox    *)
(* rows of its deliveries, the loops and requests that enqueue them         *)
(* (schedulers), those that claim, send and mark them (workers), the user   *)
(* who edits the task and the operator who requeues a delivery              *)
(* (app/services/task_reminder_service.py, app/workers and                  *)
(* app/repositories/task_reminder_outbox_repository.py).                    *)
(*                                                                          *)
(* Each action is one database transaction of the code, or one call of the  *)
(* Telegram interface, with the local computation around it.  Times are     *)
(* minutes, the resolution of every timestamp compared here.  An outbox row *)
(* is named by the anchor in its delivery key; its other parts, task and    *)
(* recipient, are fixed.                                                    *)
(*                                                                          *)
(* Definitions called Faulty replace the one after them to show that a      *)
(* property detects the slip they describe.                                 *)
(***************************************************************************)
EXTENDS Integers, FiniteSets

CONSTANTS
  Schedulers,    \* invocations of enqueue_due_reminders in flight
  Workers,       \* invocations of process_due_reminders and send_reminder_now
  Retry,         \* retry_minutes
  Timeout,       \* processing_timeout_minutes
  MaxAttempts,   \* max_attempts
  Repeat,        \* reminder_repeat_interval_minutes, 0 for none
  QuietHours,    \* the recipient's quiet minutes
  Times,         \* reminder times that the user picks (bound)
  MaxNow,        \* the last minute (bound)
  MaxEdits,      \* changes by the user or an administrator (bound)
  MaxRequeues,   \* requeues by the operator (bound)
  MaxCrashes,    \* batches that a worker abandons (bound)
  MaxManual,     \* manual sends (bound)
  MaxEvents      \* all of these together (bound)

ASSUME ReminderAssumption ==
  /\ IsFiniteSet(Schedulers) /\ IsFiniteSet(Workers)
  /\ Retry \in Nat \ {0} /\ Timeout \in Nat \ {0} /\ MaxAttempts \in Nat \ {0}
  /\ Repeat \in Nat /\ MaxNow \in Nat /\ QuietHours \subseteq 0..MaxNow
  /\ Times \subseteq 0..MaxNow
  /\ {MaxEdits, MaxRequeues, MaxCrashes, MaxManual, MaxEvents} \subseteq Nat

VARIABLES
  now,         \* the current minute
  task,        \* the row of tasks, and what the reminder reads of users and organizations
  outbox,      \* task_reminder_outbox, by anchor
  scheduler,   \* what each scheduler knows between two transactions
  worker,      \* what each worker knows between two transactions
  editor,      \* TRUE between the two transactions of an edit
  budget,      \* edits, requeues, crashes and manual sends so far
  sends,       \* history: automatic messages sent for each row
  fails,       \* history: failed sends for each row
  takeovers,   \* history: claims of each row that replaced a claim
  cycle        \* history: automatic messages since the last reset, or NoCount once
               \* a worker abandoned its batch or claimed next to a busy one

vars == <<now, task, outbox, scheduler, worker, editor, budget, sends, fails, takeovers, cycle>>

NoTime  == -1
NoCount == -1
Minutes == 0..MaxNow

\* active: the organization is; telegram: it communicates by Telegram; reachable: the
\* assigned user, or the owner, takes reminders and has a Telegram id.
TaskRows == [open : BOOLEAN, remind : Minutes, sentAt : Minutes \cup {NoTime},
             lastAttempt : Minutes \cup {NoTime}, active : BOOLEAN, telegram : BOOLEAN,
             reachable : BOOLEAN]

OutboxRows == [status : {"none", "queued", "processing", "sent", "failed", "cancelled"},
               available : Nat, retryable : BOOLEAN, attempts : Nat, claimed : Minutes \cup {NoTime}]

NoRow == [status |-> "none", available |-> 0, retryable |-> TRUE, attempts |-> 0, claimed |-> NoTime]

\* anchor and sentAt of the task as it was read; force: an operator dispatches
IdleScheduler == [pc |-> "idle", anchor |-> 0, sentAt |-> NoTime, force |-> FALSE]

SchedulerStates == [pc : {"idle", "queue", "lookup", "note", "fail"},
                    anchor : Minutes, sentAt : Minutes \cup {NoTime}, force : BOOLEAN]

\* todo: rows claimed and not reached; key: the row at hand, NoTime in a manual
\* send; attempts: of that row when it was claimed; at: attempted_at.
IdleWorker == [pc |-> "idle", todo |-> {}, claims |-> [k \in Minutes |-> 0],
               key |-> NoTime, at |-> 0, permanent |-> FALSE]

WorkerStates == [pc : {"idle", "load", "send", "record", "sent", "cancel", "noRecipient",
                       "fail", "defer", "resume", "error", "settle"},
                 todo : SUBSET Minutes, claims : [Minutes -> Nat],
                 key : Minutes \cup {NoTime}, at : Minutes, permanent : BOOLEAN]

Budgets == [edits : 0..MaxEdits, requeues : 0..MaxRequeues, crashes : 0..MaxCrashes, manual : 0..MaxManual]

TypeOK ==
  /\ now \in Minutes
  /\ task \in TaskRows
  /\ outbox \in [Minutes -> OutboxRows]
  /\ scheduler \in [Schedulers -> SchedulerStates]
  /\ worker \in [Workers -> WorkerStates]
  /\ editor \in BOOLEAN
  /\ budget \in Budgets
  /\ sends \in [Minutes -> Nat] /\ fails \in [Minutes -> Nat] /\ takeovers \in [Minutes -> Nat]
  /\ cycle \in Nat \cup {NoCount}

Init ==
  /\ now = 0
  /\ task \in [open : {TRUE}, remind : Times, sentAt : {NoTime}, lastAttempt : {NoTime},
               active : {TRUE}, telegram : {TRUE}, reachable : BOOLEAN]
  /\ outbox = [k \in Minutes |-> NoRow]
  /\ scheduler = [s \in Schedulers |-> IdleScheduler]
  /\ worker = [w \in Workers |-> IdleWorker]
  /\ editor = FALSE
  /\ budget = [edits |-> 0, requeues |-> 0, crashes |-> 0, manual |-> 0]
  /\ sends = [k \in Minutes |-> 0] /\ fails = sends /\ takeovers = sends
  /\ cycle = 0

-----------------------------------------------------------------------------
(* Computations on times.                                                    *)

SmallerOf(a, b) == IF a < b THEN a ELSE b

\* One more event of a bounded kind
Spend(kind, max) ==
  /\ budget[kind] < max
  /\ budget.edits + budget.requeues + budget.crashes + budget.manual < MaxEvents
  /\ budget' = [budget EXCEPT ![kind] = @ + 1]

\* _delivery_anchor_value of the task as it is now
Anchor == IF task.sentAt = NoTime THEN task.remind ELSE task.sentAt

\* Faulty: a reminder that was sent is always due again.
AlwaysDue(sentAt) == TRUE

\* _is_automatic_reminder_cycle_due
CycleDue(sentAt) == sentAt = NoTime \/ (Repeat > 0 /\ now >= sentAt + Repeat)

\* The first minute from t on that is not quiet: t itself outside quiet hours
QuietEnd(t) == CHOOSE u \in t..MaxNow + 1 : u \notin QuietHours /\ t..u - 1 \subseteq QuietHours

\* _retry_delay_minutes
RetryDelay(attempts) == SmallerOf(Retry * 2 ^ (attempts - 1), Retry * 8)

-----------------------------------------------------------------------------
(* enqueue_due_reminders                                                     *)

\* Faulty: a row that is being processed goes back to the queue.
UpsertedWhileProcessing(row, available, status, retryable, force) ==
  CASE row.status = "none" -> [NoRow EXCEPT !.status = status, !.available = available, !.retryable = retryable]
    [] row.status = "sent" \/ (row.status = "failed" /\ ~row.retryable /\ ~force) -> row
    [] OTHER -> [row EXCEPT !.status = "queued", !.available = SmallerOf(available, @), !.retryable = retryable]

\* The ON CONFLICT clause of upsert_delivery
Upserted(row, available, status, retryable, force) ==
  CASE row.status = "none" -> [NoRow EXCEPT !.status = status, !.available = available, !.retryable = retryable]
    [] row.status \in {"processing", "sent"} -> [row EXCEPT !.retryable = retryable]
    [] row.status = "failed" /\ ~row.retryable /\ ~force -> row
    [] OTHER -> [row EXCEPT !.status = "queued", !.available = SmallerOf(available, @), !.retryable = retryable]

SchedulerQuiet == UNCHANGED <<now, worker, editor, sends, fails, takeovers, cycle>>

\* list_due_reminders_for_dispatch and, from the row it returns, the recipient;
\* force is force_requeue, which dispatch_due_reminders sets.
ReadDue(s, force) ==
  /\ scheduler[s].pc = "idle"
  /\ task.active /\ task.telegram /\ task.open /\ task.remind <= now
  /\ task.lastAttempt = NoTime \/ task.lastAttempt <= now - Retry
  /\ scheduler' = [scheduler EXCEPT ![s] = [pc |-> IF task.reachable THEN "queue" ELSE "lookup",
                                            anchor |-> Anchor, sentAt |-> task.sentAt, force |-> force]]
  /\ IF force THEN Spend("requeues", MaxRequeues) ELSE UNCHANGED budget
  /\ SchedulerQuiet /\ UNCHANGED <<task, outbox>>

Upsert(s, available, status, retryable) ==
  outbox' = [outbox EXCEPT ![scheduler[s].anchor] =
               Upserted(@, available, status, retryable, scheduler[s].force)]

\* The cycle check and the upsert of a reminder with a recipient
Queue(s) ==
  /\ scheduler[s].pc = "queue"
  /\ IF CycleDue(scheduler[s].sentAt)
     THEN Upsert(s, QuietEnd(now), "queued", TRUE)
     ELSE UNCHANGED outbox
  /\ scheduler' = [scheduler EXCEPT ![s] = IdleScheduler]
  /\ SchedulerQuiet /\ UNCHANGED <<task, budget>>

\* find_delivery_by_key: a reminder that failed for want of a recipient is left alone.
Lookup(s) ==
  /\ scheduler[s].pc = "lookup"
  /\ LET row == outbox[scheduler[s].anchor]
     IN scheduler' = [scheduler EXCEPT ![s] = IF row.status = "failed" /\ ~row.retryable
                                              THEN IdleScheduler ELSE [@ EXCEPT !.pc = "note"]]
  /\ SchedulerQuiet /\ UNCHANGED <<task, outbox, budget>>

\* _mark_failed
Note(s) ==
  /\ scheduler[s].pc = "note"
  /\ task' = [task EXCEPT !.lastAttempt = now]
  /\ scheduler' = [scheduler EXCEPT ![s].pc = "fail"]
  /\ SchedulerQuiet /\ UNCHANGED <<outbox, budget>>

\* A row that exists goes back to the queue, where the worker fails it.
QueueFailed(s) ==
  /\ scheduler[s].pc = "fail"
  /\ Upsert(s, now, "failed", FALSE)
  /\ scheduler' = [scheduler EXCEPT ![s] = IdleScheduler]
  /\ SchedulerQuiet /\ UNCHANGED <<task, budget>>

-----------------------------------------------------------------------------
(* process_due_reminders                                                     *)

\* Faulty: a claim is never taken over.
ClaimableOnce(k) == outbox[k].status = "queued" /\ outbox[k].available <= now

\* The WHERE clause of claim_due_deliveries
Claimable(k) ==
  \/ outbox[k].status = "queued" /\ outbox[k].available <= now
  \/ outbox[k].status = "processing" /\ outbox[k].claimed <= now - Timeout

\* claim_due_deliveries: all due rows at once.  Polls that find nothing are left out.
Claim(w) ==
  /\ worker[w].pc = "idle"
  /\ LET due == {k \in Minutes : Claimable(k)}
     IN /\ due # {}
        /\ outbox' = [k \in Minutes |->
             IF k \in due THEN [outbox[k] EXCEPT !.status = "processing", !.claimed = now, !.attempts = @ + 1]
             ELSE outbox[k]]
        /\ worker' = [worker EXCEPT ![w] = [IdleWorker EXCEPT !.pc = "load", !.todo = due,
                        !.claims = [k \in Minutes |-> IF k \in due THEN outbox[k].attempts + 1 ELSE 0]]]
        /\ takeovers' = [k \in Minutes |->
             IF k \in due /\ outbox[k].status = "processing" THEN takeovers[k] + 1 ELSE takeovers[k]]
  /\ cycle' = IF \E v \in Workers : worker[v].pc # "idle" THEN NoCount ELSE cycle
  /\ UNCHANGED <<now, task, scheduler, editor, budget, sends, fails>>

\* Worker w goes on to pc.
At(w, pc) == [worker EXCEPT ![w].pc = pc]

\* Worker w is done with the row at hand; the last row ends the batch.
Finished(w) ==
  [worker EXCEPT ![w] = IF @.todo = {} THEN IdleWorker
                        ELSE [@ EXCEPT !.pc = "load", !.key = NoTime, !.permanent = FALSE]]

WorkerQuiet == UNCHANGED <<now, scheduler, editor, budget, takeovers>>

\* _process_outbox_delivery reads the task and decides; it does not ask whether the task is
\* closed or its organization inactive.
Load(w) ==
  /\ worker[w].pc = "load"
  /\ \E k \in worker[w].todo :
       worker' = [worker EXCEPT ![w] =
         [@ EXCEPT !.key = k, !.todo = worker[w].todo \ {k}, !.at = now,
                   !.pc = CASE ~task.telegram -> "cancel"
                            [] task.telegram /\ ~task.reachable -> "noRecipient"
                            [] task.telegram /\ task.reachable /\ ~CycleDue(task.sentAt) -> "cancel"
                            [] OTHER -> IF now \in QuietHours THEN "defer" ELSE "send"]]
  /\ WorkerQuiet /\ UNCHANGED <<task, outbox, sends, fails, cycle>>

\* The call of the Telegram interface.  A manual send has no row.
Send(w) ==
  /\ worker[w].pc = "send"
  /\ LET k == worker[w].key
         manual == k = NoTime
     IN \/ /\ worker' = At(w, "record")
           /\ sends' = IF manual THEN sends ELSE [sends EXCEPT ![k] = @ + 1]
           /\ cycle' = IF manual \/ cycle = NoCount THEN cycle ELSE cycle + 1
           /\ fails' = fails
        \/ /\ \E permanent \in BOOLEAN :
                worker' = [worker EXCEPT ![w].pc = "error", ![w].permanent = permanent]
           /\ fails' = IF manual THEN fails ELSE [fails EXCEPT ![k] = @ + 1]
           /\ UNCHANGED <<sends, cycle>>
  /\ WorkerQuiet /\ UNCHANGED <<task, outbox>>

\* mark_reminder_sent
Record(w) ==
  /\ worker[w].pc = "record"
  /\ task' = [task EXCEPT !.sentAt = worker[w].at, !.lastAttempt = worker[w].at]
  /\ worker' = IF worker[w].key = NoTime THEN Finished(w) ELSE At(w, "sent")
  /\ WorkerQuiet /\ UNCHANGED <<outbox, sends, fails, cycle>>

\* The task's columns after a failure, a missing recipient and a deferral
NoteAttempt(w, from, to) ==
  /\ worker[w].pc = from
  /\ task' = [task EXCEPT !.lastAttempt = worker[w].at]
  /\ worker' = IF worker[w].key = NoTime THEN Finished(w) ELSE At(w, to)
  /\ WorkerQuiet /\ UNCHANGED <<outbox, sends, fails, cycle>>

\* The last transaction of a delivery: an UPDATE by primary key alone.
Mark(w, from, row) ==
  /\ worker[w].pc = from
  /\ outbox' = [outbox EXCEPT ![worker[w].key] = row]
  /\ worker' = Finished(w)
  /\ WorkerQuiet /\ UNCHANGED <<task, sends, fails, cycle>>

Row(w) == outbox[worker[w].key]

FailedRow(w) == [Row(w) EXCEPT !.status = "failed", !.retryable = FALSE, !.claimed = NoTime]

RetryAt(w, t) == [Row(w) EXCEPT !.status = "queued", !.available = t, !.claimed = NoTime]

\* Faulty: the attempt after the last one is still retried.
MayRetryOnceMore(w) == ~worker[w].permanent /\ worker[w].claims[worker[w].key] <= MaxAttempts

MayRetry(w) == ~worker[w].permanent /\ worker[w].claims[worker[w].key] < MaxAttempts

MarkSent(w)      == Mark(w, "sent", [Row(w) EXCEPT !.status = "sent"])
MarkCancelled(w) == Mark(w, "cancel", [Row(w) EXCEPT !.status = "cancelled", !.claimed = NoTime])
MarkFailed(w)    == Mark(w, "fail", FailedRow(w))
MarkDeferred(w)  == Mark(w, "resume", RetryAt(w, QuietEnd(worker[w].at)))
MarkRetry(w)     == Mark(w, "settle", IF MayRetry(w)
                                      THEN RetryAt(w, now + RetryDelay(worker[w].claims[worker[w].key]))
                                      ELSE FailedRow(w))

\* The worker's process ends, or its loop catches an exception of the database.
Abandon(w) ==
  /\ worker[w].pc # "idle"
  /\ Spend("crashes", MaxCrashes)
  /\ worker' = [worker EXCEPT ![w] = IdleWorker]
  /\ cycle' = NoCount
  /\ UNCHANGED <<now, task, outbox, scheduler, editor, sends, fails, takeovers>>

-----------------------------------------------------------------------------
(* Requests of users                                                         *)

\* send_reminder_now.  Its at is taken in _send_task_reminder.
SendNow(w) ==
  /\ worker[w].pc = "idle"
  /\ task.telegram /\ task.open
  /\ worker' = [worker EXCEPT ![w] = [IdleWorker EXCEPT !.pc = IF task.reachable THEN "send" ELSE "error",
                                                        !.at = now]]
  /\ Spend("manual", MaxManual)
  /\ UNCHANGED <<now, task, outbox, scheduler, editor, sends, fails, takeovers, cycle>>

\* The first transaction of an edit or a snooze: another title, time or status
Edit ==
  /\ ~editor
  /\ \E open \in BOOLEAN, remind \in Times : task' = [task EXCEPT !.open = open, !.remind = remind]
  /\ editor' = TRUE
  /\ Spend("edits", MaxEdits)
  /\ UNCHANGED <<now, outbox, scheduler, worker, sends, fails, takeovers, cycle>>

\* The second: reset_reminder_delivery
Reset ==
  /\ editor
  /\ task' = [task EXCEPT !.sentAt = NoTime, !.lastAttempt = NoTime]
  /\ editor' = FALSE
  /\ cycle' = IF cycle = NoCount THEN NoCount ELSE 0
  /\ UNCHANGED <<now, outbox, scheduler, worker, budget, sends, fails, takeovers>>

\* The organization is made inactive or given another provider, or the recipient loses his
\* Telegram id or declines reminders.
SwitchOff ==
  /\ \/ task.active /\ task' = [task EXCEPT !.active = FALSE]
     \/ task.telegram /\ task' = [task EXCEPT !.telegram = FALSE]
     \/ task.reachable /\ task' = [task EXCEPT !.reachable = FALSE]
  /\ Spend("edits", MaxEdits)
  /\ UNCHANGED <<now, outbox, scheduler, worker, editor, sends, fails, takeovers, cycle>>

\* One of these comes back (which no bound counts).
SwitchOn ==
  /\ \/ ~task.active /\ task' = [task EXCEPT !.active = TRUE]
     \/ ~task.telegram /\ task' = [task EXCEPT !.telegram = TRUE]
     \/ ~task.reachable /\ task' = [task EXCEPT !.reachable = TRUE]
  /\ UNCHANGED <<now, outbox, scheduler, worker, editor, budget, sends, fails, takeovers, cycle>>

\* Faulty: any row can be requeued.
RequeueAny(k) ==
  /\ outbox[k].status # "none"
  /\ outbox' = [outbox EXCEPT ![k] = [@ EXCEPT !.status = "queued", !.retryable = TRUE,
                                               !.available = now, !.claimed = NoTime]]
  /\ Spend("requeues", MaxRequeues)
  /\ UNCHANGED <<now, task, scheduler, worker, editor, sends, fails, takeovers, cycle>>

\* requeue_delivery; its attempts are not reset.
Requeue(k) ==
  /\ outbox[k].status \in {"failed", "cancelled", "queued"}
  /\ outbox' = [outbox EXCEPT ![k] = [@ EXCEPT !.status = "queued", !.retryable = TRUE,
                                               !.available = now, !.claimed = NoTime]]
  /\ Spend("requeues", MaxRequeues)
  /\ UNCHANGED <<now, task, scheduler, worker, editor, sends, fails, takeovers, cycle>>

\* The clock stops at MaxNow.
Tick ==
  /\ now' = SmallerOf(now + 1, MaxNow)
  /\ UNCHANGED <<task, outbox, scheduler, worker, editor, budget, sends, fails, takeovers, cycle>>

SchedulerStep(s) ==
  \/ \E force \in BOOLEAN : ReadDue(s, force)
  \/ Queue(s) \/ Lookup(s) \/ Note(s) \/ QueueFailed(s)

WorkerStep(w) ==
  \/ Claim(w) \/ Load(w) \/ Send(w) \/ Record(w)
  \/ NoteAttempt(w, "noRecipient", "fail")
  \/ NoteAttempt(w, "defer", "resume")
  \/ NoteAttempt(w, "error", "settle")
  \/ MarkSent(w) \/ MarkCancelled(w) \/ MarkFailed(w) \/ MarkDeferred(w) \/ MarkRetry(w)

Next ==
  \/ \E s \in Schedulers : SchedulerStep(s)
  \/ \E w \in Workers : WorkerStep(w) \/ Abandon(w) \/ SendNow(w)
  \/ Edit \/ Reset \/ SwitchOff \/ SwitchOn
  \/ \E k \in Minutes : Requeue(k)
  \/ Tick

Spec == Init /\ [][Next]_vars

\* Both loops poll for ever, a request that began an edit ends it, time passes.
FairSpec ==
  /\ Spec
  /\ \A s \in Schedulers : WF_vars(SchedulerStep(s))
  /\ \A w \in Workers : WF_vars(WorkerStep(w))
  /\ WF_vars(Reset) /\ WF_vars(Tick)
-----------------------------------------------------------------------------
(* Properties.                                                               *)

\* A delivery is sent once, and once more for each time its claim was taken over
\* after the processing timeout: unconditional marks of a late worker, requeues,
\* dispatches, edits and the scheduler's upserts never add a message of their own.
DuplicatesNeedTakeover == \A k \in Minutes : sends[k] <= 1 + takeovers[k]

\* A row leaves status sent only after its claim had been taken over.
SentIsFinal ==
  [][\A k \in Minutes : outbox[k].status = "sent" /\ outbox'[k].status # "sent" => takeovers[k] > 0]_vars

\* A delivery fails at most max_attempts times, and once more for each takeover
\* and each intervention of the operator, whatever deferrals and cancellations
\* did to its attempt_count.
RetryBudget == \A k \in Minutes : fails[k] <= MaxAttempts + takeovers[k] + budget.requeues

\* Between two resets of a task without repetition, workers that lose no batch and
\* never claim next to a busy one send one automatic message, though edits leave
\* rows of other anchors queued.
OncePerCycle == Repeat = 0 => cycle <= 1

\* A reminder that the loops see
TaskDue ==
  /\ task.active /\ task.telegram /\ task.open
  /\ task.remind <= now /\ task.sentAt = NoTime

\* Its delivery or its task waits for a minute after the last one.
BeyondBound ==
  \/ outbox[task.remind].status = "queued" /\ outbox[task.remind].available > MaxNow
  \/ outbox[task.remind].status = "processing" /\ outbox[task.remind].claimed + Timeout > MaxNow
  \/ task.lastAttempt # NoTime /\ task.lastAttempt + Retry > MaxNow

\* In the end no reminder is due whose delivery is not sent or given up, except one that waits
\* beyond the bound: no claim that died, no deferral, no failed attempt that is to be repeated,
\* no delivery cancelled before the task was reset or its organization came back, and no edit
\* leaves it waiting for ever.
DueIsSettled == <>[](TaskDue => outbox[task.remind].status \in {"sent", "failed"} \/ BeyondBound)

=============================================================================
