------------------------- MODULE NotificationScheduler -------------------------
(***************************************************************************)
(* The daily materialization of one recipient's notifications: the row of  *)
(* internal_notification_schedules, the runs of each local day, one-shot   *)
(* processes that sweep the due schedules, possibly several at once, and   *)
(* the user who saves other settings                                       *)
(* (app/services/internal_notification_scheduler_service.py and            *)
(* app/repositories/internal_notification_schedule_repository.py).         *)
(*                                                                          *)
(* Each action is one database transaction with the local computation      *)
(* around it.  A sweep takes the time once, for all the schedules it        *)
(* lists, so the time it works with may be long past when it reaches this   *)
(* one.  Times are ticks in the schedule's time zone, DayLength to a day.   *)
(*                                                                          *)
(* Definitions called Faulty replace the one after them to show that a      *)
(* property detects the slip they describe.                                 *)
(***************************************************************************)
EXTENDS Integers, FiniteSets

CONSTANTS
  Sweeps,         \* processes of app.jobs.internal_notifications_scheduler
  Candidates,     \* what the billing read-model proposes to notify about
  DayLength,      \* ticks in a local day
  LocalTimes,     \* the values of local_time, ticks after midnight
  Lease,          \* lease_minutes
  RetryWait,      \* retry_minutes
  MaxRunAttempts, \* max_attempts
  LastTick,       \* the last tick (bound)
  MaxSaves,       \* changes of the settings (bound)
  MaxLostSweeps   \* sweeps that end half-way (bound)

ASSUME SchedulerAssumption ==
  /\ {DayLength, Lease, RetryWait, MaxRunAttempts} \subseteq Nat \ {0}
  /\ {LastTick, MaxSaves, MaxLostSweeps} \subseteq Nat
  /\ LocalTimes \subseteq 0..DayLength - 1

VARIABLES
  clock,          \* the current tick
  schedule,       \* the row of internal_notification_schedules
  runs,           \* internal_notification_schedule_runs, by local date
  stored,         \* internal_notifications, by dedupe key
  sweep,          \* what each process knows between two transactions
  save,           \* what the request that saves settings is about to write
  savedOn,        \* history: the day on which the stored settings were chosen
  saves, crashes  \* so far

scheduleVars == <<clock, schedule, runs, stored, sweep, save, savedOn, saves, crashes>>

Never == -1
DayOf(t) == t \div DayLength
Days     == 0..DayOf(LastTick)

Schedules == [enabled : BOOLEAN, time : LocalTimes, next : Nat \cup {Never}]

\* attempts names the last claim: it stands for the random lease token.
Runs == [status : {"none", "pending", "running", "failed", "succeeded"},
         attempts : 0..MaxRunAttempts, lease : Nat \cup {Never}, retryAt : Nat \cup {Never}]

NoRun == [status |-> "none", attempts |-> 0, lease |-> Never, retryAt |-> Never]

\* at: the sweep's time; time: local_time as it was listed; attempt: its claim
SweepStates == [pc : {"idle", "ensure", "advance", "claim", "work", "fail"},
                at : 0..LastTick, time : LocalTimes \cup {Never}, attempt : 0..MaxRunAttempts,
                todo : SUBSET Candidates]

IdleSweep == [pc |-> "idle", at |-> 0, time |-> Never, attempt |-> 0, todo |-> {}]

NoSave == [enabled |-> FALSE, time |-> Never, next |-> Never]

ScheduleTypeOK ==
  /\ clock \in 0..LastTick
  /\ schedule \in Schedules
  /\ schedule.enabled <=> schedule.next # Never
  /\ runs \in [Days -> Runs]
  /\ stored \subseteq Candidates
  /\ sweep \in [Sweeps -> SweepStates]
  /\ save \in Schedules \cup {NoSave}
  /\ savedOn \in Days /\ saves \in 0..MaxSaves /\ crashes \in 0..MaxLostSweeps

-----------------------------------------------------------------------------
(* The calendar                                                              *)

\* scheduled_local_datetime_utc
Slot(day, time) == day * DayLength + time

\* Faulty: the day after the one in which the run ends.
NextAfterToday(s) == Slot(DayOf(clock) + 1, sweep[s].time)

\* next_run_after_local_date, of the occurrence and the settings the sweep listed
NextAfter(s) == Slot(DayOf(sweep[s].at) + 1, sweep[s].time)

\* last_succeeded_local_date is day
LastSucceeded(day) ==
  /\ runs[day].status = "succeeded"
  /\ \A d \in Days : d > day => runs[d].status # "succeeded"

\* calculate_next_run_at_utc
FirstRun(enabled, time) ==
  LET today == DayOf(clock)
  IN IF ~enabled THEN Never
     ELSE IF clock >= Slot(today, time) \/ LastSucceeded(today) THEN Slot(today + 1, time)
     ELSE Slot(today, time)

ScheduleInit ==
  /\ clock = 0
  /\ runs = [d \in Days |-> NoRun]
  /\ \E t \in LocalTimes : schedule = [enabled |-> TRUE, time |-> t, next |-> FirstRun(TRUE, t)]
  /\ stored = {}
  /\ sweep = [s \in Sweeps |-> IdleSweep]
  /\ save = NoSave
  /\ savedOn = 0 /\ saves = 0 /\ crashes = 0

-----------------------------------------------------------------------------
(* A sweep                                                                   *)

\* The local date of its occurrence, and the run of that date
DayAt(s) == DayOf(sweep[s].at)
Run(s)   == runs[DayAt(s)]

SweepQuiet == UNCHANGED <<clock, save, savedOn, saves, crashes>>

\* Sweep s goes on to pc.
Going(s, pc) == [sweep EXCEPT ![s].pc = pc]

Ended(s) == [sweep EXCEPT ![s] = IdleSweep]

\* CASE WHEN enabled = 1 THEN ? ELSE NULL END
Moved(t) == [schedule EXCEPT !.next = IF schedule.enabled THEN t ELSE Never]

Due(t) == schedule.enabled /\ schedule.next # Never /\ schedule.next <= t

\* list_due_schedules.  Sweeps that find nothing are left out.
List(s) ==
  /\ sweep[s].pc = "idle"
  /\ Due(clock)
  /\ sweep' = [sweep EXCEPT ![s] =
                 [IdleSweep EXCEPT !.pc = "ensure", !.at = clock, !.time = schedule.time]]
  /\ SweepQuiet /\ UNCHANGED <<schedule, runs, stored>>

\* ensure_run
Ensure(s) ==
  /\ sweep[s].pc = "ensure"
  /\ runs' = [runs EXCEPT ![DayAt(s)].status = IF @ = "none" THEN "pending" ELSE @]
  /\ sweep' = Going(s, IF Run(s).status = "succeeded" THEN "advance" ELSE "claim")
  /\ SweepQuiet /\ UNCHANGED <<schedule, stored>>

\* advance_schedule
Advance(s) ==
  /\ sweep[s].pc = "advance"
  /\ schedule' = Moved(NextAfter(s))
  /\ sweep' = Ended(s)
  /\ SweepQuiet /\ UNCHANGED <<runs, stored>>

\* Faulty: a run that is running can be claimed before its lease ends.
RunClaimableEarly(s) ==
  /\ Run(s).attempts < MaxRunAttempts /\ Due(sweep[s].at)
  /\ \/ Run(s).status \in {"pending", "running"}
     \/ Run(s).status = "failed" /\ Run(s).retryAt # Never /\ Run(s).retryAt <= sweep[s].at

\* Faulty: only a run that was not begun, or that failed, can be claimed.
RunClaimableWithoutRecovery(s) ==
  /\ Run(s).attempts < MaxRunAttempts /\ Due(sweep[s].at)
  /\ \/ Run(s).status = "pending"
     \/ Run(s).status = "failed" /\ Run(s).retryAt # Never /\ Run(s).retryAt <= sweep[s].at

\* The WHERE clause of claim_run
RunClaimable(s) ==
  /\ Run(s).attempts < MaxRunAttempts /\ Due(sweep[s].at)
  /\ \/ Run(s).status = "pending"
     \/ Run(s).status = "failed" /\ Run(s).retryAt # Never /\ Run(s).retryAt <= sweep[s].at
     \/ Run(s).status = "running" /\ Run(s).lease <= sweep[s].at

\* claim_run
ClaimRun(s) ==
  /\ sweep[s].pc = "claim"
  /\ IF RunClaimable(s)
     THEN /\ runs' = [runs EXCEPT ![DayAt(s)] =
                        [status |-> "running", attempts |-> Run(s).attempts + 1,
                         lease |-> sweep[s].at + Lease, retryAt |-> Never]]
          /\ sweep' = [sweep EXCEPT ![s].pc = "work", ![s].attempt = Run(s).attempts + 1,
                                    ![s].todo = Candidates]
     ELSE sweep' = Ended(s) /\ UNCHANGED runs
  /\ SweepQuiet /\ UNCHANGED <<schedule, stored>>

\* create_notification: ON CONFLICT DO NOTHING
Create(s) ==
  /\ sweep[s].pc = "work"
  /\ \E c \in sweep[s].todo :
       /\ stored' = stored \cup {c}
       /\ sweep' = [sweep EXCEPT ![s].todo = @ \ {c}]
  /\ SweepQuiet /\ UNCHANGED <<schedule, runs>>

\* Faulty: the candidates that are left are passed over.
ThrowSwallowed(s) ==
  /\ sweep[s].pc = "work"
  /\ sweep' = [sweep EXCEPT ![s].todo = {}]
  /\ SweepQuiet /\ UNCHANGED <<schedule, runs, stored>>

\* The scope check, the read-model or a database call raises.
Throw(s) ==
  /\ sweep[s].pc = "work"
  /\ sweep' = Going(s, "fail")
  /\ SweepQuiet /\ UNCHANGED <<schedule, runs, stored>>

\* Faulty: any sweep that holds a run may write its outcome.
OwnsAny(s) == Run(s).status # "pending"

\* status = 'running' AND lease_token = ?
Owns(s) == Run(s).status = "running" /\ Run(s).attempts = sweep[s].attempt

\* mark_succeeded.  A lost lease raises, and the handler marks the run failed.
Succeed(s) ==
  /\ sweep[s].pc = "work" /\ sweep[s].todo = {}
  /\ IF Owns(s)
     THEN /\ runs' = [runs EXCEPT ![DayAt(s)] = [status |-> "succeeded", attempts |-> Run(s).attempts,
                                                 lease |-> Never, retryAt |-> Never]]
          /\ schedule' = Moved(NextAfter(s))
          /\ sweep' = Ended(s)
     ELSE sweep' = Going(s, "fail") /\ UNCHANGED <<schedule, runs>>
  /\ SweepQuiet /\ UNCHANGED stored

\* mark_failed: the last attempt moves the schedule on.
Fail(s) ==
  /\ sweep[s].pc = "fail"
  /\ LET terminal == sweep[s].attempt >= MaxRunAttempts
     IN IF Owns(s)
        THEN /\ runs' = [runs EXCEPT ![DayAt(s)] =
                           [status |-> "failed", attempts |-> Run(s).attempts, lease |-> Never,
                            retryAt |-> IF terminal THEN Never ELSE sweep[s].at + RetryWait]]
             /\ schedule' = IF terminal THEN Moved(NextAfter(s)) ELSE schedule
        ELSE UNCHANGED <<schedule, runs>>
  /\ sweep' = Ended(s)
  /\ SweepQuiet /\ UNCHANGED stored

\* The process ends half-way, or mark_failed itself raises.
Crash(s) ==
  /\ sweep[s].pc # "idle"
  /\ crashes < MaxLostSweeps
  /\ crashes' = crashes + 1
  /\ sweep' = Ended(s)
  /\ UNCHANGED <<clock, schedule, runs, stored, save, savedOn, saves>>

-----------------------------------------------------------------------------
(* save_settings reads the last success, and upserts in a transaction of its own. *)

ReadSettings ==
  /\ save = NoSave
  /\ saves < MaxSaves
  /\ \E enabled \in BOOLEAN, time \in LocalTimes :
       save' = [enabled |-> enabled, time |-> time, next |-> FirstRun(enabled, time)]
  /\ savedOn' = DayOf(clock)
  /\ saves' = saves + 1
  /\ UNCHANGED <<clock, schedule, runs, stored, sweep, crashes>>

UpsertSchedule ==
  /\ save # NoSave
  /\ schedule' = save
  /\ save' = NoSave
  /\ UNCHANGED <<clock, runs, stored, sweep, savedOn, saves, crashes>>

ClockTick ==
  /\ clock' = IF clock < LastTick THEN clock + 1 ELSE clock
  /\ UNCHANGED <<schedule, runs, stored, sweep, save, savedOn, saves, crashes>>

SweepStep(s) ==
  \/ List(s) \/ Ensure(s) \/ Advance(s) \/ ClaimRun(s)
  \/ Create(s) \/ Throw(s) \/ Succeed(s) \/ Fail(s)

ScheduleNext ==
  \/ \E s \in Sweeps : SweepStep(s) \/ Crash(s)
  \/ ReadSettings \/ UpsertSchedule
  \/ ClockTick

ScheduleSpec == ScheduleInit /\ [][ScheduleNext]_scheduleVars

\* An external scheduler invokes the job again and again, a process it started
\* goes on, a request that began a save ends it, time passes.
FairScheduleSpec ==
  /\ ScheduleSpec
  /\ \A s \in Sweeps : WF_scheduleVars(SweepStep(s))
  /\ WF_scheduleVars(UpsertSchedule) /\ WF_scheduleVars(ClockTick)

-----------------------------------------------------------------------------
(* Properties.                                                               *)

\* A run that succeeded stays so: a sweep that lost its lease and comes back, to
\* report success or failure, writes nothing (mark_succeeded, mark_failed).
SuccessIsFinal ==
  [][\A d \in Days : runs[d].status = "succeeded" => runs'[d].status = "succeeded"]_scheduleVars

\* Two sweeps materialize the same day only after the lease of the earlier one
\* ended, though each took its time before it waited its turn (claim_run).
OverlapNeedsExpiry ==
  \A s, t \in Sweeps :
    /\ sweep[s].pc = "work" /\ sweep[t].pc = "work"
    /\ DayAt(s) = DayAt(t) /\ sweep[s].attempt < sweep[t].attempt
    => sweep[s].at + Lease <= clock

\* The schedule moves past a day only when that day's run succeeded or failed for
\* good, or when settings were saved that day: a sweep of yesterday that ends
\* today, or one with settings no longer stored, never skips today.
NoDaySkipped ==
  LET today == DayOf(clock)
  IN schedule.enabled /\ DayOf(schedule.next) > today =>
       \/ runs[today].status = "succeeded"
       \/ runs[today].status = "failed" /\ runs[today].attempts = MaxRunAttempts
       \/ savedOn = today

\* A run that succeeded left no candidate out, whatever attempts before it stored.
SuccessIsComplete ==
  (\E d \in Days : runs[d].status = "succeeded") => stored = Candidates

\* What the schedule waits for comes after the last tick: the end of a lease or of a
\* backoff, or, when the attempts of a day are used up, the next day.
EndsLater ==
  \E d \in Days :
    \/ runs[d].lease > LastTick \/ runs[d].retryAt > LastTick
    \/ d = DayOf(LastTick) /\ runs[d].attempts = MaxRunAttempts

\* A schedule that is due is moved on, at the latest the next day: neither dead
\* sweeps nor leases, retries and settings saved in between leave it due for ever.
DueIsHandled ==
  schedule.enabled /\ schedule.next <= clock
    ~> ~schedule.enabled \/ schedule.next > clock \/ EndsLater
=============================================================================
