--------------------------- MODULE DeliveryProofs ---------------------------
(***************************************************************************)
(* What holds of TaskReminder for any number of schedulers and workers, any *)
(* retry, timeout, repetition and quiet hours, and any bounds: its types,   *)
(* and that deliveries are neither repeated nor retried more often than the *)
(* takeovers of claims and the operator account for; and of                 *)
(* NotificationScheduler for any number of sweeps, any candidates, length   *)
(* of the day, lease, backoff and number of attempts.                       *)
(***************************************************************************)
EXTENDS TaskReminder, NotificationScheduler, FiniteSetTheorems, WellFoundedInduction, TLAPS


-----------------------------------------------------------------------------
(* Arithmetic of times.                                                      *)

\* A nonempty set of naturals has a least element.
LEMMA Least ==
  ASSUME NEW T \in SUBSET Nat, T # {}
  PROVE  \E x \in T : \A y \in T : x <= y
<1> DEFINE R == {p \in Nat \X Nat : p[1] < p[2]}
<1>1. IsWellFoundedOn(R, Nat)
  BY NatLessThanWellFounded DEF OpToRel
<1>2. PICK x \in T : \A y \in T : <<y, x>> \notin R
  <2> HIDE DEF R
  <2> QED BY <1>1, WFMin
<1>3. ASSUME NEW y \in T
      PROVE  x <= y
  <2>1. <<y, x>> \notin R /\ <<y, x>> \in Nat \X Nat
    BY <1>2
  <2>2. ~(y < x)
    BY <2>1
  <2>3. QED
    BY <2>2
<1>4. QED
  BY <1>2, <1>3

\* Quiet hours end, at the latest one minute after the last one that is modelled.
LEMMA QuietEndLemma ==
  ASSUME NEW t \in Minutes
  PROVE  QuietEnd(t) \in t..MaxNow + 1 /\ QuietEnd(t) \in Nat
<1> DEFINE loud == {u \in t..MaxNow + 1 : u \notin QuietHours}
<1>1. t \in Nat /\ MaxNow \in Nat /\ t <= MaxNow /\ QuietHours \subseteq 0..MaxNow
  BY ReminderAssumption DEF Minutes
<1>2. MaxNow + 1 \in loud /\ loud \in SUBSET Nat
  BY <1>1
<1>3. PICK u \in loud : \A v \in loud : u <= v
  <2> HIDE DEF loud
  <2> QED BY <1>2, Least
<1>4. u \in t..MaxNow + 1 /\ u \notin QuietHours
  BY <1>3
<1>5. t..u - 1 \subseteq QuietHours
  <2>1. ASSUME NEW v \in t..u - 1, v \notin QuietHours
        PROVE  FALSE
    <3>1. v \in loud /\ v < u
      BY <1>1, <1>4, <2>1
    <3>2. QED
      BY <1>1, <1>3, <1>4, <3>1
  <2>2. QED
    BY <2>1
<1>6. QED
  BY <1>1, <1>4, <1>5 DEF QuietEnd

LEMMA PowerLemma ==
  ASSUME NEW n \in Nat
  PROVE  2 ^ n \in Nat
<1>1. IsFiniteSet(1..n) /\ Cardinality(1..n) = n
  BY FS_Interval
<1>2. IsFiniteSet(SUBSET (1..n)) /\ Cardinality(SUBSET (1..n)) = 2 ^ Cardinality(1..n)
  BY <1>1, FS_SUBSET
<1>3. QED
  BY <1>1, <1>2, FS_CardinalityType

LEMMA RetryDelayLemma ==
  ASSUME NEW n \in Nat \ {0}
  PROVE  RetryDelay(n) \in Nat
<1>1. n - 1 \in Nat /\ Retry \in Nat
  BY ReminderAssumption
<1>2. PICK p \in Nat : p = 2 ^ (n - 1)
  BY <1>1, PowerLemma
<1>3. Retry * p \in Nat /\ Retry * 8 \in Nat
  BY <1>1
<1>4. RetryDelay(n) = SmallerOf(Retry * p, Retry * 8)
  BY <1>2 DEF RetryDelay
<1>5. QED
  BY <1>3, <1>4 DEF SmallerOf

-----------------------------------------------------------------------------
(* Types.                                                                    *)

\* A worker's steps and what it holds at them: a row at hand is no longer to do,
\* claims are numbered from one, and a manual send has no rows.
WorkerFits(r) ==
  /\ r \in WorkerStates
  /\ \A k \in r.todo : r.claims[k] > 0 /\ k # r.key
  /\ r.key # NoTime => r.claims[r.key] > 0 /\ r.pc \notin {"idle", "load"}
  /\ r.pc = "idle" => r.todo = {}
  /\ r.key = NoTime /\ r.pc # "load" => r.todo = {} /\ r.pc \in {"idle", "send", "record", "error"}

RowsInv == outbox \in [Minutes -> OutboxRows]

ClockInv ==
  /\ now \in Minutes /\ task \in TaskRows /\ editor \in BOOLEAN
  /\ scheduler \in [Schedulers -> SchedulerStates]

CountInv ==
  /\ sends \in [Minutes -> Nat] /\ fails \in [Minutes -> Nat] /\ takeovers \in [Minutes -> Nat]
  /\ cycle \in Nat \cup {NoCount}

WorkersInv ==
  /\ worker \in [Workers -> WorkerStates]
  /\ \A w \in Workers : WorkerFits(worker[w])

TypeInv == RowsInv /\ ClockInv /\ budget \in Budgets /\ CountInv /\ WorkersInv

LEMMA MinutesLemma ==
  /\ Minutes \subseteq Nat /\ NoTime \notin Minutes /\ 0 \in Minutes
  /\ \A t \in Minutes : t \in Nat
BY ReminderAssumption DEF Minutes, NoTime

LEMMA IdleLemma ==
  /\ IdleWorker \in WorkerStates /\ WorkerFits(IdleWorker) /\ IdleScheduler \in SchedulerStates
  /\ NoRow \in OutboxRows
  /\ IdleWorker.pc = "idle" /\ IdleWorker.todo = {} /\ IdleWorker.key = NoTime
<1>1. IdleWorker \in WorkerStates
  BY MinutesLemma DEF IdleWorker, WorkerStates
<1>2. IdleWorker.pc = "idle" /\ IdleWorker.todo = {} /\ IdleWorker.key = NoTime
  BY DEF IdleWorker
<1>3. WorkerFits(IdleWorker)
  BY <1>1, <1>2 DEF WorkerFits
<1>4. IdleScheduler \in SchedulerStates
  BY MinutesLemma DEF IdleScheduler, SchedulerStates
<1>5. NoRow \in OutboxRows
  BY DEF NoRow, OutboxRows
<1>6. QED
  BY <1>1, <1>2, <1>3, <1>4, <1>5

LEMMA TypeInit == Init => TypeInv
<1> SUFFICES ASSUME Init PROVE TypeInv
  OBVIOUS
<1>1. RowsInv /\ WorkersInv
  BY IdleLemma DEF Init, RowsInv, WorkersInv
<1>2. ClockInv
  BY IdleLemma, MinutesLemma, ReminderAssumption DEF Init, ClockInv, TaskRows, Minutes
<1>3. budget \in Budgets
  BY ReminderAssumption DEF Init, Budgets
<1>4. CountInv
  BY DEF Init, CountInv
<1>5. QED
  BY <1>1, <1>2, <1>3, <1>4 DEF TypeInv

-----------------------------------------------------------------------------
(* What a worker holds after a step.                                         *)

\* The row at hand is done: the next state of the worker in Finished
Done(r) ==
  IF r.todo = {} THEN IdleWorker ELSE [r EXCEPT !.pc = "load", !.key = NoTime, !.permanent = FALSE]

LEMMA WorkerFields ==
  ASSUME NEW r \in WorkerStates
  PROVE  /\ r.todo \subseteq Minutes /\ r.key \in Minutes \cup {NoTime} /\ r.at \in Minutes
         /\ r.claims \in [Minutes -> Nat] /\ r.permanent \in BOOLEAN
BY DEF WorkerStates

LEMMA DoneLemma ==
  ASSUME NEW r, WorkerFits(r)
  PROVE  /\ WorkerFits(Done(r)) /\ Done(r).todo = r.todo /\ Done(r).key = NoTime
         /\ Done(r).pc \in {"idle", "load"}
         /\ \A k \in r.todo : Done(r).claims[k] = r.claims[k]
<1>1. CASE r.todo = {}
  BY <1>1, IdleLemma DEF Done
<1>2. CASE r.todo # {}
  <2>1. Done(r) = [r EXCEPT !.pc = "load", !.key = NoTime, !.permanent = FALSE]
    BY <1>2 DEF Done
  <2>2. /\ Done(r) \in WorkerStates /\ Done(r).pc = "load" /\ Done(r).key = NoTime
        /\ Done(r).todo = r.todo /\ Done(r).claims = r.claims
    BY <2>1 DEF WorkerFits, WorkerStates
  <2>3. WorkerFits(Done(r))
    BY <2>2, MinutesLemma DEF WorkerFits, WorkerStates
  <2>4. QED
    BY <2>2, <2>3
<1>3. QED
  BY <1>1, <1>2

Calling == {"send", "record", "sent", "cancel", "noRecipient", "fail", "defer", "resume", "error", "settle"}

\* A worker that keeps its rows and goes on to pc.
LEMMA AtLemma ==
  ASSUME NEW r, WorkerFits(r), r.pc \notin {"idle", "load"}, NEW pc \in Calling,
         r.key = NoTime => pc \in {"send", "record", "error"}
  PROVE  /\ WorkerFits([r EXCEPT !.pc = pc]) /\ [r EXCEPT !.pc = pc].pc = pc
         /\ [r EXCEPT !.pc = pc].todo = r.todo /\ [r EXCEPT !.pc = pc].key = r.key
         /\ [r EXCEPT !.pc = pc].claims = r.claims
<1> DEFINE a == [r EXCEPT !.pc = pc]
<1>1. a \in WorkerStates /\ a.pc = pc /\ a.todo = r.todo /\ a.key = r.key /\ a.claims = r.claims
  BY DEF WorkerFits, WorkerStates, Calling
<1> HIDE DEF a
<1>2. WorkerFits(a)
  BY <1>1 DEF WorkerFits, Calling
<1>3. QED
  BY <1>1, <1>2 DEF a

LEMMA ErrorLemma ==
  ASSUME NEW r, WorkerFits(r), r.pc \notin {"idle", "load"}, NEW permanent \in BOOLEAN
  PROVE  LET e == [r EXCEPT !.pc = "error", !.permanent = permanent]
         IN  WorkerFits(e) /\ e.pc = "error" /\ e.todo = r.todo /\ e.key = r.key /\ e.claims = r.claims
<1> DEFINE e == [r EXCEPT !.pc = "error", !.permanent = permanent]
<1>1. e \in WorkerStates /\ e.pc = "error" /\ e.todo = r.todo /\ e.key = r.key /\ e.claims = r.claims
  BY DEF WorkerFits, WorkerStates
<1> HIDE DEF e
<1>2. WorkerFits(e)
  BY <1>1 DEF WorkerFits
<1>3. QED
  BY <1>1, <1>2 DEF e

\* Worker w now is r.
LEMMA WorkerFrame ==
  ASSUME WorkersInv, NEW w \in Workers, NEW r, WorkerFits(r), worker' = [worker EXCEPT ![w] = r]
  PROVE  WorkersInv'
<1>1. \A v \in Workers : worker'[v] = IF v = w THEN r ELSE worker[v]
  BY DEF WorkersInv
<1>2. \A v \in Workers : WorkerFits(worker'[v])
  BY <1>1 DEF WorkersInv
<1>3. worker' \in [Workers -> WorkerStates]
  BY DEF WorkersInv, WorkerFits
<1>4. QED
  BY <1>2, <1>3 DEF WorkersInv, WorkerFits

\* What worker w becomes in each of its steps
Claiming(w, r) ==
  /\ worker[w].pc = "idle"
  /\ r.pc = "load" /\ r.key = NoTime /\ r.todo = {k \in Minutes : Claimable(k)}
  /\ \A k \in r.todo : r.claims[k] = outbox[k].attempts + 1

Loading(w, r) ==
  /\ worker[w].pc = "load"
  /\ r.key \in worker[w].todo /\ r.todo = worker[w].todo \ {r.key}
  /\ r.claims = worker[w].claims
  /\ r.pc \in {"cancel", "noRecipient", "defer", "send"}
  /\ r.pc = "send" => CycleDue(task.sentAt)

GoingOn(w, r) == r.todo = worker[w].todo /\ r.key = worker[w].key /\ r.claims = worker[w].claims

LEMMA ClaimMoves ==
  ASSUME TypeInv, NEW w \in Workers, Claim(w)
  PROVE  \E r : worker' = [worker EXCEPT ![w] = r] /\ WorkerFits(r) /\ Claiming(w, r)
<1> DEFINE due == {k \in Minutes : Claimable(k)}
           claims == [k \in Minutes |-> IF k \in due THEN outbox[k].attempts + 1 ELSE 0]
           r == [IdleWorker EXCEPT !.pc = "load", !.todo = due, !.claims = claims]
<1>1. worker' = [worker EXCEPT ![w] = r] /\ worker[w].pc = "idle"
  BY DEF Claim
<1>2. \A k \in Minutes : outbox[k].attempts \in Nat
  BY DEF TypeInv, RowsInv, OutboxRows
<1>3. due \subseteq Minutes /\ claims \in [Minutes -> Nat] /\ \A k \in due : claims[k] = outbox[k].attempts + 1
  BY <1>2
<1> HIDE DEF due, claims
<1>4. r \in WorkerStates /\ r.pc = "load" /\ r.todo = due /\ r.claims = claims /\ r.key = NoTime
  BY <1>3, IdleLemma DEF WorkerStates
<1>5. \A k \in due : claims[k] > 0
  BY <1>2, <1>3
<1>6. WorkerFits(r)
  BY <1>3, <1>4, <1>5, MinutesLemma DEF WorkerFits
<1> HIDE DEF r
<1>7. Claiming(w, r)
  BY <1>1, <1>3, <1>4 DEF Claiming, due
<1>8. QED
  BY <1>1, <1>6, <1>7

LEMMA LoadMoves ==
  ASSUME TypeInv, NEW w \in Workers, Load(w)
  PROVE  \E r : worker' = [worker EXCEPT ![w] = r] /\ WorkerFits(r) /\ Loading(w, r)
<1>1. PICK old : old = worker[w]
  OBVIOUS
<1>2. WorkerFits(old) /\ old.pc = "load"
  BY <1>1 DEF TypeInv, WorkersInv, Load
<1>3. PICK k \in old.todo :
        worker' = [worker EXCEPT ![w] =
         [@ EXCEPT !.key = k, !.todo = worker[w].todo \ {k}, !.at = now,
                   !.pc = CASE ~task.telegram -> "cancel"
                            [] task.telegram /\ ~task.reachable -> "noRecipient"
                            [] task.telegram /\ task.reachable /\ ~CycleDue(task.sentAt) -> "cancel"
                            [] OTHER -> IF now \in QuietHours THEN "defer" ELSE "send"]]
  BY <1>1 DEF Load
<1>4. PICK pc \in {"cancel", "noRecipient", "defer", "send"} :
        /\ pc = "send" => CycleDue(task.sentAt)
        /\ worker' = [worker EXCEPT ![w] = [old EXCEPT !.key = k, !.todo = old.todo \ {k}, !.at = now, !.pc = pc]]
  <2> DEFINE pc == CASE ~task.telegram -> "cancel"
                     [] task.telegram /\ ~task.reachable -> "noRecipient"
                     [] task.telegram /\ task.reachable /\ ~CycleDue(task.sentAt) -> "cancel"
                     [] OTHER -> IF now \in QuietHours THEN "defer" ELSE "send"
  <2>1. pc \in {"cancel", "noRecipient", "defer", "send"} /\ (pc = "send" => CycleDue(task.sentAt))
    BY DEF TypeInv, ClockInv, TaskRows
  <2>2. worker' = [worker EXCEPT ![w] = [@ EXCEPT !.key = k, !.todo = worker[w].todo \ {k}, !.at = now, !.pc = pc]]
    BY <1>3
  <2> HIDE DEF pc
  <2>3. QED
    BY <1>1, <2>1, <2>2
<1> DEFINE r == [old EXCEPT !.key = k, !.todo = old.todo \ {k}, !.at = now, !.pc = pc]
<1>5. /\ r \in WorkerStates /\ r.key = k /\ r.todo = old.todo \ {k} /\ r.pc = pc /\ r.claims = old.claims
  BY <1>2 DEF WorkerFits, WorkerStates, TypeInv, ClockInv
<1>6. k # NoTime
  BY <1>2, MinutesLemma DEF WorkerFits, WorkerStates
<1> HIDE DEF r
<1>7. WorkerFits(r)
  BY <1>2, <1>5, <1>6 DEF WorkerFits
<1>8. Loading(w, r)
  BY <1>1, <1>2, <1>4, <1>5 DEF Loading
<1>9. worker' = [worker EXCEPT ![w] = r]
  BY <1>4 DEF r
<1>10. QED
  BY <1>7, <1>8, <1>9

\* The interface took the message of worker w, or did not.
SendSucceeds(r) ==
  /\ r.pc = "record" /\ fails' = fails
  /\ sends' = IF r.key = NoTime THEN sends ELSE [sends EXCEPT ![r.key] = @ + 1]
  /\ cycle' = IF r.key = NoTime \/ cycle = NoCount THEN cycle ELSE cycle + 1

SendFails(r) ==
  /\ r.pc = "error" /\ sends' = sends /\ cycle' = cycle
  /\ fails' = IF r.key = NoTime THEN fails ELSE [fails EXCEPT ![r.key] = @ + 1]

LEMMA SendMoves ==
  ASSUME TypeInv, NEW w \in Workers, Send(w)
  PROVE  \E r : /\ worker' = [worker EXCEPT ![w] = r] /\ WorkerFits(r) /\ GoingOn(w, r)
                /\ worker[w].pc = "send"
                /\ SendSucceeds(r) \/ SendFails(r)
<1>1. PICK old : old = worker[w]
  OBVIOUS
<1>2. WorkerFits(old) /\ old.pc = "send" /\ worker[w].pc = "send"
  BY <1>1 DEF TypeInv, WorkersInv, Send
<1>3. CASE /\ worker' = At(w, "record")
           /\ sends' = IF old.key = NoTime THEN sends ELSE [sends EXCEPT ![old.key] = @ + 1]
           /\ cycle' = IF old.key = NoTime \/ cycle = NoCount THEN cycle ELSE cycle + 1
           /\ fails' = fails
  <2> DEFINE r == [old EXCEPT !.pc = "record"]
  <2>1. WorkerFits(r) /\ r.pc = "record" /\ r.todo = old.todo /\ r.key = old.key /\ r.claims = old.claims
    BY <1>2, AtLemma DEF Calling
  <2>2. worker' = [worker EXCEPT ![w] = r]
    BY <1>1, <1>3 DEF At
  <2> HIDE DEF r
  <2>3. GoingOn(w, r)
    BY <1>1, <2>1 DEF GoingOn
  <2>4. SendSucceeds(r)
    BY <1>3, <2>1 DEF SendSucceeds
  <2>5. QED
    BY <1>2, <2>1, <2>2, <2>3, <2>4
<1>4. ASSUME NEW permanent \in BOOLEAN,
             worker' = [worker EXCEPT ![w].pc = "error", ![w].permanent = permanent],
             fails' = IF old.key = NoTime THEN fails ELSE [fails EXCEPT ![old.key] = @ + 1],
             UNCHANGED <<sends, cycle>>
      PROVE  \E r : /\ worker' = [worker EXCEPT ![w] = r] /\ WorkerFits(r) /\ GoingOn(w, r)
                    /\ SendFails(r)
  <2> DEFINE r == [old EXCEPT !.pc = "error", !.permanent = permanent]
  <2>1. WorkerFits(r) /\ r.pc = "error" /\ r.todo = old.todo /\ r.key = old.key /\ r.claims = old.claims
    BY <1>2, ErrorLemma
  <2>2. worker' = [worker EXCEPT ![w] = r]
    BY <1>1, <1>2, <1>4 DEF TypeInv, WorkersInv, WorkerStates
  <2> HIDE DEF r
  <2>3. GoingOn(w, r)
    BY <1>1, <2>1 DEF GoingOn
  <2>4. SendFails(r)
    BY <1>4, <2>1 DEF SendFails
  <2>5. QED
    BY <2>1, <2>2, <2>3, <2>4
<1>5. QED
  BY <1>1, <1>2, <1>3, <1>4 DEF Send

\* The transactions after the call: the manual send ends, a delivery goes on to
\* the last of them.
LEMMA NoteMoves ==
  ASSUME TypeInv, NEW w \in Workers, NEW from \in {"record", "noRecipient", "defer", "error"},
         NEW to \in {"sent", "fail", "resume", "settle"}, worker[w].pc = from,
         worker' = IF worker[w].key = NoTime THEN Finished(w) ELSE At(w, to)
  PROVE  \E r : /\ worker' = [worker EXCEPT ![w] = r] /\ WorkerFits(r)
                /\ \/ r = Done(worker[w]) /\ worker[w].key = NoTime
                   \/ GoingOn(w, r) /\ r.pc = to /\ r.key # NoTime
<1>1. PICK old : old = worker[w]
  OBVIOUS
<1>2. WorkerFits(old) /\ old.pc = from
  BY <1>1 DEF TypeInv, WorkersInv
<1>3. CASE old.key = NoTime
  BY <1>1, <1>2, <1>3, DoneLemma DEF Finished, Done
<1>4. CASE old.key # NoTime
  <2> DEFINE r == [old EXCEPT !.pc = to]
  <2>1. to \in Calling /\ old.pc \notin {"idle", "load"}
    BY <1>2 DEF Calling
  <2>2. WorkerFits(r) /\ r.pc = to /\ r.todo = old.todo /\ r.key = old.key /\ r.claims = old.claims
    BY <1>2, <1>4, <2>1, AtLemma
  <2>3. worker' = [worker EXCEPT ![w] = r]
    BY <1>1, <1>4 DEF At
  <2> HIDE DEF r
  <2>4. GoingOn(w, r)
    BY <1>1, <2>2 DEF GoingOn
  <2>5. QED
    BY <1>1, <1>4, <2>2, <2>3, <2>4
<1>5. QED
  BY <1>3, <1>4

LEMMA MarkMoves ==
  ASSUME TypeInv, NEW w \in Workers, NEW from \in {"sent", "cancel", "fail", "resume", "settle"}, NEW row,
         Mark(w, from, row)
  PROVE  /\ worker' = [worker EXCEPT ![w] = Done(worker[w])] /\ WorkerFits(Done(worker[w]))
         /\ worker[w].key \in Minutes
<1>1. WorkerFits(worker[w]) /\ worker[w].pc = from
  BY DEF TypeInv, WorkersInv, Mark
<1>2. worker[w].key \in Minutes
  BY <1>1 DEF WorkerFits, WorkerStates
<1>3. QED
  BY <1>1, <1>2, DoneLemma DEF Mark, Finished, Done

LEMMA SendNowMoves ==
  ASSUME TypeInv, NEW w \in Workers, SendNow(w)
  PROVE  \E r : /\ worker' = [worker EXCEPT ![w] = r] /\ WorkerFits(r)
                /\ worker[w].pc = "idle" /\ r.pc \in {"send", "error"} /\ r.todo = {} /\ r.key = NoTime
<1>1. PICK pc \in {"send", "error"} : worker' = [worker EXCEPT ![w] = [IdleWorker EXCEPT !.pc = pc, !.at = now]]
  BY DEF SendNow
<1> DEFINE r == [IdleWorker EXCEPT !.pc = pc, !.at = now]
<1>2. r \in WorkerStates /\ r.pc = pc /\ r.todo = {} /\ r.key = NoTime
  BY IdleLemma DEF WorkerStates, TypeInv, ClockInv
<1> HIDE DEF r
<1>3. WorkerFits(r)
  BY <1>2 DEF WorkerFits
<1>4. QED
  BY <1>1, <1>2, <1>3 DEF SendNow, r

-----------------------------------------------------------------------------
(* Every step keeps the types.                                               *)

LEMMA SpendLemma ==
  ASSUME budget \in Budgets
  PROVE  /\ Spend("edits", MaxEdits) => budget' \in Budgets /\ budget'.requeues = budget.requeues
         /\ Spend("crashes", MaxCrashes) => budget' \in Budgets /\ budget'.requeues = budget.requeues
         /\ Spend("manual", MaxManual) => budget' \in Budgets /\ budget'.requeues = budget.requeues
         /\ Spend("requeues", MaxRequeues) => budget' \in Budgets /\ budget'.requeues = budget.requeues + 1
         /\ budget.requeues \in Nat
BY ReminderAssumption DEF Spend, Budgets

LEMMA UpsertedLemma ==
  ASSUME NEW row \in OutboxRows, NEW available \in Nat, NEW status \in {"queued", "failed"},
         NEW retryable \in BOOLEAN, NEW force \in BOOLEAN
  PROVE  Upserted(row, available, status, retryable, force) \in OutboxRows
<1>1. \A a \in Nat, b \in Nat : SmallerOf(a, b) \in Nat
  BY DEF SmallerOf
<1>2. row.available \in Nat
  BY DEF OutboxRows
<1>3. PICK smaller \in Nat : smaller = SmallerOf(available, row.available)
  BY <1>1, <1>2
<1>4. [row EXCEPT !.status = "queued", !.available = SmallerOf(available, @), !.retryable = retryable] \in OutboxRows
  BY <1>3 DEF OutboxRows
<1>5. [row EXCEPT !.retryable = retryable] \in OutboxRows
  BY DEF OutboxRows
<1>6. [NoRow EXCEPT !.status = status, !.available = available, !.retryable = retryable] \in OutboxRows
  BY DEF OutboxRows, NoRow
<1>7. QED
  BY <1>4, <1>5, <1>6 DEF Upserted

LEMMA UpsertTypes ==
  ASSUME TypeInv, NEW s \in Schedulers, NEW available \in Nat, NEW status \in {"queued", "failed"},
         NEW retryable \in BOOLEAN, Upsert(s, available, status, retryable)
  PROVE  RowsInv'
<1>1. scheduler[s].anchor \in Minutes /\ scheduler[s].force \in BOOLEAN
  BY DEF TypeInv, ClockInv, SchedulerStates
<1>2. outbox[scheduler[s].anchor] \in OutboxRows
  BY <1>1 DEF TypeInv, RowsInv
<1>3. Upserted(outbox[scheduler[s].anchor], available, status, retryable, scheduler[s].force) \in OutboxRows
  BY <1>1, <1>2, UpsertedLemma
<1>4. QED
  BY <1>1, <1>3 DEF Upsert, TypeInv, RowsInv

LEMMA ReadDueTypes ==
  ASSUME TypeInv, NEW s \in Schedulers, NEW force \in BOOLEAN, ReadDue(s, force)
  PROVE  TypeInv'
<1>1. task.sentAt \in Minutes \cup {NoTime} /\ Anchor \in Minutes
  BY DEF TypeInv, ClockInv, TaskRows, Anchor
<1>2. PICK pc \in {"queue", "lookup"} :
        scheduler' = [scheduler EXCEPT ![s] = [pc |-> pc, anchor |-> Anchor, sentAt |-> task.sentAt, force |-> force]]
  BY DEF ReadDue
<1>3. [pc |-> pc, anchor |-> Anchor, sentAt |-> task.sentAt, force |-> force] \in SchedulerStates
  BY <1>1 DEF SchedulerStates
<1>4. ClockInv'
  BY <1>2, <1>3 DEF ReadDue, SchedulerQuiet, TypeInv, ClockInv
<1>5. budget' \in Budgets
  BY SpendLemma DEF ReadDue, TypeInv
<1>6. QED
  BY <1>4, <1>5 DEF ReadDue, SchedulerQuiet, TypeInv, RowsInv, CountInv, WorkersInv, WorkerFits

LEMMA SchedulerTypes ==
  ASSUME TypeInv, NEW s \in Schedulers, Queue(s) \/ Lookup(s) \/ Note(s) \/ QueueFailed(s)
  PROVE  TypeInv'
<1>1. now \in Minutes /\ now \in Nat
  BY MinutesLemma DEF TypeInv, ClockInv
<1>2. RowsInv'
  <2>1. CASE Queue(s)
    BY <1>1, <2>1, QuietEndLemma, UpsertTypes DEF Queue, TypeInv, RowsInv
  <2>2. CASE QueueFailed(s)
    BY <1>1, <2>2, UpsertTypes DEF QueueFailed
  <2>3. CASE Lookup(s) \/ Note(s)
    BY <2>3 DEF Lookup, Note, TypeInv, RowsInv
  <2>4. QED
    BY <2>1, <2>2, <2>3
<1>3. scheduler[s] \in SchedulerStates
  BY DEF TypeInv, ClockInv
<1>4. \A pc \in {"note", "fail"} : [scheduler[s] EXCEPT !.pc = pc] \in SchedulerStates
  BY <1>3 DEF SchedulerStates
<1>5. scheduler' \in [Schedulers -> SchedulerStates]
  BY <1>4, IdleLemma DEF Queue, Lookup, Note, QueueFailed, TypeInv, ClockInv
<1>6. task' \in TaskRows
  BY <1>1 DEF Queue, Lookup, Note, QueueFailed, TypeInv, ClockInv, TaskRows
<1>7. QED
  BY <1>2, <1>5, <1>6 DEF Queue, Lookup, Note, QueueFailed, SchedulerQuiet, TypeInv, ClockInv, CountInv,
     WorkersInv, WorkerFits

LEMMA ClaimTypes == ASSUME TypeInv, NEW w \in Workers, Claim(w) PROVE TypeInv'
<1>1. WorkersInv'
  BY ClaimMoves, WorkerFrame DEF TypeInv
<1>2. ASSUME NEW k \in Minutes
      PROVE  /\ [outbox[k] EXCEPT !.status = "processing", !.claimed = now, !.attempts = @ + 1] \in OutboxRows
             /\ takeovers[k] + 1 \in Nat
  <2>1. outbox[k] \in OutboxRows /\ now \in Minutes /\ takeovers[k] \in Nat
    BY DEF TypeInv, RowsInv, ClockInv, CountInv
  <2>2. outbox[k].attempts + 1 \in Nat
    BY <2>1 DEF OutboxRows
  <2>3. PICK n \in Nat : n = outbox[k].attempts + 1
    BY <2>2
  <2>4. [outbox[k] EXCEPT !.status = "processing", !.claimed = now, !.attempts = n] \in OutboxRows
    BY <2>1 DEF OutboxRows
  <2>5. QED
    BY <2>1, <2>3, <2>4
<1>3. RowsInv'
  BY <1>2 DEF Claim, TypeInv, RowsInv
<1>4. takeovers' \in [Minutes -> Nat]
  <2>1. \A k \in Minutes : takeovers'[k] \in {takeovers[k], takeovers[k] + 1}
    BY DEF Claim
  <2>2. takeovers' = [k \in Minutes |-> takeovers'[k]]
    BY DEF Claim
  <2>3. QED
    BY <1>2, <2>1, <2>2 DEF TypeInv, CountInv
<1>5. CountInv'
  BY <1>4 DEF Claim, TypeInv, CountInv
<1>6. QED
  BY <1>1, <1>3, <1>5 DEF Claim, TypeInv, ClockInv

LEMMA LoadTypes == ASSUME TypeInv, NEW w \in Workers, Load(w) PROVE TypeInv'
<1>1. WorkersInv'
  BY LoadMoves, WorkerFrame DEF TypeInv
<1>2. QED
  BY <1>1 DEF Load, WorkerQuiet, TypeInv, ClockInv, RowsInv, CountInv

LEMMA SendTypes == ASSUME TypeInv, NEW w \in Workers, Send(w) PROVE TypeInv'
<1>1. PICK r : /\ worker' = [worker EXCEPT ![w] = r] /\ WorkerFits(r)
               /\ SendSucceeds(r) \/ SendFails(r)
  BY SendMoves
<1>2. WorkersInv'
  BY <1>1, WorkerFrame DEF TypeInv
<1>3. r.key \in Minutes \cup {NoTime}
  BY <1>1, WorkerFields DEF WorkerFits
<1>4. sends' \in [Minutes -> Nat] /\ fails' \in [Minutes -> Nat]
  BY <1>1, <1>3 DEF SendSucceeds, SendFails, TypeInv, CountInv
<1>5. cycle' \in Nat \cup {NoCount}
  BY <1>1 DEF SendSucceeds, SendFails, TypeInv, CountInv
<1>6. QED
  BY <1>2, <1>4, <1>5 DEF Send, WorkerQuiet, TypeInv, ClockInv, RowsInv, CountInv

\* Record, and the transactions after a failure, a missing recipient and a deferral
Noting(w) ==
  \/ Record(w) \/ NoteAttempt(w, "noRecipient", "fail")
  \/ NoteAttempt(w, "defer", "resume") \/ NoteAttempt(w, "error", "settle")

LEMMA NotingMoves ==
  ASSUME TypeInv, NEW w \in Workers, Noting(w)
  PROVE  \E r : /\ worker' = [worker EXCEPT ![w] = r] /\ WorkerFits(r)
                /\ \/ r = Done(worker[w]) /\ worker[w].key = NoTime
                   \/ /\ GoingOn(w, r) /\ r.key # NoTime
                      /\ <<worker[w].pc, r.pc>> \in {<<"record", "sent">>, <<"noRecipient", "fail">>,
                                                     <<"defer", "resume">>, <<"error", "settle">>}
<1>1. CASE Record(w)
  <2>1. /\ worker[w].pc = "record"
        /\ worker' = IF worker[w].key = NoTime THEN Finished(w) ELSE At(w, "sent")
    BY <1>1 DEF Record
  <2>2. QED
    BY <2>1, NoteMoves
<1>2. CASE NoteAttempt(w, "noRecipient", "fail")
  <2>1. /\ worker[w].pc = "noRecipient"
        /\ worker' = IF worker[w].key = NoTime THEN Finished(w) ELSE At(w, "fail")
    BY <1>2 DEF NoteAttempt
  <2>2. QED
    BY <2>1, NoteMoves
<1>3. CASE NoteAttempt(w, "defer", "resume")
  <2>1. /\ worker[w].pc = "defer"
        /\ worker' = IF worker[w].key = NoTime THEN Finished(w) ELSE At(w, "resume")
    BY <1>3 DEF NoteAttempt
  <2>2. QED
    BY <2>1, NoteMoves
<1>4. CASE NoteAttempt(w, "error", "settle")
  <2>1. /\ worker[w].pc = "error"
        /\ worker' = IF worker[w].key = NoTime THEN Finished(w) ELSE At(w, "settle")
    BY <1>4 DEF NoteAttempt
  <2>2. QED
    BY <2>1, NoteMoves
<1>5. QED
  BY <1>1, <1>2, <1>3, <1>4 DEF Noting

LEMMA NotingTypes == ASSUME TypeInv, NEW w \in Workers, Noting(w) PROVE TypeInv'
<1>1. WorkersInv'
  BY NotingMoves, WorkerFrame DEF TypeInv
<1>2. worker[w].at \in Minutes
  BY WorkerFields DEF TypeInv, WorkersInv
<1>3. task' \in TaskRows
  BY <1>2 DEF Noting, Record, NoteAttempt, TypeInv, ClockInv, TaskRows
<1>4. QED
  BY <1>1, <1>3 DEF Noting, Record, NoteAttempt, WorkerQuiet, TypeInv, ClockInv, RowsInv, CountInv

LEMMA MarkTypes ==
  ASSUME TypeInv, NEW w \in Workers, NEW from \in {"sent", "cancel", "fail", "resume", "settle"},
         NEW row \in OutboxRows, Mark(w, from, row)
  PROVE  TypeInv'
<1>1. WorkersInv'
  BY MarkMoves, WorkerFrame DEF TypeInv
<1>2. RowsInv'
  BY MarkMoves DEF Mark, TypeInv, RowsInv
<1>3. QED
  BY <1>1, <1>2 DEF Mark, WorkerQuiet, TypeInv, ClockInv, CountInv

\* The rows that the last transaction of a delivery writes.
LEMMA MarkedRows ==
  ASSUME TypeInv, NEW w \in Workers, worker[w].pc \in {"sent", "cancel", "fail", "resume", "settle"}
  PROVE  /\ [Row(w) EXCEPT !.status = "sent"] \in OutboxRows
         /\ [Row(w) EXCEPT !.status = "cancelled", !.claimed = NoTime] \in OutboxRows
         /\ FailedRow(w) \in OutboxRows
         /\ \A t \in Nat : RetryAt(w, t) \in OutboxRows
         /\ QuietEnd(worker[w].at) \in Nat
         /\ now + RetryDelay(worker[w].claims[worker[w].key]) \in Nat
<1>1. WorkerFits(worker[w]) /\ worker[w].key \in Minutes /\ worker[w].at \in Minutes
  BY DEF TypeInv, WorkersInv, WorkerFits, WorkerStates
<1>2. Row(w) \in OutboxRows
  BY <1>1 DEF TypeInv, RowsInv, Row
<1>3. /\ [Row(w) EXCEPT !.status = "sent"] \in OutboxRows
      /\ [Row(w) EXCEPT !.status = "cancelled", !.claimed = NoTime] \in OutboxRows
      /\ FailedRow(w) \in OutboxRows
      /\ \A t \in Nat : RetryAt(w, t) \in OutboxRows
  BY <1>2 DEF FailedRow, RetryAt, OutboxRows
<1>4. worker[w].claims[worker[w].key] \in Nat \ {0}
  <2>1. worker[w].claims \in [Minutes -> Nat]
    BY <1>1, WorkerFields DEF WorkerFits
  <2>2. worker[w].claims[worker[w].key] > 0
    BY <1>1, MinutesLemma DEF WorkerFits
  <2>3. QED
    BY <1>1, <2>1, <2>2
<1>5. RetryDelay(worker[w].claims[worker[w].key]) \in Nat /\ now \in Nat
  BY <1>4, RetryDelayLemma, MinutesLemma DEF TypeInv, ClockInv
<1>6. QED
  BY <1>1, <1>3, <1>5, QuietEndLemma

LEMMA MarksTypes ==
  ASSUME TypeInv, NEW w \in Workers,
         MarkSent(w) \/ MarkCancelled(w) \/ MarkFailed(w) \/ MarkDeferred(w) \/ MarkRetry(w)
  PROVE  TypeInv'
<1>1. worker[w].pc \in {"sent", "cancel", "fail", "resume", "settle"}
  BY DEF MarkSent, MarkCancelled, MarkFailed, MarkDeferred, MarkRetry, Mark
<1>2. CASE MarkSent(w)
  BY <1>1, <1>2, MarkedRows, MarkTypes DEF MarkSent
<1>3. CASE MarkCancelled(w)
  BY <1>1, <1>3, MarkedRows, MarkTypes DEF MarkCancelled
<1>4. CASE MarkFailed(w)
  BY <1>1, <1>4, MarkedRows, MarkTypes DEF MarkFailed
<1>5. CASE MarkDeferred(w)
  BY <1>1, <1>5, MarkedRows, MarkTypes DEF MarkDeferred
<1>6. CASE MarkRetry(w)
  BY <1>1, <1>6, MarkedRows, MarkTypes DEF MarkRetry
<1>7. QED
  BY <1>2, <1>3, <1>4, <1>5, <1>6

LEMMA AbandonTypes == ASSUME TypeInv, NEW w \in Workers, Abandon(w) PROVE TypeInv'
<1>1. WorkersInv'
  BY IdleLemma, WorkerFrame DEF Abandon, TypeInv
<1>2. QED
  BY <1>1, SpendLemma DEF Abandon, TypeInv, ClockInv, RowsInv, CountInv

LEMMA SendNowTypes == ASSUME TypeInv, NEW w \in Workers, SendNow(w) PROVE TypeInv'
<1>1. WorkersInv'
  BY SendNowMoves, WorkerFrame DEF TypeInv
<1>2. QED
  BY <1>1, SpendLemma DEF SendNow, TypeInv, ClockInv, RowsInv, CountInv

LEMMA UserTypes ==
  ASSUME TypeInv, Edit \/ Reset \/ SwitchOff \/ SwitchOn \/ Tick
  PROVE  TypeInv'
<1>1. task' \in TaskRows
  <2>1. task \in TaskRows
    BY DEF TypeInv, ClockInv
  <2>2. CASE Edit
    BY <2>1, <2>2, ReminderAssumption DEF Edit, TaskRows, Minutes
  <2>3. CASE Reset
    BY <2>1, <2>3 DEF Reset, TaskRows
  <2>4. CASE SwitchOff \/ SwitchOn
    BY <2>1, <2>4 DEF SwitchOff, SwitchOn, TaskRows
  <2>5. QED
    BY <2>1, <2>2, <2>3, <2>4 DEF Tick
<1>2. now' \in Minutes
  <2>1. now \in 0..MaxNow /\ MaxNow \in Nat
    BY ReminderAssumption DEF TypeInv, ClockInv, Minutes
  <2>2. SmallerOf(now + 1, MaxNow) \in 0..MaxNow
    BY <2>1 DEF SmallerOf
  <2>3. QED
    BY <2>1, <2>2 DEF Edit, Reset, SwitchOff, SwitchOn, Tick, Minutes
<1>3. editor' \in BOOLEAN /\ UNCHANGED scheduler
  BY DEF Edit, Reset, SwitchOff, SwitchOn, Tick, TypeInv, ClockInv
<1>4. budget' \in Budgets
  BY SpendLemma DEF Edit, Reset, SwitchOff, SwitchOn, Tick, TypeInv
<1>5. cycle' \in {cycle, 0}
  BY DEF Edit, Reset, SwitchOff, SwitchOn, Tick
<1>6. cycle' \in Nat \cup {NoCount}
  BY <1>5 DEF TypeInv, CountInv
<1>7. UNCHANGED <<outbox, worker, sends, fails, takeovers>>
  BY DEF Edit, Reset, SwitchOff, SwitchOn, Tick
<1>8. QED
  BY <1>1, <1>2, <1>3, <1>4, <1>6, <1>7 DEF TypeInv, ClockInv, RowsInv, CountInv, WorkersInv, WorkerFits

LEMMA RequeueTypes == ASSUME TypeInv, NEW k \in Minutes, Requeue(k) PROVE TypeInv'
<1>1. now \in Nat
  BY MinutesLemma DEF TypeInv, ClockInv
<1>2. RowsInv'
  BY <1>1 DEF Requeue, TypeInv, RowsInv, OutboxRows
<1>3. QED
  BY <1>2, SpendLemma DEF Requeue, TypeInv, ClockInv, CountInv, WorkersInv, WorkerFits

LEMMA TypeNext == ASSUME TypeInv, [Next]_vars PROVE TypeInv'
<1>1. CASE UNCHANGED vars
  BY <1>1 DEF vars, TypeInv, RowsInv, ClockInv, CountInv, WorkersInv, WorkerFits
<1>2. ASSUME NEW w \in Workers, WorkerStep(w)
      PROVE  TypeInv'
  BY <1>2, ClaimTypes, LoadTypes, SendTypes, NotingTypes, MarksTypes DEF WorkerStep, Noting
<1>3. QED
  BY <1>1, <1>2, ReadDueTypes, SchedulerTypes, AbandonTypes, SendNowTypes, UserTypes, RequeueTypes
     DEF Next, SchedulerStep

THEOREM ReminderTypeInductive == Spec => []TypeInv
<1>1. TypeInv /\ [Next]_vars => TypeInv'
  BY TypeNext
<1>2. QED
  BY <1>1, TypeInit, PTL DEF Spec

\* The row of the task, the outbox, the schedulers, the workers and the counters
\* hold values of their types.
THEOREM ReminderTypeCorrect == Spec => []TypeOK
<1>1. TypeInv => TypeOK
  BY DEF TypeInv, RowsInv, ClockInv, CountInv, WorkersInv, TypeOK
<1>2. QED
  BY <1>1, ReminderTypeInductive, PTL

-----------------------------------------------------------------------------
(* Counting the workers that hold a row.                                     *)

\* A worker with row k before it: it has claimed k and has not sent its message.
Holds(r, k) == k \in r.todo \/ (r.key = k /\ r.pc \notin {"record", "sent"})

\* Its call of the interface for row k is still to come or is not needed.
Undecided(r, k) == k \in r.todo \/ (r.key = k /\ r.pc \notin {"record", "sent", "error", "settle"})

\* It may send row k back to the queue after a failure.
MayRepeat(r, k) == Holds(r, k) /\ r.claims[k] < MaxAttempts

Holders(k)    == {w \in Workers : Holds(worker[w], k)}
Undecideds(k) == {w \in Workers : Undecided(worker[w], k)}
Repeaters(k)  == {w \in Workers : MayRepeat(worker[w], k)}

\* Schedulers about to queue row k for the operator
Forcing(k) == {s \in Schedulers : scheduler[s].force /\ scheduler[s].anchor = k}

Bit(p) == IF p THEN 1 ELSE 0

\* Two subsets of a finite set that differ at most in x.
LEMMA CountLemma ==
  ASSUME NEW S, IsFiniteSet(S), NEW A \in SUBSET S, NEW B \in SUBSET S, NEW x,
         \A y \in S : y # x => (y \in A <=> y \in B)
  PROVE  /\ Cardinality(A) \in Nat /\ Cardinality(B) \in Nat
         /\ Cardinality(B) <= Cardinality(A) + 1
         /\ (x \in B => x \in A) => Cardinality(B) <= Cardinality(A)
         /\ x \in A /\ x \notin B => Cardinality(B) = Cardinality(A) - 1
<1>1. /\ IsFiniteSet(A) /\ IsFiniteSet(B) /\ Cardinality(A) \in Nat /\ Cardinality(B) \in Nat
  BY FS_Subset, FS_CardinalityType
<1>2. IsFiniteSet(A \cup {x}) /\ Cardinality(A \cup {x}) = IF x \in A THEN Cardinality(A) ELSE Cardinality(A) + 1
  BY <1>1, FS_AddElement
<1>3. Cardinality(B) <= Cardinality(A) + 1
  <2>1. B \subseteq A \cup {x}
    OBVIOUS
  <2>2. Cardinality(B) <= Cardinality(A \cup {x})
    BY <1>2, <2>1, FS_Subset
  <2>3. QED
    BY <1>1, <1>2, <2>2
<1>4. ASSUME x \in B => x \in A
      PROVE  Cardinality(B) <= Cardinality(A)
  <2>1. B \subseteq A
    BY <1>4
  <2>2. QED
    BY <1>1, <2>1, FS_Subset
<1>5. ASSUME x \in A, x \notin B
      PROVE  Cardinality(B) = Cardinality(A) - 1
  <2>1. B = A \ {x}
    BY <1>5
  <2>2. QED
    BY <1>1, <1>5, <2>1, FS_RemoveElement
<1>6. QED
  BY <1>1, <1>3, <1>4, <1>5

\* How a step of worker w changes the numbers.
LEMMA HoldersStep ==
  ASSUME TypeInv, NEW w \in Workers, NEW r, worker' = [worker EXCEPT ![w] = r], NEW k \in Minutes
  PROVE  /\ Cardinality(Holders(k)) \in Nat /\ Cardinality(Holders(k)') \in Nat
         /\ Cardinality(Holders(k)') <= Cardinality(Holders(k)) + 1
         /\ (Holds(r, k) => Holds(worker[w], k)) => Cardinality(Holders(k)') <= Cardinality(Holders(k))
         /\ Holds(worker[w], k) /\ ~Holds(r, k) => Cardinality(Holders(k)') = Cardinality(Holders(k)) - 1
<1>1. \A v \in Workers : worker'[v] = IF v = w THEN r ELSE worker[v]
  BY DEF TypeInv, WorkersInv
<1>2. w \in Holders(k)' <=> Holds(r, k)
  BY <1>1 DEF Holders, Holds
<1>3. w \in Holders(k) <=> Holds(worker[w], k)
  BY DEF Holders
<1>4. \A v \in Workers : v # w => (v \in Holders(k) <=> v \in Holders(k)')
  BY <1>1 DEF Holders, Holds
<1>5. Holders(k) \in SUBSET Workers /\ Holders(k)' \in SUBSET Workers /\ IsFiniteSet(Workers)
  BY ReminderAssumption DEF Holders
<1>6. QED
  BY <1>2, <1>3, <1>4, <1>5, CountLemma

LEMMA UndecidedsStep ==
  ASSUME TypeInv, NEW w \in Workers, NEW r, worker' = [worker EXCEPT ![w] = r], NEW k \in Minutes
  PROVE  /\ Cardinality(Undecideds(k)) \in Nat /\ Cardinality(Undecideds(k)') \in Nat
         /\ Cardinality(Undecideds(k)') <= Cardinality(Undecideds(k)) + 1
         /\ (Undecided(r, k) => Undecided(worker[w], k)) => Cardinality(Undecideds(k)') <= Cardinality(Undecideds(k))
         /\ Undecided(worker[w], k) /\ ~Undecided(r, k)
              => Cardinality(Undecideds(k)') = Cardinality(Undecideds(k)) - 1
<1>1. \A v \in Workers : worker'[v] = IF v = w THEN r ELSE worker[v]
  BY DEF TypeInv, WorkersInv
<1>2. w \in Undecideds(k)' <=> Undecided(r, k)
  BY <1>1 DEF Undecideds, Undecided
<1>3. w \in Undecideds(k) <=> Undecided(worker[w], k)
  BY DEF Undecideds
<1>4. \A v \in Workers : v # w => (v \in Undecideds(k) <=> v \in Undecideds(k)')
  BY <1>1 DEF Undecideds, Undecided
<1>5. Undecideds(k) \in SUBSET Workers /\ Undecideds(k)' \in SUBSET Workers /\ IsFiniteSet(Workers)
  BY ReminderAssumption DEF Undecideds
<1>6. QED
  BY <1>2, <1>3, <1>4, <1>5, CountLemma

LEMMA RepeatersStep ==
  ASSUME TypeInv, NEW w \in Workers, NEW r, worker' = [worker EXCEPT ![w] = r], NEW k \in Minutes
  PROVE  /\ Cardinality(Repeaters(k)) \in Nat /\ Cardinality(Repeaters(k)') \in Nat
         /\ Cardinality(Repeaters(k)') <= Cardinality(Repeaters(k)) + 1
         /\ (MayRepeat(r, k) => MayRepeat(worker[w], k)) => Cardinality(Repeaters(k)') <= Cardinality(Repeaters(k))
         /\ MayRepeat(worker[w], k) /\ ~MayRepeat(r, k)
              => Cardinality(Repeaters(k)') = Cardinality(Repeaters(k)) - 1
<1>1. \A v \in Workers : worker'[v] = IF v = w THEN r ELSE worker[v]
  BY DEF TypeInv, WorkersInv
<1>2. w \in Repeaters(k)' <=> MayRepeat(r, k)
  BY <1>1 DEF Repeaters, MayRepeat, Holds
<1>3. w \in Repeaters(k) <=> MayRepeat(worker[w], k)
  BY DEF Repeaters
<1>4. \A v \in Workers : v # w => (v \in Repeaters(k) <=> v \in Repeaters(k)')
  BY <1>1 DEF Repeaters, MayRepeat, Holds
<1>5. Repeaters(k) \in SUBSET Workers /\ Repeaters(k)' \in SUBSET Workers /\ IsFiniteSet(Workers)
  BY ReminderAssumption DEF Repeaters
<1>6. QED
  BY <1>2, <1>3, <1>4, <1>5, CountLemma

\* The last transaction of a delivery
Marking(w) == MarkSent(w) \/ MarkCancelled(w) \/ MarkFailed(w) \/ MarkDeferred(w) \/ MarkRetry(w)

\* The row it leaves: only a worker that sent the message marks it sent; a row
\* goes on after a cancellation, a deferral, or a failure that may be retried.
LEMMA MarkingCases ==
  ASSUME TypeInv, NEW w \in Workers, Marking(w)
  PROVE  \E from \in {"sent", "cancel", "fail", "resume", "settle"}, row \in OutboxRows :
           /\ Mark(w, from, row)
           /\ row.attempts = outbox[worker[w].key].attempts /\ row.status # "none"
           /\ row.status = "sent" <=> from = "sent"
           /\ row.status = "failed" => ~row.retryable
           /\ row.status \notin {"sent", "failed"} =>
                \/ from \in {"cancel", "resume"}
                \/ from = "settle" /\ worker[w].claims[worker[w].key] < MaxAttempts
<1>1. worker[w].pc \in {"sent", "cancel", "fail", "resume", "settle"}
  BY DEF Marking, MarkSent, MarkCancelled, MarkFailed, MarkDeferred, MarkRetry, Mark
<1>2. worker[w].key \in Minutes
  BY <1>1 DEF TypeInv, WorkersInv, WorkerFits, WorkerStates
<1>3. Row(w) = outbox[worker[w].key] /\ Row(w) \in OutboxRows
  BY <1>2 DEF Row, TypeInv, RowsInv
<1>4. FailedRow(w) \in OutboxRows /\ FailedRow(w).status = "failed" /\ ~FailedRow(w).retryable
      /\ FailedRow(w).attempts = Row(w).attempts
  BY <1>1, <1>3, MarkedRows DEF FailedRow, OutboxRows
<1>5. ASSUME NEW t \in Nat
      PROVE  RetryAt(w, t) \in OutboxRows /\ RetryAt(w, t).status = "queued"
             /\ RetryAt(w, t).attempts = Row(w).attempts
  BY <1>1, <1>3, MarkedRows DEF RetryAt, OutboxRows
<1>6. CASE MarkSent(w)
  <2> DEFINE row == [Row(w) EXCEPT !.status = "sent"]
  <2>1. row \in OutboxRows /\ row.status = "sent" /\ row.attempts = Row(w).attempts
    BY <1>1, <1>3, MarkedRows DEF OutboxRows
  <2>2. Mark(w, "sent", row)
    BY <1>6 DEF MarkSent
  <2> HIDE DEF row
  <2>3. QED
    BY <1>3, <2>1, <2>2
<1>7. CASE MarkCancelled(w)
  <2> DEFINE row == [Row(w) EXCEPT !.status = "cancelled", !.claimed = NoTime]
  <2>1. row \in OutboxRows /\ row.status = "cancelled" /\ row.attempts = Row(w).attempts
    BY <1>1, <1>3, MarkedRows DEF OutboxRows
  <2>2. Mark(w, "cancel", row)
    BY <1>7 DEF MarkCancelled
  <2> HIDE DEF row
  <2>3. QED
    BY <1>3, <2>1, <2>2
<1>8. CASE MarkFailed(w)
  BY <1>3, <1>4, <1>8 DEF MarkFailed
<1>9. CASE MarkDeferred(w)
  <2>1. Mark(w, "resume", RetryAt(w, QuietEnd(worker[w].at))) /\ QuietEnd(worker[w].at) \in Nat
    BY <1>1, <1>9, MarkedRows DEF MarkDeferred
  <2>2. QED
    BY <1>3, <1>5, <2>1
<1>10. CASE MarkRetry(w) /\ MayRetry(w)
  <2>1. PICK t \in Nat : t = now + RetryDelay(worker[w].claims[worker[w].key])
    BY <1>1, MarkedRows
  <2>2. Mark(w, "settle", RetryAt(w, t)) /\ worker[w].claims[worker[w].key] < MaxAttempts
    BY <1>10, <2>1 DEF MarkRetry, MayRetry
  <2>3. QED
    BY <1>3, <1>5, <2>2
<1>11. CASE MarkRetry(w) /\ ~MayRetry(w)
  <2>1. Mark(w, "settle", FailedRow(w))
    BY <1>11 DEF MarkRetry
  <2>2. QED
    BY <1>3, <1>4, <2>1
<1>12. QED
  BY <1>6, <1>7, <1>8, <1>9, <1>10, <1>11 DEF Marking

-----------------------------------------------------------------------------
(* A delivery is sent once, and once more for each takeover of its claim.    *)

\* Nobody holds the row, or need hold it, to send it: it can be claimed afresh.
Open(row) == row.status \notin {"processing", "sent"}

\* Each message sent or still to be sent for row k has a claim of its own, and a
\* claim on a row that has one counts as a takeover.
Duplicates(k) == sends[k] + Cardinality(Holders(k)) + Bit(Open(outbox[k])) <= 1 + takeovers[k]

DuplicateInv == \A k \in Minutes : Duplicates(k)

LEMMA NumbersLemma ==
  ASSUME TypeInv, NEW k \in Minutes
  PROVE  /\ sends[k] \in Nat /\ fails[k] \in Nat /\ takeovers[k] \in Nat
         /\ outbox[k] \in OutboxRows /\ outbox[k].attempts \in Nat
BY DEF TypeInv, CountInv, RowsInv, OutboxRows

LEMMA NobodyHolds ==
  ASSUME NEW k \in Minutes
  PROVE  ~Holds(IdleWorker, k) /\ ~Undecided(IdleWorker, k) /\ ~MayRepeat(IdleWorker, k)
BY IdleLemma, MinutesLemma DEF Holds, Undecided, MayRepeat

LEMMA DuplicateInit == Init => DuplicateInv
<1> SUFFICES ASSUME Init, NEW k \in Minutes PROVE Duplicates(k)
  BY DEF DuplicateInv
<1>1. Holders(k) = {}
  BY NobodyHolds DEF Init, Holders
<1>2. Cardinality(Holders(k)) = 0
  BY <1>1, FS_EmptySet
<1>3. sends[k] = 0 /\ takeovers[k] = 0
  BY DEF Init
<1>4. QED
  BY <1>2, <1>3 DEF Duplicates, Bit

\* The row is not opened, and no worker changes.
LEMMA DuplicateRow ==
  ASSUME TypeInv, NEW k \in Minutes, Duplicates(k), UNCHANGED <<worker, sends, takeovers>>,
         Open(outbox'[k]) => Open(outbox[k])
  PROVE  Duplicates(k)'
<1>1. Holders(k)' = Holders(k)
  BY DEF Holders
<1>2. Cardinality(Holders(k)) \in Nat
  BY FS_Subset, FS_CardinalityType, ReminderAssumption DEF Holders
<1>3. QED
  BY <1>1, <1>2, NumbersLemma DEF Duplicates, Bit, Open

\* A worker goes on with the rows it has, or with fewer.
LEMMA DuplicateWorker ==
  ASSUME TypeInv, NEW w \in Workers, NEW r, worker' = [worker EXCEPT ![w] = r],
         NEW k \in Minutes, Duplicates(k), Holds(r, k) => Holds(worker[w], k),
         outbox'[k] = outbox[k], sends'[k] = sends[k], takeovers'[k] = takeovers[k]
  PROVE  Duplicates(k)'
<1>1. /\ Cardinality(Holders(k)) \in Nat /\ Cardinality(Holders(k)') \in Nat
      /\ Cardinality(Holders(k)') <= Cardinality(Holders(k))
  BY HoldersStep
<1>2. QED
  BY <1>1, NumbersLemma DEF Duplicates, Bit, Open

\* The upsert leaves a claim and a sent row alone.
LEMMA UpsertedOpen ==
  ASSUME NEW row \in OutboxRows, NEW available, NEW status, NEW retryable, NEW force
  PROVE  Open(Upserted(row, available, status, retryable, force)) => Open(row)
BY DEF Upserted, Open, OutboxRows

LEMMA DuplicateScheduler ==
  ASSUME TypeInv, DuplicateInv, NEW s \in Schedulers, SchedulerStep(s)
  PROVE  DuplicateInv'
<1> SUFFICES ASSUME NEW k \in Minutes PROVE Duplicates(k)'
  BY DEF DuplicateInv
<1>1. UNCHANGED <<worker, sends, takeovers>>
  BY DEF SchedulerStep, ReadDue, Queue, Lookup, Note, QueueFailed, SchedulerQuiet
<1>2. Open(outbox'[k]) => Open(outbox[k])
  <2>1. ASSUME NEW available, NEW status, NEW retryable, Upsert(s, available, status, retryable)
        PROVE  Open(outbox'[k]) => Open(outbox[k])
    BY <2>1, UpsertedOpen, NumbersLemma DEF Upsert, TypeInv, RowsInv
  <2>2. QED
    BY <2>1 DEF SchedulerStep, ReadDue, Queue, Lookup, Note, QueueFailed
<1>3. QED
  BY <1>1, <1>2, DuplicateRow DEF DuplicateInv

LEMMA DuplicateClaim ==
  ASSUME TypeInv, DuplicateInv, NEW w \in Workers, Claim(w)
  PROVE  DuplicateInv'
<1> SUFFICES ASSUME NEW k \in Minutes PROVE Duplicates(k)'
  BY DEF DuplicateInv
<1>1. PICK r : worker' = [worker EXCEPT ![w] = r] /\ WorkerFits(r) /\ Claiming(w, r)
  BY ClaimMoves
<1>2. Holds(r, k) <=> Claimable(k)
  BY <1>1, MinutesLemma DEF Claiming, Holds
<1>3. sends' = sends
  BY DEF Claim
<1>4. CASE ~Claimable(k)
  <2>1. outbox'[k] = outbox[k] /\ takeovers'[k] = takeovers[k]
    BY <1>4 DEF Claim
  <2>2. QED
    BY <1>1, <1>2, <1>3, <1>4, <2>1, DuplicateWorker DEF DuplicateInv
<1>5. CASE Claimable(k)
  <2>1. outbox'[k].status = "processing"
    BY <1>5, NumbersLemma DEF Claim, OutboxRows
  <2>2. takeovers'[k] = IF outbox[k].status = "processing" THEN takeovers[k] + 1 ELSE takeovers[k]
    BY <1>5 DEF Claim
  <2>3. /\ Cardinality(Holders(k)) \in Nat /\ Cardinality(Holders(k)') \in Nat
        /\ Cardinality(Holders(k)') <= Cardinality(Holders(k)) + 1
    BY <1>1, HoldersStep
  <2>4. outbox[k].status = "processing" \/ Open(outbox[k])
    BY <1>5 DEF Claimable, Open
  <2>5. Duplicates(k) /\ ~Open(outbox'[k])
    BY <2>1 DEF DuplicateInv, Open
  <2>6. QED
    BY <1>3, <2>2, <2>3, <2>4, <2>5, NumbersLemma DEF Duplicates, Bit, Open
<1>6. QED
  BY <1>4, <1>5

LEMMA DuplicateSend ==
  ASSUME TypeInv, DuplicateInv, NEW w \in Workers, Send(w)
  PROVE  DuplicateInv'
<1> SUFFICES ASSUME NEW k \in Minutes PROVE Duplicates(k)'
  BY DEF DuplicateInv
<1>1. PICK r : /\ worker' = [worker EXCEPT ![w] = r] /\ WorkerFits(r) /\ GoingOn(w, r)
               /\ worker[w].pc = "send"
               /\ SendSucceeds(r) \/ SendFails(r)
  BY SendMoves
<1>2. UNCHANGED <<outbox, takeovers>> /\ Duplicates(k)
  BY DEF Send, WorkerQuiet, DuplicateInv
<1>3. Holds(r, k) => Holds(worker[w], k)
  BY <1>1 DEF GoingOn, Holds
<1>4. CASE SendSucceeds(r) /\ r.key = k
  <2>1. Holds(worker[w], k) /\ ~Holds(r, k)
    BY <1>1, <1>4 DEF GoingOn, Holds, SendSucceeds, WorkerFits
  <2>2. /\ Cardinality(Holders(k)) \in Nat /\ Cardinality(Holders(k)') \in Nat
        /\ Cardinality(Holders(k)') = Cardinality(Holders(k)) - 1
    BY <1>1, <2>1, HoldersStep
  <2>3. sends'[k] = sends[k] + 1
    BY <1>4, MinutesLemma DEF SendSucceeds, TypeInv, CountInv
  <2>4. QED
    BY <1>2, <2>2, <2>3, NumbersLemma DEF Duplicates, Bit, Open
<1>5. CASE ~(SendSucceeds(r) /\ r.key = k)
  <2>1. sends'[k] = sends[k]
    BY <1>1, <1>5 DEF SendSucceeds, SendFails, TypeInv, CountInv
  <2>2. QED
    BY <1>1, <1>2, <1>3, <2>1, DuplicateWorker
<1>6. QED
  BY <1>4, <1>5

LEMMA DuplicateMark ==
  ASSUME TypeInv, DuplicateInv, NEW w \in Workers, Marking(w)
  PROVE  DuplicateInv'
<1> SUFFICES ASSUME NEW k \in Minutes PROVE Duplicates(k)'
  BY DEF DuplicateInv
<1>1. PICK from \in {"sent", "cancel", "fail", "resume", "settle"}, row \in OutboxRows :
        Mark(w, from, row) /\ (row.status = "sent" <=> from = "sent")
  BY MarkingCases
<1> DEFINE old == worker[w]
<1>2. WorkerFits(old) /\ old.pc = from /\ old.key \in Minutes
  BY <1>1, MarkMoves DEF TypeInv, WorkersInv, Mark
<1>3. worker' = [worker EXCEPT ![w] = Done(old)]
  BY <1>1, MarkMoves
<1>4. Holds(Done(old), k) <=> k \in old.todo
  BY <1>2, DoneLemma, MinutesLemma DEF Holds
<1>5. /\ sends'[k] = sends[k] /\ takeovers'[k] = takeovers[k] /\ Duplicates(k)
      /\ outbox'[k] = IF k = old.key THEN row ELSE outbox[k]
  BY <1>1, <1>2 DEF Mark, WorkerQuiet, DuplicateInv, TypeInv, RowsInv
<1> HIDE DEF old
<1>6. CASE k # old.key
  BY <1>3, <1>4, <1>5, <1>6, DuplicateWorker DEF Holds, old
<1>7. CASE k = old.key
  <2>1. ~Holds(Done(old), k)
    BY <1>2, <1>4, <1>7 DEF WorkerFits
  <2>2. /\ Cardinality(Holders(k)) \in Nat /\ Cardinality(Holders(k)') \in Nat
        /\ Cardinality(Holders(k)') <= Cardinality(Holders(k))
        /\ Holds(old, k) => Cardinality(Holders(k)') = Cardinality(Holders(k)) - 1
    BY <1>3, <2>1, HoldersStep DEF old
  <2>3. CASE from = "sent"
    <3>1. ~Open(outbox'[k])
      BY <1>1, <1>5, <1>7, <2>3 DEF Open
    <3>2. QED
      BY <1>5, <2>2, <3>1, NumbersLemma DEF Duplicates, Bit, Open
  <2>4. CASE from # "sent"
    <3>1. Holds(old, k)
      BY <1>2, <1>7, <2>4 DEF Holds
    <3>2. QED
      BY <1>5, <2>2, <3>1, NumbersLemma DEF Duplicates, Bit, Open
  <2>5. QED
    BY <2>3, <2>4
<1>8. QED
  BY <1>6, <1>7

LEMMA DuplicateQuiet ==
  ASSUME TypeInv, DuplicateInv, NEW w \in Workers, NEW r, worker' = [worker EXCEPT ![w] = r],
         \A k \in Minutes : Holds(r, k) => Holds(worker[w], k), UNCHANGED <<outbox, sends, takeovers>>
  PROVE  DuplicateInv'
BY DuplicateWorker DEF DuplicateInv

LEMMA DuplicateNext == ASSUME TypeInv, DuplicateInv, [Next]_vars PROVE DuplicateInv'
<1>1. CASE UNCHANGED <<outbox, worker, sends, takeovers>>
  BY <1>1, DuplicateRow DEF DuplicateInv
<1>2. ASSUME NEW w \in Workers, Load(w)
      PROVE  DuplicateInv'
  <2>1. PICK r : worker' = [worker EXCEPT ![w] = r] /\ WorkerFits(r) /\ Loading(w, r)
    BY <1>2, LoadMoves
  <2>2. \A k \in Minutes : Holds(r, k) => Holds(worker[w], k)
    BY <2>1 DEF Loading, Holds
  <2>3. QED
    BY <1>2, <2>1, <2>2, DuplicateQuiet DEF Load, WorkerQuiet
<1>3. ASSUME NEW w \in Workers, Noting(w)
      PROVE  DuplicateInv'
  <2>1. PICK r : /\ worker' = [worker EXCEPT ![w] = r] /\ WorkerFits(r)
                 /\ \/ r = Done(worker[w]) /\ worker[w].key = NoTime
                    \/ /\ GoingOn(w, r) /\ r.key # NoTime
                       /\ <<worker[w].pc, r.pc>> \in {<<"record", "sent">>, <<"noRecipient", "fail">>,
                                                      <<"defer", "resume">>, <<"error", "settle">>}
    BY <1>3, NotingMoves
  <2>2. \A k \in Minutes : Holds(r, k) => Holds(worker[w], k)
    BY <2>1, DoneLemma, MinutesLemma DEF GoingOn, Holds, TypeInv, WorkersInv
  <2>3. UNCHANGED <<outbox, sends, takeovers>>
    BY <1>3 DEF Noting, Record, NoteAttempt, WorkerQuiet
  <2>4. QED
    BY <2>1, <2>2, <2>3, DuplicateQuiet
<1>4. ASSUME NEW w \in Workers, Abandon(w)
      PROVE  DuplicateInv'
  BY <1>4, NobodyHolds, DuplicateQuiet DEF Abandon
<1>5. ASSUME NEW w \in Workers, SendNow(w)
      PROVE  DuplicateInv'
  <2>1. PICK r : worker' = [worker EXCEPT ![w] = r] /\ r.todo = {} /\ r.key = NoTime
    BY <1>5, SendNowMoves
  <2>2. \A k \in Minutes : ~Holds(r, k)
    BY <2>1, MinutesLemma DEF Holds
  <2>3. QED
    BY <1>5, <2>1, <2>2, DuplicateQuiet DEF SendNow
<1>6. ASSUME NEW j \in Minutes, Requeue(j)
      PROVE  DuplicateInv'
  <2>1. \A k \in Minutes : Open(outbox'[k]) => Open(outbox[k])
    BY <1>6 DEF Requeue, Open, TypeInv, RowsInv
  <2>2. QED
    BY <1>6, <2>1, DuplicateRow DEF Requeue, DuplicateInv
<1>7. CASE Edit \/ Reset \/ SwitchOff \/ SwitchOn \/ Tick
  BY <1>1, <1>7 DEF Edit, Reset, SwitchOff, SwitchOn, Tick
<1>8. ASSUME NEW w \in Workers, WorkerStep(w)
      PROVE  DuplicateInv'
  BY <1>2, <1>3, <1>8, DuplicateClaim, DuplicateSend, DuplicateMark DEF WorkerStep, Noting, Marking
<1>9. QED
  BY <1>1, <1>4, <1>5, <1>6, <1>7, <1>8, DuplicateScheduler DEF Next, vars

LEMMA DuplicateInductive == Spec => []DuplicateInv
<1>1. TypeInv /\ DuplicateInv /\ [Next]_vars => DuplicateInv'
  BY DuplicateNext
<1>2. QED
  BY <1>1, DuplicateInit, ReminderTypeInductive, PTL DEF Spec

\* A delivery is sent once, and once more for each time its claim was taken over:
\* late marks, requeues, dispatches, edits and upserts add no message of their own.
THEOREM DuplicatesAreTakeovers == Spec => []DuplicatesNeedTakeover
<1>1. TypeInv /\ DuplicateInv => DuplicatesNeedTakeover
  <2> SUFFICES ASSUME TypeInv, DuplicateInv, NEW k \in Minutes PROVE sends[k] <= 1 + takeovers[k]
    BY DEF DuplicatesNeedTakeover
  <2>1. Cardinality(Holders(k)) \in Nat
    BY FS_Subset, FS_CardinalityType, ReminderAssumption DEF Holders
  <2>2. QED
    BY <2>1, NumbersLemma DEF DuplicateInv, Duplicates, Bit
<1>2. QED
  BY <1>1, DuplicateInductive, ReminderTypeInductive, PTL
-----------------------------------------------------------------------------
(* A row that is marked sent stays so until its claim is taken over.         *)

\* The message of a row marked sent, and of a worker that goes on to record it, was sent.
SentRow(k)    == outbox[k].status = "sent" => sends[k] > 0
SentWorker(r) == r.key \in Minutes /\ r.pc \in {"record", "sent"} => sends[r.key] > 0

SentInv ==
  /\ \A k \in Minutes : SentRow(k)
  /\ \A w \in Workers : SentWorker(worker[w])

LEMMA SentInit == Init => SentInv
BY IdleLemma DEF Init, SentInv, SentRow, SentWorker, NoRow

\* Worker w goes on; rows that become sent have been.
LEMMA SentFrame ==
  ASSUME TypeInv, SentInv, NEW w \in Workers, NEW r, worker' = [worker EXCEPT ![w] = r],
         \A k \in Minutes : sends'[k] \in Nat /\ sends'[k] >= sends[k],
         SentWorker(r)',
         \A k \in Minutes : outbox'[k].status = "sent" => sends'[k] > 0
  PROVE  SentInv'
<1>1. \A v \in Workers : worker'[v] = IF v = w THEN r ELSE worker[v]
  BY DEF TypeInv, WorkersInv
<1>2. \A k \in Minutes : sends[k] \in Nat
  BY NumbersLemma
<1>3. ASSUME NEW v \in Workers
      PROVE  SentWorker(worker[v])'
  <2>1. CASE v = w
    BY <1>1, <2>1 DEF SentWorker
  <2>2. CASE v # w
    BY <1>1, <1>2, <2>2 DEF SentInv, SentWorker
  <2>3. QED
    BY <2>1, <2>2
<1>4. QED
  BY <1>3 DEF SentInv, SentRow

LEMMA SentRows ==
  ASSUME TypeInv, SentInv, UNCHANGED <<worker, sends>>,
         \A k \in Minutes : outbox'[k].status = "sent" => outbox[k].status = "sent"
  PROVE  SentInv'
BY DEF SentInv, SentRow, SentWorker

\* Rows and counters as they were, a worker that records nothing new
LEMMA SentQuiet ==
  ASSUME TypeInv, SentInv, NEW w \in Workers, NEW r, worker' = [worker EXCEPT ![w] = r],
         UNCHANGED sends, \A k \in Minutes : outbox'[k].status = "sent" => outbox[k].status = "sent",
         SentWorker(r)
  PROVE  SentInv'
<1>1. \A k \in Minutes : sends'[k] \in Nat /\ sends'[k] >= sends[k]
  BY NumbersLemma
<1>2. \A k \in Minutes : outbox'[k].status = "sent" => sends'[k] > 0
  BY DEF SentInv, SentRow
<1>3. SentWorker(r)'
  BY DEF SentWorker
<1>4. QED
  BY <1>1, <1>2, <1>3, SentFrame

\* The upsert makes no row sent, and leaves one that is.
LEMMA UpsertedSent ==
  ASSUME NEW row \in OutboxRows, NEW available, NEW status \in {"queued", "failed"}, NEW retryable, NEW force
  PROVE  Upserted(row, available, status, retryable, force).status = "sent" <=> row.status = "sent"
BY DEF Upserted, OutboxRows, NoRow

LEMMA SchedulerKeepsSent ==
  ASSUME TypeInv, NEW s \in Schedulers, SchedulerStep(s), NEW k \in Minutes
  PROVE  /\ outbox'[k].status = "sent" <=> outbox[k].status = "sent"
         /\ UNCHANGED <<worker, sends, takeovers>>
<1>1. ASSUME NEW available, NEW status \in {"queued", "failed"}, NEW retryable, Upsert(s, available, status, retryable)
      PROVE  outbox'[k].status = "sent" <=> outbox[k].status = "sent"
  <2>1. outbox'[k] = IF scheduler[s].anchor = k
                     THEN Upserted(outbox[k], available, status, retryable, scheduler[s].force)
                     ELSE outbox[k]
    BY <1>1 DEF Upsert, TypeInv, RowsInv
  <2>2. QED
    BY <2>1, UpsertedSent, NumbersLemma
<1>2. CASE Queue(s)
  BY <1>1, <1>2 DEF Queue, SchedulerQuiet
<1>3. CASE QueueFailed(s)
  BY <1>1, <1>3 DEF QueueFailed, SchedulerQuiet
<1>4. CASE Lookup(s) \/ Note(s) \/ \E force \in BOOLEAN : ReadDue(s, force)
  BY <1>4 DEF ReadDue, Lookup, Note, SchedulerQuiet
<1>5. QED
  BY <1>2, <1>3, <1>4 DEF SchedulerStep

LEMMA SentClaim == ASSUME TypeInv, SentInv, NEW w \in Workers, Claim(w) PROVE SentInv'
<1>1. PICK r : worker' = [worker EXCEPT ![w] = r] /\ WorkerFits(r) /\ Claiming(w, r)
  BY ClaimMoves
<1>2. \A k \in Minutes : outbox'[k].status = "sent" => outbox[k].status = "sent"
  BY NumbersLemma DEF Claim, OutboxRows
<1>3. SentWorker(r)
  BY <1>1 DEF Claiming, SentWorker
<1>4. QED
  BY <1>1, <1>2, <1>3, SentQuiet DEF Claim

LEMMA SentSend == ASSUME TypeInv, SentInv, NEW w \in Workers, Send(w) PROVE SentInv'
<1>1. PICK r : /\ worker' = [worker EXCEPT ![w] = r] /\ WorkerFits(r) /\ GoingOn(w, r)
               /\ worker[w].pc = "send"
               /\ SendSucceeds(r) \/ SendFails(r)
  BY SendMoves
<1>2. outbox' = outbox
  BY DEF Send
<1>3. CASE SendFails(r) \/ r.key \notin Minutes
  <2>1. sends' = sends
    BY <1>1, <1>3, WorkerFields DEF SendSucceeds, SendFails, WorkerFits
  <2>2. SentWorker(r)
    BY <1>3 DEF SentWorker, SendFails
  <2>3. QED
    BY <1>1, <1>2, <2>1, <2>2, SentQuiet
<1>4. CASE SendSucceeds(r) /\ r.key \in Minutes
  <2>1. sends' = [sends EXCEPT ![r.key] = @ + 1]
    BY <1>4, MinutesLemma DEF SendSucceeds
  <2>2. \A k \in Minutes : sends'[k] = IF k = r.key THEN sends[k] + 1 ELSE sends[k]
    BY <2>1 DEF TypeInv, CountInv
  <2>3. \A k \in Minutes : sends'[k] \in Nat /\ sends'[k] >= sends[k]
    BY <2>2, NumbersLemma
  <2>4. SentWorker(r)'
    BY <1>4, <2>2, NumbersLemma DEF SentWorker
  <2>5. \A k \in Minutes : outbox'[k].status = "sent" => sends'[k] > 0
    BY <1>2, <2>3, NumbersLemma DEF SentInv, SentRow
  <2>6. QED
    BY <1>1, <2>3, <2>4, <2>5, SentFrame
<1>5. QED
  BY <1>1, <1>3, <1>4

LEMMA SentMark == ASSUME TypeInv, SentInv, NEW w \in Workers, Marking(w) PROVE SentInv'
<1>1. PICK from \in {"sent", "cancel", "fail", "resume", "settle"}, row \in OutboxRows :
        Mark(w, from, row) /\ (row.status = "sent" <=> from = "sent")
  BY MarkingCases
<1>2. PICK r : r = Done(worker[w])
  OBVIOUS
<1>3. PICK k \in Minutes : k = worker[w].key
  BY <1>1, MarkMoves
<1>4. WorkerFits(worker[w]) /\ worker[w].pc = from /\ worker' = [worker EXCEPT ![w] = r]
  BY <1>1, <1>2, MarkMoves DEF TypeInv, WorkersInv, Mark
<1>5. sends' = sends /\ \A j \in Minutes : outbox'[j] = IF j = k THEN row ELSE outbox[j]
  BY <1>1, <1>3 DEF Mark, TypeInv, RowsInv
<1>6. from = "sent" => sends[k] > 0
  BY <1>3, <1>4 DEF SentInv, SentWorker
<1>7. r.key = NoTime
  BY <1>2, <1>4, DoneLemma
<1>8. SentWorker(r)'
  BY <1>7, MinutesLemma DEF SentWorker
<1>9. \A j \in Minutes : outbox'[j].status = "sent" => sends'[j] > 0
  BY <1>1, <1>5, <1>6 DEF SentInv, SentRow
<1>10. \A j \in Minutes : sends'[j] \in Nat /\ sends'[j] >= sends[j]
  BY <1>5, NumbersLemma
<1>11. QED
  BY <1>4, <1>8, <1>9, <1>10, SentFrame

LEMMA SentNext == ASSUME TypeInv, SentInv, [Next]_vars PROVE SentInv'
<1>1. CASE UNCHANGED <<outbox, worker, sends>>
  BY <1>1, SentRows
<1>2. ASSUME NEW w \in Workers, Load(w)
      PROVE  SentInv'
  <2>1. PICK r : worker' = [worker EXCEPT ![w] = r] /\ WorkerFits(r) /\ Loading(w, r)
    BY <1>2, LoadMoves
  <2>2. SentWorker(r)
    BY <2>1 DEF Loading, SentWorker
  <2>3. QED
    BY <1>2, <2>1, <2>2, SentQuiet DEF Load, WorkerQuiet
<1>3. ASSUME NEW w \in Workers, Noting(w)
      PROVE  SentInv'
  <2>1. PICK r : /\ worker' = [worker EXCEPT ![w] = r] /\ WorkerFits(r)
                 /\ \/ r = Done(worker[w]) /\ worker[w].key = NoTime
                    \/ /\ GoingOn(w, r) /\ r.key # NoTime
                       /\ <<worker[w].pc, r.pc>> \in {<<"record", "sent">>, <<"noRecipient", "fail">>,
                                                      <<"defer", "resume">>, <<"error", "settle">>}
    BY <1>3, NotingMoves
  <2>2. SentWorker(worker[w]) /\ WorkerFits(worker[w])
    BY DEF SentInv, TypeInv, WorkersInv
  <2>3. CASE r = Done(worker[w])
    BY <1>3, <2>1, <2>2, <2>3, DoneLemma, MinutesLemma, SentQuiet
       DEF SentWorker, Noting, Record, NoteAttempt, WorkerQuiet
  <2>4. CASE GoingOn(w, r) /\ <<worker[w].pc, r.pc>> \in {<<"record", "sent">>, <<"noRecipient", "fail">>,
                                                           <<"defer", "resume">>, <<"error", "settle">>}
    <3>1. SentWorker(r)
      BY <2>2, <2>4 DEF GoingOn, SentWorker
    <3>2. UNCHANGED <<outbox, sends>>
      BY <1>3 DEF Noting, Record, NoteAttempt
    <3>3. QED
      BY <2>1, <3>1, <3>2, SentQuiet
  <2>5. QED
    BY <2>1, <2>3, <2>4
<1>4. ASSUME NEW w \in Workers, Abandon(w)
      PROVE  SentInv'
  BY <1>4, IdleLemma, SentQuiet DEF Abandon, SentWorker
<1>5. ASSUME NEW w \in Workers, SendNow(w)
      PROVE  SentInv'
  <2>1. PICK r : worker' = [worker EXCEPT ![w] = r] /\ r.key = NoTime
    BY <1>5, SendNowMoves
  <2>2. SentWorker(r)
    BY <2>1, MinutesLemma DEF SentWorker
  <2>3. QED
    BY <1>5, <2>1, <2>2, SentQuiet DEF SendNow
<1>6. ASSUME NEW j \in Minutes, Requeue(j)
      PROVE  SentInv'
  <2>1. \A k \in Minutes : outbox'[k].status = "sent" => outbox[k].status = "sent"
    BY <1>6, NumbersLemma DEF Requeue, TypeInv, RowsInv, OutboxRows
  <2>2. QED
    BY <1>6, <2>1, SentRows DEF Requeue
<1>7. CASE Edit \/ Reset \/ SwitchOff \/ SwitchOn \/ Tick
  BY <1>1, <1>7 DEF Edit, Reset, SwitchOff, SwitchOn, Tick
<1>8. ASSUME NEW w \in Workers, WorkerStep(w)
      PROVE  SentInv'
  BY <1>2, <1>3, <1>8, SentClaim, SentSend, SentMark DEF WorkerStep, Noting, Marking
<1>9. ASSUME NEW s \in Schedulers, SchedulerStep(s)
      PROVE  SentInv'
  <2>1. UNCHANGED <<worker, sends>>
    BY <1>9 DEF SchedulerStep, ReadDue, Queue, Lookup, Note, QueueFailed, SchedulerQuiet
  <2>2. QED
    BY <1>9, <2>1, SchedulerKeepsSent, SentRows
<1>10. QED
  BY <1>1, <1>4, <1>5, <1>6, <1>7, <1>8, <1>9 DEF Next, vars

\* The row at hand of a late worker had a second claim.
LEMMA UnsentByMark ==
  ASSUME TypeInv, DuplicateInv, SentInv, NEW w \in Workers, Marking(w),
         NEW k \in Minutes, outbox[k].status = "sent", outbox'[k].status # "sent"
  PROVE  takeovers[k] > 0
<1>1. PICK from \in {"sent", "cancel", "fail", "resume", "settle"}, row \in OutboxRows :
        Mark(w, from, row) /\ (row.status = "sent" <=> from = "sent")
  BY MarkingCases
<1>2. k = worker[w].key /\ from # "sent" /\ worker[w].pc = from
  BY <1>1, MarkMoves DEF Mark, TypeInv, RowsInv
<1>3. w \in Holders(k)
  BY <1>1, <1>2 DEF Holders, Holds
<1>4. IsFiniteSet(Holders(k)) /\ Cardinality(Holders(k)) \in Nat
  BY FS_Subset, FS_CardinalityType, ReminderAssumption DEF Holders
<1>5. Cardinality(Holders(k)) # 0
  BY <1>3, <1>4, FS_EmptySet
<1>6. sends[k] > 0 /\ Duplicates(k)
  BY DEF SentInv, SentRow, DuplicateInv
<1>7. QED
  BY <1>4, <1>5, <1>6, NumbersLemma DEF Duplicates, Bit

LEMMA SentStep ==
  ASSUME TypeInv, DuplicateInv, SentInv, Next, NEW k \in Minutes,
         outbox[k].status = "sent", outbox'[k].status # "sent"
  PROVE  takeovers[k] > 0
<1>1. ASSUME NEW s \in Schedulers, SchedulerStep(s)
      PROVE  FALSE
  BY <1>1, SchedulerKeepsSent
<1>2. ASSUME NEW w \in Workers, Claim(w)
      PROVE  FALSE
  BY <1>2 DEF Claim, Claimable
<1>3. ASSUME NEW j \in Minutes, Requeue(j)
      PROVE  FALSE
  BY <1>3 DEF Requeue, TypeInv, RowsInv
<1>4. outbox' # outbox
  OBVIOUS
<1>5. ASSUME NEW w \in Workers, Load(w) \/ Send(w) \/ Noting(w) \/ Abandon(w) \/ SendNow(w)
      PROVE  FALSE
  BY <1>4, <1>5 DEF Load, Send, Noting, Record, NoteAttempt, Abandon, SendNow
<1>6. ~(Edit \/ Reset \/ SwitchOff \/ SwitchOn \/ Tick)
  BY <1>4 DEF Edit, Reset, SwitchOff, SwitchOn, Tick
<1>7. QED
  BY <1>1, <1>2, <1>3, <1>5, <1>6, UnsentByMark DEF Next, WorkerStep, Noting, Marking

\* A row leaves status sent only after its claim had been taken over: only then is
\* there a second worker whose mark can overwrite it.
THEOREM SentRowsStaySent == Spec => SentIsFinal
<1>1. TypeInv /\ SentInv /\ [Next]_vars => SentInv'
  BY SentNext
<1>2. TypeInv /\ DuplicateInv /\ SentInv /\ [Next]_vars =>
        [\A k \in Minutes : outbox[k].status = "sent" /\ outbox'[k].status # "sent" => takeovers[k] > 0]_vars
  BY SentStep
<1>3. QED
  BY <1>1, <1>2, SentInit, DuplicateInductive, ReminderTypeInductive, PTL DEF Spec, SentIsFinal

-----------------------------------------------------------------------------
(* A delivery fails at most max_attempts times, and once more for each       *)
(* takeover and each intervention of the operator.                           *)

\* The row will, or may again, be claimed without a takeover or an operator.
Free(row) == row.status \notin {"processing", "sent", "failed"}

\* The attempts that a row with so many claims has been granted, its first one aside
Granted(n) == SmallerOf(n, MaxAttempts - 1)

\* Failures that happened and those that can still happen without a further claim:
\* an undecided worker may fail, one below the limit may send the row back to the
\* queue, and an operator's dispatch may do so too.
Budgeted(k) ==
  fails[k] + Cardinality(Undecideds(k)) + Cardinality(Repeaters(k)) + Bit(Free(outbox[k]))
    + Cardinality(Forcing(k)) <= 1 + Granted(outbox[k].attempts) + takeovers[k] + budget.requeues

RowFits(row) == (row.status = "failed" => ~row.retryable) /\ (row.status = "none" => row.attempts = 0)

BudgetInv == \A k \in Minutes : Budgeted(k) /\ RowFits(outbox[k])

LEMMA GrantedLemma ==
  ASSUME NEW n \in Nat
  PROVE  /\ Granted(n) \in Nat /\ Granted(n) <= MaxAttempts - 1 /\ MaxAttempts - 1 \in Nat
         /\ Granted(n + 1) = Granted(n) + Bit(n + 1 < MaxAttempts)
BY ReminderAssumption DEF Granted, SmallerOf, Bit

LEMMA BitLemma == \A p \in BOOLEAN : Bit(p) \in {0, 1} /\ Bit(p) \in Nat
BY DEF Bit

LEMMA FreeLemma ==
  ASSUME NEW row
  PROVE  Bit(Free(row)) \in {0, 1} /\ Bit(Free(row)) \in Nat
BY DEF Bit, Free

LEMMA SizesLemma ==
  ASSUME NEW k \in Minutes
  PROVE  /\ Cardinality(Undecideds(k)) \in Nat /\ Cardinality(Repeaters(k)) \in Nat
         /\ Cardinality(Forcing(k)) \in Nat
<1>1. Undecideds(k) \subseteq Workers /\ Repeaters(k) \subseteq Workers /\ Forcing(k) \subseteq Schedulers
  BY DEF Undecideds, Repeaters, Forcing
<1>2. QED
  BY <1>1, FS_Subset, FS_CardinalityType, ReminderAssumption

LEMMA BudgetInit == Init => BudgetInv
<1> SUFFICES ASSUME Init, NEW k \in Minutes PROVE Budgeted(k) /\ RowFits(outbox[k])
  BY DEF BudgetInv
<1>1. Undecideds(k) = {} /\ Repeaters(k) = {}
  BY NobodyHolds DEF Init, Undecideds, Repeaters
<1>2. Forcing(k) = {}
  BY DEF Init, Forcing, IdleScheduler
<1>3. Cardinality(Undecideds(k)) = 0 /\ Cardinality(Repeaters(k)) = 0 /\ Cardinality(Forcing(k)) = 0
  BY <1>1, <1>2, FS_EmptySet
<1>4. fails[k] = 0 /\ takeovers[k] = 0 /\ budget.requeues = 0 /\ outbox[k] = NoRow
  BY DEF Init
<1>5. Granted(outbox[k].attempts) \in Nat /\ Bit(Free(outbox[k])) \in {0, 1} /\ RowFits(outbox[k])
  BY <1>4, GrantedLemma, FreeLemma DEF NoRow, RowFits
<1>6. QED
  BY <1>3, <1>4, <1>5 DEF Budgeted

\* A worker goes on with the rows it has, or with fewer.
LEMMA BudgetWorker ==
  ASSUME TypeInv, NEW w \in Workers, NEW r, worker' = [worker EXCEPT ![w] = r], NEW k \in Minutes, Budgeted(k),
         Undecided(r, k) => Undecided(worker[w], k), MayRepeat(r, k) => MayRepeat(worker[w], k),
         UNCHANGED scheduler, outbox'[k] = outbox[k], fails'[k] = fails[k], takeovers'[k] = takeovers[k],
         budget'.requeues = budget.requeues
  PROVE  Budgeted(k)'
<1>1. /\ Cardinality(Undecideds(k)') <= Cardinality(Undecideds(k)) /\ Cardinality(Undecideds(k)') \in Nat
      /\ Cardinality(Repeaters(k)') <= Cardinality(Repeaters(k)) /\ Cardinality(Repeaters(k)') \in Nat
  BY UndecidedsStep, RepeatersStep
<1>2. Forcing(k)' = Forcing(k)
  BY DEF Forcing
<1>3. /\ fails[k] \in Nat /\ takeovers[k] \in Nat /\ budget.requeues \in Nat /\ Granted(outbox[k].attempts) \in Nat
      /\ Bit(Free(outbox[k])) \in Nat
  BY NumbersLemma, SpendLemma, GrantedLemma, FreeLemma DEF TypeInv
<1>4. Granted(outbox[k].attempts)' = Granted(outbox[k].attempts) /\ Bit(Free(outbox[k]))' = Bit(Free(outbox[k]))
  BY DEF Granted, SmallerOf, Bit, Free
<1>5. QED
  BY <1>1, <1>2, <1>3, <1>4, SizesLemma DEF Budgeted

\* The row changes; what it gains was paid for.
LEMMA BudgetRow ==
  ASSUME TypeInv, NEW k \in Minutes, Budgeted(k), UNCHANGED <<worker, fails, takeovers>>,
         Cardinality(Forcing(k)') \in Nat, budget'.requeues \in Nat, outbox'[k].attempts = outbox[k].attempts,
         Bit(Free(outbox'[k])) + Cardinality(Forcing(k)') + budget.requeues
           <= Bit(Free(outbox[k])) + Cardinality(Forcing(k)) + budget'.requeues
  PROVE  Budgeted(k)'
<1>1. Undecideds(k)' = Undecideds(k) /\ Repeaters(k)' = Repeaters(k)
  BY DEF Undecideds, Repeaters
<1>2. /\ fails[k] \in Nat /\ takeovers[k] \in Nat /\ budget.requeues \in Nat /\ Granted(outbox[k].attempts) \in Nat
      /\ Bit(Free(outbox[k])) \in Nat /\ Bit(Free(outbox'[k])) \in Nat
  BY NumbersLemma, SpendLemma, GrantedLemma, FreeLemma DEF TypeInv
<1>3. Granted(outbox[k].attempts)' = Granted(outbox[k].attempts) /\ Bit(Free(outbox[k]))' = Bit(Free(outbox'[k]))
  BY DEF Granted, SmallerOf, Bit, Free
<1>4. QED
  BY <1>1, <1>2, <1>3, SizesLemma DEF Budgeted

\* How a step of scheduler s changes the number of dispatches under way.
LEMMA ForcingStep ==
  ASSUME TypeInv, NEW s \in Schedulers, NEW q, scheduler' = [scheduler EXCEPT ![s] = q], NEW k \in Minutes
  PROVE  /\ Cardinality(Forcing(k)) \in Nat /\ Cardinality(Forcing(k)') \in Nat
         /\ Cardinality(Forcing(k)') <= Cardinality(Forcing(k)) + 1
         /\ (q.force /\ q.anchor = k => s \in Forcing(k)) => Cardinality(Forcing(k)') <= Cardinality(Forcing(k))
         /\ s \in Forcing(k) /\ ~q.force => Cardinality(Forcing(k)') = Cardinality(Forcing(k)) - 1
<1>1. \A t \in Schedulers : scheduler'[t] = IF t = s THEN q ELSE scheduler[t]
  BY DEF TypeInv, ClockInv
<1>2. s \in Forcing(k)' <=> q.force /\ q.anchor = k
  BY <1>1 DEF Forcing
<1>3. \A t \in Schedulers : t # s => (t \in Forcing(k) <=> t \in Forcing(k)')
  BY <1>1 DEF Forcing
<1>4. Forcing(k) \in SUBSET Schedulers /\ Forcing(k)' \in SUBSET Schedulers /\ IsFiniteSet(Schedulers)
  BY ReminderAssumption DEF Forcing
<1>5. QED
  BY <1>2, <1>3, <1>4, CountLemma

\* A dispatch grants the row one more claim at most, any other upsert none.
LEMMA UpsertedBudget ==
  ASSUME NEW row \in OutboxRows, RowFits(row), NEW available, NEW status \in {"queued", "failed"},
         NEW retryable \in BOOLEAN, status = "failed" => ~retryable, NEW force \in BOOLEAN
  PROVE  LET new == Upserted(row, available, status, retryable, force)
         IN  /\ RowFits(new) /\ new.attempts = row.attempts
             /\ Bit(Free(new)) <= Bit(Free(row)) + Bit(force)
<1>1. PICK new : new = Upserted(row, available, status, retryable, force)
  OBVIOUS
<1>2. CASE row.status = "none"
  <2>1. new.status = status /\ new.retryable = retryable /\ new.attempts = 0
    BY <1>1, <1>2 DEF Upserted, NoRow
  <2>2. RowFits(new) /\ new.attempts = row.attempts /\ Free(row)
    BY <1>2, <2>1 DEF RowFits, Free
  <2>3. QED
    BY <1>1, <2>2 DEF Bit
<1>3. CASE row.status \in {"processing", "sent"}
  <2>1. new.status = row.status /\ new.attempts = row.attempts
    BY <1>1, <1>3 DEF Upserted, OutboxRows
  <2>2. RowFits(new) /\ (Free(new) <=> Free(row))
    BY <1>3, <2>1 DEF RowFits, Free
  <2>3. QED
    BY <1>1, <2>1, <2>2 DEF Bit
<1>4. CASE row.status = "failed" /\ ~force
  <2>1. new = row
    BY <1>1, <1>4 DEF Upserted, RowFits
  <2>2. QED
    BY <1>1, <2>1 DEF Bit
<1>5. CASE row.status \in {"queued", "cancelled"} \/ (row.status = "failed" /\ force)
  <2>1. new = [row EXCEPT !.status = "queued", !.available = SmallerOf(available, @), !.retryable = retryable]
    BY <1>1, <1>5 DEF Upserted
  <2>2. new.status = "queued" /\ new.attempts = row.attempts
    BY <2>1 DEF OutboxRows
  <2>3. RowFits(new) /\ (Free(row) \/ force)
    BY <1>5, <2>2 DEF RowFits, Free
  <2>4. QED
    BY <1>1, <2>2, <2>3 DEF Bit
<1>6. QED
  BY <1>2, <1>3, <1>4, <1>5 DEF OutboxRows

\* A scheduler is done with the row it read, which it may have queued.
LEMMA BudgetUpsert ==
  ASSUME TypeInv, BudgetInv, NEW s \in Schedulers, scheduler' = [scheduler EXCEPT ![s] = IdleScheduler],
         UNCHANGED <<worker, fails, takeovers, budget>>,
         NEW available, NEW status \in {"queued", "failed"}, NEW retryable \in BOOLEAN,
         status = "failed" => ~retryable,
         UNCHANGED outbox \/ Upsert(s, available, status, retryable)
  PROVE  BudgetInv'
<1> SUFFICES ASSUME NEW k \in Minutes PROVE Budgeted(k)' /\ RowFits(outbox'[k])
  BY DEF BudgetInv
<1>1. PICK f \in BOOLEAN : f = scheduler[s].force
  BY DEF TypeInv, ClockInv, SchedulerStates
<1>2. /\ Cardinality(Forcing(k)) \in Nat /\ Cardinality(Forcing(k)') \in Nat
      /\ Cardinality(Forcing(k)') <= Cardinality(Forcing(k))
      /\ s \in Forcing(k) => Cardinality(Forcing(k)') = Cardinality(Forcing(k)) - 1
  <2>1. PICK q : q = IdleScheduler
    OBVIOUS
  <2>2. ~q.force
    BY <2>1 DEF IdleScheduler
  <2>3. QED
    BY <2>1, <2>2, ForcingStep
<1>3. outbox[k] \in OutboxRows /\ RowFits(outbox[k]) /\ Budgeted(k) /\ budget.requeues \in Nat
  BY NumbersLemma, SpendLemma DEF BudgetInv, TypeInv
<1>4. Bit(Free(outbox[k])) \in Nat /\ Bit(Free(outbox'[k])) \in Nat
  BY FreeLemma
<1>5. CASE outbox'[k] = outbox[k]
  BY <1>2, <1>3, <1>4, <1>5, BudgetRow
<1>6. CASE outbox'[k] # outbox[k]
  <2>1. scheduler[s].anchor = k /\ outbox'[k] = Upserted(outbox[k], available, status, retryable, f)
    BY <1>1, <1>6 DEF Upsert, TypeInv, RowsInv
  <2>2. /\ RowFits(outbox'[k]) /\ outbox'[k].attempts = outbox[k].attempts
        /\ Bit(Free(outbox'[k])) <= Bit(Free(outbox[k])) + Bit(f)
    BY <1>3, <2>1, UpsertedBudget
  <2>3. f => s \in Forcing(k)
    BY <1>1, <2>1 DEF Forcing
  <2>4. f => Bit(f) = 1
    BY DEF Bit
  <2>5. ~f => Bit(f) = 0
    BY DEF Bit
  <2>6. Bit(Free(outbox'[k])) + Cardinality(Forcing(k)') <= Bit(Free(outbox[k])) + Cardinality(Forcing(k))
    BY <1>2, <1>4, <2>2, <2>3, <2>4, <2>5
  <2>7. QED
    BY <1>2, <1>3, <1>4, <2>2, <2>6, BudgetRow
<1>7. QED
  BY <1>5, <1>6

LEMMA BudgetReadDue ==
  ASSUME TypeInv, BudgetInv, NEW s \in Schedulers, NEW force \in BOOLEAN, ReadDue(s, force)
  PROVE  BudgetInv'
<1> SUFFICES ASSUME NEW k \in Minutes PROVE Budgeted(k)' /\ RowFits(outbox'[k])
  BY DEF BudgetInv
<1>1. PICK q : scheduler' = [scheduler EXCEPT ![s] = q] /\ q.force = force
  <2>1. PICK pc \in {"queue", "lookup"} :
          scheduler' = [scheduler EXCEPT ![s] = [pc |-> pc, anchor |-> Anchor, sentAt |-> task.sentAt, force |-> force]]
    BY DEF ReadDue
  <2>2. [pc |-> pc, anchor |-> Anchor, sentAt |-> task.sentAt, force |-> force].force = force
    OBVIOUS
  <2>3. QED
    BY <2>1, <2>2
<1>2. /\ Cardinality(Forcing(k)) \in Nat /\ Cardinality(Forcing(k)') \in Nat
      /\ Cardinality(Forcing(k)') <= Cardinality(Forcing(k)) + 1
      /\ ~force => Cardinality(Forcing(k)') <= Cardinality(Forcing(k))
  BY <1>1, ForcingStep
<1>3. /\ budget.requeues \in Nat
      /\ force => budget'.requeues = budget.requeues + 1
      /\ ~force => budget'.requeues = budget.requeues
  BY SpendLemma DEF ReadDue, TypeInv
<1>4. UNCHANGED <<outbox, worker, fails, takeovers>>
  BY DEF ReadDue, SchedulerQuiet
<1>5. Budgeted(k) /\ RowFits(outbox[k]) /\ Bit(Free(outbox[k])) \in Nat
  BY FreeLemma DEF BudgetInv
<1>6. QED
  BY <1>2, <1>3, <1>4, <1>5, BudgetRow

\* A scheduler looks up or notes; it dispatches no row that it did not before.
LEMMA BudgetLook ==
  ASSUME TypeInv, BudgetInv, NEW s \in Schedulers, Lookup(s) \/ Note(s)
  PROVE  BudgetInv'
<1> SUFFICES ASSUME NEW k \in Minutes PROVE Budgeted(k)' /\ RowFits(outbox'[k])
  BY DEF BudgetInv
<1>1. PICK old : old = scheduler[s]
  OBVIOUS
<1>2. old \in SchedulerStates
  BY <1>1 DEF TypeInv, ClockInv
<1>3. PICK q \in {IdleScheduler, [old EXCEPT !.pc = "note"], [old EXCEPT !.pc = "fail"]} :
        scheduler' = [scheduler EXCEPT ![s] = q]
  BY <1>1 DEF Lookup, Note
<1>4. q.force => old.force /\ q.anchor = old.anchor
  BY <1>2, <1>3 DEF SchedulerStates, IdleScheduler
<1>5. q.force /\ q.anchor = k => s \in Forcing(k)
  BY <1>1, <1>4 DEF Forcing
<1>6. /\ Cardinality(Forcing(k)) \in Nat /\ Cardinality(Forcing(k)') \in Nat
      /\ Cardinality(Forcing(k)') <= Cardinality(Forcing(k))
  BY <1>3, <1>5, ForcingStep
<1>7. UNCHANGED <<outbox, worker, fails, takeovers, budget>>
  BY DEF Lookup, Note, SchedulerQuiet
<1>8. Budgeted(k) /\ RowFits(outbox[k]) /\ Bit(Free(outbox[k])) \in Nat /\ budget.requeues \in Nat
  BY FreeLemma, SpendLemma DEF BudgetInv, TypeInv
<1>9. QED
  BY <1>6, <1>7, <1>8, BudgetRow

LEMMA BudgetScheduler ==
  ASSUME TypeInv, BudgetInv, NEW s \in Schedulers, SchedulerStep(s)
  PROVE  BudgetInv'
<1>1. CASE Queue(s)
  BY <1>1, BudgetUpsert DEF Queue, SchedulerQuiet
<1>2. CASE QueueFailed(s)
  BY <1>2, BudgetUpsert DEF QueueFailed, SchedulerQuiet
<1>3. QED
  BY <1>1, <1>2, BudgetReadDue, BudgetLook DEF SchedulerStep

\* A claim grants the row an attempt, which its worker may use once or, below the
\* limit, twice: to fail and to send it back.
LEMMA BudgetClaim ==
  ASSUME TypeInv, BudgetInv, NEW w \in Workers, Claim(w)
  PROVE  BudgetInv'
<1> SUFFICES ASSUME NEW k \in Minutes PROVE Budgeted(k)' /\ RowFits(outbox'[k])
  BY DEF BudgetInv
<1>1. PICK r : worker' = [worker EXCEPT ![w] = r] /\ WorkerFits(r) /\ Claiming(w, r)
  BY ClaimMoves
<1>2. Budgeted(k) /\ RowFits(outbox[k]) /\ outbox[k] \in OutboxRows /\ outbox[k].attempts \in Nat
      /\ UNCHANGED <<fails, scheduler, budget>>
  BY NumbersLemma DEF BudgetInv, Claim
<1>3. k \in r.todo <=> Claimable(k)
  BY <1>1 DEF Claiming
<1>4. CASE ~Claimable(k)
  <2>1. outbox'[k] = outbox[k] /\ takeovers'[k] = takeovers[k]
    BY <1>4 DEF Claim
  <2>2. ~Undecided(r, k) /\ ~MayRepeat(r, k)
    BY <1>1, <1>3, <1>4, MinutesLemma DEF Claiming, Undecided, MayRepeat, Holds
  <2>3. QED
    BY <1>1, <1>2, <2>1, <2>2, BudgetWorker
<1>5. CASE Claimable(k)
  <2>1. outbox'[k] = [outbox[k] EXCEPT !.status = "processing", !.claimed = now, !.attempts = @ + 1]
    BY <1>5 DEF Claim
  <2>2. outbox'[k].status = "processing" /\ outbox'[k].attempts = outbox[k].attempts + 1
    BY <1>2, <2>1 DEF OutboxRows
  <2>3. takeovers'[k] = IF outbox[k].status = "processing" THEN takeovers[k] + 1 ELSE takeovers[k]
    BY <1>5 DEF Claim
  <2>4. outbox[k].status \in {"queued", "processing"}
    BY <1>5 DEF Claimable
  <2>5. Bit(Free(outbox'[k])) = 0 /\ Bit(Free(outbox[k])) \in Nat
        /\ (outbox[k].status = "queued" => Bit(Free(outbox[k])) = 1)
    BY <2>2 DEF Bit, Free
  <2>6. /\ Cardinality(Undecideds(k)) \in Nat /\ Cardinality(Undecideds(k)') \in Nat
        /\ Cardinality(Undecideds(k)') <= Cardinality(Undecideds(k)) + 1
        /\ Cardinality(Repeaters(k)) \in Nat /\ Cardinality(Repeaters(k)') \in Nat
        /\ Cardinality(Repeaters(k)') <= Cardinality(Repeaters(k)) + 1
        /\ ~MayRepeat(r, k) => Cardinality(Repeaters(k)') <= Cardinality(Repeaters(k))
    BY <1>1, UndecidedsStep, RepeatersStep
  <2>7. MayRepeat(r, k) <=> outbox[k].attempts + 1 < MaxAttempts
    BY <1>1, <1>3, <1>5 DEF Claiming, MayRepeat, Holds
  <2>8. PICK b \in {0, 1} : b = Bit(outbox[k].attempts + 1 < MaxAttempts)
    BY DEF Bit
  <2>9. Cardinality(Repeaters(k)') <= Cardinality(Repeaters(k)) + b
    BY <2>6, <2>7, <2>8 DEF Bit
  <2>10. /\ Granted(outbox'[k].attempts) = Granted(outbox[k].attempts) + b
         /\ Granted(outbox[k].attempts) \in Nat
    BY <1>2, <2>2, <2>8, GrantedLemma
  <2>11. Forcing(k)' = Forcing(k) /\ Cardinality(Forcing(k)) \in Nat
    BY <1>2, SizesLemma DEF Forcing
  <2>12. budget.requeues \in Nat /\ fails[k] \in Nat /\ takeovers[k] \in Nat
    BY NumbersLemma, SpendLemma DEF TypeInv
  <2>13. takeovers'[k] + Bit(Free(outbox[k])) >= takeovers[k] + 1
    BY <2>3, <2>4, <2>5, <2>12
  <2>14. takeovers'[k] \in Nat
    BY <2>3, <2>12
  <2>15. Granted(outbox[k].attempts)' = Granted(outbox'[k].attempts) /\ Bit(Free(outbox[k]))' = 0
    BY <2>5 DEF Granted, SmallerOf, Bit, Free
  <2>16. fails'[k] + Cardinality(Undecideds(k)') + Cardinality(Repeaters(k)') + 0 + Cardinality(Forcing(k)')
           <= 1 + Granted(outbox'[k].attempts) + takeovers'[k] + budget'.requeues
    <3>1. fails[k] + Cardinality(Undecideds(k)) + Cardinality(Repeaters(k)) + Bit(Free(outbox[k]))
            + Cardinality(Forcing(k)) <= 1 + Granted(outbox[k].attempts) + takeovers[k] + budget.requeues
      BY <1>2 DEF Budgeted
    <3>2. fails'[k] = fails[k] /\ budget'.requeues = budget.requeues
      BY <1>2
    <3>3. QED
      BY <2>5, <2>6, <2>8, <2>9, <2>10, <2>11, <2>12, <2>13, <2>14, <3>1, <3>2
  <2>17. Budgeted(k)'
    BY <2>15, <2>16 DEF Budgeted
  <2>18. RowFits(outbox'[k])
    BY <2>2 DEF RowFits
  <2>19. QED
    BY <2>17, <2>18
<1>6. QED
  BY <1>4, <1>5

LEMMA BudgetSend ==
  ASSUME TypeInv, BudgetInv, NEW w \in Workers, Send(w)
  PROVE  BudgetInv'
<1> SUFFICES ASSUME NEW k \in Minutes PROVE Budgeted(k)' /\ RowFits(outbox'[k])
  BY DEF BudgetInv
<1>1. PICK r : /\ worker' = [worker EXCEPT ![w] = r] /\ WorkerFits(r) /\ GoingOn(w, r)
               /\ worker[w].pc = "send"
               /\ SendSucceeds(r) \/ SendFails(r)
  BY SendMoves
<1>2. Budgeted(k) /\ RowFits(outbox[k]) /\ UNCHANGED <<outbox, takeovers, scheduler, budget>>
  BY DEF BudgetInv, Send, WorkerQuiet
<1>3. /\ Undecided(r, k) => Undecided(worker[w], k)
      /\ MayRepeat(r, k) => MayRepeat(worker[w], k)
  BY <1>1 DEF GoingOn, Undecided, MayRepeat, Holds
<1>4. CASE SendFails(r) /\ r.key = k
  <2>1. Undecided(worker[w], k) /\ ~Undecided(r, k)
    BY <1>1, <1>4 DEF GoingOn, Undecided, SendFails, WorkerFits
  <2>2. /\ Cardinality(Undecideds(k)) \in Nat /\ Cardinality(Undecideds(k)') \in Nat
        /\ Cardinality(Undecideds(k)') = Cardinality(Undecideds(k)) - 1
        /\ Cardinality(Repeaters(k)) \in Nat /\ Cardinality(Repeaters(k)') \in Nat
        /\ Cardinality(Repeaters(k)') <= Cardinality(Repeaters(k))
    BY <1>1, <1>3, <2>1, UndecidedsStep, RepeatersStep
  <2>3. fails'[k] = fails[k] + 1
    BY <1>4, MinutesLemma DEF SendFails, TypeInv, CountInv
  <2>4. Forcing(k)' = Forcing(k) /\ Cardinality(Forcing(k)) \in Nat
    BY <1>2, SizesLemma DEF Forcing
  <2>5. /\ fails[k] \in Nat /\ takeovers[k] \in Nat /\ budget.requeues \in Nat
        /\ Granted(outbox[k].attempts) \in Nat /\ Bit(Free(outbox[k])) \in Nat
    BY NumbersLemma, SpendLemma, GrantedLemma, FreeLemma DEF TypeInv
  <2>6. Granted(outbox[k].attempts)' = Granted(outbox[k].attempts) /\ Bit(Free(outbox[k]))' = Bit(Free(outbox[k]))
    BY <1>2 DEF Granted, SmallerOf, Bit, Free
  <2>7. QED
    BY <1>2, <2>2, <2>3, <2>4, <2>5, <2>6 DEF Budgeted
<1>5. CASE ~(SendFails(r) /\ r.key = k)
  <2>1. fails'[k] = fails[k]
    BY <1>1, <1>5 DEF SendSucceeds, SendFails, TypeInv, CountInv
  <2>2. QED
    BY <1>1, <1>2, <1>3, <2>1, BudgetWorker
<1>6. QED
  BY <1>4, <1>5

\* A row goes on when an undecided worker gives it up or one below the limit retries.
LEMMA BudgetMark ==
  ASSUME TypeInv, BudgetInv, NEW w \in Workers, Marking(w)
  PROVE  BudgetInv'
<1> SUFFICES ASSUME NEW k \in Minutes PROVE Budgeted(k)' /\ RowFits(outbox'[k])
  BY DEF BudgetInv
<1>1. PICK from \in {"sent", "cancel", "fail", "resume", "settle"}, row \in OutboxRows :
        /\ Mark(w, from, row)
        /\ row.attempts = outbox[worker[w].key].attempts /\ row.status # "none"
        /\ row.status = "failed" => ~row.retryable
        /\ row.status \notin {"sent", "failed"} =>
             \/ from \in {"cancel", "resume"}
             \/ from = "settle" /\ worker[w].claims[worker[w].key] < MaxAttempts
  BY MarkingCases
<1>2. PICK r : r = Done(worker[w])
  OBVIOUS
<1>3. PICK old : old = worker[w]
  OBVIOUS
<1>4. WorkerFits(old) /\ old.pc = from /\ old.key \in Minutes /\ worker' = [worker EXCEPT ![w] = r]
  BY <1>1, <1>2, <1>3, MarkMoves DEF TypeInv, WorkersInv, Mark
<1>5. r.todo = old.todo /\ r.key = NoTime /\ \A j \in old.todo : r.claims[j] = old.claims[j]
  BY <1>2, <1>3, <1>4, DoneLemma
<1>6. (Undecided(r, k) <=> k \in old.todo) /\ (MayRepeat(r, k) <=> k \in old.todo /\ old.claims[k] < MaxAttempts)
  BY <1>5, MinutesLemma DEF Undecided, MayRepeat, Holds
<1>7. (Undecided(r, k) => Undecided(old, k)) /\ (MayRepeat(r, k) => MayRepeat(old, k))
  BY <1>6 DEF Undecided, MayRepeat, Holds
<1>8. /\ UNCHANGED <<fails, takeovers, scheduler, budget>> /\ Budgeted(k) /\ RowFits(outbox[k])
      /\ outbox'[k] = IF k = old.key THEN row ELSE outbox[k]
  BY <1>1, <1>3 DEF Mark, WorkerQuiet, BudgetInv, TypeInv, RowsInv
<1>9. CASE k # old.key
  BY <1>3, <1>4, <1>7, <1>8, <1>9, BudgetWorker
<1>10. CASE k = old.key
  <2>1. ~Undecided(r, k) /\ ~MayRepeat(r, k)
    BY <1>4, <1>6, <1>10 DEF WorkerFits
  <2>2. /\ Cardinality(Undecideds(k)) \in Nat /\ Cardinality(Undecideds(k)') \in Nat
        /\ Cardinality(Undecideds(k)') <= Cardinality(Undecideds(k))
        /\ Undecided(old, k) => Cardinality(Undecideds(k)') = Cardinality(Undecideds(k)) - 1
    BY <1>3, <1>4, <2>1, UndecidedsStep
  <2>3. /\ Cardinality(Repeaters(k)) \in Nat /\ Cardinality(Repeaters(k)') \in Nat
        /\ Cardinality(Repeaters(k)') <= Cardinality(Repeaters(k))
        /\ MayRepeat(old, k) => Cardinality(Repeaters(k)') = Cardinality(Repeaters(k)) - 1
    BY <1>3, <1>4, <2>1, RepeatersStep
  <2>4. Bit(Free(row)) \in {0, 1} /\ Bit(Free(outbox[k])) \in Nat
    BY FreeLemma
  <2>5. Bit(Free(row)) = 1 => Undecided(old, k) \/ MayRepeat(old, k)
    <3>1. Bit(Free(row)) = 1 => row.status \notin {"sent", "failed"}
      BY DEF Bit, Free
    <3>2. from \in {"cancel", "resume"} => Undecided(old, k)
      BY <1>4, <1>10 DEF Undecided
    <3>3. from = "settle" /\ old.claims[k] < MaxAttempts => MayRepeat(old, k)
      BY <1>4, <1>10 DEF MayRepeat, Holds
    <3>4. QED
      BY <1>1, <1>3, <1>10, <3>1, <3>2, <3>3
  <2>6. Cardinality(Undecideds(k)') + Cardinality(Repeaters(k)') + Bit(Free(row))
          <= Cardinality(Undecideds(k)) + Cardinality(Repeaters(k))
    BY <2>2, <2>3, <2>4, <2>5
  <2>7. outbox'[k] = row /\ row.attempts = outbox[k].attempts
    BY <1>1, <1>3, <1>8, <1>10
  <2>8. Granted(outbox[k].attempts)' = Granted(outbox[k].attempts) /\ Bit(Free(outbox[k]))' = Bit(Free(row))
    BY <2>7 DEF Granted, SmallerOf, Bit, Free
  <2>9. Forcing(k)' = Forcing(k) /\ Cardinality(Forcing(k)) \in Nat
    BY <1>8, SizesLemma DEF Forcing
  <2>10. /\ fails[k] \in Nat /\ takeovers[k] \in Nat /\ budget.requeues \in Nat
         /\ Granted(outbox[k].attempts) \in Nat
    BY NumbersLemma, SpendLemma, GrantedLemma DEF TypeInv
  <2>11. fails'[k] = fails[k] /\ takeovers'[k] = takeovers[k] /\ budget'.requeues = budget.requeues
    BY <1>8
  <2>12. fails[k] + Cardinality(Undecideds(k)) + Cardinality(Repeaters(k)) + Bit(Free(outbox[k]))
           + Cardinality(Forcing(k)) <= 1 + Granted(outbox[k].attempts) + takeovers[k] + budget.requeues
    BY <1>8 DEF Budgeted
  <2>13. fails[k] + Cardinality(Undecideds(k)') + Cardinality(Repeaters(k)') + Bit(Free(row))
           + Cardinality(Forcing(k)) <= 1 + Granted(outbox[k].attempts) + takeovers[k] + budget.requeues
    BY <2>2, <2>3, <2>4, <2>6, <2>9, <2>10, <2>12
  <2>14. Budgeted(k)'
    BY <2>8, <2>9, <2>11, <2>13 DEF Budgeted
  <2>15. RowFits(outbox'[k])
    BY <1>1, <2>7 DEF RowFits
  <2>16. QED
    BY <2>14, <2>15
<1>11. QED
  BY <1>9, <1>10

LEMMA BudgetRequeue ==
  ASSUME TypeInv, BudgetInv, NEW j \in Minutes, Requeue(j)
  PROVE  BudgetInv'
<1> SUFFICES ASSUME NEW k \in Minutes PROVE Budgeted(k)' /\ RowFits(outbox'[k])
  BY DEF BudgetInv
<1>1. UNCHANGED <<scheduler, worker, fails, takeovers>> /\ Budgeted(k) /\ RowFits(outbox[k])
  BY DEF Requeue, BudgetInv
<1>2. budget'.requeues = budget.requeues + 1 /\ budget.requeues \in Nat
  BY SpendLemma DEF Requeue, TypeInv
<1>3. Forcing(k)' = Forcing(k) /\ Cardinality(Forcing(k)) \in Nat
  BY <1>1, SizesLemma DEF Forcing
<1>4. Bit(Free(outbox'[k])) \in {0, 1} /\ Bit(Free(outbox[k])) \in Nat
  BY FreeLemma
<1>5. outbox'[k].attempts = outbox[k].attempts /\ RowFits(outbox'[k])
  <2>1. CASE j # k
    BY <1>1, <2>1 DEF Requeue, TypeInv, RowsInv
  <2>2. CASE j = k
    <3>1. outbox'[k] = [outbox[k] EXCEPT !.status = "queued", !.retryable = TRUE, !.available = now, !.claimed = NoTime]
      BY <2>2 DEF Requeue, TypeInv, RowsInv
    <3>2. outbox'[k].status = "queued" /\ outbox'[k].attempts = outbox[k].attempts
      BY <3>1, NumbersLemma DEF OutboxRows
    <3>3. QED
      BY <3>2 DEF RowFits
  <2>3. QED
    BY <2>1, <2>2
<1>6. QED
  BY <1>1, <1>2, <1>3, <1>4, <1>5, BudgetRow

\* A worker moves and no row or counter does.
LEMMA BudgetQuiet ==
  ASSUME TypeInv, BudgetInv, NEW w \in Workers, NEW r, worker' = [worker EXCEPT ![w] = r],
         UNCHANGED <<outbox, fails, takeovers, scheduler>>, budget'.requeues = budget.requeues,
         \A k \in Minutes : /\ Undecided(r, k) => Undecided(worker[w], k)
                            /\ MayRepeat(r, k) => MayRepeat(worker[w], k)
  PROVE  BudgetInv'
BY BudgetWorker DEF BudgetInv

LEMMA BudgetNext == ASSUME TypeInv, BudgetInv, [Next]_vars PROVE BudgetInv'
<1>1. CASE UNCHANGED <<outbox, worker, scheduler, fails, takeovers>> /\ budget'.requeues = budget.requeues
  <2>1. \A k \in Minutes : Forcing(k)' = Forcing(k) /\ Undecideds(k)' = Undecideds(k) /\ Repeaters(k)' = Repeaters(k)
    BY <1>1 DEF Forcing, Undecideds, Repeaters
  <2>2. QED
    BY <1>1, <2>1 DEF BudgetInv, Budgeted, RowFits, Granted, SmallerOf, Bit, Free
<1>2. ASSUME NEW w \in Workers, Load(w)
      PROVE  BudgetInv'
  <2>1. PICK r : worker' = [worker EXCEPT ![w] = r] /\ WorkerFits(r) /\ Loading(w, r)
    BY <1>2, LoadMoves
  <2>2. \A k \in Minutes : /\ Undecided(r, k) => Undecided(worker[w], k)
                           /\ MayRepeat(r, k) => MayRepeat(worker[w], k)
    BY <2>1 DEF Loading, Undecided, MayRepeat, Holds
  <2>3. QED
    BY <1>2, <2>1, <2>2, BudgetQuiet DEF Load, WorkerQuiet
<1>3. ASSUME NEW w \in Workers, Noting(w)
      PROVE  BudgetInv'
  <2>1. PICK r : /\ worker' = [worker EXCEPT ![w] = r] /\ WorkerFits(r)
                 /\ \/ r = Done(worker[w]) /\ worker[w].key = NoTime
                    \/ /\ GoingOn(w, r) /\ r.key # NoTime
                       /\ <<worker[w].pc, r.pc>> \in {<<"record", "sent">>, <<"noRecipient", "fail">>,
                                                      <<"defer", "resume">>, <<"error", "settle">>}
    BY <1>3, NotingMoves
  <2>2. WorkerFits(worker[w])
    BY DEF TypeInv, WorkersInv
  <2>3. CASE r = Done(worker[w])
    <3>1. r.todo = worker[w].todo /\ r.key = NoTime /\ \A k \in r.todo : r.claims[k] = worker[w].claims[k]
      BY <2>2, <2>3, DoneLemma
    <3>2. \A k \in Minutes : /\ Undecided(r, k) => Undecided(worker[w], k)
                             /\ MayRepeat(r, k) => MayRepeat(worker[w], k)
      BY <3>1, MinutesLemma DEF Undecided, MayRepeat, Holds
    <3>3. QED
      BY <1>3, <2>1, <3>2, BudgetQuiet DEF Noting, Record, NoteAttempt, WorkerQuiet
  <2>4. CASE GoingOn(w, r) /\ <<worker[w].pc, r.pc>> \in {<<"record", "sent">>, <<"noRecipient", "fail">>,
                                                           <<"defer", "resume">>, <<"error", "settle">>}
    <3>1. \A k \in Minutes : /\ Undecided(r, k) => Undecided(worker[w], k)
                             /\ MayRepeat(r, k) => MayRepeat(worker[w], k)
      BY <2>4 DEF GoingOn, Undecided, MayRepeat, Holds
    <3>2. QED
      BY <1>3, <2>1, <3>1, BudgetQuiet DEF Noting, Record, NoteAttempt, WorkerQuiet
  <2>5. QED
    BY <2>1, <2>3, <2>4
<1>4. ASSUME NEW w \in Workers, Abandon(w)
      PROVE  BudgetInv'
  BY <1>4, NobodyHolds, SpendLemma, BudgetQuiet DEF Abandon, TypeInv
<1>5. ASSUME NEW w \in Workers, SendNow(w)
      PROVE  BudgetInv'
  <2>1. PICK r : worker' = [worker EXCEPT ![w] = r] /\ r.todo = {} /\ r.key = NoTime
    BY <1>5, SendNowMoves
  <2>2. \A k \in Minutes : ~Undecided(r, k) /\ ~MayRepeat(r, k)
    BY <2>1, MinutesLemma DEF Undecided, MayRepeat, Holds
  <2>3. QED
    BY <1>5, <2>1, <2>2, SpendLemma, BudgetQuiet DEF SendNow, TypeInv
<1>6. CASE Edit \/ Reset \/ SwitchOff \/ SwitchOn \/ Tick
  BY <1>1, <1>6, SpendLemma DEF Edit, Reset, SwitchOff, SwitchOn, Tick, TypeInv
<1>7. ASSUME NEW w \in Workers, WorkerStep(w)
      PROVE  BudgetInv'
  BY <1>2, <1>3, <1>7, BudgetClaim, BudgetSend, BudgetMark DEF WorkerStep, Noting, Marking
<1>8. CASE UNCHANGED vars
  BY <1>1, <1>8 DEF vars
<1>9. QED
  BY <1>4, <1>5, <1>6, <1>7, <1>8, BudgetScheduler, BudgetRequeue DEF Next

\* A delivery fails at most max_attempts times, and once more for each takeover and
\* each intervention of the operator: deferrals and cancellations, which count an
\* attempt without using it, and late marks by workers of older claims add none.
THEOREM RetriesAreBounded == Spec => []RetryBudget
<1>1. TypeInv /\ BudgetInv /\ [Next]_vars => BudgetInv'
  BY BudgetNext
<1>2. TypeInv /\ BudgetInv => RetryBudget
  <2> SUFFICES ASSUME TypeInv, BudgetInv, NEW k \in Minutes
               PROVE  fails[k] <= MaxAttempts + takeovers[k] + budget.requeues
    BY DEF RetryBudget
  <2>1. /\ Granted(outbox[k].attempts) \in Nat /\ Granted(outbox[k].attempts) <= MaxAttempts - 1
        /\ Bit(Free(outbox[k])) \in Nat /\ MaxAttempts \in Nat
    BY NumbersLemma, GrantedLemma, FreeLemma, ReminderAssumption
  <2>2. fails[k] \in Nat /\ takeovers[k] \in Nat /\ budget.requeues \in Nat
    BY NumbersLemma, SpendLemma DEF TypeInv
  <2>3. QED
    BY <2>1, <2>2, SizesLemma DEF BudgetInv, Budgeted
<1>3. QED
  BY <1>1, <1>2, BudgetInit, ReminderTypeInductive, PTL DEF Spec

-----------------------------------------------------------------------------
(* A task without repetition sends one automatic message between two resets. *)

\* The worker has a batch; a manual send has none.
Automatic(r) == r.key # NoTime \/ r.pc = "load"

\* The worker is at the call of its row, or after it.
Sending(r)   == r.key # NoTime /\ r.pc = "send"
Recording(r) == r.key # NoTime /\ r.pc = "record"

OneBatch == \A v, w \in Workers : Automatic(worker[v]) /\ Automatic(worker[w]) => v = w

\* What was sent is recorded in the task, or is about to be.
Recorded == task.sentAt # NoTime \/ \E w \in Workers : Recording(worker[w])

CycleInv ==
  Repeat = 0 /\ cycle # NoCount =>
    /\ OneBatch
    /\ cycle \in {0, 1}
    /\ \A w \in Workers : Sending(worker[w]) => cycle = 0
    /\ cycle = 1 => Recorded

LEMMA CycleInit == Init => CycleInv
BY IdleLemma DEF Init, CycleInv, OneBatch, Automatic, Sending

\* A worker goes on, or is done, and the counter stands still.
LEMMA CycleWorker ==
  ASSUME TypeInv, CycleInv, NEW w \in Workers, NEW r, worker' = [worker EXCEPT ![w] = r], cycle' = cycle,
         Automatic(r) => Automatic(worker[w]),
         Repeat = 0 /\ cycle # NoCount /\ Sending(r) => cycle = 0,
         task.sentAt # NoTime \/ Recording(worker[w]) => task'.sentAt # NoTime
  PROVE  CycleInv'
<1> SUFFICES ASSUME Repeat = 0, cycle # NoCount
             PROVE  OneBatch' /\ cycle' \in {0, 1} /\ (\A v \in Workers : Sending(worker'[v]) => cycle' = 0)
                    /\ (cycle' = 1 => Recorded')
  BY DEF CycleInv, Sending
<1>1. \A v \in Workers : worker'[v] = IF v = w THEN r ELSE worker[v]
  BY DEF TypeInv, WorkersInv
<1>2. \A v \in Workers : Automatic(worker'[v]) => Automatic(worker[v])
  BY <1>1
<1>3. OneBatch'
  BY <1>2 DEF CycleInv, OneBatch, Automatic
<1>4. \A v \in Workers : Sending(worker'[v]) => cycle' = 0
  BY <1>1 DEF CycleInv
<1>5. cycle' = 1 => Recorded'
  <2> SUFFICES ASSUME cycle = 1, task'.sentAt = NoTime PROVE \E v \in Workers : Recording(worker'[v])
    BY DEF Recorded, Recording
  <2>1. PICK v \in Workers : Recording(worker[v])
    BY DEF CycleInv, Recorded
  <2>2. v # w
    BY <2>1
  <2>3. QED
    BY <1>1, <2>1, <2>2
<1>6. QED
  BY <1>3, <1>4, <1>5 DEF CycleInv

\* The workers stay; the counter stands still, starts again, or gives up.
LEMMA CycleRest ==
  ASSUME CycleInv, UNCHANGED worker,
         \/ cycle' = cycle /\ task'.sentAt = task.sentAt
         \/ cycle' \in {0, NoCount} /\ (cycle = NoCount => cycle' = NoCount)
  PROVE  CycleInv'
<1>1. OneBatch => OneBatch'
  BY DEF OneBatch, Automatic
<1>2. CASE cycle' = cycle /\ task'.sentAt = task.sentAt
  BY <1>1, <1>2 DEF CycleInv, Recorded, Sending, Recording
<1>3. CASE cycle' = 0 /\ cycle # NoCount
  BY <1>1, <1>3 DEF CycleInv, Sending
<1>4. CASE cycle' = NoCount
  BY <1>4 DEF CycleInv
<1>5. QED
  BY <1>2, <1>3, <1>4

LEMMA CycleClaim == ASSUME TypeInv, CycleInv, NEW w \in Workers, Claim(w) PROVE CycleInv'
<1>1. CASE \E v \in Workers : worker[v].pc # "idle"
  <2>1. cycle' = NoCount
    BY <1>1 DEF Claim
  <2>2. QED
    BY <2>1 DEF CycleInv
<1>2. CASE \A v \in Workers : worker[v].pc = "idle"
  <2>1. PICK r : worker' = [worker EXCEPT ![w] = r] /\ WorkerFits(r) /\ Claiming(w, r)
    BY ClaimMoves
  <2>2. cycle' = cycle /\ task' = task
    BY <1>2 DEF Claim
  <2>3. \A v \in Workers : worker'[v] = IF v = w THEN r ELSE worker[v]
    BY <2>1 DEF TypeInv, WorkersInv
  <2>4. \A v \in Workers : ~Automatic(worker[v]) /\ ~Sending(worker[v]) /\ ~Recording(worker[v])
    BY <1>2 DEF Automatic, Sending, Recording, TypeInv, WorkersInv, WorkerFits
  <2>5. OneBatch'
    BY <2>3, <2>4 DEF OneBatch, Automatic
  <2>6. ~Sending(r)
    BY <2>1 DEF Claiming, Sending
  <2>7. \A v \in Workers : ~Sending(worker'[v])
    BY <2>3, <2>4, <2>6
  <2>8. Repeat = 0 /\ cycle = 1 => task'.sentAt # NoTime
    BY <2>2, <2>4 DEF CycleInv, Recorded, NoCount
  <2>9. QED
    BY <2>2, <2>5, <2>7, <2>8 DEF CycleInv, Recorded, Sending
<1>3. QED
  BY <1>1, <1>2

\* The task was not recorded as sent, and nobody else is about to.
LEMMA CycleLoad == ASSUME TypeInv, CycleInv, NEW w \in Workers, Load(w) PROVE CycleInv'
<1>1. PICK r : worker' = [worker EXCEPT ![w] = r] /\ WorkerFits(r) /\ Loading(w, r)
  BY LoadMoves
<1>2. cycle' = cycle /\ task' = task /\ worker[w].pc = "load"
  BY DEF Load
<1>3. Automatic(worker[w]) /\ ~Recording(worker[w])
  BY <1>2 DEF Automatic, Recording
<1>4. Repeat = 0 /\ cycle # NoCount /\ Sending(r) => cycle = 0
  <2> SUFFICES ASSUME Repeat = 0, cycle # NoCount, Sending(r), cycle # 0 PROVE FALSE
    OBVIOUS
  <2>1. task.sentAt = NoTime
    BY <1>1 DEF Sending, Loading, CycleDue
  <2>2. PICK v \in Workers : Recording(worker[v])
    BY <2>1 DEF CycleInv, Recorded
  <2>3. Automatic(worker[v]) /\ v # w
    BY <1>3, <2>2 DEF Automatic, Recording
  <2>4. QED
    BY <1>3, <2>3 DEF CycleInv, OneBatch
<1>5. QED
  BY <1>1, <1>2, <1>3, <1>4, CycleWorker

LEMMA CycleSend == ASSUME TypeInv, CycleInv, NEW w \in Workers, Send(w) PROVE CycleInv'
<1>1. PICK r : /\ worker' = [worker EXCEPT ![w] = r] /\ WorkerFits(r) /\ GoingOn(w, r)
               /\ worker[w].pc = "send"
               /\ SendSucceeds(r) \/ SendFails(r)
  BY SendMoves
<1>2. task' = task /\ r.pc \in {"record", "error"} /\ r.key = worker[w].key
  BY <1>1 DEF Send, SendSucceeds, SendFails, GoingOn
<1>3. /\ Automatic(r) => Automatic(worker[w])
      /\ ~Recording(worker[w]) /\ ~Sending(r)
  BY <1>1, <1>2 DEF Automatic, Sending, Recording
<1>4. CASE cycle' = cycle
  BY <1>1, <1>2, <1>3, <1>4, CycleWorker
<1>5. CASE cycle' # cycle
  <2>1. SendSucceeds(r) /\ r.key # NoTime /\ cycle # NoCount /\ cycle' = cycle + 1
    BY <1>1, <1>5 DEF SendSucceeds, SendFails
  <2>2. Sending(worker[w]) /\ Automatic(worker[w]) /\ Recording(r)
    BY <1>1, <1>2, <2>1 DEF Sending, Automatic, Recording, SendSucceeds
  <2>3. \A v \in Workers : worker'[v] = IF v = w THEN r ELSE worker[v]
    BY <1>1 DEF TypeInv, WorkersInv
  <2>4. Recording(worker'[w])
    BY <2>2, <2>3
  <2>5. Recorded'
    BY <2>4 DEF Recorded, Recording
  <2>6. ASSUME Repeat = 0
        PROVE  OneBatch' /\ cycle' \in {0, 1} /\ \A v \in Workers : ~Sending(worker'[v])
    <3>1. OneBatch /\ cycle = 0
      BY <2>1, <2>2, <2>6 DEF CycleInv
    <3>2. \A v \in Workers : Automatic(worker'[v]) => Automatic(worker[v])
      BY <1>3, <2>3
    <3>3. OneBatch'
      BY <3>1, <3>2 DEF OneBatch, Automatic
    <3>4. \A v \in Workers : v # w => ~Automatic(worker[v])
      BY <2>2, <3>1 DEF OneBatch
    <3>5. \A v \in Workers : ~Sending(worker'[v])
      BY <1>3, <2>3, <3>4 DEF Sending, Automatic
    <3>6. QED
      BY <2>1, <3>1, <3>3, <3>5
  <2>7. QED
    BY <2>5, <2>6 DEF CycleInv, Sending
<1>6. QED
  BY <1>4, <1>5

LEMMA CycleNoting == ASSUME TypeInv, CycleInv, NEW w \in Workers, Noting(w) PROVE CycleInv'
<1>1. PICK r : /\ worker' = [worker EXCEPT ![w] = r] /\ WorkerFits(r)
               /\ \/ r = Done(worker[w]) /\ worker[w].key = NoTime
                  \/ /\ GoingOn(w, r) /\ r.key # NoTime
                     /\ <<worker[w].pc, r.pc>> \in {<<"record", "sent">>, <<"noRecipient", "fail">>,
                                                    <<"defer", "resume">>, <<"error", "settle">>}
  BY NotingMoves
<1>2. WorkerFits(worker[w]) /\ worker[w].at \in Minutes /\ task \in TaskRows
  BY WorkerFields DEF TypeInv, WorkersInv, ClockInv
<1>3. worker[w].pc \in {"record", "noRecipient", "defer", "error"} /\ cycle' = cycle
  BY DEF Noting, Record, NoteAttempt
<1>4. (Automatic(r) => Automatic(worker[w])) /\ ~Sending(r)
  <2>1. CASE GoingOn(w, r) /\ r.key # NoTime
             /\ <<worker[w].pc, r.pc>> \in {<<"record", "sent">>, <<"noRecipient", "fail">>,
                                            <<"defer", "resume">>, <<"error", "settle">>}
    BY <2>1 DEF GoingOn, Automatic, Sending
  <2>2. CASE r = Done(worker[w]) /\ worker[w].key = NoTime
    <3>1. worker[w].todo = {}
      BY <1>2, <1>3, <2>2 DEF WorkerFits
    <3>2. r = IdleWorker
      BY <2>2, <3>1 DEF Done
    <3>3. QED
      BY <3>2, IdleLemma DEF Automatic, Sending
  <2>3. QED
    BY <1>1, <2>1, <2>2
<1>5. task.sentAt # NoTime \/ Recording(worker[w]) => task'.sentAt # NoTime
  <2>1. CASE Record(w)
    <3>1. task'.sentAt = worker[w].at
      BY <1>2, <2>1 DEF Record, TaskRows
    <3>2. QED
      BY <1>2, <3>1, MinutesLemma
  <2>2. CASE ~Record(w)
    <3>1. task'.sentAt = task.sentAt /\ worker[w].pc # "record"
      BY <1>2, <2>2 DEF Noting, NoteAttempt, TaskRows
    <3>2. QED
      BY <3>1 DEF Recording
  <2>3. QED
    BY <2>1, <2>2
<1>6. QED
  BY <1>1, <1>3, <1>4, <1>5, CycleWorker

LEMMA CycleMark == ASSUME TypeInv, CycleInv, NEW w \in Workers, Marking(w) PROVE CycleInv'
<1>1. PICK from \in {"sent", "cancel", "fail", "resume", "settle"}, row \in OutboxRows : Mark(w, from, row)
  BY MarkingCases
<1>2. PICK r : r = Done(worker[w])
  OBVIOUS
<1>3. /\ WorkerFits(worker[w]) /\ worker[w].pc = from /\ worker[w].key \in Minutes
      /\ worker' = [worker EXCEPT ![w] = r]
  BY <1>1, <1>2, MarkMoves DEF TypeInv, WorkersInv, Mark
<1>4. Automatic(worker[w]) /\ ~Recording(worker[w])
  BY <1>3, MinutesLemma DEF Automatic, Recording
<1>5. ~Sending(r)
  BY <1>2, <1>3, DoneLemma DEF Sending
<1>6. cycle' = cycle /\ task' = task
  BY <1>1 DEF Mark
<1>7. QED
  BY <1>3, <1>4, <1>5, <1>6, CycleWorker

LEMMA CycleNext == ASSUME TypeInv, CycleInv, [Next]_vars PROVE CycleInv'
<1>1. CASE UNCHANGED <<worker, cycle>> /\ task'.sentAt = task.sentAt
  BY <1>1, CycleRest
<1>2. ASSUME NEW s \in Schedulers, SchedulerStep(s)
      PROVE  CycleInv'
  <2>1. UNCHANGED <<worker, cycle>>
    BY <1>2 DEF SchedulerStep, ReadDue, Queue, Lookup, Note, QueueFailed, SchedulerQuiet
  <2>2. task'.sentAt = task.sentAt
    BY <1>2 DEF SchedulerStep, ReadDue, Queue, Lookup, Note, QueueFailed, TypeInv, ClockInv, TaskRows
  <2>3. QED
    BY <1>1, <2>1, <2>2
<1>3. ASSUME NEW w \in Workers, Abandon(w)
      PROVE  CycleInv'
  BY <1>3 DEF Abandon, CycleInv
<1>4. ASSUME NEW w \in Workers, SendNow(w)
      PROVE  CycleInv'
  <2>1. PICK r : /\ worker' = [worker EXCEPT ![w] = r] /\ worker[w].pc = "idle"
                 /\ r.pc \in {"send", "error"} /\ r.key = NoTime
    BY <1>4, SendNowMoves
  <2>2. ~Automatic(r) /\ ~Sending(r) /\ ~Recording(worker[w])
    BY <2>1 DEF Automatic, Sending, Recording
  <2>3. QED
    BY <1>4, <2>1, <2>2, CycleWorker DEF SendNow
<1>5. ASSUME NEW k \in Minutes, Requeue(k)
      PROVE  CycleInv'
  BY <1>1, <1>5 DEF Requeue
<1>6. CASE Edit \/ SwitchOff \/ SwitchOn \/ Tick
  <2>1. task'.sentAt = task.sentAt
    BY <1>6 DEF Edit, SwitchOff, SwitchOn, Tick, TypeInv, ClockInv, TaskRows
  <2>2. QED
    BY <1>1, <1>6, <2>1 DEF Edit, SwitchOff, SwitchOn, Tick
<1>7. CASE Reset
  BY <1>7, CycleRest DEF Reset
<1>8. ASSUME NEW w \in Workers, WorkerStep(w)
      PROVE  CycleInv'
  BY <1>8, CycleClaim, CycleLoad, CycleSend, CycleNoting, CycleMark DEF WorkerStep, Noting, Marking
<1>9. CASE UNCHANGED vars
  BY <1>1, <1>9 DEF vars
<1>10. QED
  BY <1>2, <1>3, <1>4, <1>5, <1>6, <1>7, <1>8, <1>9 DEF Next

\* Between two resets of a task without repetition, workers that lose no batch and
\* never claim next to a busy one send one automatic message, though edits leave
\* rows of other anchors queued: the one batch under way is due only while the
\* task records no message.
THEOREM OneMessagePerCycle == Spec => []OncePerCycle
<1>1. TypeInv /\ CycleInv /\ [Next]_vars => CycleInv'
  BY CycleNext
<1>2. CycleInv => OncePerCycle
  BY DEF CycleInv, OncePerCycle, NoCount
<1>3. QED
  BY <1>1, <1>2, CycleInit, ReminderTypeInductive, PTL DEF Spec

-----------------------------------------------------------------------------
(* The daily notifications: NotificationScheduler.                           *)

-----------------------------------------------------------------------------
(* The calendar.  After these lemmas days are never computed again.          *)

\* The day of a tick is a day, and days follow each other as ticks do.
LEMMA DayLemma ==
  /\ \A t \in Nat : DayOf(t) \in Nat
  /\ \A t, u \in Nat : t <= u => DayOf(t) <= DayOf(u)
  /\ \A t \in 0..LastTick : DayOf(t) \in Days
<1>1. \A t \in Nat : DayOf(t) \in Nat
  BY SchedulerAssumption DEF DayOf
<1>2. ASSUME NEW t \in Nat, NEW u \in Nat, t <= u
      PROVE  DayOf(t) <= DayOf(u)
  BY <1>2, SchedulerAssumption DEF DayOf
<1>3. \A t \in 0..LastTick : DayOf(t) \in Days
  BY <1>1, <1>2, SchedulerAssumption DEF Days
<1>4. QED
  BY <1>1, <1>2, <1>3

\* An occurrence lies in its own day.
LEMMA SlotLemma ==
  ASSUME NEW d \in Nat, NEW t \in LocalTimes
  PROVE  Slot(d, t) \in Nat /\ DayOf(Slot(d, t)) = d
BY SchedulerAssumption DEF DayOf, Slot

\* A first run is today or tomorrow, and there is one for an enabled schedule.
LEMMA FirstRunLemma ==
  ASSUME NEW enabled \in BOOLEAN, NEW t \in LocalTimes, clock \in 0..LastTick
  PROVE  /\ FirstRun(enabled, t) \in Nat \cup {Never}
         /\ enabled <=> FirstRun(enabled, t) # Never
         /\ enabled => DayOf(FirstRun(enabled, t)) <= DayOf(clock) + 1
<1>1. DayOf(clock) \in Nat
  BY DayLemma, SchedulerAssumption
<1>2. FirstRun(enabled, t) \in {Slot(DayOf(clock), t), Slot(DayOf(clock) + 1, t)} \/ ~enabled
  BY DEF FirstRun
<1>3. ~enabled => FirstRun(enabled, t) = Never
  BY DEF FirstRun
<1>4. Slot(DayOf(clock), t) \in Nat /\ DayOf(Slot(DayOf(clock), t)) = DayOf(clock)
  BY <1>1, SlotLemma
<1>5. Slot(DayOf(clock) + 1, t) \in Nat /\ DayOf(Slot(DayOf(clock) + 1, t)) = DayOf(clock) + 1
  BY <1>1, SlotLemma
<1>6. QED
  BY <1>1, <1>2, <1>3, <1>4, <1>5 DEF Never

-----------------------------------------------------------------------------
(* The inductive invariant.                                                  *)

HoldsRun(s) == sweep[s].pc \in {"work", "fail"}

\* What a sweep knows between two transactions agrees with the tables.
SweepInv ==
  \A s \in Sweeps :
    /\ sweep[s].pc # "idle" => sweep[s].time \in LocalTimes
    /\ sweep[s].at <= clock
    /\ HoldsRun(s) => sweep[s].attempt \in 1..Run(s).attempts
    /\ sweep[s].pc = "advance" => Run(s).status = "succeeded"
    /\ sweep[s].pc = "work" => Candidates \ sweep[s].todo \subseteq stored

\* A run that was never claimed has no attempts.
RunInv == \A d \in Days : runs[d].status \in {"none", "pending"} => runs[d].attempts = 0

\* No two sweeps have the same claim.
ClaimsDiffer ==
  \A s, t \in Sweeps :
    s # t /\ HoldsRun(s) /\ HoldsRun(t) /\ DayAt(s) = DayAt(t) => sweep[s].attempt # sweep[t].attempt

\* The run carries the lease of the sweep that claimed it last; that of an
\* earlier sweep which still works is over.
LeaseInv ==
  \A s \in Sweeps :
    sweep[s].pc = "work" =>
      IF sweep[s].attempt = Run(s).attempts
      THEN Run(s).status = "running" /\ Run(s).lease = sweep[s].at + Lease
      ELSE sweep[s].at + Lease <= clock

\* The schedule waits for today or tomorrow, and so do settings about to be stored,
\* counted from the day on which they were chosen.
NextInv ==
  /\ schedule.enabled => DayOf(schedule.next) <= DayOf(clock) + 1
  /\ savedOn <= DayOf(clock)
  /\ save # NoSave => /\ save \in Schedules
                      /\ save.enabled <=> save.next # Never
                      /\ save.enabled => DayOf(save.next) <= savedOn + 1

\* Today is over for the schedule: the run ended for good, or settings were saved.
Closed(today) ==
  \/ runs[today].status = "succeeded"
  \/ runs[today].status = "failed" /\ runs[today].attempts = MaxRunAttempts
  \/ savedOn = today

IInv == /\ ScheduleTypeOK /\ SweepInv /\ RunInv /\ ClaimsDiffer /\ LeaseInv /\ NextInv
        /\ SuccessIsComplete /\ NoDaySkipped

LEMMA InitIInv == ScheduleInit => IInv
<1> SUFFICES ASSUME ScheduleInit PROVE IInv
  OBVIOUS
<1>1. clock = 0 /\ clock \in 0..LastTick /\ DayOf(clock) \in Nat /\ DayOf(clock) \in Days
  BY DayLemma, SchedulerAssumption DEF ScheduleInit
<1>2. PICK t \in LocalTimes : schedule = [enabled |-> TRUE, time |-> t, next |-> FirstRun(TRUE, t)]
  BY DEF ScheduleInit
<1>3. /\ FirstRun(TRUE, t) \in Nat \cup {Never} /\ FirstRun(TRUE, t) # Never
      /\ DayOf(FirstRun(TRUE, t)) <= DayOf(clock) + 1
  BY <1>1, FirstRunLemma
<1>4. DayOf(clock) = 0
  BY <1>1, SlotLemma, SchedulerAssumption DEF DayOf
<1>5. ScheduleTypeOK
  <2>1. schedule \in Schedules /\ (schedule.enabled <=> schedule.next # Never)
    BY <1>2, <1>3 DEF Schedules
  <2>2. runs \in [Days -> Runs]
    BY SchedulerAssumption DEF ScheduleInit, Runs, NoRun
  <2>3. sweep \in [Sweeps -> SweepStates]
    BY SchedulerAssumption DEF ScheduleInit, SweepStates, IdleSweep
  <2>4. save \in Schedules \cup {NoSave} /\ stored \subseteq Candidates
    BY DEF ScheduleInit
  <2>5. savedOn \in Days /\ saves \in 0..MaxSaves /\ crashes \in 0..MaxLostSweeps
    BY <1>1, <1>4, SchedulerAssumption DEF ScheduleInit
  <2>6. QED
    BY <1>1, <2>1, <2>2, <2>3, <2>4, <2>5 DEF ScheduleTypeOK
<1>6. SweepInv /\ ClaimsDiffer /\ LeaseInv
  BY <1>1 DEF ScheduleInit, IdleSweep, SweepInv, HoldsRun, ClaimsDiffer, LeaseInv
<1>7. RunInv /\ SuccessIsComplete
  BY DEF ScheduleInit, NoRun, RunInv, SuccessIsComplete
<1>8. NextInv
  <2>1. schedule.enabled => DayOf(schedule.next) <= DayOf(clock) + 1
    BY <1>2, <1>3
  <2>2. save = NoSave /\ savedOn <= DayOf(clock)
    BY <1>4 DEF ScheduleInit
  <2>3. QED
    BY <2>1, <2>2 DEF NextInv
<1>9. NoDaySkipped
  BY <1>4 DEF ScheduleInit, NoDaySkipped
<1>10. QED
  BY <1>5, <1>6, <1>7, <1>8, <1>9 DEF IInv

-----------------------------------------------------------------------------
(* Time, and the settings.                                                   *)

LEMMA TickStep ==
  ASSUME IInv, ClockTick
  PROVE  IInv'
<1> USE DEF IInv
<1>1. clock' \in 0..LastTick /\ clock <= clock'
  BY SchedulerAssumption DEF ClockTick, ScheduleTypeOK
<1>2. DayOf(clock) \in Nat /\ DayOf(clock') \in Nat /\ DayOf(clock) <= DayOf(clock')
  BY <1>1, DayLemma DEF ScheduleTypeOK
<1>3. ScheduleTypeOK'
  BY <1>1 DEF ClockTick, ScheduleTypeOK
<1>4. SweepInv' /\ LeaseInv'
  <2>1. \A s \in Sweeps : sweep[s].at \in Nat
    BY SchedulerAssumption DEF ScheduleTypeOK, SweepStates
  <2>2. QED
    BY <1>1, <2>1, SchedulerAssumption DEF ClockTick, ScheduleTypeOK, SweepInv, LeaseInv, HoldsRun, Run, DayAt
<1>5. RunInv' /\ ClaimsDiffer' /\ SuccessIsComplete'
  BY DEF ClockTick, RunInv, ClaimsDiffer, HoldsRun, DayAt, SuccessIsComplete
<1>6. NextInv'
  <2>1. schedule.enabled => DayOf(schedule.next) \in Nat
    BY DayLemma DEF ScheduleTypeOK, Schedules
  <2>2. savedOn \in Nat
    BY SchedulerAssumption DEF ScheduleTypeOK, Days
  <2>3. QED
    BY <1>2, <2>1, <2>2 DEF ClockTick, NextInv
<1>7. NoDaySkipped'
  <2>1. schedule.enabled => DayOf(schedule.next) \in Nat
    BY DayLemma DEF ScheduleTypeOK, Schedules
  <2>2. CASE DayOf(clock') = DayOf(clock)
    BY <2>2 DEF ClockTick, NoDaySkipped
  <2>3. CASE DayOf(clock') # DayOf(clock)
    BY <1>2, <2>1, <2>3 DEF ClockTick, NoDaySkipped, NextInv
  <2>4. QED
    BY <2>2, <2>3
<1>8. QED
  BY <1>3, <1>4, <1>5, <1>6, <1>7

LEMMA ReadSettingsStep ==
  ASSUME IInv, ReadSettings
  PROVE  IInv'
<1> USE DEF IInv
<1>1. PICK enabled \in BOOLEAN, t \in LocalTimes :
        save' = [enabled |-> enabled, time |-> t, next |-> FirstRun(enabled, t)]
  BY DEF ReadSettings
<1>2. /\ FirstRun(enabled, t) \in Nat \cup {Never}
      /\ enabled <=> FirstRun(enabled, t) # Never
      /\ enabled => DayOf(FirstRun(enabled, t)) <= DayOf(clock) + 1
  BY FirstRunLemma DEF ScheduleTypeOK
<1>3. DayOf(clock) \in Days
  BY DayLemma DEF ScheduleTypeOK
<1>4. save' \in Schedules
  BY <1>1, <1>2 DEF Schedules
<1>5. ScheduleTypeOK'
  BY <1>3, <1>4, SchedulerAssumption DEF ReadSettings, ScheduleTypeOK
<1>6. SweepInv' /\ LeaseInv' /\ RunInv' /\ ClaimsDiffer' /\ SuccessIsComplete'
  BY DEF ReadSettings, SweepInv, LeaseInv, HoldsRun, Run, DayAt, RunInv, ClaimsDiffer, SuccessIsComplete
<1>7. NextInv'
  BY <1>1, <1>2, <1>3, <1>4 DEF ReadSettings, NextInv, Days
<1>8. NoDaySkipped'
  BY DEF ReadSettings, NoDaySkipped
<1>9. QED
  BY <1>5, <1>6, <1>7, <1>8

LEMMA UpsertStep ==
  ASSUME IInv, UpsertSchedule
  PROVE  IInv'
<1> USE DEF IInv
<1>1. schedule' = save /\ save' = NoSave /\ save # NoSave
  BY DEF UpsertSchedule
<1>2. save \in Schedules /\ (save.enabled <=> save.next # Never)
  BY <1>1 DEF NextInv
<1>3. ScheduleTypeOK'
  BY <1>1, <1>2 DEF UpsertSchedule, ScheduleTypeOK
<1>4. SweepInv' /\ LeaseInv' /\ RunInv' /\ ClaimsDiffer' /\ SuccessIsComplete'
  BY DEF UpsertSchedule, SweepInv, LeaseInv, HoldsRun, Run, DayAt, RunInv, ClaimsDiffer, SuccessIsComplete
<1>5. DayOf(clock) \in Nat /\ savedOn \in Nat /\ savedOn <= DayOf(clock)
  BY DayLemma, SchedulerAssumption DEF ScheduleTypeOK, Days, NextInv
<1>6. save.enabled => DayOf(save.next) \in Nat /\ DayOf(save.next) <= savedOn + 1
  BY <1>1, <1>2, DayLemma DEF NextInv, Schedules
<1>7. NextInv'
  BY <1>1, <1>5, <1>6 DEF UpsertSchedule, NextInv
<1>8. NoDaySkipped'
  BY <1>1, <1>5, <1>6 DEF UpsertSchedule, NoDaySkipped
<1>9. QED
  BY <1>3, <1>4, <1>7, <1>8

-----------------------------------------------------------------------------
(* Steps of a sweep.                                                         *)

\* The sweeps that a step does not name stay as they are, and the runs of a day
\* are those of a day.
LEMMA SweepDay ==
  ASSUME ScheduleTypeOK, NEW s \in Sweeps
  PROVE  DayAt(s) \in Days /\ Run(s) \in Runs /\ sweep[s] \in SweepStates
<1>1. sweep[s] \in SweepStates
  BY DEF ScheduleTypeOK
<1>2. sweep[s].at \in 0..LastTick
  BY <1>1 DEF SweepStates
<1>3. DayAt(s) \in Days
  BY <1>2, DayLemma DEF DayAt
<1>4. QED
  BY <1>1, <1>3 DEF ScheduleTypeOK, Run

\* A step that sends a sweep away without touching the tables: it found nothing
\* to do, or its process ended.
LEMMA EndStep ==
  ASSUME IInv, NEW s \in Sweeps, sweep' = Ended(s), clock' = clock,
         UNCHANGED <<schedule, runs, stored, save, savedOn, saves>>,
         crashes' \in 0..MaxLostSweeps
  PROVE  IInv'
<1> USE DEF IInv
<1>1. IdleSweep \in SweepStates
  BY SchedulerAssumption DEF IdleSweep, SweepStates
<1>2. sweep' \in [Sweeps -> SweepStates] /\ sweep'[s] = IdleSweep
      /\ \A u \in Sweeps : u # s => sweep'[u] = sweep[u]
  BY <1>1 DEF ScheduleTypeOK, Ended
<1>3. ScheduleTypeOK'
  BY <1>2 DEF ScheduleTypeOK
<1>4. SweepInv'
  BY <1>2 DEF SweepInv, HoldsRun, Run, DayAt, IdleSweep, ScheduleTypeOK
<1>5. LeaseInv' /\ ClaimsDiffer'
  BY <1>2 DEF LeaseInv, ClaimsDiffer, HoldsRun, Run, DayAt, IdleSweep
<1>6. RunInv' /\ NextInv' /\ SuccessIsComplete' /\ NoDaySkipped'
  BY DEF RunInv, NextInv, SuccessIsComplete, NoDaySkipped
<1>7. QED
  BY <1>3, <1>4, <1>5, <1>6

LEMMA CrashStep ==
  ASSUME IInv, NEW s \in Sweeps, Crash(s)
  PROVE  IInv'
<1>1. crashes' \in 0..MaxLostSweeps
  BY SchedulerAssumption DEF IInv, ScheduleTypeOK, Crash
<1>2. QED
  BY <1>1, EndStep DEF Crash

LEMMA ListStep ==
  ASSUME IInv, NEW s \in Sweeps, List(s)
  PROVE  IInv'
<1> USE DEF IInv
<1> DEFINE new == [IdleSweep EXCEPT !.pc = "ensure", !.at = clock, !.time = schedule.time]
<1>1. new.pc = "ensure" /\ new.at = clock /\ new.time = schedule.time /\ new \in SweepStates
  <2>1. clock \in 0..LastTick /\ schedule.time \in LocalTimes /\ 0 \in 0..MaxRunAttempts
    BY SchedulerAssumption DEF ScheduleTypeOK, Schedules
  <2>2. IdleSweep \in SweepStates
    BY SchedulerAssumption DEF IdleSweep, SweepStates
  <2>3. new \in SweepStates
    BY <2>1, <2>2 DEF SweepStates
  <2>4. QED
    BY <2>3 DEF IdleSweep
<1>2. sweep' = [sweep EXCEPT ![s] = new] /\ UNCHANGED <<clock, schedule, runs, stored, save, savedOn, saves, crashes>>
  BY DEF List, SweepQuiet
<1> HIDE DEF new
<1>3. sweep' \in [Sweeps -> SweepStates] /\ sweep'[s] = new /\ \A u \in Sweeps : u # s => sweep'[u] = sweep[u]
  BY <1>1, <1>2 DEF ScheduleTypeOK
<1>4. schedule.time \in LocalTimes /\ clock \in Nat
  BY SchedulerAssumption DEF ScheduleTypeOK, Schedules
<1>5. ScheduleTypeOK'
  BY <1>2, <1>3 DEF ScheduleTypeOK
<1>6. SweepInv'
  BY <1>1, <1>2, <1>3, <1>4 DEF SweepInv, HoldsRun, Run, DayAt
<1>7. LeaseInv' /\ ClaimsDiffer'
  BY <1>1, <1>2, <1>3 DEF LeaseInv, ClaimsDiffer, HoldsRun, Run, DayAt
<1>8. RunInv' /\ NextInv' /\ SuccessIsComplete' /\ NoDaySkipped'
  BY <1>2 DEF RunInv, NextInv, SuccessIsComplete, NoDaySkipped
<1>9. QED
  BY <1>5, <1>6, <1>7, <1>8

\* What a step to another point of the sweep leaves of its state.
LEMMA GoingLemma ==
  ASSUME ScheduleTypeOK, NEW s \in Sweeps,
         NEW pc \in {"idle", "ensure", "advance", "claim", "work", "fail"}, sweep' = Going(s, pc)
  PROVE  /\ sweep' \in [Sweeps -> SweepStates]
         /\ sweep'[s].pc = pc /\ sweep'[s].at = sweep[s].at /\ sweep'[s].time = sweep[s].time
         /\ sweep'[s].attempt = sweep[s].attempt /\ sweep'[s].todo = sweep[s].todo
         /\ \A u \in Sweeps : u # s => sweep'[u] = sweep[u]
BY DEF ScheduleTypeOK, SweepStates, Going

LEMMA EnsureStep ==
  ASSUME IInv, NEW s \in Sweeps, Ensure(s)
  PROVE  IInv'
<1> USE DEF IInv
<1> DEFINE day == DayAt(s)
           pc  == IF Run(s).status = "succeeded" THEN "advance" ELSE "claim"
<1>1. day \in Days /\ runs[day] \in Runs /\ Run(s) = runs[day]
  BY SweepDay DEF Run
<1>2. UNCHANGED <<clock, schedule, stored, save, savedOn, saves, crashes>> /\ sweep[s].pc = "ensure"
  BY DEF Ensure, SweepQuiet
<1>3. /\ sweep' \in [Sweeps -> SweepStates]
      /\ sweep'[s].pc = pc /\ sweep'[s].at = sweep[s].at /\ sweep'[s].time = sweep[s].time
      /\ \A u \in Sweeps : u # s => sweep'[u] = sweep[u]
  BY GoingLemma DEF Ensure
<1>4. /\ runs' \in [Days -> Runs]
      /\ \A d \in Days : /\ runs'[d].attempts = runs[d].attempts
                         /\ runs'[d].lease = runs[d].lease
                         /\ \/ runs'[d].status = runs[d].status
                            \/ runs[d].status = "none" /\ runs'[d].status = "pending"
  <2>1. runs' = [runs EXCEPT ![day].status = IF @ = "none" THEN "pending" ELSE @]
    BY DEF Ensure
  <2>2. QED
    BY <1>1, <2>1 DEF ScheduleTypeOK, Runs
<1>5. ScheduleTypeOK'
  BY <1>2, <1>3, <1>4 DEF ScheduleTypeOK
<1>6. \A u \in Sweeps : DayAt(u)' = DayAt(u) /\ DayAt(u) \in Days
  BY <1>3, SweepDay DEF DayAt
<1>7. SweepInv'
  <2>1. \A u \in Sweeps : Run(u)'.attempts = Run(u).attempts
                          /\ (Run(u).status = "succeeded" => Run(u)'.status = "succeeded")
    BY <1>4, <1>6 DEF Run
  <2>2. QED
    BY <1>2, <1>3, <2>1 DEF SweepInv, HoldsRun
<1>8. ClaimsDiffer'
  BY <1>2, <1>3, <1>6 DEF ClaimsDiffer, HoldsRun
<1>9. LeaseInv'
  <2>1. \A u \in Sweeps : /\ Run(u)'.attempts = Run(u).attempts /\ Run(u)'.lease = Run(u).lease
                          /\ Run(u).status = "running" => Run(u)'.status = "running"
    BY <1>4, <1>6 DEF Run
  <2>2. QED
    BY <1>2, <1>3, <2>1 DEF LeaseInv
<1>10. RunInv' /\ NextInv' /\ SuccessIsComplete' /\ NoDaySkipped'
  <2>1. DayOf(clock) \in Days
    BY DayLemma DEF ScheduleTypeOK
  <2>2. QED
    BY <1>2, <1>4, <2>1 DEF RunInv, NextInv, SuccessIsComplete, NoDaySkipped
<1>11. QED
  BY <1>5, <1>7, <1>8, <1>9, <1>10

LEMMA CreateStep ==
  ASSUME IInv, NEW s \in Sweeps, Create(s)
  PROVE  IInv'
<1> USE DEF IInv
<1>1. UNCHANGED <<clock, schedule, runs, save, savedOn, saves, crashes>> /\ sweep[s].pc = "work"
  BY DEF Create, SweepQuiet
<1>2. PICK c \in sweep[s].todo :
        stored' = stored \cup {c} /\ sweep' = [sweep EXCEPT ![s].todo = @ \ {c}]
  BY DEF Create
<1>3. /\ sweep' \in [Sweeps -> SweepStates]
      /\ sweep'[s].pc = "work" /\ sweep'[s].at = sweep[s].at /\ sweep'[s].time = sweep[s].time
      /\ sweep'[s].attempt = sweep[s].attempt /\ sweep'[s].todo = sweep[s].todo \ {c}
      /\ \A u \in Sweeps : u # s => sweep'[u] = sweep[u]
  BY <1>1, <1>2 DEF ScheduleTypeOK, SweepStates
<1>4. c \in Candidates
  BY DEF ScheduleTypeOK, SweepStates
<1>5. ScheduleTypeOK'
  BY <1>1, <1>2, <1>3, <1>4 DEF ScheduleTypeOK
<1>6. \A u \in Sweeps : /\ DayAt(u)' = DayAt(u) /\ Run(u)' = Run(u)
                        /\ sweep'[u].pc = sweep[u].pc /\ sweep'[u].attempt = sweep[u].attempt
                        /\ sweep'[u].at = sweep[u].at /\ sweep'[u].time = sweep[u].time
  BY <1>1, <1>3 DEF DayAt, Run
<1>7. SweepInv'
  BY <1>1, <1>2, <1>3, <1>6 DEF SweepInv, HoldsRun
<1>8. LeaseInv' /\ ClaimsDiffer'
  BY <1>1, <1>6 DEF LeaseInv, ClaimsDiffer, HoldsRun
<1>9. RunInv' /\ NextInv' /\ SuccessIsComplete' /\ NoDaySkipped'
  BY <1>1, <1>2, <1>4 DEF RunInv, NextInv, SuccessIsComplete, NoDaySkipped, ScheduleTypeOK
<1>10. QED
  BY <1>5, <1>7, <1>8, <1>9

\* A step of one sweep to its "fail" leaves the invariant, whatever failed.
LEMMA ToFailStep ==
  ASSUME IInv, NEW s \in Sweeps, sweep[s].pc = "work", sweep' = Going(s, "fail"),
         UNCHANGED <<clock, schedule, runs, stored, save, savedOn, saves, crashes>>
  PROVE  IInv'
<1> USE DEF IInv
<1>1. /\ sweep' \in [Sweeps -> SweepStates]
      /\ sweep'[s].pc = "fail" /\ sweep'[s].at = sweep[s].at /\ sweep'[s].time = sweep[s].time
      /\ sweep'[s].attempt = sweep[s].attempt
      /\ \A u \in Sweeps : u # s => sweep'[u] = sweep[u]
  BY GoingLemma
<1>2. ScheduleTypeOK'
  BY <1>1 DEF ScheduleTypeOK
<1>3. \A u \in Sweeps : DayAt(u)' = DayAt(u) /\ Run(u)' = Run(u)
  BY <1>1 DEF DayAt, Run
<1>4. SweepInv' /\ LeaseInv' /\ ClaimsDiffer'
  BY <1>1, <1>3 DEF SweepInv, LeaseInv, ClaimsDiffer, HoldsRun
<1>5. RunInv' /\ NextInv' /\ SuccessIsComplete' /\ NoDaySkipped'
  BY DEF RunInv, NextInv, SuccessIsComplete, NoDaySkipped
<1>6. QED
  BY <1>2, <1>4, <1>5

\* A sweep moves the schedule to the day after its own, once that day is closed.
LEMMA MovedLemma ==
  ASSUME ScheduleTypeOK, NEW s \in Sweeps, NEW day \in Days, day = DayAt(s), day <= DayOf(clock),
         sweep[s].time \in LocalTimes, schedule' = Moved(NextAfter(s)), clock' = clock, Closed(day)'
  PROVE  /\ schedule' \in Schedules
         /\ schedule'.enabled <=> schedule'.next # Never
         /\ schedule'.enabled => DayOf(schedule'.next) <= DayOf(clock) + 1
         /\ NoDaySkipped'
<1> DEFINE t == NextAfter(s)
<1>1. day \in Nat /\ DayOf(clock) \in Nat
  BY DayLemma, SchedulerAssumption DEF Days, ScheduleTypeOK
<1>2. t \in Nat /\ DayOf(t) = day + 1
  <2>1. t = Slot(day + 1, sweep[s].time)  BY DEF NextAfter, DayAt
  <2>2. day + 1 \in Nat  BY <1>1
  <2> QED  BY ONLY <2>1, <2>2, sweep[s].time \in LocalTimes, SlotLemma
<1>3. /\ schedule'.enabled = schedule.enabled /\ schedule'.time = schedule.time
      /\ schedule'.next = IF schedule.enabled THEN t ELSE Never
      /\ schedule' \in Schedules
  BY <1>2 DEF Moved, ScheduleTypeOK, Schedules
<1> HIDE DEF t
<1>4. schedule'.enabled <=> schedule'.next # Never
  BY <1>2, <1>3 DEF Never
<1>5. schedule'.enabled => DayOf(schedule'.next) = day + 1
  BY <1>2, <1>3
<1>6. NoDaySkipped'
  <2>1. SUFFICES ASSUME schedule'.enabled, DayOf(schedule'.next) > DayOf(clock)
                 PROVE  Closed(DayOf(clock))'
    BY DEF NoDaySkipped, Closed
  <2>2. DayOf(clock) = day
    BY <1>1, <1>5, <2>1
  <2>3. QED
    BY <2>2 DEF Closed
<1>7. QED
  BY <1>1, <1>3, <1>4, <1>5, <1>6

LEMMA OwnDay ==
  ASSUME IInv, NEW s \in Sweeps
  PROVE  DayAt(s) \in Days /\ DayAt(s) <= DayOf(clock)
<1>1. sweep[s].at \in Nat /\ clock \in Nat /\ sweep[s].at <= clock
  BY SchedulerAssumption DEF IInv, ScheduleTypeOK, SweepStates, SweepInv
<1>2. QED
  BY <1>1, SweepDay, DayLemma DEF IInv, DayAt

LEMMA AdvanceStep ==
  ASSUME IInv, NEW s \in Sweeps, Advance(s)
  PROVE  IInv'
<1> USE DEF IInv
<1>1. UNCHANGED <<clock, runs, stored, save, savedOn, saves, crashes>> /\ sweep[s].pc = "advance"
  BY DEF Advance, SweepQuiet
<1>2. PICK day \in Days : day = DayAt(s) /\ day <= DayOf(clock)
  BY OwnDay
<1>3. Closed(day)'
  <2>1. runs[day].status = "succeeded"
    BY <1>1, <1>2 DEF SweepInv, Run
  <2>2. QED
    BY <1>1, <2>1 DEF Closed
<1>4. /\ schedule' \in Schedules
      /\ schedule'.enabled <=> schedule'.next # Never
      /\ schedule'.enabled => DayOf(schedule'.next) <= DayOf(clock) + 1
      /\ NoDaySkipped'
  <2>1. sweep[s].time \in LocalTimes
    BY <1>1 DEF SweepInv
  <2>2. QED
    BY <1>1, <1>2, <1>3, <2>1, MovedLemma DEF Advance
<1>5. IdleSweep \in SweepStates
  BY SchedulerAssumption DEF IdleSweep, SweepStates
<1>6. sweep' \in [Sweeps -> SweepStates] /\ sweep'[s] = IdleSweep
      /\ \A u \in Sweeps : u # s => sweep'[u] = sweep[u]
  BY <1>5 DEF ScheduleTypeOK, Advance, Ended
<1>7. ScheduleTypeOK'
  BY <1>1, <1>4, <1>6 DEF ScheduleTypeOK
<1>8. SweepInv'
  BY <1>1, <1>6 DEF SweepInv, HoldsRun, Run, DayAt, IdleSweep, ScheduleTypeOK
<1>9. LeaseInv' /\ ClaimsDiffer'
  BY <1>1, <1>6 DEF LeaseInv, ClaimsDiffer, HoldsRun, Run, DayAt, IdleSweep
<1>10. NextInv'
  BY <1>1, <1>4 DEF NextInv
<1>11. RunInv' /\ SuccessIsComplete'
  BY <1>1 DEF RunInv, SuccessIsComplete
<1>12. QED
  BY <1>4, <1>7, <1>8, <1>9, <1>10, <1>11

LEMMA ClaimStep ==
  ASSUME IInv, NEW s \in Sweeps, ClaimRun(s), RunClaimable(s)
  PROVE  IInv'
<1> USE DEF IInv
<1> DEFINE row(d) == [status |-> "running", attempts |-> runs[d].attempts + 1,
                      lease |-> sweep[s].at + Lease, retryAt |-> Never]
<1>1. UNCHANGED <<clock, schedule, stored, save, savedOn, saves, crashes>> /\ sweep[s].pc = "claim"
  BY DEF ClaimRun, SweepQuiet
<1>2. PICK day \in Days : day = DayAt(s) /\ day <= DayOf(clock)
  BY OwnDay
<1>3. /\ Run(s) = runs[day] /\ runs[day] \in Runs
      /\ runs[day].attempts \in Nat /\ runs[day].attempts < MaxRunAttempts
      /\ runs[day].status # "succeeded"
      /\ runs[day].status = "running" => runs[day].lease <= sweep[s].at
  BY <1>2, SchedulerAssumption DEF ScheduleTypeOK, Run, Runs, RunClaimable
<1>4. sweep[s].at \in Nat /\ sweep[s].at <= clock /\ clock \in Nat /\ Lease \in Nat
  BY SchedulerAssumption DEF ScheduleTypeOK, SweepStates, SweepInv
<1>5. row(day) \in Runs
  BY <1>3, <1>4, SchedulerAssumption DEF Runs
<1>6. runs' = [runs EXCEPT ![day] = row(day)]
  BY <1>2, <1>3 DEF ClaimRun
<1>7. /\ runs' \in [Days -> Runs]
      /\ runs'[day].status = "running" /\ runs'[day].attempts = runs[day].attempts + 1
      /\ runs'[day].lease = sweep[s].at + Lease
      /\ \A d \in Days : d # day => runs'[d] = runs[d]
  BY <1>5, <1>6 DEF ScheduleTypeOK
<1>8. /\ sweep' \in [Sweeps -> SweepStates]
      /\ sweep'[s].pc = "work" /\ sweep'[s].at = sweep[s].at /\ sweep'[s].time = sweep[s].time
      /\ sweep'[s].attempt = runs[day].attempts + 1 /\ sweep'[s].todo = Candidates
      /\ \A u \in Sweeps : u # s => sweep'[u] = sweep[u]
  <2>1. sweep' = [sweep EXCEPT ![s].pc = "work", ![s].attempt = runs[day].attempts + 1, ![s].todo = Candidates]
    BY <1>3 DEF ClaimRun
  <2>2. runs[day].attempts + 1 \in 0..MaxRunAttempts
    BY <1>3, SchedulerAssumption
  <2>3. QED
    BY <2>1, <2>2 DEF ScheduleTypeOK, SweepStates
<1> HIDE DEF row
<1>9. \A u \in Sweeps : DayAt(u)' = DayAt(u) /\ DayAt(u) \in Days
  BY <1>8, SweepDay DEF DayAt
<1>10. ScheduleTypeOK'
  BY <1>1, <1>7, <1>8 DEF ScheduleTypeOK
<1>11. SweepInv'
  <2>1. ASSUME NEW u \in Sweeps, u # s
        PROVE  /\ sweep'[u].pc # "idle" => sweep'[u].time \in LocalTimes
               /\ sweep'[u].at <= clock'
               /\ HoldsRun(u)' => sweep'[u].attempt \in 1..Run(u)'.attempts
               /\ sweep'[u].pc = "advance" => Run(u)'.status = "succeeded"
               /\ sweep'[u].pc = "work" => Candidates \ sweep'[u].todo \subseteq stored'
    <3>1. CASE DayAt(u) = day
      BY <1>1, <1>3, <1>7, <1>8, <1>9, <2>1, <3>1 DEF SweepInv, HoldsRun, Run
    <3>2. CASE DayAt(u) # day
      BY <1>1, <1>7, <1>8, <1>9, <2>1, <3>2 DEF SweepInv, HoldsRun, Run
    <3>3. QED
      BY <3>1, <3>2
  <2>2. /\ sweep'[s].time \in LocalTimes /\ sweep'[s].at <= clock'
        /\ sweep'[s].attempt \in 1..Run(s)'.attempts
        /\ Candidates \ sweep'[s].todo \subseteq stored'
    <3>1. sweep'[s].time \in LocalTimes /\ sweep'[s].at <= clock'
      BY <1>1, <1>8 DEF SweepInv
    <3>2. Run(s)' = runs'[day]
      BY <1>2, <1>9 DEF Run
    <3>3. QED
      BY <1>3, <1>7, <1>8, <3>1, <3>2
  <2>3. QED
    BY <1>8, <2>1, <2>2 DEF SweepInv, HoldsRun
<1>12. ClaimsDiffer'
  <2>1. ASSUME NEW u \in Sweeps, u # s, HoldsRun(u)', DayAt(u)' = DayAt(s)'
        PROVE  sweep'[u].attempt # sweep'[s].attempt
    <3>1. sweep[u].attempt \in 1..runs[day].attempts /\ sweep'[u].attempt = sweep[u].attempt
      BY <1>2, <1>8, <1>9, <2>1 DEF SweepInv, HoldsRun, Run
    <3>2. QED
      BY <1>3, <1>8, <3>1
  <2>2. ASSUME NEW u \in Sweeps, NEW v \in Sweeps, u # v, HoldsRun(u)', HoldsRun(v)', DayAt(u)' = DayAt(v)'
        PROVE  sweep'[u].attempt # sweep'[v].attempt
    <3>1. CASE u = s
      BY <2>1, <2>2, <3>1
    <3>2. CASE v = s
      BY <2>1, <2>2, <3>2
    <3>3. CASE u # s /\ v # s
      BY <1>8, <1>9, <2>2, <3>3 DEF ClaimsDiffer, HoldsRun
    <3>4. QED
      BY <3>1, <3>2, <3>3
  <2>3. QED
    BY <2>2 DEF ClaimsDiffer
<1>13. LeaseInv'
  <2>1. ASSUME NEW u \in Sweeps, sweep'[u].pc = "work"
        PROVE  IF sweep'[u].attempt = Run(u)'.attempts
               THEN Run(u)'.status = "running" /\ Run(u)'.lease = sweep'[u].at + Lease
               ELSE sweep'[u].at + Lease <= clock'
    <3>1. CASE u = s
      <4>1. Run(s)' = runs'[day]
        BY <1>2, <1>9 DEF Run
      <4>2. QED
        BY <1>7, <1>8, <3>1, <4>1
    <3>2. CASE u # s /\ DayAt(u) # day
      BY <1>1, <1>7, <1>8, <1>9, <2>1, <3>2 DEF LeaseInv, Run
    <3>3. CASE u # s /\ DayAt(u) = day
      <4>1. Run(u) = runs[day] /\ Run(u)' = runs'[day] /\ sweep'[u] = sweep[u]
        BY <1>8, <1>9, <3>3 DEF Run
      <4>2. sweep[u].attempt \in 1..runs[day].attempts /\ sweep[u].at \in Nat
        BY <2>1, <4>1, SchedulerAssumption DEF SweepInv, HoldsRun, ScheduleTypeOK, SweepStates
      <4>3. IF sweep[u].attempt = runs[day].attempts
            THEN runs[day].status = "running" /\ runs[day].lease = sweep[u].at + Lease
            ELSE sweep[u].at + Lease <= clock
        BY <2>1, <4>1 DEF LeaseInv
      <4>4. sweep[u].at + Lease <= clock
        BY <1>3, <1>4, <4>2, <4>3
      <4>5. sweep[u].attempt # runs'[day].attempts
        BY <1>3, <1>7, <4>2
      <4>6. QED
        BY <1>1, <4>1, <4>4, <4>5
    <3>4. QED
      BY <3>1, <3>2, <3>3
  <2>2. QED
    BY <2>1 DEF LeaseInv
<1>14. RunInv'
  BY <1>7 DEF RunInv
<1>15. NextInv'
  BY <1>1 DEF NextInv
<1>16. SuccessIsComplete'
  BY <1>1, <1>7 DEF SuccessIsComplete
<1>17. NoDaySkipped'
  <2>1. DayOf(clock) \in Days
    BY DayLemma DEF ScheduleTypeOK
  <2>2. runs[day].status = "failed" => runs[day].attempts # MaxRunAttempts
    BY <1>3, SchedulerAssumption
  <2>3. QED
    BY <1>1, <1>3, <1>7, <2>1, <2>2 DEF NoDaySkipped
<1>18. QED
  BY <1>10, <1>11, <1>12, <1>13, <1>14, <1>15, <1>16, <1>17

\* The owner of a run ends it: what this leaves of the sweeps and the runs.
LEMMA OutcomeLemma ==
  ASSUME IInv, NEW s \in Sweeps, HoldsRun(s), Owns(s), NEW day \in Days, day = DayAt(s),
         NEW row \in Runs, row.status \in {"succeeded", "failed"}, row.attempts = runs[day].attempts,
         runs' = [runs EXCEPT ![day] = row], sweep' = Ended(s), clock' = clock, stored' = stored
  PROVE  /\ runs' \in [Days -> Runs] /\ sweep' \in [Sweeps -> SweepStates]
         /\ SweepInv' /\ RunInv' /\ ClaimsDiffer' /\ LeaseInv'
<1> USE DEF IInv
<1>1. /\ runs' \in [Days -> Runs] /\ runs'[day] = row
      /\ \A d \in Days : d # day => runs'[d] = runs[d]
  BY DEF ScheduleTypeOK
<1>2. IdleSweep \in SweepStates
  BY SchedulerAssumption DEF IdleSweep, SweepStates
<1>3. /\ sweep' \in [Sweeps -> SweepStates] /\ sweep'[s] = IdleSweep
      /\ \A u \in Sweeps : u # s => sweep'[u] = sweep[u]
  BY <1>2 DEF ScheduleTypeOK, Ended
<1>4. /\ IdleSweep.pc = "idle" /\ IdleSweep.at = 0 /\ 0 <= clock
  BY SchedulerAssumption DEF IdleSweep, ScheduleTypeOK
<1>5. \A u \in Sweeps : u # s => /\ DayAt(u)' = DayAt(u) /\ DayAt(u) \in Days
                                 /\ Run(u)'.attempts = Run(u).attempts
                                 /\ DayAt(u) # day => Run(u)' = Run(u)
  BY <1>1, <1>3, SweepDay DEF DayAt, Run
<1>6. runs[day].status = "running" /\ runs[day].attempts = sweep[s].attempt
  BY DEF Owns, Run
<1>7. SweepInv'
  <2>1. ASSUME NEW u \in Sweeps, u # s
        PROVE  /\ sweep'[u].pc # "idle" => sweep'[u].time \in LocalTimes
               /\ sweep'[u].at <= clock'
               /\ HoldsRun(u)' => sweep'[u].attempt \in 1..Run(u)'.attempts
               /\ sweep'[u].pc = "advance" => Run(u)'.status = "succeeded"
               /\ sweep'[u].pc = "work" => Candidates \ sweep'[u].todo \subseteq stored'
    <3>1. sweep[u].pc = "advance" => DayAt(u) # day
      BY <1>6 DEF SweepInv, Run
    <3>2. QED
      BY <1>3, <1>5, <2>1, <3>1 DEF SweepInv, HoldsRun
  <2>2. QED
    BY <1>3, <1>4, <2>1 DEF SweepInv, HoldsRun
<1>8. ClaimsDiffer'
  BY <1>3, <1>4, <1>5 DEF ClaimsDiffer, HoldsRun
<1>9. LeaseInv'
  <2>1. ASSUME NEW u \in Sweeps, sweep'[u].pc = "work"
        PROVE  IF sweep'[u].attempt = Run(u)'.attempts
               THEN Run(u)'.status = "running" /\ Run(u)'.lease = sweep'[u].at + Lease
               ELSE sweep'[u].at + Lease <= clock'
    <3>1. u # s /\ sweep'[u] = sweep[u]
      BY <1>3, <1>4, <2>1
    <3>2. CASE DayAt(u) = day
      <4>1. sweep[u].attempt # Run(u).attempts
        BY <1>6, <2>1, <3>1, <3>2 DEF ClaimsDiffer, HoldsRun, Run
      <4>2. QED
        BY <1>5, <2>1, <3>1, <4>1 DEF LeaseInv
    <3>3. CASE DayAt(u) # day
      BY <1>5, <2>1, <3>1, <3>3 DEF LeaseInv
    <3>4. QED
      BY <3>2, <3>3
  <2>2. QED
    BY <2>1 DEF LeaseInv
<1>10. RunInv'
  BY <1>1 DEF RunInv
<1>11. QED
  BY <1>1, <1>3, <1>7, <1>8, <1>9, <1>10

LEMMA SucceedStep ==
  ASSUME IInv, NEW s \in Sweeps, Succeed(s), Owns(s)
  PROVE  IInv'
<1> USE DEF IInv
<1> DEFINE row(d) == [status |-> "succeeded", attempts |-> runs[d].attempts, lease |-> Never, retryAt |-> Never]
<1>1. /\ UNCHANGED <<clock, stored, save, savedOn, saves, crashes>>
      /\ sweep[s].pc = "work" /\ sweep[s].todo = {} /\ sweep' = Ended(s) /\ schedule' = Moved(NextAfter(s))
  BY DEF Succeed, SweepQuiet
<1>2. PICK day \in Days : day = DayAt(s) /\ day <= DayOf(clock)
  BY OwnDay
<1>3. row(day) \in Runs
  BY DEF ScheduleTypeOK, Runs
<1>4. runs' = [runs EXCEPT ![day] = row(day)]
  BY <1>2 DEF Succeed, Run
<1>5. row(day).status = "succeeded" /\ row(day).attempts = runs[day].attempts
  OBVIOUS
<1> HIDE DEF row
<1>6. /\ runs' \in [Days -> Runs] /\ sweep' \in [Sweeps -> SweepStates]
      /\ SweepInv' /\ RunInv' /\ ClaimsDiffer' /\ LeaseInv'
  BY <1>1, <1>2, <1>3, <1>4, <1>5, OutcomeLemma DEF HoldsRun
<1>7. runs'[day].status = "succeeded" /\ \A d \in Days : d # day => runs'[d] = runs[d]
  BY <1>3, <1>4, <1>5 DEF ScheduleTypeOK
<1>8. /\ schedule' \in Schedules
      /\ schedule'.enabled <=> schedule'.next # Never
      /\ schedule'.enabled => DayOf(schedule'.next) <= DayOf(clock) + 1
      /\ NoDaySkipped'
  <2>1. sweep[s].time \in LocalTimes
    BY <1>1 DEF SweepInv
  <2>2. Closed(day)'
    BY <1>7 DEF Closed
  <2>3. QED
    BY <1>1, <1>2, <2>1, <2>2, MovedLemma
<1>9. ScheduleTypeOK'
  BY <1>1, <1>6, <1>8 DEF ScheduleTypeOK
<1>10. NextInv'
  BY <1>1, <1>8 DEF NextInv
<1>11. SuccessIsComplete'
  BY <1>1 DEF SweepInv, SuccessIsComplete, ScheduleTypeOK
<1>12. QED
  BY <1>6, <1>8, <1>9, <1>10, <1>11

LEMMA FailStep ==
  ASSUME IInv, NEW s \in Sweeps, Fail(s), Owns(s)
  PROVE  IInv'
<1> USE DEF IInv
<1> DEFINE terminal == sweep[s].attempt >= MaxRunAttempts
           retry    == IF terminal THEN Never ELSE sweep[s].at + RetryWait
           row(d)   == [status |-> "failed", attempts |-> runs[d].attempts, lease |-> Never, retryAt |-> retry]
<1>1. /\ UNCHANGED <<clock, stored, save, savedOn, saves, crashes>>
      /\ sweep[s].pc = "fail" /\ sweep' = Ended(s)
      /\ schedule' = IF terminal THEN Moved(NextAfter(s)) ELSE schedule
  BY DEF Fail, SweepQuiet
<1>2. PICK day \in Days : day = DayAt(s) /\ day <= DayOf(clock)
  BY OwnDay
<1>3. row(day) \in Runs
  <2>1. retry \in Nat \cup {Never}
    BY SchedulerAssumption DEF ScheduleTypeOK, SweepStates
  <2>2. QED
    BY <2>1 DEF ScheduleTypeOK, Runs
<1>4. runs' = [runs EXCEPT ![day] = row(day)]
  BY <1>2 DEF Fail, Run
<1>5. row(day).status = "failed" /\ row(day).attempts = runs[day].attempts
  OBVIOUS
<1> HIDE DEF row, retry
<1>6. /\ runs' \in [Days -> Runs] /\ sweep' \in [Sweeps -> SweepStates]
      /\ SweepInv' /\ RunInv' /\ ClaimsDiffer' /\ LeaseInv'
  BY <1>1, <1>2, <1>3, <1>4, <1>5, OutcomeLemma DEF HoldsRun
<1>7. /\ runs'[day].status = "failed" /\ runs'[day].attempts = runs[day].attempts
      /\ \A d \in Days : d # day => runs'[d] = runs[d]
  BY <1>3, <1>4, <1>5 DEF ScheduleTypeOK
<1>8. runs[day].status = "running" /\ runs[day].attempts = sweep[s].attempt /\ runs[day].attempts \in 0..MaxRunAttempts
  BY <1>2 DEF Owns, Run, ScheduleTypeOK, Runs
<1>9. /\ schedule' \in Schedules
      /\ schedule'.enabled <=> schedule'.next # Never
      /\ schedule'.enabled => DayOf(schedule'.next) <= DayOf(clock) + 1
      /\ NoDaySkipped'
  <2>1. CASE terminal
    <3>1. sweep[s].time \in LocalTimes
      BY <1>1 DEF SweepInv
    <3>2. runs'[day].attempts = MaxRunAttempts
      BY <1>7, <1>8, <2>1, SchedulerAssumption
    <3>3. Closed(day)'
      BY <1>7, <3>2 DEF Closed
    <3>4. QED
      BY <1>1, <1>2, <2>1, <3>1, <3>3, MovedLemma
  <2>2. CASE ~terminal
    <3>1. schedule' = schedule /\ DayOf(clock) \in Days
      BY <1>1, <2>2, DayLemma DEF ScheduleTypeOK
    <3>2. NoDaySkipped'
      BY <1>1, <1>7, <1>8, <3>1 DEF NoDaySkipped
    <3>3. QED
      BY <3>1, <3>2 DEF ScheduleTypeOK, NextInv
  <2>3. QED
    BY <2>1, <2>2
<1>10. ScheduleTypeOK'
  BY <1>1, <1>6, <1>9 DEF ScheduleTypeOK
<1>11. NextInv'
  BY <1>1, <1>9 DEF NextInv
<1>12. SuccessIsComplete'
  BY <1>1, <1>7 DEF SuccessIsComplete
<1>13. QED
  BY <1>6, <1>9, <1>10, <1>11, <1>12

-----------------------------------------------------------------------------
(* Every step, and the theorems.                                             *)

LEMMA StepIInv == IInv /\ [ScheduleNext]_scheduleVars => IInv'
<1> SUFFICES ASSUME IInv, [ScheduleNext]_scheduleVars PROVE IInv'
  OBVIOUS
<1>1. ASSUME NEW s \in Sweeps, SweepStep(s)
      PROVE  IInv'
  <2>1. CASE List(s)
    BY <2>1, ListStep
  <2>2. CASE Ensure(s)
    BY <2>2, EnsureStep
  <2>3. CASE Advance(s)
    BY <2>3, AdvanceStep
  <2>4. CASE ClaimRun(s) /\ RunClaimable(s)
    BY <2>4, ClaimStep
  <2>5. CASE ClaimRun(s) /\ ~RunClaimable(s)
    BY <2>5, EndStep DEF ClaimRun, SweepQuiet, IInv, ScheduleTypeOK
  <2>6. CASE Create(s)
    BY <2>6, CreateStep
  <2>7. CASE Throw(s)
    BY <2>7, ToFailStep DEF Throw, SweepQuiet
  <2>8. CASE Succeed(s) /\ Owns(s)
    BY <2>8, SucceedStep
  <2>9. CASE Succeed(s) /\ ~Owns(s)
    BY <2>9, ToFailStep DEF Succeed, SweepQuiet
  <2>10. CASE Fail(s) /\ Owns(s)
    BY <2>10, FailStep
  <2>11. CASE Fail(s) /\ ~Owns(s)
    BY <2>11, EndStep DEF Fail, SweepQuiet, IInv, ScheduleTypeOK
  <2>12. QED
    BY <1>1, <2>1, <2>2, <2>3, <2>4, <2>5, <2>6, <2>7, <2>8, <2>9, <2>10, <2>11 DEF SweepStep
<1>2. ASSUME NEW s \in Sweeps, Crash(s)
      PROVE  IInv'
  BY <1>2, CrashStep
<1>3. CASE UNCHANGED scheduleVars
  BY <1>3 DEF scheduleVars, IInv, ScheduleTypeOK, SweepInv, RunInv, ClaimsDiffer, LeaseInv, NextInv, HoldsRun, Run, DayAt,
              SuccessIsComplete, NoDaySkipped
<1>4. QED
  BY <1>1, <1>2, <1>3, ReadSettingsStep, UpsertStep, TickStep DEF ScheduleNext

LEMMA Invariance == ScheduleSpec => []IInv
BY InitIInv, StepIInv, PTL DEF ScheduleSpec

\* The tables and the states of sweeps keep their types, and the schedule has a
\* next run exactly while it is enabled.
THEOREM ScheduleTypeCorrect == ScheduleSpec => []ScheduleTypeOK
<1>1. IInv => ScheduleTypeOK
  BY DEF IInv
<1>2. QED
  BY <1>1, Invariance, PTL

\* Two sweeps work on one day only after the lease of the earlier one ended
\* (claim_run), though each works with a time it took before.
THEOREM OverlapOnlyAfterExpiry == ScheduleSpec => []OverlapNeedsExpiry
<1>1. IInv => OverlapNeedsExpiry
  <2> SUFFICES ASSUME IInv, NEW s \in Sweeps, NEW t \in Sweeps,
                      sweep[s].pc = "work", sweep[t].pc = "work",
                      DayAt(s) = DayAt(t), sweep[s].attempt < sweep[t].attempt
               PROVE  sweep[s].at + Lease <= clock
    BY DEF OverlapNeedsExpiry
  <2>1. Run(s) = Run(t) /\ Run(s).attempts \in Nat
    BY SweepDay, SchedulerAssumption DEF IInv, Run, Runs
  <2>2. sweep[s].attempt \in 1..Run(s).attempts /\ sweep[t].attempt \in 1..Run(s).attempts
    BY <2>1 DEF IInv, SweepInv, HoldsRun
  <2>3. sweep[s].attempt # Run(s).attempts
    BY <2>1, <2>2
  <2>4. QED
    BY <2>3 DEF IInv, LeaseInv
<1>2. QED
  BY <1>1, Invariance, PTL

\* The schedule passes a day only when the run of that day ended for good or
\* settings were saved on it (mark_succeeded, mark_failed, advance_schedule).
THEOREM EveryDayServed == ScheduleSpec => []NoDaySkipped
<1>1. IInv => NoDaySkipped
  BY DEF IInv
<1>2. QED
  BY <1>1, Invariance, PTL

\* A run that succeeded left no candidate out.
THEOREM CompleteOnSuccess == ScheduleSpec => []SuccessIsComplete
<1>1. IInv => SuccessIsComplete
  BY DEF IInv
<1>2. QED
  BY <1>1, Invariance, PTL

\* A success is never undone: late reports of a sweep that lost its claim write
\* nothing (mark_succeeded, mark_failed).
THEOREM SuccessStays == ScheduleSpec => SuccessIsFinal
<1>1. ASSUME ScheduleTypeOK, [ScheduleNext]_scheduleVars
      PROVE  \A d \in Days : runs[d].status = "succeeded" => runs'[d].status = "succeeded"
  <2>1. CASE runs' = runs
    BY <2>1
  <2>2. ASSUME NEW s \in Sweeps, NEW row, DayAt(s) \in Days, Run(s).status # "succeeded",
               runs' = [runs EXCEPT ![DayAt(s)] = row]
        PROVE  \A d \in Days : runs[d].status = "succeeded" => runs'[d].status = "succeeded"
    BY <1>1, <2>2 DEF ScheduleTypeOK, Run
  <2>3. ASSUME NEW s \in Sweeps, Ensure(s)
        PROVE  \A d \in Days : runs[d].status = "succeeded" => runs'[d].status = "succeeded"
    BY <1>1, <2>3, SweepDay DEF Ensure, ScheduleTypeOK, Runs
  <2>4. ASSUME NEW s \in Sweeps, ClaimRun(s) \/ Succeed(s) \/ Fail(s)
        PROVE  \A d \in Days : runs[d].status = "succeeded" => runs'[d].status = "succeeded"
    <3>1. DayAt(s) \in Days
      BY <1>1, SweepDay
    <3>2. RunClaimable(s) \/ Owns(s) => Run(s).status # "succeeded"
      BY DEF RunClaimable, Owns
    <3>3. QED
      BY <2>1, <2>2, <2>4, <3>1, <3>2 DEF ClaimRun, Succeed, Fail
  <2>5. QED
    BY <1>1, <2>1, <2>3, <2>4 DEF ScheduleNext, SweepStep, scheduleVars, List, Advance, Create, Throw, Crash, ReadSettings,
                                  UpsertSchedule, ClockTick
<1>2. QED
  BY <1>1, ScheduleTypeCorrect, PTL DEF ScheduleSpec, SuccessIsFinal
=============================================================================
