------------------------ MODULE AutomationRuleProofs ------------------------
(***************************************************************************)
(* What holds of AutomationRule for any number of runs, administrators,     *)
(* triggers and events, any lease and any staleness of timestamps.          *)
(***************************************************************************)
EXTENDS AutomationRule, SequenceTheorems, FiniteSetTheorems, TLAPS

-----------------------------------------------------------------------------
(* Lemmas about the states of a run and about the log.                       *)

\* The states that the operators on runs build are states of a run.
LEMMA RunStateLemma ==
  /\ NoRun \in RunStates
  /\ Leaving \in RunStates
  /\ \A s \in RunStates : NextRow(s) \in RunStates
  /\ \A s \in RunStates, pc \in RunPC : [s EXCEPT !.pc = pc, !.lag = 0] \in RunStates
<1>1. (CHOOSE t \in Triggers : TRUE) \in Triggers
  BY AutomationAssumption
<1>2. 0 \in 0..MaxLog /\ 0 \in 0..MaxLag /\ {} \in SUBSET Ids
  BY AutomationAssumption
<1>3. NoRun \in RunStates
  BY <1>1, <1>2 DEF NoRun, RunStates, RunPC, Statuses
<1>4. Leaving \in RunStates
  BY <1>3 DEF Leaving, RunStates, RunPC
<1>5. \A s \in RunStates : NextRow(s) \in RunStates
  BY <1>2 DEF NextRow, RunStates, RunPC, Statuses
<1>6. \A s \in RunStates, pc \in RunPC : [s EXCEPT !.pc = pc, !.lag = 0] \in RunStates
  BY <1>2 DEF RunStates
<1>7. QED
  BY <1>3, <1>4, <1>5, <1>6

\* Rows are only added at the end of the log; a row keeps its kind and stays shown.
Extends(new, old) ==
  /\ new \in Seq(LogRows) /\ Len(new) <= MaxLog
  /\ Len(old) <= Len(new)
  /\ \A e \in 1..Len(old) : new[e].kind = old[e].kind /\ (old[e].shown => new[e].shown)

\* The audit row is an ordinary row at the end of the log.
LEMMA AuditLemma ==
  ASSUME NEW rows \in Seq(LogRows), Len(rows) <= MaxLog
  PROVE  Extends(WithAudit(rows), rows)
<1> DEFINE row == [kind |-> Engine, shown |-> TRUE, overtaken |-> FALSE, armed |-> FALSE]
<1>1. row \in LogRows
  BY DEF LogRows
<1>2. CASE Len(rows) < MaxLog
  <2>1. WithAudit(rows) = Append(rows, row)
    BY <1>2 DEF WithAudit
  <2>2. QED
    BY <1>1, <1>2, <2>1, AppendProperties, LenProperties, AutomationAssumption DEF Extends
<1>3. CASE ~(Len(rows) < MaxLog)
  <2>1. WithAudit(rows) = rows
    BY <1>3 DEF WithAudit
  <2>2. QED
    BY <2>1, LenProperties DEF Extends
<1>4. QED
  BY <1>2, <1>3

\* Every step extends the log.
LEMMA LogExtends ==
  ASSUME TypeOK, [Next]_vars
  PROVE  Extends(log', log)
<1>1. Extends(log, log)
  BY LenProperties DEF TypeOK, Extends
<1>2. Extends(WithAudit(log), log)
  BY AuditLemma DEF TypeOK
<1>3. CASE LogEvent
  <2>1. PICK k \in Triggers, shown \in BOOLEAN :
          log' = Append(log, [kind |-> k, shown |-> shown, overtaken |-> FALSE, armed |-> rule.active])
    BY <1>3, AutomationAssumption DEF LogEvent
  <2>2. [kind |-> k, shown |-> shown, overtaken |-> FALSE, armed |-> rule.active] \in LogRows
    BY DEF TypeOK, RuleRows, LogRows
  <2>3. Len(log) < MaxLog
    BY <1>3 DEF LogEvent
  <2>4. QED
    BY <2>1, <2>2, <2>3, AppendProperties, LenProperties, AutomationAssumption DEF TypeOK, Extends
<1>4. ASSUME NEW e \in Ids, CommitEvent(e)
      PROVE  Extends(log', log)
  <2> DEFINE passed == \E f \in e + 1..Len(log) : log[f].shown
             armed  == log[e].armed \/ rule.active
             row == [kind |-> log[e].kind, shown |-> TRUE, overtaken |-> passed, armed |-> armed]
  <2>1. e \in 1..Len(log) /\ log' = [log EXCEPT ![e] = row]
    BY <1>4, Zenon DEF CommitEvent
  <2>2. log[e] \in LogRows
    BY <2>1, ElementOfSeq DEF TypeOK
  <2>3. row \in LogRows /\ row.kind = log[e].kind /\ row.shown
    BY <2>2 DEF LogRows
  <2> HIDE DEF row
  <2>4. QED
    BY <2>1, <2>3, ExceptSeq, LenProperties DEF TypeOK, Extends
<1>5. CASE \E r \in Runs, result \in {"success", "failed"} : Act(r, result)
  BY <1>1, <1>2, <1>5 DEF Act
<1>6. CASE \E r \in Runs : CompleteExecution(r)
  BY <1>1, <1>2, <1>6 DEF CompleteExecution
<1>7. CASE \E a \in Admins : Activate(a) \/ Update(a)
  BY <1>1, <1>2, <1>7 DEF Activate, Update
<1>8. CASE log' = log
  BY <1>1, <1>8
<1>9. QED
  BY <1>3, <1>4, <1>5, <1>6, <1>7, <1>8
  DEF Next, RunStep, vars, Begin, Acquire, Fetch, IdleRenew, Renew, ClaimExecution, FinalRenew, Progress,
      Release, Raise, Crash, ReadRule, Tick

-----------------------------------------------------------------------------
(* Type correctness.                                                         *)

\* The log keeps its type whatever the step is.
LEMMA LogType ==
  ASSUME TypeOK, [Next]_vars
  PROVE  log' \in Seq(LogRows) /\ Len(log') <= MaxLog
BY LogExtends DEF Extends

LEMMA InitType == Init => TypeOK
<1> SUFFICES ASSUME Init PROVE TypeOK
  OBVIOUS
<1>1. rule \in RuleRows
  BY AutomationAssumption DEF Init, RuleRows
<1>2. log \in Seq(LogRows) /\ Len(log) <= MaxLog
  BY EmptySeq, AutomationAssumption DEF Init
<1>3. exec \in [Ids -> Statuses] /\ calls \in [Ids -> Nat]
  BY DEF Init, Statuses
<1>4. run \in [Runs -> RunStates]
  BY RunStateLemma DEF Init
<1>5. admin \in [Admins -> Requests]
  BY DEF Init, Requests, NoRequest
<1>6. crashes \in 0..MaxCrashes /\ base \in 0..MaxLog
  BY AutomationAssumption DEF Init
<1>7. retargeted \in BOOLEAN
  BY DEF Init
<1>8. QED
  BY <1>1, <1>2, <1>3, <1>4, <1>5, <1>6, <1>7 DEF TypeOK

LEMMA StepType == TypeOK /\ [Next]_vars => TypeOK'
<1> SUFFICES ASSUME TypeOK, [Next]_vars PROVE TypeOK'
  OBVIOUS
<1>1. log' \in Seq(LogRows) /\ Len(log') <= MaxLog
  BY LogType
<1>2. ASSUME NEW r \in Runs, NEW manual \in BOOLEAN, Begin(r, manual)
      PROVE  TypeOK'
  <2>1. [NoRun EXCEPT !.pc = "acquire", !.manual = manual, !.cursor = rule.cursor,
                      !.trigger = rule.trigger, !.fresh = TRUE] \in RunStates
    <3>1. rule.cursor \in 0..MaxLog /\ rule.trigger \in Triggers
      BY DEF TypeOK, RuleRows
    <3>2. NoRun \in RunStates /\ "acquire" \in RunPC
      BY RunStateLemma DEF RunPC
    <3>3. \A s \in RunStates, c \in 0..MaxLog, t \in Triggers :
            [s EXCEPT !.pc = "acquire", !.manual = manual, !.cursor = c, !.trigger = t, !.fresh = TRUE] \in RunStates
      BY <3>2 DEF RunStates
    <3>4. QED
      BY <3>1, <3>2, <3>3
  <2>2. QED
    BY <1>1, <1>2, <2>1 DEF TypeOK, Begin, Quiet
<1>3. ASSUME NEW r \in Runs, RunStep(r) \/ Raise(r)
      PROVE  TypeOK'
  <2>1. run[r] \in RunStates
    BY DEF TypeOK
  <2>2. \A pc \in RunPC : At(r, pc) \in RunStates
    BY <2>1, RunStateLemma DEF At
  <2>3. \A d \in 0..run[r].lag : Renewed(d) \in RuleRows /\ Lease - d \in -MaxLag..Lease
    <3>1. \A d \in 0..run[r].lag : Lease - d \in -MaxLag..Lease
      BY <2>1, AutomationAssumption DEF RunStates
    <3>2. QED
      BY <3>1 DEF TypeOK, RuleRows, Renewed
  <2>4. Released \in RuleRows
    <3>1. -MaxLag \in -MaxLag..Lease
      BY AutomationAssumption
    <3>2. QED
      BY <3>1 DEF TypeOK, RuleRows, Released
  <2>5. CASE Acquire(r)
    <3>1. PICK d \in 0..run[r].lag :
            /\ rule' \in {rule, [rule EXCEPT !.token = r, !.lease = Lease - d]}
            /\ run' \in {[run EXCEPT ![r] = At(r, "fetch")], [run EXCEPT ![r] = NoRun]}
      BY <2>5 DEF Acquire
    <3>2. rule' \in RuleRows
      BY <2>3, <3>1 DEF TypeOK, RuleRows
    <3>3. run' \in [Runs -> RunStates]
      BY <2>2, <3>1, RunStateLemma DEF TypeOK, RunPC
    <3>4. QED
      BY <1>1, <2>5, <3>2, <3>3 DEF TypeOK, Acquire, Quiet
  <2>6. CASE Fetch(r)
    <3>1. LogsAfter(run[r].cursor) \in SUBSET Ids
      BY LenProperties, AutomationAssumption DEF TypeOK, LogsAfter, Ids
    <3>2. [At(r, "renew") EXCEPT !.todo = LogsAfter(run[r].cursor)] \in RunStates
      BY <2>2, <3>1 DEF RunStates, RunPC
    <3>3. run' \in [Runs -> RunStates]
      BY <2>2, <2>6, <3>2, RunStateLemma DEF TypeOK, Fetch, RunPC
    <3>4. QED
      BY <1>1, <2>6, <3>3 DEF TypeOK, Fetch, Quiet
  <2>7. CASE IdleRenew(r)
    BY <1>1, <2>3, <2>7, RunStateLemma DEF TypeOK, IdleRenew, Quiet
  <2>8. CASE Renew(r)
    <3>1. \A e \in run[r].todo :
            [At(r, "claim") EXCEPT !.todo = run[r].todo \ {e}, !.next = e,
                                   !.cursor = LargerOf(run[r].cursor, e)] \in RunStates
      <4>1. ASSUME NEW e \in run[r].todo
            PROVE  /\ e \in 0..MaxLog /\ LargerOf(run[r].cursor, e) \in 0..MaxLog
                   /\ run[r].todo \ {e} \in SUBSET Ids
        BY <2>1, AutomationAssumption DEF RunStates, Ids, LargerOf
      <4>2. At(r, "claim") \in RunStates
        BY <2>2 DEF RunPC
      <4>3. QED
        BY <4>1, <4>2 DEF RunStates
    <3>2. [At(r, "finalRenew") EXCEPT !.lost = TRUE, !.todo = {}] \in RunStates
      BY <2>2 DEF RunStates, RunPC
    <3>3. run' \in [Runs -> RunStates]
      <4>1. \A e \in run[r].todo :
              At(r, "claim").todo = run[r].todo /\ At(r, "claim").cursor = run[r].cursor
        BY <2>1 DEF At, RunStates
      <4>2. CASE \E e \in run[r].todo :
                   run' = [run EXCEPT ![r] =
                     LET here == [At(r, "claim") EXCEPT !.todo = @ \ {e}, !.next = e, !.cursor = LargerOf(@, e)]
                     IN  IF Matches(r, e) THEN here ELSE NextRow(here)]
        <5>1. PICK e \in run[r].todo :
                LET here == [At(r, "claim") EXCEPT !.todo = run[r].todo \ {e}, !.next = e,
                                                   !.cursor = LargerOf(run[r].cursor, e)]
                IN  run' \in {[run EXCEPT ![r] = here], [run EXCEPT ![r] = NextRow(here)]}
          BY <4>1, <4>2
        <5>2. QED
          BY <3>1, <5>1, RunStateLemma DEF TypeOK
      <4>3. CASE run' = [run EXCEPT ![r] = [At(r, "finalRenew") EXCEPT !.lost = TRUE, !.todo = {}]]
        BY <3>2, <4>3 DEF TypeOK
      <4>4. QED
        BY <2>8, <4>2, <4>3 DEF Renew
    <3>4. rule' \in RuleRows
      BY <2>3, <2>8 DEF TypeOK, Renew
    <3>5. QED
      BY <1>1, <2>8, <3>3, <3>4 DEF TypeOK, Renew, Quiet
  <2>9. CASE ClaimExecution(r)
    <3>1. [At(r, "act") EXCEPT !.late = IF rule.active THEN At(r, "act").late ELSE At(r, "act").late + 1] \in RunStates
      BY <2>2 DEF RunStates, RunPC
    <3>2. run' \in [Runs -> RunStates]
      BY <2>1, <2>9, <3>1, RunStateLemma DEF TypeOK, ClaimExecution
    <3>3. exec' \in [Ids -> Statuses]
      BY <2>9 DEF TypeOK, ClaimExecution, Statuses
    <3>4. QED
      BY <1>1, <2>9, <3>2, <3>3 DEF TypeOK, ClaimExecution, Quiet
  <2>10. ASSUME NEW result \in {"success", "failed"}, Act(r, result)
         PROVE  TypeOK'
    <3>1. [At(r, "complete") EXCEPT !.result = result] \in RunStates
      BY <2>2 DEF RunStates, RunPC, Statuses
    <3>2. calls' \in [Ids -> Nat]
      <4>1. \A e \in Ids : calls[e] + 1 \in Nat
        BY DEF TypeOK
      <4>2. QED
        BY <2>10, <4>1 DEF TypeOK, Act
    <3>3. QED
      BY <1>1, <2>10, <3>1, <3>2 DEF TypeOK, Act, Quiet
  <2>11. CASE CompleteExecution(r)
    <3>1. [NextRow(run[r]) EXCEPT !.done = IF exec[run[r].next] = "processing"
                                           THEN NextRow(run[r]).done + 1
                                           ELSE NextRow(run[r]).done] \in RunStates
      <4>1. NextRow(run[r]) \in RunStates
        BY <2>1, RunStateLemma
      <4>2. NextRow(run[r]).done \in Nat /\ NextRow(run[r]).done + 1 \in Nat
        BY <4>1 DEF RunStates
      <4>3. QED
        BY <4>1, <4>2 DEF RunStates
    <3>2. exec' \in [Ids -> Statuses]
      BY <2>1, <2>11 DEF TypeOK, CompleteExecution, RunStates
    <3>3. QED
      BY <1>1, <2>11, <3>1, <3>2 DEF TypeOK, CompleteExecution, Quiet
  <2>12. CASE FinalRenew(r)
    <3>1. PICK d \in 0..run[r].lag :
            /\ rule' \in {rule, Renewed(d)}
            /\ run' = [run EXCEPT ![r] = [run[r] EXCEPT !.pc = "progress", !.lag = d]]
      BY <2>1, <2>12 DEF FinalRenew, TypeOK
    <3>2. [run[r] EXCEPT !.pc = "progress", !.lag = d] \in RunStates
      <4>1. d \in 0..MaxLag
        BY <2>1, AutomationAssumption DEF RunStates
      <4>2. QED
        BY <2>1, <4>1 DEF RunStates, RunPC
    <3>3. QED
      BY <1>1, <2>3, <2>12, <3>1, <3>2 DEF TypeOK, FinalRenew, Quiet
  <2>13. CASE Progress(r)
    <3>1. rule' \in RuleRows
      <4>1. /\ rule.cursor \in 0..MaxLog /\ run[r].cursor \in 0..MaxLog
            /\ rule.count \in Nat /\ run[r].done \in Nat
        BY <2>1 DEF TypeOK, RuleRows, RunStates
      <4>2. LargerOf(rule.cursor, run[r].cursor) \in 0..MaxLog /\ rule.count + run[r].done \in Nat
        BY <4>1 DEF LargerOf
      <4>3. QED
        BY <2>13, <4>2 DEF TypeOK, Progress, RuleRows
    <3>2. QED
      BY <1>1, <2>13, <3>1, RunStateLemma DEF TypeOK, Progress, Quiet
  <2>14. CASE Release(r)
    BY <1>1, <2>4, <2>14, RunStateLemma DEF TypeOK, Release, Quiet
  <2>15. CASE Raise(r)
    BY <1>1, <2>15, RunStateLemma DEF TypeOK, Raise, Quiet
  <2>16. QED
    BY <1>3, <2>5, <2>6, <2>7, <2>8, <2>9, <2>10, <2>11, <2>12, <2>13, <2>14, <2>15 DEF RunStep
<1>4. ASSUME NEW r \in Runs, Crash(r)
      PROVE  TypeOK'
  <2>1. crashes' \in 0..MaxCrashes
    BY <1>4, AutomationAssumption DEF TypeOK, Crash
  <2>2. QED
    BY <1>1, <1>4, <2>1, RunStateLemma DEF TypeOK, Crash
<1>5. ASSUME NEW a \in Admins, ReadRule(a)
      PROVE  TypeOK'
  <2>1. admin' \in [Admins -> Requests]
    BY <1>5, AutomationAssumption DEF TypeOK, ReadRule, Requests, RuleRows
  <2>2. QED
    BY <1>1, <1>5, <2>1 DEF TypeOK, ReadRule
<1>6. ASSUME NEW a \in Admins, Activate(a) \/ Update(a)
      PROVE  TypeOK'
  <2>1. \A row \in RuleRows : Retarget(a, row) \in RuleRows
    BY DEF TypeOK, Retarget, RuleRows, Requests
  <2>2. NoRequest \in Requests
    BY DEF NoRequest, Requests
  <2>3. admin' \in [Admins -> Requests]
    BY <1>6, <2>2 DEF TypeOK, Activate, Update
  <2>4. \A w \in 0..Len(log) : w \in 0..MaxLog /\ [rule EXCEPT !.active = TRUE, !.cursor = w] \in RuleRows
    <3>1. \A w \in 0..Len(log) : w \in 0..MaxLog
      BY LenProperties, AutomationAssumption DEF TypeOK
    <3>2. QED
      BY <3>1 DEF TypeOK, RuleRows
  <2>5. \A b \in BOOLEAN : [rule EXCEPT !.active = b] \in RuleRows
    BY DEF TypeOK, RuleRows
  <2>6. \A s \in RunStates : [s EXCEPT !.fresh = FALSE] \in RunStates /\ [s EXCEPT !.late = 0] \in RunStates
    BY DEF RunStates
  <2>7. CASE Activate(a)
    BY <1>1, <2>1, <2>3, <2>4, <2>6, <2>7 DEF TypeOK, Activate
  <2>8. CASE Update(a)
    <3>1. rule' \in RuleRows
      BY <2>1, <2>5, <2>8 DEF TypeOK, Update, RuleRows
    <3>2. QED
      BY <1>1, <2>3, <2>6, <2>8, <3>1 DEF TypeOK, Update
  <2>9. QED
    BY <1>6, <2>7, <2>8
<1>7. CASE LogEvent \/ \E e \in Ids : CommitEvent(e)
  BY <1>1, <1>7 DEF TypeOK, LogEvent, CommitEvent
<1>8. CASE Tick
  <2>1. rule' \in RuleRows
    <3>1. LargerOf(rule.lease - 1, -MaxLag) \in -MaxLag..Lease
      BY AutomationAssumption DEF TypeOK, RuleRows, LargerOf
    <3>2. QED
      BY <1>8, <3>1 DEF TypeOK, Tick, RuleRows
  <2>2. \A s \in RunStates : [s EXCEPT !.lag = SmallerOf(s.lag + 1, MaxLag)] \in RunStates
    BY AutomationAssumption DEF RunStates, SmallerOf
  <2>3. run' \in [Runs -> RunStates]
    BY <1>8, <2>2 DEF TypeOK, Tick
  <2>4. QED
    BY <1>1, <1>8, <2>1, <2>3 DEF TypeOK, Tick
<1>9. CASE UNCHANGED vars
  BY <1>9 DEF TypeOK, vars
<1>10. QED
  BY <1>2, <1>3, <1>4, <1>5, <1>6, <1>7, <1>8, <1>9 DEF Next

\* Every state of the rule, its log, its executions and its runs is well typed;
\* in particular no lease ever exceeds AUTOMATION_RULE_LEASE_SECONDS.
THEOREM TypeCorrect == Spec => []TypeOK
<1>1. Init => TypeOK
  BY InitType
<1>2. TypeOK /\ [Next]_vars => TypeOK'
  BY StepType
<1>3. QED
  BY <1>1, <1>2, PTL DEF Spec

-----------------------------------------------------------------------------
(* The claim protocol.                                                       *)

\* A run past its claim owns the execution row: the row is processing, no other
\* run is past a claim of the same event and the handler has not been called yet
\* (act) or was called by this run (complete); an unclaimed event was never handled.
ClaimInv ==
  /\ \A r \in Runs : run[r].pc \in {"claim", "act", "complete"} => run[r].next \in Ids
  /\ \A r \in Runs : run[r].pc \in {"act", "complete"} => exec[run[r].next] = "processing"
  /\ \A r \in Runs : run[r].pc = "act" => calls[run[r].next] = 0
  /\ \A r \in Runs : run[r].pc = "complete" => run[r].result # "none"
  /\ \A r, s \in Runs : /\ r # s
                        /\ run[r].pc \in {"act", "complete"}
                        /\ run[s].pc \in {"act", "complete"}
                        => run[r].next # run[s].next
  /\ \A e \in Ids : exec[e] = "none" => calls[e] = 0
  /\ AtMostOnce

\* A step that leaves the executions alone and puts no run past a claim.
LEMMA ClaimUndisturbed ==
  ASSUME ClaimInv, UNCHANGED <<exec, calls>>,
         \A r \in Runs : run'[r].pc = "claim" => run'[r].next \in Ids,
         \A r \in Runs : run'[r].pc \in {"act", "complete"} =>
                         /\ run'[r].pc = run[r].pc /\ run'[r].next = run[r].next
                         /\ run'[r].result = run[r].result
  PROVE  ClaimInv'
BY DEF ClaimInv, AtMostOnce

LEMMA ClaimInit == Init => ClaimInv
BY DEF Init, ClaimInv, AtMostOnce, NoRun

LEMMA ClaimStep == TypeOK /\ ClaimInv /\ [Next]_vars => ClaimInv'
<1> SUFFICES ASSUME TypeOK, ClaimInv, [Next]_vars PROVE ClaimInv'
  OBVIOUS
<1>1. \A r \in Runs : run[r] \in RunStates
  BY DEF TypeOK
<1>2. ASSUME NEW r \in Runs, NEW s \in RunStates, s.pc \notin {"act", "complete"},
             s.pc = "claim" => s.next \in Ids,
             run' = [run EXCEPT ![r] = s], UNCHANGED <<exec, calls>>
      PROVE  ClaimInv'
  <2>1. \A q \in Runs : run'[q] = IF q = r THEN s ELSE run[q]
    BY <1>2 DEF TypeOK
  <2>2. QED
    BY <1>2, <2>1, ClaimUndisturbed DEF ClaimInv
<1>3. NoRun.pc = "idle" /\ Leaving.pc = "release"
  BY DEF NoRun, Leaving
<1>4. \A s \in RunStates : NextRow(s).pc \in {"finalRenew", "renew"}
  BY DEF NextRow, RunStates
<1>5. \A r \in Runs, pc \in RunPC : At(r, pc) \in RunStates /\ At(r, pc).pc = pc /\ At(r, pc).next = run[r].next
  BY <1>1, RunStateLemma DEF At, RunStates
<1>6. ASSUME NEW r \in Runs, NEW manual \in BOOLEAN, Begin(r, manual)
      PROVE  ClaimInv'
  <2> DEFINE s == [NoRun EXCEPT !.pc = "acquire", !.manual = manual, !.cursor = rule.cursor,
                                !.trigger = rule.trigger, !.fresh = TRUE]
  <2>1. run' = [run EXCEPT ![r] = s] /\ UNCHANGED <<exec, calls>>
    BY <1>6 DEF Begin
  <2>2. s.pc = "acquire"
    BY RunStateLemma DEF RunStates
  <2>3. \A q \in Runs : run'[q] = IF q = r THEN s ELSE run[q]
    BY <2>1 DEF TypeOK
  <2> HIDE DEF s
  <2>4. QED
    BY <2>1, <2>2, <2>3, ClaimUndisturbed DEF ClaimInv
<1>7. ASSUME NEW r \in Runs, Acquire(r)
      PROVE  ClaimInv'
  <2>1. run' \in {[run EXCEPT ![r] = At(r, "fetch")], [run EXCEPT ![r] = NoRun]}
    BY <1>7 DEF Acquire
  <2>2. QED
    BY <1>2, <1>3, <1>5, <1>7, <2>1, RunStateLemma DEF Acquire, RunPC
<1>8. ASSUME NEW r \in Runs, Fetch(r)
      PROVE  ClaimInv'
  <2> DEFINE s == [At(r, "renew") EXCEPT !.todo = LogsAfter(run[r].cursor)]
  <2>1. run' \in {[run EXCEPT ![r] = s], [run EXCEPT ![r] = At(r, "idleRenew")], [run EXCEPT ![r] = Leaving]}
    BY <1>8 DEF Fetch
  <2>2. s.pc = "renew"
    BY <1>5 DEF RunStates, RunPC
  <2>3. At(r, "idleRenew").pc = "idleRenew"
    BY <1>5 DEF RunPC
  <2>4. UNCHANGED <<exec, calls>>
    BY <1>8 DEF Fetch
  <2>5. \A q \in Runs : run'[q] = run[q] \/ run'[q].pc \in {"renew", "idleRenew", "release"}
    BY <1>3, <2>1, <2>2, <2>3 DEF TypeOK
  <2>6. QED
    BY <2>4, <2>5, ClaimUndisturbed DEF ClaimInv
<1>9. ASSUME NEW r \in Runs, Renew(r)
      PROVE  ClaimInv'
  <2> DEFINE here(e) == [At(r, "claim") EXCEPT !.todo = @ \ {e}, !.next = e, !.cursor = LargerOf(@, e)]
             lost == [At(r, "finalRenew") EXCEPT !.lost = TRUE, !.todo = {}]
  <2>1. UNCHANGED <<exec, calls>>
    BY <1>9 DEF Renew
  <2>2. lost.pc = "finalRenew"
    BY <1>5 DEF RunStates, RunPC
  <2>3. \A e \in run[r].todo : e \in Ids /\ here(e).pc = "claim" /\ here(e).next = e
    BY <1>1, <1>5 DEF RunStates, RunPC
  <2>4. \A e \in run[r].todo : NextRow(here(e)).pc \in {"finalRenew", "renew"}
    BY <1>5 DEF RunStates, RunPC, NextRow
  <2>5. run' = [run EXCEPT ![r] = lost] \/
        \E e \in run[r].todo : run' \in {[run EXCEPT ![r] = here(e)], [run EXCEPT ![r] = NextRow(here(e))]}
    BY <1>9 DEF Renew
  <2>6. /\ run'[r].pc \notin {"act", "complete"}
        /\ run'[r].pc = "claim" => run'[r].next \in Ids
        /\ \A q \in Runs \ {r} : run'[q] = run[q]
    <3> HIDE DEF here, lost
    <3>1. QED
      BY <2>2, <2>3, <2>4, <2>5 DEF TypeOK
  <2>7. QED
    BY <2>1, <2>6, ClaimUndisturbed DEF ClaimInv
<1>10. ASSUME NEW r \in Runs, ClaimExecution(r)
       PROVE  ClaimInv'
  <2> DEFINE e == run[r].next
  <2>1. e \in Ids /\ calls' = calls
    BY <1>10 DEF ClaimExecution, ClaimInv
  <2>2. CASE exec[e] = "none"
    <3> DEFINE s == [At(r, "act") EXCEPT !.late = IF rule.active THEN @ ELSE @ + 1]
    <3>1. exec' = [exec EXCEPT ![e] = "processing"] /\ run' = [run EXCEPT ![r] = s]
      BY <1>10, <2>2 DEF ClaimExecution
    <3>2. s.pc = "act" /\ s.next = e
      BY <1>5 DEF RunStates, RunPC
    <3> HIDE DEF s
    <3>3. \A q \in Runs : run'[q] = IF q = r THEN s ELSE run[q]
      BY <3>1 DEF TypeOK
    <3>4. \A q \in Runs : run[q].pc \in {"act", "complete"} => run[q].next # e
      BY <2>2 DEF ClaimInv
    <3>5. \A f \in Ids : exec'[f] = IF f = e THEN "processing" ELSE exec[f]
      BY <3>1 DEF TypeOK
    <3>6. run[r].pc = "claim" /\ calls[e] = 0
      BY <1>10, <2>1, <2>2 DEF ClaimExecution, ClaimInv
    <3> HIDE DEF e
    <3>7. QED
      BY <2>1, <3>2, <3>3, <3>4, <3>5, <3>6 DEF ClaimInv, AtMostOnce
  <2>3. CASE exec[e] # "none"
    BY <1>1, <1>2, <1>4, <1>10, <2>1, <2>3, RunStateLemma DEF ClaimExecution
  <2>4. QED
    BY <2>2, <2>3
<1>11. ASSUME NEW r \in Runs, NEW result \in {"success", "failed"}, Act(r, result)
       PROVE  ClaimInv'
  <2> DEFINE e == run[r].next
             s == [At(r, "complete") EXCEPT !.result = result]
  <2>1. /\ run[r].pc = "act" /\ exec' = exec
        /\ calls' = [calls EXCEPT ![e] = @ + 1] /\ run' = [run EXCEPT ![r] = s]
    BY <1>11 DEF Act, Quiet
  <2>2. e \in Ids /\ calls[e] = 0 /\ exec[e] = "processing"
    BY <2>1 DEF ClaimInv
  <2>3. s.pc = "complete" /\ s.next = e /\ s.result # "none"
    BY <1>5 DEF RunStates, RunPC
  <2> HIDE DEF s
  <2>4. \A q \in Runs : run'[q] = IF q = r THEN s ELSE run[q]
    BY <2>1 DEF TypeOK
  <2>5. \A f \in Ids : calls'[f] = IF f = e THEN 1 ELSE calls[f]
    BY <2>1, <2>2 DEF TypeOK
  <2> HIDE DEF e
  <2>6. QED
    BY <2>1, <2>2, <2>3, <2>4, <2>5 DEF ClaimInv, AtMostOnce, e
<1>12. ASSUME NEW r \in Runs, CompleteExecution(r)
       PROVE  ClaimInv'
  <2> DEFINE e == run[r].next
             s == [NextRow(run[r]) EXCEPT !.done = IF exec[e] = "processing" THEN @ + 1 ELSE @]
  <2>1. /\ run[r].pc = "complete" /\ calls' = calls
        /\ run' = [run EXCEPT ![r] = s]
    BY <1>12 DEF CompleteExecution
  <2>2. e \in Ids /\ exec[e] = "processing"
    BY <2>1 DEF ClaimInv
  <2>3. exec' = [exec EXCEPT ![e] = run[r].result]
    BY <1>12, <2>2 DEF CompleteExecution
  <2>4. s.pc \in {"finalRenew", "renew"}
    BY <1>1, <1>4, RunStateLemma DEF RunStates
  <2> HIDE DEF s
  <2>5. \A q \in Runs : run'[q] = IF q = r THEN s ELSE run[q]
    BY <2>1 DEF TypeOK
  <2>6. \A f \in Ids : exec'[f] = IF f = e THEN run[r].result ELSE exec[f]
    BY <2>3 DEF TypeOK
  <2>7. run[r].result # "none"
    BY <2>1 DEF ClaimInv
  <2>8. QED
    BY <2>1, <2>2, <2>4, <2>5, <2>6, <2>7 DEF ClaimInv, AtMostOnce
<1>13. ASSUME NEW r \in Runs, FinalRenew(r)
       PROVE  ClaimInv'
  <2>1. PICK d \in 0..run[r].lag : run' = [run EXCEPT ![r] = [run[r] EXCEPT !.pc = "progress", !.lag = d]]
    BY <1>13 DEF FinalRenew, TypeOK
  <2>2. [run[r] EXCEPT !.pc = "progress", !.lag = d].pc = "progress"
    BY <1>1 DEF RunStates
  <2>3. \A q \in Runs : run'[q] = run[q] \/ run'[q].pc = "progress"
    BY <2>1, <2>2 DEF TypeOK
  <2>4. UNCHANGED <<exec, calls>>
    BY <1>13 DEF FinalRenew
  <2>5. QED
    BY <2>3, <2>4, ClaimUndisturbed DEF ClaimInv
<1>14. ASSUME NEW r \in Runs, IdleRenew(r) \/ Progress(r) \/ Release(r) \/ Raise(r) \/ Crash(r)
       PROVE  ClaimInv'
  <2>1. run' \in {[run EXCEPT ![r] = Leaving], [run EXCEPT ![r] = NoRun]} /\ UNCHANGED <<exec, calls>>
    BY <1>14 DEF IdleRenew, Progress, Release, Raise, Crash
  <2>2. QED
    BY <1>2, <1>3, <2>1, RunStateLemma
<1>15. ASSUME UNCHANGED <<exec, calls>>,
              \A r \in Runs : run'[r].pc = run[r].pc /\ run'[r].next = run[r].next /\ run'[r].result = run[r].result
       PROVE  ClaimInv'
  BY <1>15, ClaimUndisturbed DEF ClaimInv
<1>16. ASSUME NEW a \in Admins, Activate(a) \/ Update(a)
       PROVE  ClaimInv'
  <2>1. run' \in {run, [r \in Runs |-> [run[r] EXCEPT !.fresh = FALSE]], [r \in Runs |-> [run[r] EXCEPT !.late = 0]]}
    BY <1>16 DEF Activate, Update
  <2>2. \A r \in Runs : run'[r].pc = run[r].pc /\ run'[r].next = run[r].next /\ run'[r].result = run[r].result
    BY <1>1, <2>1 DEF RunStates
  <2>3. QED
    BY <1>15, <1>16, <2>2 DEF Activate, Update
<1>17. CASE Tick
  <2>1. \A r \in Runs : run'[r].pc = run[r].pc /\ run'[r].next = run[r].next /\ run'[r].result = run[r].result
    BY <1>1, <1>17 DEF Tick, RunStates
  <2>2. QED
    BY <1>15, <1>17, <2>1 DEF Tick
<1>18. CASE UNCHANGED <<exec, calls, run>>
  BY <1>15, <1>18
<1>19. QED
  BY <1>6, <1>7, <1>8, <1>9, <1>10, <1>11, <1>12, <1>13, <1>14, <1>16, <1>17, <1>18
  DEF Next, RunStep, vars, ReadRule, LogEvent, CommitEvent

\* The handler of a rule is called at most once per event, for any number of
\* overlapping runs, any lease and any staleness of their timestamps.
THEOREM HandledAtMostOnce == Spec => []AtMostOnce
<1>1. Init => TypeOK /\ ClaimInv
  BY InitType, ClaimInit
<1>2. TypeOK /\ ClaimInv /\ [Next]_vars => (TypeOK /\ ClaimInv)'
  BY StepType, ClaimStep
<1>3. ClaimInv => AtMostOnce
  BY DEF ClaimInv
<1>4. QED
  BY <1>1, <1>2, <1>3, PTL DEF Spec
-----------------------------------------------------------------------------
(* The cursor and the rows it has passed.                                    *)

Shown(e) == e \in 1..Len(log) /\ log[e].shown

\* What a cursor may be: zero, or a row that was seen.
Seen(c) == c = 0 \/ Shown(c)

\* Cursors are zero or rows that were seen; a run's rows still to do are seen
\* rows after its cursor.
CursorInv ==
  /\ Seen(rule.cursor)
  /\ \A r \in Runs : Seen(run[r].cursor) /\ \A f \in run[r].todo : Shown(f) /\ run[r].cursor < f

LEMMA SeenStays ==
  ASSUME TypeOK, [Next]_vars
  PROVE  /\ \A e : Shown(e) => Shown(e)'
         /\ \A c : Seen(c) => Seen(c)'
<1>1. Extends(log', log)
  BY LogExtends
<1>2. \A e : Shown(e) => Shown(e)'
  BY <1>1, LenProperties DEF Extends, Shown, TypeOK
<1>3. QED
  BY <1>2 DEF Seen

\* A step that gives no run a new cursor or new rows.
LEMMA CursorUndisturbed ==
  ASSUME TypeOK, CursorInv, [Next]_vars, rule'.cursor = rule.cursor,
         \A r \in Runs : \/ run'[r].cursor = run[r].cursor /\ run'[r].todo \subseteq run[r].todo
                         \/ run'[r].cursor = 0 /\ run'[r].todo = {}
  PROVE  CursorInv'
BY SeenStays DEF CursorInv, Seen

LEMMA CursorInit == Init => CursorInv
BY DEF Init, CursorInv, Seen, NoRun

LEMMA CursorStep == TypeOK /\ CursorInv /\ [Next]_vars => CursorInv' /\ rule'.cursor >= rule.cursor
<1> SUFFICES ASSUME TypeOK, CursorInv, [Next]_vars
             PROVE  CursorInv' /\ rule'.cursor >= rule.cursor
  OBVIOUS
<1>1. \A r \in Runs : run[r] \in RunStates
  BY DEF TypeOK
<1>2. rule \in RuleRows /\ rule.cursor \in Nat
  BY DEF TypeOK, RuleRows
<1>3. \A r \in Runs, pc \in RunPC :
        At(r, pc) \in RunStates /\ At(r, pc).cursor = run[r].cursor /\ At(r, pc).todo = run[r].todo
  BY <1>1, RunStateLemma DEF At, RunStates
<1>4. NoRun.cursor = 0 /\ NoRun.todo = {} /\ Leaving.cursor = 0 /\ Leaving.todo = {}
  BY DEF NoRun, Leaving
<1>5. \A s \in RunStates : NextRow(s).cursor = s.cursor /\ NextRow(s).todo = s.todo
  BY DEF NextRow, RunStates
<1>6. ASSUME rule'.cursor = rule.cursor,
             \A r \in Runs : \/ run'[r].cursor = run[r].cursor /\ run'[r].todo \subseteq run[r].todo
                             \/ run'[r].cursor = 0 /\ run'[r].todo = {}
      PROVE  CursorInv' /\ rule'.cursor >= rule.cursor
  BY <1>2, <1>6, CursorUndisturbed
<1>7. ASSUME NEW r \in Runs, NEW s, run' = [run EXCEPT ![r] = s], rule'.cursor = rule.cursor,
             \/ s.cursor = run[r].cursor /\ s.todo \subseteq run[r].todo
             \/ s.cursor = 0 /\ s.todo = {}
      PROVE  CursorInv' /\ rule'.cursor >= rule.cursor
  BY <1>6, <1>7 DEF TypeOK
<1>8. \A d \in Int : Renewed(d).cursor = rule.cursor /\ Released.cursor = rule.cursor
  BY <1>2 DEF Renewed, Released, RuleRows
<1>9. ASSUME NEW r \in Runs, NEW manual \in BOOLEAN, Begin(r, manual)
      PROVE  CursorInv' /\ rule'.cursor >= rule.cursor
  <2> DEFINE s == [NoRun EXCEPT !.pc = "acquire", !.manual = manual, !.cursor = rule.cursor,
                                !.trigger = rule.trigger, !.fresh = TRUE]
  <2>1. run' = [run EXCEPT ![r] = s] /\ rule' = rule
    BY <1>9 DEF Begin
  <2>2. s.cursor = rule.cursor /\ s.todo = {}
    BY DEF NoRun
  <2> HIDE DEF s
  <2>3. \A q \in Runs : run'[q] = IF q = r THEN s ELSE run[q]
    BY <2>1 DEF TypeOK
  <2>4. QED
    BY <1>2, <2>1, <2>2, <2>3, SeenStays DEF CursorInv
<1>10. ASSUME NEW r \in Runs, Acquire(r)
       PROVE  CursorInv' /\ rule'.cursor >= rule.cursor
  <2>1. rule'.cursor = rule.cursor
    BY <1>2, <1>10 DEF Acquire, RuleRows
  <2>2. run' \in {[run EXCEPT ![r] = At(r, "fetch")], [run EXCEPT ![r] = NoRun]}
    BY <1>10 DEF Acquire
  <2>3. QED
    BY <1>3, <1>4, <1>7, <2>1, <2>2 DEF RunPC
<1>11. ASSUME NEW r \in Runs, Fetch(r)
       PROVE  CursorInv' /\ rule'.cursor >= rule.cursor
  <2> DEFINE rows == LogsAfter(run[r].cursor)
             s == [At(r, "renew") EXCEPT !.todo = rows]
  <2>1. run' \in {[run EXCEPT ![r] = s], [run EXCEPT ![r] = At(r, "idleRenew")], [run EXCEPT ![r] = Leaving]}
    BY <1>11 DEF Fetch
  <2>2. rule' = rule
    BY <1>11 DEF Fetch
  <2>3. s.cursor = run[r].cursor /\ s.todo = rows
    BY <1>3 DEF RunStates, RunPC
  <2>4. \A f \in rows : Shown(f) /\ run[r].cursor < f
    BY <1>1 DEF LogsAfter, Shown, RunStates
  <2>5. CASE run' = [run EXCEPT ![r] = s]
    <3> HIDE DEF s, rows
    <3>1. \A q \in Runs : run'[q] = IF q = r THEN s ELSE run[q]
      BY <2>5 DEF TypeOK
    <3>2. QED
      BY <1>2, <2>2, <2>3, <2>4, <3>1, SeenStays DEF CursorInv
  <2>6. QED
    BY <1>3, <1>4, <1>7, <2>1, <2>2, <2>5 DEF RunPC
<1>12. ASSUME NEW r \in Runs, Renew(r)
       PROVE  CursorInv' /\ rule'.cursor >= rule.cursor
  <2> DEFINE here(e) == [At(r, "claim") EXCEPT !.todo = @ \ {e}, !.next = e, !.cursor = LargerOf(@, e)]
             lost == [At(r, "finalRenew") EXCEPT !.lost = TRUE, !.todo = {}]
  <2>1. rule'.cursor = rule.cursor
    <3>1. \E d \in 0..run[r].lag : rule' \in {rule, Renewed(d)}
      BY <1>12 DEF Renew
    <3>2. QED
      BY <1>8, <3>1
  <2>2. lost.cursor = run[r].cursor /\ lost.todo = {}
    BY <1>3 DEF RunStates, RunPC
  <2>3. CASE run' = [run EXCEPT ![r] = lost]
    <3> HIDE DEF lost
    <3>1. QED
      BY <1>7, <2>1, <2>2, <2>3
  <2>4. ASSUME NEW e \in run[r].todo, \A f \in run[r].todo : e <= f,
               run' \in {[run EXCEPT ![r] = here(e)], [run EXCEPT ![r] = NextRow(here(e))]}
        PROVE  CursorInv' /\ rule'.cursor >= rule.cursor
    <3>1. e \in Ids /\ run[r].cursor \in Nat /\ run[r].cursor < e /\ Shown(e)
      BY <1>1 DEF RunStates, CursorInv, Ids
    <3>2. LargerOf(run[r].cursor, e) = e
      BY <3>1 DEF LargerOf
    <3>3. here(e).cursor = e /\ here(e).todo = run[r].todo \ {e}
      BY <1>3, <3>2 DEF RunStates, RunPC
    <3>4. NextRow(here(e)).cursor = e /\ NextRow(here(e)).todo = run[r].todo \ {e}
      BY <1>3, <3>2 DEF RunStates, RunPC, NextRow
    <3> HIDE DEF here
    <3>5. \A q \in Runs \ {r} : run'[q] = run[q]
      BY <2>4 DEF TypeOK
    <3>6. run'[r].cursor = e /\ run'[r].todo = run[r].todo \ {e}
      BY <2>4, <3>3, <3>4 DEF TypeOK
    <3>7. \A f \in run[r].todo \ {e} : Shown(f) /\ e < f
      BY <1>1, <2>4, <3>1 DEF CursorInv, RunStates, Ids
    <3>8. QED
      BY <1>2, <2>1, <3>1, <3>5, <3>6, <3>7, SeenStays DEF CursorInv, Seen
  <2>5. QED
    BY <1>12, <2>3, <2>4 DEF Renew
<1>13. ASSUME NEW r \in Runs, ClaimExecution(r)
       PROVE  CursorInv' /\ rule'.cursor >= rule.cursor
  <2> DEFINE s == [At(r, "act") EXCEPT !.late = IF rule.active THEN @ ELSE @ + 1]
  <2>1. s.cursor = run[r].cursor /\ s.todo = run[r].todo
    BY <1>3 DEF RunStates, RunPC
  <2>2. run' \in {[run EXCEPT ![r] = s], [run EXCEPT ![r] = NextRow(run[r])]} /\ rule' = rule
    BY <1>13 DEF ClaimExecution
  <2> HIDE DEF s
  <2>3. QED
    BY <1>1, <1>5, <1>7, <2>1, <2>2
<1>14. ASSUME NEW r \in Runs, NEW result \in {"success", "failed"}, Act(r, result)
       PROVE  CursorInv' /\ rule'.cursor >= rule.cursor
  <2> DEFINE s == [At(r, "complete") EXCEPT !.result = result]
  <2>1. s.cursor = run[r].cursor /\ s.todo = run[r].todo
    BY <1>3 DEF RunStates, RunPC
  <2>2. run' = [run EXCEPT ![r] = s] /\ rule' = rule
    BY <1>14 DEF Act
  <2> HIDE DEF s
  <2>3. QED
    BY <1>7, <2>1, <2>2
<1>15. ASSUME NEW r \in Runs, CompleteExecution(r)
       PROVE  CursorInv' /\ rule'.cursor >= rule.cursor
  <2> DEFINE s == [NextRow(run[r]) EXCEPT !.done = IF exec[run[r].next] = "processing" THEN @ + 1 ELSE @]
  <2>1. s.cursor = run[r].cursor /\ s.todo = run[r].todo
    BY <1>1, <1>5, RunStateLemma DEF RunStates
  <2>2. run' = [run EXCEPT ![r] = s] /\ rule' = rule
    BY <1>15 DEF CompleteExecution
  <2> HIDE DEF s
  <2>3. QED
    BY <1>7, <2>1, <2>2
<1>16. ASSUME NEW r \in Runs, FinalRenew(r)
       PROVE  CursorInv' /\ rule'.cursor >= rule.cursor
  <2>1. PICK d \in 0..run[r].lag :
          /\ rule' \in {rule, Renewed(d)}
          /\ run' = [run EXCEPT ![r] = [run[r] EXCEPT !.pc = "progress", !.lag = d]]
    BY <1>16 DEF FinalRenew, TypeOK
  <2> DEFINE s == [run[r] EXCEPT !.pc = "progress", !.lag = d]
  <2>2. s.cursor = run[r].cursor /\ s.todo = run[r].todo
    BY <1>1 DEF RunStates
  <2>3. run' = [run EXCEPT ![r] = s] /\ rule'.cursor = rule.cursor
    BY <1>8, <2>1
  <2> HIDE DEF s
  <2>4. QED
    BY <1>7, <2>2, <2>3
<1>17. ASSUME NEW r \in Runs, IdleRenew(r) \/ Release(r) \/ Raise(r) \/ Crash(r)
       PROVE  CursorInv' /\ rule'.cursor >= rule.cursor
  <2>1. rule'.cursor = rule.cursor
    BY <1>1, <1>8, <1>17 DEF IdleRenew, Release, Raise, Crash, RunStates
  <2>2. run' \in {[run EXCEPT ![r] = Leaving], [run EXCEPT ![r] = NoRun]}
    BY <1>17 DEF IdleRenew, Release, Raise, Crash
  <2>3. QED
    BY <1>4, <1>7, <2>1, <2>2
<1>18. ASSUME NEW r \in Runs, Progress(r)
       PROVE  CursorInv' /\ rule'.cursor >= rule.cursor
  <2>1. run' = [run EXCEPT ![r] = Leaving] /\ run[r].cursor \in Nat
    BY <1>1, <1>18 DEF Progress, RunStates
  <2>2. rule'.cursor \in {rule.cursor, LargerOf(rule.cursor, run[r].cursor)}
    BY <1>2, <1>18 DEF Progress, RuleRows
  <2>3. Seen(rule'.cursor) /\ rule'.cursor >= rule.cursor
    BY <1>2, <2>1, <2>2 DEF LargerOf, CursorInv
  <2>4. \A q \in Runs : run'[q] = run[q] \/ run'[q] = Leaving
    BY <2>1 DEF TypeOK
  <2>5. QED
    BY <1>4, <2>3, <2>4, SeenStays DEF CursorInv, Seen
<1>19. ASSUME NEW a \in Admins, Activate(a)
       PROVE  CursorInv' /\ rule'.cursor >= rule.cursor
  <2>1. \A q \in Runs : run'[q].cursor = run[q].cursor /\ run'[q].todo = run[q].todo
    <3>1. run' \in {run, [q \in Runs |-> [run[q] EXCEPT !.fresh = FALSE]]}
      BY <1>19 DEF Activate
    <3>2. QED
      BY <1>1, <3>1 DEF RunStates
  <2>2. CASE rule' = rule
    BY <1>6, <2>1, <2>2
  <2>3. ASSUME NEW w \in 0..Len(log), IsWatermark(w), rule' = Retarget(a, [rule EXCEPT !.active = TRUE, !.cursor = w])
        PROVE  CursorInv' /\ rule'.cursor >= rule.cursor
    <3>1. rule'.cursor = w
      BY <1>2, <2>3 DEF Retarget, RuleRows
    <3>2. Seen(w) /\ w >= rule.cursor
      BY <1>2, <2>3, LenProperties DEF IsWatermark, CursorInv, Seen, Shown, TypeOK
    <3>3. QED
      BY <2>1, <3>1, <3>2, SeenStays DEF CursorInv
  <2>4. QED
    BY <1>19, <2>2, <2>3 DEF Activate
<1>20. ASSUME NEW a \in Admins, Update(a)
       PROVE  CursorInv' /\ rule'.cursor >= rule.cursor
  <2>1. rule'.cursor = rule.cursor
    BY <1>2, <1>20 DEF Update, Retarget, RuleRows
  <2>2. \A q \in Runs : run'[q].cursor = run[q].cursor /\ run'[q].todo = run[q].todo
    BY <1>1, <1>20 DEF Update, RunStates
  <2>3. QED
    BY <1>6, <2>1, <2>2
<1>21. CASE Tick
  <2>1. rule'.cursor = rule.cursor
    BY <1>2, <1>21 DEF Tick, RuleRows
  <2>2. \A q \in Runs : run'[q].cursor = run[q].cursor /\ run'[q].todo = run[q].todo
    BY <1>1, <1>21 DEF Tick, RunStates
  <2>3. QED
    BY <1>6, <2>1, <2>2
<1>22. CASE UNCHANGED <<rule, run>>
  BY <1>6, <1>22
<1>23. QED
  BY <1>9, <1>10, <1>11, <1>12, <1>13, <1>14, <1>15, <1>16, <1>17, <1>18, <1>19, <1>20, <1>21, <1>22
  DEF Next, RunStep, vars, ReadRule, LogEvent, CommitEvent

\* The cursor never moves back.
THEOREM CursorNeverMovesBack == Spec => CursorMonotonic
<1>1. Init => TypeOK /\ CursorInv
  BY InitType, CursorInit
<1>2. TypeOK /\ CursorInv /\ [Next]_vars => (TypeOK /\ CursorInv)'
  BY StepType, CursorStep
<1>3. TypeOK /\ CursorInv /\ [Next]_vars => [rule'.cursor >= rule.cursor]_vars
  BY CursorStep
<1>4. QED
  BY <1>1, <1>2, <1>3, PTL DEF Spec, CursorMonotonic

-----------------------------------------------------------------------------
(* No due row is skipped.                                                    *)

\* A row that a scan for trigger t must not miss.
DueRow(rows, t, e) == e \in 1..Len(rows) /\ rows[e].shown /\ rows[e].kind = t /\ ~rows[e].overtaken

\* Every due row up to the rule's cursor was claimed.
RuleSkip == \A e \in base + 1..rule.cursor : DueRow(log, rule.trigger, e) => exec[e] # "none"

\* The same of a run's cursor, but for the row it is just going to claim; and it
\* has in its list every due row between its cursor and the last row of the list.
RunSkip(r) ==
  run[r].pc \notin {"idle", "release"} =>
    /\ run[r].trigger = rule.trigger
    /\ \A e \in base + 1..run[r].cursor :
         DueRow(log, rule.trigger, e) => exec[e] # "none" \/ (run[r].pc = "claim" /\ run[r].next = e)
    /\ \A f \in run[r].todo : \A e \in run[r].cursor + 1..f :
         DueRow(log, rule.trigger, e) => e \in run[r].todo

\* While the trigger is the one the rule was created with.
SkipInv == ~retargeted => RuleSkip /\ \A r \in Runs : RunSkip(r)

\* A row behind a row already seen is due only if it was due before: a row that
\* commits there is overtaken.
LEMMA DueBefore ==
  ASSUME TypeOK, [Next]_vars, NEW c, Shown(c), NEW e \in 1..c, NEW t, DueRow(log', t, e)
  PROVE  DueRow(log, t, e)
<1>1. Len(log) \in Nat /\ c \in 1..Len(log) /\ e \in 1..Len(log)
  BY LenProperties DEF TypeOK, Shown
<1>2. CASE log'[e] = log[e]
  BY <1>1, <1>2 DEF DueRow
<1>3. WithAudit(log)[e] = log[e]
  <2> DEFINE row == [kind |-> Engine, shown |-> TRUE, overtaken |-> FALSE, armed |-> FALSE]
  <2>1. row \in LogRows /\ WithAudit(log) \in {log, Append(log, row)}
    BY DEF LogRows, WithAudit
  <2>2. Append(log, row)[e] = log[e]
    BY <1>1, <2>1, AppendProperties DEF TypeOK
  <2>3. QED
    BY <2>1, <2>2
<1>4. CASE LogEvent
  <2>1. PICK k \in Triggers, shown \in BOOLEAN :
          log' = Append(log, [kind |-> k, shown |-> shown, overtaken |-> FALSE, armed |-> rule.active])
    BY <1>4, AutomationAssumption DEF LogEvent
  <2>2. [kind |-> k, shown |-> shown, overtaken |-> FALSE, armed |-> rule.active] \in LogRows
    BY DEF TypeOK, RuleRows, LogRows
  <2>3. QED
    BY <1>1, <1>2, <2>1, <2>2, AppendProperties DEF TypeOK
<1>5. ASSUME NEW x \in Ids, CommitEvent(x)
      PROVE  DueRow(log, t, e)
  <2> DEFINE passed == \E f \in x + 1..Len(log) : log[f].shown
             armed  == log[x].armed \/ rule.active
             row == [kind |-> log[x].kind, shown |-> TRUE, overtaken |-> passed, armed |-> armed]
  <2>1. x \in 1..Len(log) /\ ~log[x].shown /\ log' = [log EXCEPT ![x] = row]
    BY <1>5, Zenon DEF CommitEvent
  <2>2. log \in [1..Len(log) -> LogRows]
    BY LenProperties DEF TypeOK
  <2>3. CASE x = e
    <3>1. log'[e] = row
      BY <2>1, <2>2, <2>3
    <3>2. c # x /\ log[c].shown
      BY <2>1 DEF Shown
    <3>3. c \in x + 1..Len(log)
      BY <1>1, <2>3, <3>2
    <3>4. passed
      BY <3>2, <3>3
    <3>5. log'[e].overtaken
      BY <3>1, <3>4
    <3>6. QED
      BY <3>5 DEF DueRow
  <2>4. CASE x # e
    <3> HIDE DEF row
    <3>1. log'[e] = log[e]
      BY <1>1, <2>1, <2>2, <2>4
    <3>2. QED
      BY <1>2, <3>1
  <2>5. QED
    BY <2>3, <2>4
<1>6. CASE log' \in {log, WithAudit(log)}
  BY <1>2, <1>3, <1>6
<1>7. QED
  BY <1>4, <1>5, <1>6
  DEF Next, RunStep, vars, Begin, Acquire, Fetch, IdleRenew, Renew, ClaimExecution, Act, CompleteExecution,
      FinalRenew, Progress, Release, Raise, Crash, ReadRule, Activate, Update, Tick

\* A claim is never taken back.
LEMMA ExecStays ==
  ASSUME TypeOK, ClaimInv, [Next]_vars, NEW e \in Ids, exec[e] # "none"
  PROVE  exec'[e] # "none"
<1>1. ASSUME NEW r \in Runs, ClaimExecution(r)
      PROVE  exec'[e] # "none"
  BY <1>1 DEF TypeOK, ClaimExecution
<1>2. ASSUME NEW r \in Runs, CompleteExecution(r)
      PROVE  exec'[e] # "none"
  BY <1>2 DEF TypeOK, CompleteExecution, ClaimInv
<1>3. CASE exec' = exec
  BY <1>3
<1>4. QED
  BY <1>1, <1>2, <1>3
  DEF Next, RunStep, vars, Quiet, Begin, Acquire, Fetch, IdleRenew, Renew, Act, FinalRenew, Progress,
      Release, Raise, Crash, ReadRule, Activate, Update, LogEvent, CommitEvent, Tick

\* The base moves only in a fresh activation, past every row seen so far.
LEMMA BaseMoves ==
  ASSUME TypeOK, [Next]_vars
  PROVE  \/ base' = base
         \/ base' \in Nat /\ rule'.cursor = base' /\ \A c : Shown(c) => c <= base'
<1>1. ASSUME NEW a \in Admins, Activate(a)
      PROVE  base' = base \/ (base' \in Nat /\ rule'.cursor = base' /\ \A c : Shown(c) => c <= base')
  <2>1. ASSUME NEW w \in 0..Len(log), IsWatermark(w), base' = w,
               rule' = Retarget(a, [rule EXCEPT !.active = TRUE, !.cursor = w])
        PROVE  base' \in Nat /\ rule'.cursor = base' /\ \A c : Shown(c) => c <= base'
    <3>1. rule'.cursor = w
      BY <2>1 DEF Retarget, TypeOK, RuleRows
    <3>2. \A c : Shown(c) => c <= w
      BY <2>1 DEF IsWatermark, Shown
    <3>3. QED
      BY <2>1, <3>1, <3>2
  <2>2. QED
    BY <1>1, <2>1 DEF Activate
<1>2. CASE base' = base
  BY <1>2
<1>3. QED
  BY <1>1, <1>2
  DEF Next, RunStep, vars, Quiet, Begin, Acquire, Fetch, IdleRenew, Renew, ClaimExecution, Act, CompleteExecution,
      FinalRenew, Progress, Release, Raise, Crash, ReadRule, Update, LogEvent, CommitEvent, Tick

\* Until the trigger is edited it stays what it was.
LEMMA TriggerKept ==
  ASSUME TypeOK, [Next]_vars, ~retargeted'
  PROVE  ~retargeted /\ rule'.trigger = rule.trigger
<1>1. rule \in RuleRows
  BY DEF TypeOK
<1>2. ASSUME NEW a \in Admins, Activate(a) \/ Update(a)
      PROVE  ~retargeted /\ rule'.trigger = rule.trigger
  BY <1>2 DEF Activate, Update
<1>3. ASSUME NEW r \in Runs, RunStep(r)
      PROVE  ~retargeted /\ rule'.trigger = rule.trigger
  <2>1. retargeted' = retargeted
    BY <1>3 DEF RunStep, Quiet, Acquire, Fetch, IdleRenew, Renew, ClaimExecution, Act, CompleteExecution,
       FinalRenew, Progress, Release
  <2>2. CASE Acquire(r)
    BY <1>1, <2>1, <2>2 DEF Acquire, RuleRows
  <2>3. \A d : Renewed(d).trigger = rule.trigger /\ Released.trigger = rule.trigger
    BY <1>1 DEF Renewed, Released, RuleRows
  <2>4. CASE IdleRenew(r) \/ Renew(r) \/ FinalRenew(r) \/ Release(r)
    <3>1. rule' = rule \/ rule' = Released \/ \E d : rule' = Renewed(d)
      BY <2>4 DEF IdleRenew, Renew, FinalRenew, Release
    <3>2. QED
      BY <2>1, <2>3, <3>1
  <2>5. CASE Progress(r)
    BY <1>1, <2>1, <2>5 DEF Progress, RuleRows
  <2>6. CASE UNCHANGED rule
    BY <2>1, <2>6
  <2>7. QED
    BY <1>3, <2>2, <2>4, <2>5, <2>6 DEF RunStep, Fetch, ClaimExecution, Act, CompleteExecution
<1>4. CASE Tick
  BY <1>1, <1>4 DEF Tick, RuleRows
<1>5. CASE UNCHANGED <<rule, retargeted>>
  BY <1>5
<1>6. QED
  BY <1>2, <1>3, <1>4, <1>5 DEF Next, vars, Quiet, Begin, Raise, Crash, ReadRule, LogEvent, CommitEvent

\* A step of q, or of another actor, that leaves q's cursor and trigger alone,
\* keeps its list or drops it, and leaves no claim unmade.
LEMMA SkipFrame ==
  ASSUME TypeOK, ClaimInv, CursorInv, SkipInv, [Next]_vars, ~retargeted', NEW q \in Runs,
         run[q].pc \notin {"idle", "release"},
         run'[q].trigger = run[q].trigger, run'[q].cursor = run[q].cursor,
         run'[q].todo = run[q].todo \/ run'[q].todo = {},
         run[q].pc = "claim" => \/ run'[q].pc = "claim" /\ run'[q].next = run[q].next
                                \/ exec'[run[q].next] # "none"
  PROVE  RunSkip(q)'
<1>1. run[q] \in RunStates /\ run[q].cursor \in Nat /\ base \in Nat
  BY DEF TypeOK, RunStates
<1>2. /\ ~retargeted /\ rule'.trigger = rule.trigger /\ RunSkip(q)
      /\ run[q].trigger = rule.trigger
  BY TriggerKept DEF SkipInv, RunSkip
<1>3. ASSUME NEW e \in base' + 1..run'[q].cursor, DueRow(log', rule'.trigger, e)
      PROVE  exec'[e] # "none" \/ (run'[q].pc = "claim" /\ run'[q].next = e)
  <2>1. base' \in Nat
    BY <1>1, BaseMoves
  <2>2. run[q].cursor > 0 /\ Shown(run[q].cursor) /\ e \in 1..run[q].cursor
    BY <1>1, <1>3, <2>1 DEF CursorInv, Seen
  <2>3. base' = base
    <3>1. \A b, c \in Nat : e \in b + 1..c => ~(c <= b)
      OBVIOUS
    <3>2. e \in base' + 1..run[q].cursor
      BY <1>3
    <3>3. ~(run[q].cursor <= base')
      BY <1>1, <2>1, <3>1, <3>2, Zenon
    <3>4. QED
      BY <2>2, <3>3, BaseMoves, Zenon
  <2>4. DueRow(log, rule.trigger, e)
    BY <1>2, <1>3, <2>2, DueBefore
  <2>5. exec[e] # "none" \/ (run[q].pc = "claim" /\ run[q].next = e)
    BY <1>2, <1>3, <2>3, <2>4 DEF RunSkip
  <2>6. e \in Ids
    BY <1>1, <2>2, AutomationAssumption DEF Ids, RunStates
  <2>7. QED
    BY <2>5, <2>6, ExecStays
<1>4. ASSUME NEW f \in run'[q].todo, NEW e \in run'[q].cursor + 1..f, DueRow(log', rule'.trigger, e)
      PROVE  e \in run'[q].todo
  <2>1. f \in run[q].todo /\ Shown(f) /\ run'[q].todo = run[q].todo /\ f \in Nat /\ e \in 1..f
    BY <1>1, <1>4 DEF CursorInv, RunStates, Ids
  <2>2. DueRow(log, rule.trigger, e)
    BY <1>2, <1>4, <2>1, DueBefore
  <2>3. QED
    BY <1>2, <1>4, <2>1, <2>2 DEF RunSkip
<1>5. QED
  BY <1>2, <1>3, <1>4 DEF RunSkip

\* The rows fetched leave no gap.
LEMMA FetchSkip ==
  ASSUME TypeOK, NEW c \in Nat, NEW t, NEW f \in LogsAfter(c), NEW e \in c + 1..f, DueRow(log, t, e)
  PROVE  e \in LogsAfter(c)
<1> DEFINE after == {x \in 1..Len(log) : log[x].shown /\ x > c}
           below(y) == {x \in after : x < y}
<1>1. Len(log) \in Nat /\ f \in after /\ Cardinality(below(f)) < Limit
  BY LenProperties DEF TypeOK, LogsAfter
<1>2. e \in after /\ e <= f
  BY <1>1 DEF DueRow
<1>3. below(e) \in SUBSET below(f) /\ below(f) \in SUBSET (1..Len(log))
  BY <1>1, <1>2
<1>4. IsFiniteSet(1..Len(log))
  BY <1>1, FS_Interval
<1>5. IsFiniteSet(below(f))
  BY <1>3, <1>4, FS_Subset
<1>6. Cardinality(below(e)) <= Cardinality(below(f))
  BY <1>3, <1>5, FS_Subset
<1>7. Cardinality(below(e)) \in Nat /\ Cardinality(below(f)) \in Nat
  BY <1>3, <1>5, FS_Subset, FS_CardinalityType
<1>8. Cardinality(below(e)) < Limit
  BY <1>1, <1>6, <1>7, AutomationAssumption
<1>9. QED
  BY <1>2, <1>8 DEF LogsAfter

LEMMA SkipInit == Init => SkipInv
BY DEF Init, SkipInv, RuleSkip, RunSkip, NoRun

LEMMA RuleSkipStep ==
  ASSUME TypeOK, ClaimInv, CursorInv, SkipInv, [Next]_vars, ~retargeted'
  PROVE  RuleSkip'
<1>1. rule \in RuleRows /\ rule.cursor \in 0..MaxLog /\ base \in Nat /\ base' \in Nat
  BY BaseMoves DEF TypeOK, RuleRows
<1>2. ~retargeted /\ rule'.trigger = rule.trigger /\ RuleSkip /\ \A r \in Runs : RunSkip(r)
  BY TriggerKept DEF SkipInv
<1>3. ASSUME NEW c \in 1..MaxLog, Shown(c), NEW e \in base + 1..c, DueRow(log', rule'.trigger, e),
             DueRow(log, rule.trigger, e) => exec[e] # "none"
      PROVE  exec'[e] # "none"
  <2>1. e \in 1..c /\ e \in Ids
    BY <1>1, AutomationAssumption DEF Ids
  <2>2. DueRow(log, rule.trigger, e)
    BY <1>2, <1>3, <2>1, DueBefore
  <2>3. QED
    BY <1>3, <2>1, <2>2, ExecStays
<1>4. CASE rule'.cursor = base'
  <2>1. \A n \in Nat : n + 1..n = {}
    OBVIOUS
  <2>2. base' + 1..rule'.cursor = {}
    BY <1>1, <1>4, <2>1, Zenon
  <2>3. QED
    BY <2>2 DEF RuleSkip
<1>5. CASE rule'.cursor = rule.cursor /\ base' = base
  <2>1. ASSUME NEW e \in base + 1..rule.cursor, DueRow(log', rule'.trigger, e)
        PROVE  exec'[e] # "none"
    <3>1. rule.cursor \in 1..MaxLog /\ Shown(rule.cursor)
      BY <1>1 DEF CursorInv, Seen
    <3>2. QED
      BY <1>2, <1>3, <2>1, <3>1 DEF RuleSkip
  <2>2. QED
    BY <1>5, <2>1 DEF RuleSkip
<1>6. ASSUME NEW r \in Runs, Progress(r)
      PROVE  RuleSkip'
  <2>1. run[r] \in RunStates /\ run[r].cursor \in 0..MaxLog
    BY DEF TypeOK, RunStates
  <2>2. base' = base /\ run[r].pc = "progress"
    BY <1>6 DEF Progress, Quiet
  <2>3. rule'.cursor \in {rule.cursor, run[r].cursor}
    BY <1>1, <1>6 DEF Progress, RuleRows, LargerOf
  <2>4. ASSUME NEW e \in base + 1..run[r].cursor, DueRow(log', rule'.trigger, e)
        PROVE  exec'[e] # "none"
    <3>1. run[r].cursor \in 1..MaxLog /\ Shown(run[r].cursor)
      BY <1>1, <2>1 DEF CursorInv, Seen
    <3>2. DueRow(log, rule.trigger, e) => exec[e] # "none"
      BY <1>2, <2>2 DEF RunSkip
    <3>3. QED
      BY <1>3, <2>4, <3>1, <3>2
  <2>5. CASE rule'.cursor = run[r].cursor
    BY <2>2, <2>4, <2>5 DEF RuleSkip
  <2>6. QED
    BY <1>5, <2>2, <2>3, <2>5
<1>7. ASSUME NEW a \in Admins, Activate(a)
      PROVE  RuleSkip'
  <2>1. (base' = base /\ rule'.cursor = rule.cursor) \/ rule'.cursor = base'
    <3>1. ASSUME NEW w \in 0..Len(log), base' = w,
                 rule' = Retarget(a, [rule EXCEPT !.active = TRUE, !.cursor = w])
          PROVE  rule'.cursor = base'
      BY <1>1, <3>1 DEF Retarget, RuleRows
    <3>2. QED
      BY <1>7, <3>1 DEF Activate
  <2>2. QED
    BY <1>4, <1>5, <2>1
<1>8. ASSUME NEW a \in Admins, Update(a)
      PROVE  RuleSkip'
  <2>1. rule'.cursor = rule.cursor
    BY <1>1, <1>8 DEF Update, Retarget, RuleRows
  <2>2. base' = base
    BY <1>8 DEF Update
  <2>3. QED
    BY <1>5, <2>1, <2>2
<1>9. \A d : Renewed(d).cursor = rule.cursor /\ Released.cursor = rule.cursor
  BY <1>1 DEF Renewed, Released, RuleRows
<1>10. ASSUME NEW r \in Runs, IdleRenew(r) \/ Renew(r) \/ FinalRenew(r) \/ Release(r)
       PROVE  RuleSkip'
  <2>1. rule' = rule \/ rule' = Released \/ \E d : rule' = Renewed(d)
    BY <1>10 DEF IdleRenew, Renew, FinalRenew, Release
  <2>2. base' = base
    BY <1>10 DEF IdleRenew, Renew, FinalRenew, Release, Quiet
  <2>3. QED
    BY <1>5, <1>9, <2>1, <2>2
<1>11. ASSUME NEW r \in Runs, Acquire(r)
       PROVE  RuleSkip'
  <2>1. rule'.cursor = rule.cursor
    BY <1>1, <1>11 DEF Acquire, RuleRows
  <2>2. base' = base
    BY <1>11 DEF Acquire, Quiet
  <2>3. QED
    BY <1>5, <2>1, <2>2
<1>12. CASE Tick
  BY <1>1, <1>5, <1>12 DEF Tick, RuleRows
<1>13. CASE UNCHANGED <<rule, base>>
  BY <1>5, <1>13
<1>14. QED
  BY <1>6, <1>7, <1>8, <1>10, <1>11, <1>12, <1>13
  DEF Next, RunStep, vars, Quiet, Begin, Fetch, ClaimExecution, Act, CompleteExecution, Raise, Crash,
      ReadRule, LogEvent, CommitEvent

LEMMA RunSkipStep ==
  ASSUME TypeOK, ClaimInv, CursorInv, SkipInv, [Next]_vars, ~retargeted', NEW q \in Runs
  PROVE  RunSkip(q)'
<1>1. \A r \in Runs : run[r] \in RunStates
  BY DEF TypeOK
<1>2. rule \in RuleRows /\ rule.cursor \in 0..MaxLog /\ base \in Nat /\ base' \in Nat
  BY BaseMoves DEF TypeOK, RuleRows
<1>3. ~retargeted /\ rule'.trigger = rule.trigger /\ RuleSkip /\ RunSkip(q)
  BY TriggerKept DEF SkipInv
<1>4. \A r \in Runs, pc \in RunPC :
        /\ At(r, pc) \in RunStates /\ At(r, pc).cursor = run[r].cursor /\ At(r, pc).todo = run[r].todo
        /\ At(r, pc).pc = pc /\ At(r, pc).next = run[r].next /\ At(r, pc).trigger = run[r].trigger
  BY <1>1, RunStateLemma DEF At, RunStates
<1>5. NoRun.pc = "idle" /\ Leaving.pc = "release"
  BY DEF NoRun, Leaving
<1>6. \A s \in RunStates : NextRow(s).cursor = s.cursor /\ NextRow(s).todo = s.todo /\ NextRow(s).trigger = s.trigger
  BY DEF NextRow, RunStates
<1>7. CASE run'[q].pc \in {"idle", "release"}
  BY <1>7 DEF RunSkip
<1>8. ASSUME run'[q].trigger = run[q].trigger, run'[q].cursor = run[q].cursor,
             run'[q].pc = run[q].pc, run'[q].todo = run[q].todo, run'[q].next = run[q].next
      PROVE  RunSkip(q)'
  BY <1>7, <1>8, SkipFrame
<1>9. ASSUME NEW r \in Runs \ {q}, run'[q] = run[q]
      PROVE  RunSkip(q)'
  BY <1>8, <1>9
<1>10. ASSUME NEW s, run' = [run EXCEPT ![q] = s], run[q].pc \notin {"idle", "release"},
              s.trigger = run[q].trigger, s.cursor = run[q].cursor, s.todo = run[q].todo \/ s.todo = {},
              run[q].pc = "claim" => exec'[run[q].next] # "none"
       PROVE  RunSkip(q)'
  <2>1. run'[q] = s
    BY <1>10 DEF TypeOK
  <2>2. QED
    BY <1>10, <2>1, SkipFrame
<1>11. ASSUME NEW manual \in BOOLEAN, Begin(q, manual)
       PROVE  RunSkip(q)'
  <2> DEFINE s == [NoRun EXCEPT !.pc = "acquire", !.manual = manual, !.cursor = rule.cursor,
                                !.trigger = rule.trigger, !.fresh = TRUE]
  <2>1. run' = [run EXCEPT ![q] = s] /\ UNCHANGED <<rule, log, exec, base>>
    BY <1>11 DEF Begin, Quiet
  <2>2. s.cursor = rule.cursor /\ s.todo = {} /\ s.trigger = rule.trigger
    BY DEF NoRun
  <2> HIDE DEF s
  <2>3. run'[q] = s
    BY <2>1 DEF TypeOK
  <2>4. QED
    BY <1>3, <2>1, <2>2, <2>3 DEF RunSkip, RuleSkip
<1>12. CASE Acquire(q)
  <2>1. run' \in {[run EXCEPT ![q] = At(q, "fetch")], [run EXCEPT ![q] = NoRun]} /\ run[q].pc = "acquire"
    BY <1>12 DEF Acquire
  <2>2. CASE run' = [run EXCEPT ![q] = At(q, "fetch")]
    BY <1>4, <1>10, <2>1, <2>2 DEF RunPC
  <2>3. CASE run' = [run EXCEPT ![q] = NoRun]
    BY <1>5, <1>7, <2>3 DEF TypeOK
  <2>4. QED
    BY <2>1, <2>2, <2>3
<1>13. CASE Fetch(q)
  <2> DEFINE rows == LogsAfter(run[q].cursor)
             s == [At(q, "renew") EXCEPT !.todo = rows]
  <2>1. /\ run' \in {[run EXCEPT ![q] = s], [run EXCEPT ![q] = At(q, "idleRenew")], [run EXCEPT ![q] = Leaving]}
        /\ run[q].pc = "fetch" /\ UNCHANGED <<rule, log, exec, base>>
    BY <1>13 DEF Fetch, Quiet
  <2>2. s.cursor = run[q].cursor /\ s.todo = rows /\ s.trigger = run[q].trigger
    BY <1>4 DEF RunStates, RunPC
  <2>3. CASE run' = [run EXCEPT ![q] = s]
    <3> HIDE DEF s
    <3>1. run'[q] = s
      BY <2>3 DEF TypeOK
    <3>2. run[q].cursor \in Nat
      BY <1>1 DEF RunStates
    <3>3. \A f \in rows : \A e \in run[q].cursor + 1..f : DueRow(log, rule.trigger, e) => e \in rows
      BY <3>2, FetchSkip
    <3>4. /\ run[q].trigger = rule.trigger
          /\ \A e \in base + 1..run[q].cursor : DueRow(log, rule.trigger, e) => exec[e] # "none"
      BY <1>3, <2>1 DEF RunSkip
    <3> HIDE DEF rows
    <3>5. QED
      BY <2>1, <2>2, <3>1, <3>3, <3>4 DEF RunSkip
  <2>4. CASE run' = [run EXCEPT ![q] = At(q, "idleRenew")]
    BY <1>4, <1>10, <2>1, <2>4 DEF RunPC
  <2>5. CASE run' = [run EXCEPT ![q] = Leaving]
    BY <1>5, <1>7, <2>5 DEF TypeOK
  <2>6. QED
    BY <2>1, <2>3, <2>4, <2>5
<1>14. CASE Renew(q)
  <2> DEFINE here(e) == [At(q, "claim") EXCEPT !.todo = @ \ {e}, !.next = e, !.cursor = LargerOf(@, e)]
             lost == [At(q, "finalRenew") EXCEPT !.lost = TRUE, !.todo = {}]
  <2>1. run[q].pc = "renew" /\ UNCHANGED <<log, exec, base>>
    BY <1>14 DEF Renew, Quiet
  <2>2. lost.cursor = run[q].cursor /\ lost.todo = {} /\ lost.trigger = run[q].trigger
    BY <1>4 DEF RunStates, RunPC
  <2>3. CASE run' = [run EXCEPT ![q] = lost]
    <3> HIDE DEF lost
    <3>1. QED
      BY <1>10, <2>1, <2>2, <2>3
  <2>4. ASSUME NEW e \in run[q].todo, \A f \in run[q].todo : e <= f,
               run' = [run EXCEPT ![q] = IF Matches(q, e) THEN here(e) ELSE NextRow(here(e))]
        PROVE  RunSkip(q)'
    <3>1. e \in Ids /\ run[q].cursor \in Nat /\ run[q].cursor < e /\ Shown(e) /\ run[q].trigger = rule.trigger
      BY <1>1, <1>3, <2>1 DEF RunStates, CursorInv, RunSkip
    <3>2. LargerOf(run[q].cursor, e) = e
      BY <3>1 DEF LargerOf, Ids
    <3>3. /\ here(e).cursor = e /\ here(e).todo = run[q].todo \ {e} /\ here(e).trigger = rule.trigger
          /\ here(e).pc = "claim" /\ here(e).next = e
      BY <1>4, <3>1, <3>2 DEF RunStates, RunPC
    <3>4. /\ NextRow(here(e)).cursor = e /\ NextRow(here(e)).todo = run[q].todo \ {e}
          /\ NextRow(here(e)).trigger = rule.trigger
      BY <1>4, <3>1, <3>2 DEF RunStates, RunPC, NextRow
    <3> HIDE DEF here
    <3>5. /\ run'[q].cursor = e /\ run'[q].todo = run[q].todo \ {e} /\ run'[q].trigger = rule.trigger
          /\ Matches(q, e) => run'[q].pc = "claim" /\ run'[q].next = e
      BY <2>4, <3>3, <3>4 DEF TypeOK
    <3>6. ASSUME NEW x \in base + 1..e, DueRow(log, rule.trigger, x)
          PROVE  exec[x] # "none" \/ (run'[q].pc = "claim" /\ run'[q].next = x)
      <4>1. CASE x <= run[q].cursor
        BY <1>2, <1>3, <2>1, <3>1, <3>6, <4>1 DEF RunSkip
      <4>2. CASE x > run[q].cursor /\ x # e
        <5>1. x \in run[q].cursor + 1..e /\ x < e
          BY <1>2, <3>1, <4>2 DEF Ids
        <5>2. x \in run[q].todo
          BY <1>3, <2>1, <3>6, <5>1 DEF RunSkip
        <5>3. QED
          BY <2>4, <3>1, <5>1, <5>2 DEF Ids
      <4>3. CASE x = e
        BY <3>1, <3>5, <3>6, <4>3 DEF DueRow, Matches
      <4>4. QED
        BY <1>2, <3>1, <4>1, <4>2, <4>3 DEF Ids
    <3>7. ASSUME NEW f \in run[q].todo \ {e}, NEW x \in e + 1..f, DueRow(log, rule.trigger, x)
          PROVE  x \in run[q].todo \ {e}
      <4>1. f \in Ids
        BY <1>1 DEF RunStates
      <4>2. x \in run[q].cursor + 1..f /\ x # e
        BY <3>1, <4>1 DEF Ids
      <4>3. QED
        BY <1>3, <2>1, <3>7, <4>2 DEF RunSkip
    <3>8. QED
      BY <1>3, <2>1, <3>5, <3>6, <3>7 DEF RunSkip
  <2>5. QED
    BY <1>14, <2>3, <2>4 DEF Renew
<1>15. CASE ClaimExecution(q)
  <2> DEFINE e == run[q].next
             s == [At(q, "act") EXCEPT !.late = IF rule.active THEN @ ELSE @ + 1]
  <2>1. s.cursor = run[q].cursor /\ s.todo = run[q].todo /\ s.trigger = run[q].trigger
    BY <1>4 DEF RunStates, RunPC
  <2>2. /\ run[q].pc = "claim" /\ run' \in {[run EXCEPT ![q] = s], [run EXCEPT ![q] = NextRow(run[q])]}
        /\ exec' = IF exec[e] = "none" THEN [exec EXCEPT ![e] = "processing"] ELSE exec
    BY <1>15 DEF ClaimExecution
  <2>3. e \in Ids
    BY <2>2 DEF ClaimInv
  <2>4. exec'[e] # "none"
    BY <2>2, <2>3 DEF TypeOK
  <2> HIDE DEF s
  <2>5. QED
    BY <1>1, <1>6, <1>10, <2>1, <2>2, <2>4
<1>16. ASSUME NEW result \in {"success", "failed"}, Act(q, result)
       PROVE  RunSkip(q)'
  <2> DEFINE s == [At(q, "complete") EXCEPT !.result = result]
  <2>1. s.cursor = run[q].cursor /\ s.todo = run[q].todo /\ s.trigger = run[q].trigger
    BY <1>4 DEF RunStates, RunPC
  <2>2. run[q].pc = "act" /\ run' = [run EXCEPT ![q] = s]
    BY <1>16 DEF Act
  <2> HIDE DEF s
  <2>3. QED
    BY <1>10, <2>1, <2>2
<1>17. CASE CompleteExecution(q)
  <2> DEFINE s == [NextRow(run[q]) EXCEPT !.done = IF exec[run[q].next] = "processing" THEN @ + 1 ELSE @]
  <2>1. s.cursor = run[q].cursor /\ s.todo = run[q].todo /\ s.trigger = run[q].trigger
    BY <1>1, <1>6, RunStateLemma DEF RunStates
  <2>2. run[q].pc = "complete" /\ run' = [run EXCEPT ![q] = s]
    BY <1>17 DEF CompleteExecution
  <2> HIDE DEF s
  <2>3. QED
    BY <1>10, <2>1, <2>2
<1>18. CASE FinalRenew(q)
  <2>1. PICK d \in 0..run[q].lag : run' = [run EXCEPT ![q] = [run[q] EXCEPT !.pc = "progress", !.lag = d]]
    BY <1>18 DEF FinalRenew, TypeOK
  <2> DEFINE s == [run[q] EXCEPT !.pc = "progress", !.lag = d]
  <2>2. s.cursor = run[q].cursor /\ s.todo = run[q].todo /\ s.trigger = run[q].trigger
    BY <1>1 DEF RunStates
  <2>3. run[q].pc = "finalRenew" /\ run' = [run EXCEPT ![q] = s]
    BY <1>18, <2>1 DEF FinalRenew
  <2> HIDE DEF s
  <2>4. QED
    BY <1>10, <2>2, <2>3
<1>19. CASE IdleRenew(q) \/ Progress(q) \/ Release(q) \/ Raise(q) \/ Crash(q)
  <2>1. run' \in {[run EXCEPT ![q] = Leaving], [run EXCEPT ![q] = NoRun]}
    BY <1>19 DEF IdleRenew, Progress, Release, Raise, Crash
  <2>2. QED
    BY <1>5, <1>7, <2>1 DEF TypeOK
<1>20. ASSUME NEW r \in Runs \ {q}, NEW s, run' = [run EXCEPT ![r] = s]
       PROVE  RunSkip(q)'
  BY <1>9, <1>20 DEF TypeOK
<1>21. ASSUME NEW r \in Runs \ {q}, (\E manual \in BOOLEAN : Begin(r, manual)) \/ RunStep(r) \/ Raise(r) \/ Crash(r)
       PROVE  RunSkip(q)'
  <2>1. \E s : run' = [run EXCEPT ![r] = s]
    BY <1>21 DEF RunStep, Begin, Acquire, Fetch, IdleRenew, Renew, ClaimExecution, Act, CompleteExecution,
       FinalRenew, Progress, Release, Raise, Crash
  <2>2. QED
    BY <1>20, <2>1
<1>22. ASSUME NEW a \in Admins, Activate(a) \/ Update(a)
       PROVE  RunSkip(q)'
  <2>1. run' \in {run, [r \in Runs |-> [run[r] EXCEPT !.fresh = FALSE]], [r \in Runs |-> [run[r] EXCEPT !.late = 0]]}
    BY <1>22 DEF Activate, Update
  <2>2. QED
    BY <1>1, <1>8, <2>1 DEF RunStates
<1>23. CASE Tick
  BY <1>1, <1>8, <1>23 DEF Tick, RunStates
<1>24. CASE run' = run
  BY <1>8, <1>24
<1>25. QED
  BY <1>11, <1>12, <1>13, <1>14, <1>15, <1>16, <1>17, <1>18, <1>19, <1>21, <1>22, <1>23, <1>24
  DEF Next, RunStep, vars, ReadRule, LogEvent, CommitEvent

\* No row that the trigger selects is passed by the cursor without having been
\* claimed, unless it committed behind a row that was already visible.
THEOREM NothingSkipped == Spec => []NoSkippedEvent
<1> DEFINE Inv == TypeOK /\ ClaimInv /\ CursorInv /\ SkipInv
<1>1. Init => Inv
  BY InitType, ClaimInit, CursorInit, SkipInit
<1>2. Inv /\ [Next]_vars => Inv'
  BY StepType, ClaimStep, CursorStep, RuleSkipStep, RunSkipStep DEF SkipInv
<1>3. Inv => NoSkippedEvent
  <2> SUFFICES ASSUME Inv, ~retargeted, NEW e \in base + 1..rule.cursor,
                      log[e].kind = rule.trigger, log[e].shown, ~log[e].overtaken
               PROVE  exec[e] # "none"
    BY DEF NoSkippedEvent
  <2>1. rule.cursor \in Nat /\ base \in Nat
    BY DEF TypeOK, RuleRows
  <2>2. rule.cursor \in 1..Len(log) /\ Len(log) \in Nat
    BY <2>1, LenProperties DEF CursorInv, Seen, Shown, TypeOK
  <2>3. DueRow(log, rule.trigger, e)
    BY <2>1, <2>2 DEF DueRow
  <2>4. QED
    BY <2>3 DEF SkipInv, RuleSkip
<1>4. QED
  <2> HIDE DEF Inv
  <2>1. QED
    BY <1>1, <1>2, <1>3, PTL DEF Spec
-----------------------------------------------------------------------------
(* What an automatic run still does once the rule is disabled.               *)

\* The states that a step of run r leads to, and what they carry over: none, those
\* of a new run, those of a run that has no row to handle, a checkpoint passed and
\* an event claimed.
Rests(q) == q.pc \in {"idle", "release"} /\ ~q.fresh /\ q.late = 0

Starts(q) == q.pc = "acquire" /\ q.late = 0 /\ q.cursor = rule.cursor /\ q.todo = {}

Carries(r, q) == q.manual = run[r].manual /\ q.fresh = run[r].fresh

Proceeds(r, q) ==
  /\ Carries(r, q) /\ q.pc \notin {"claim", "act"}
  /\ q.late = run[r].late /\ q.cursor >= run[r].cursor
  /\ q.todo \subseteq run[r].todo \/ q.todo = LogsAfter(run[r].cursor)

Passes(r, q) ==
  /\ Carries(r, q) /\ q.pc = "claim" /\ (run[r].manual \/ rule.active)
  /\ q.late = run[r].late /\ q.cursor >= run[r].cursor /\ q.todo \subseteq run[r].todo
  /\ q.next \in run[r].todo /\ log[q.next].kind \in Triggers

Claims(r, q) ==
  /\ Carries(r, q) /\ run[r].pc = "claim" /\ q.pc = "act"
  /\ q.late = IF rule.active THEN run[r].late ELSE run[r].late + 1
  /\ q.cursor = run[r].cursor /\ q.todo = run[r].todo /\ q.next = run[r].next

Moves(r, q) == Rests(q) \/ Starts(q) \/ Proceeds(r, q) \/ Passes(r, q) \/ Claims(r, q)

\* Run r is now in state q; the rule is as active as it was.
Moved(r, q) ==
  /\ run' = [run EXCEPT ![r] = q] /\ q \in RunStates
  /\ Moves(r, q) /\ rule'.active = rule.active /\ base' = base /\ admin' = admin

LEMMA RestMoves ==
  ASSUME TypeOK, NEW r \in Runs, NEW q \in {NoRun, Leaving}, run' = [run EXCEPT ![r] = q],
         rule'.active = rule.active, base' = base, admin' = admin
  PROVE  Moved(r, q)
<1>1. NoRun.pc = "idle" /\ NoRun.fresh = FALSE /\ NoRun.late = 0
  BY DEF NoRun
<1>2. Leaving.pc = "release" /\ Leaving.fresh = FALSE /\ Leaving.late = 0
  BY DEF Leaving, NoRun
<1>3. q \in RunStates /\ Rests(q)
  BY <1>1, <1>2, RunStateLemma DEF Rests
<1>4. QED
  BY <1>3 DEF Moved, Moves

LEMMA AtMoves ==
  ASSUME TypeOK, NEW r \in Runs, NEW pc \in RunPC \ {"claim", "act"}, run' = [run EXCEPT ![r] = At(r, pc)],
         rule'.active = rule.active, base' = base, admin' = admin
  PROVE  Moved(r, At(r, pc))
<1>1. run[r] \in RunStates
  BY DEF TypeOK
<1>2. PICK q : q = At(r, pc)
  OBVIOUS
<1>3. q \in RunStates /\ q = [run[r] EXCEPT !.pc = pc, !.lag = 0]
  BY <1>1, <1>2, RunStateLemma DEF At
<1>4. Proceeds(r, q)
  BY <1>1, <1>3 DEF Proceeds, Carries, RunStates
<1>5. QED
  BY <1>2, <1>3, <1>4 DEF Moved, Moves

LEMMA NextRowMoves ==
  ASSUME NEW s \in RunStates
  PROVE  LET q == NextRow(s)
         IN  /\ q \in RunStates /\ q.pc \in {"finalRenew", "renew"}
             /\ q.manual = s.manual /\ q.fresh = s.fresh /\ q.late = s.late /\ q.cursor = s.cursor /\ q.todo = s.todo
<1>1. NextRow(s) \in RunStates
  BY RunStateLemma
<1>2. QED
  BY <1>1 DEF NextRow, RunStates

LEMMA RenewMoves ==
  ASSUME TypeOK, NEW r \in Runs, Renew(r)
  PROVE  \E q : Moved(r, q)
<1>1. PICK old : old = run[r]
  OBVIOUS
<1>2. old \in RunStates /\ At(r, "claim") = [old EXCEPT !.pc = "claim", !.lag = 0]
      /\ At(r, "finalRenew") = [old EXCEPT !.pc = "finalRenew", !.lag = 0]
  BY <1>1 DEF TypeOK, At
<1>3. rule'.active = rule.active /\ base' = base /\ admin' = admin
  BY DEF Renew, Quiet, Renewed, TypeOK, RuleRows
<1>4. 0 \in 0..MaxLag /\ MaxLog \in Nat
  BY AutomationAssumption
<1>5. CASE run' = [run EXCEPT ![r] = [At(r, "finalRenew") EXCEPT !.lost = TRUE, !.todo = {}]]
  <2> DEFINE q == [old EXCEPT !.pc = "finalRenew", !.lag = 0, !.lost = TRUE, !.todo = {}]
  <2>1. run' = [run EXCEPT ![r] = q]
    BY <1>2, <1>5 DEF RunStates
  <2>2. q \in RunStates
    BY <1>2, <1>4 DEF RunStates, RunPC
  <2>3. Proceeds(r, q)
    BY <1>1, <1>2 DEF Proceeds, Carries, RunStates
  <2> HIDE DEF q
  <2>4. QED
    BY <1>3, <2>1, <2>2, <2>3 DEF Moved, Moves
<1>6. ASSUME NEW d \in 0..run[r].lag, MayRenew(r, d), NEW e \in run[r].todo,
             LET here == [At(r, "claim") EXCEPT !.todo = @ \ {e}, !.next = e, !.cursor = LargerOf(@, e)]
             IN  run' = [run EXCEPT ![r] = IF Matches(r, e) THEN here ELSE NextRow(here)]
      PROVE  \E q : Moved(r, q)
  <2>1. e \in Ids /\ e \in 0..MaxLog /\ old.cursor \in 0..MaxLog /\ e \in old.todo
    BY <1>1, <1>2, <1>4, <1>6 DEF RunStates, Ids
  <2>2. PICK c \in 0..MaxLog : c = LargerOf(old.cursor, e) /\ c >= old.cursor
    BY <2>1 DEF LargerOf
  <2> DEFINE here == [old EXCEPT !.pc = "claim", !.lag = 0, !.todo = old.todo \ {e}, !.next = e, !.cursor = c]
  <2>3. run' = [run EXCEPT ![r] = IF Matches(r, e) THEN here ELSE NextRow(here)]
    <3>1. here = [At(r, "claim") EXCEPT !.todo = @ \ {e}, !.next = e, !.cursor = LargerOf(@, e)]
      BY <1>2, <2>2 DEF RunStates
    <3>2. QED
      BY <1>6, <3>1
  <2>4. /\ here \in RunStates /\ here.pc = "claim" /\ here.todo \subseteq old.todo /\ here.next = e /\ here.cursor = c
        /\ here.manual = old.manual /\ here.fresh = old.fresh /\ here.late = old.late
    BY <1>2, <1>4, <2>1 DEF RunStates, RunPC
  <2>5. old.trigger \in Triggers /\ (run[r].manual \/ rule.active)
    BY <1>2, <1>6 DEF RunStates, MayRenew
  <2> HIDE DEF here
  <2>6. CASE Matches(r, e)
    <3>1. Passes(r, here)
      BY <1>1, <2>1, <2>2, <2>4, <2>5, <2>6 DEF Passes, Carries, Matches
    <3>2. QED
      BY <1>3, <2>3, <2>4, <2>6, <3>1 DEF Moved, Moves
  <2>7. CASE ~Matches(r, e)
    <3>1. PICK q : q = NextRow(here)
      OBVIOUS
    <3>2. /\ q \in RunStates /\ q.pc \in {"finalRenew", "renew"} /\ q.manual = here.manual /\ q.fresh = here.fresh
          /\ q.late = here.late /\ q.cursor = here.cursor /\ q.todo = here.todo
      BY <2>4, <3>1, NextRowMoves
    <3>3. Proceeds(r, q)
      BY <1>1, <2>2, <2>4, <3>2 DEF Proceeds, Carries
    <3>4. QED
      BY <1>3, <2>3, <2>7, <3>1, <3>2, <3>3 DEF Moved, Moves
  <2>8. QED
    BY <2>6, <2>7
<1>7. QED
  BY <1>5, <1>6 DEF Renew

LEMMA BeginMoves ==
  ASSUME TypeOK, NEW r \in Runs, NEW manual \in BOOLEAN, Begin(r, manual)
  PROVE  \E q : Moved(r, q)
<1> DEFINE q == [NoRun EXCEPT !.pc = "acquire", !.manual = manual, !.cursor = rule.cursor,
                              !.trigger = rule.trigger, !.fresh = TRUE]
<1>1. rule.cursor \in 0..MaxLog /\ rule.trigger \in Triggers
  BY DEF TypeOK, RuleRows
<1>2. q \in RunStates
  <2>1. NoRun \in RunStates /\ "acquire" \in RunPC
    BY RunStateLemma DEF RunPC
  <2>2. \A s \in RunStates, c \in 0..MaxLog, t \in Triggers :
          [s EXCEPT !.pc = "acquire", !.manual = manual, !.cursor = c, !.trigger = t, !.fresh = TRUE] \in RunStates
    BY <2>1 DEF RunStates
  <2>3. QED
    BY <1>1, <2>1, <2>2
<1>3. q.pc = "acquire" /\ q.late = 0 /\ q.cursor = rule.cursor /\ q.todo = {}
  BY DEF NoRun
<1>4. run' = [run EXCEPT ![r] = q] /\ rule' = rule /\ base' = base /\ admin' = admin
  BY DEF Begin, Quiet
<1> HIDE DEF q
<1>5. QED
  BY <1>2, <1>3, <1>4 DEF Moved, Moves, Starts

LEMMA FetchMoves ==
  ASSUME TypeOK, NEW r \in Runs, Fetch(r)
  PROVE  \E q : Moved(r, q)
<1>1. rule'.active = rule.active /\ base' = base /\ admin' = admin
  BY DEF Fetch, Quiet
<1>2. CASE run' = [run EXCEPT ![r] = [At(r, "renew") EXCEPT !.todo = LogsAfter(run[r].cursor)]]
  <2> DEFINE q == [run[r] EXCEPT !.pc = "renew", !.lag = 0, !.todo = LogsAfter(run[r].cursor)]
  <2>1. run[r] \in RunStates /\ 0 \in 0..MaxLag
    BY AutomationAssumption DEF TypeOK
  <2>2. LogsAfter(run[r].cursor) \in SUBSET Ids
    BY LenProperties, AutomationAssumption DEF LogsAfter, Ids, TypeOK
  <2>3. run' = [run EXCEPT ![r] = q]
    BY <1>2, <2>1 DEF At, RunStates
  <2>4. q \in RunStates
    BY <2>1, <2>2 DEF RunStates, RunPC
  <2>5. Proceeds(r, q)
    BY <2>1 DEF Proceeds, Carries, RunStates
  <2> HIDE DEF q
  <2>6. QED
    BY <1>1, <2>3, <2>4, <2>5 DEF Moved, Moves
<1>3. CASE run' = [run EXCEPT ![r] = At(r, "idleRenew")]
  BY <1>1, <1>3, AtMoves DEF RunPC
<1>4. CASE run' = [run EXCEPT ![r] = Leaving]
  BY <1>1, <1>4, RestMoves
<1>5. QED
  BY <1>2, <1>3, <1>4 DEF Fetch

LEMMA ClaimMoves ==
  ASSUME TypeOK, NEW r \in Runs, ClaimExecution(r)
  PROVE  \E q : Moved(r, q)
<1>1. rule' = rule /\ base' = base /\ admin' = admin /\ run[r].pc = "claim" /\ run[r] \in RunStates
  BY DEF ClaimExecution, Quiet, TypeOK
<1>2. CASE run' = [run EXCEPT ![r] = NextRow(run[r])]
  <2>1. PICK q : q = NextRow(run[r])
    OBVIOUS
  <2>2. /\ q \in RunStates /\ q.pc \in {"finalRenew", "renew"} /\ q.manual = run[r].manual
        /\ q.fresh = run[r].fresh /\ q.late = run[r].late /\ q.cursor = run[r].cursor /\ q.todo = run[r].todo
    BY <1>1, <2>1, NextRowMoves
  <2>3. Proceeds(r, q)
    BY <1>1, <2>2 DEF Proceeds, Carries, RunStates
  <2>4. QED
    BY <1>1, <1>2, <2>1, <2>2, <2>3 DEF Moved, Moves
<1>3. CASE run' = [run EXCEPT ![r] = [At(r, "act") EXCEPT !.late = IF rule.active THEN @ ELSE @ + 1]]
  <2>1. PICK n \in Nat : n = IF rule.active THEN run[r].late ELSE run[r].late + 1
    BY <1>1 DEF RunStates
  <2> DEFINE q == [run[r] EXCEPT !.pc = "act", !.lag = 0, !.late = n]
  <2>2. run' = [run EXCEPT ![r] = q]
    BY <1>1, <1>3, <2>1 DEF At, RunStates
  <2>3. q \in RunStates
    <3>1. 0 \in 0..MaxLag
      BY AutomationAssumption
    <3>2. \A old \in RunStates, m \in Nat : [old EXCEPT !.pc = "act", !.lag = 0, !.late = m] \in RunStates
      BY <3>1 DEF RunStates, RunPC
    <3>3. QED
      BY <1>1, <3>2
  <2>4. Claims(r, q)
    BY <1>1, <2>1 DEF Claims, Carries, RunStates
  <2> HIDE DEF q
  <2>5. QED
    BY <1>1, <2>2, <2>3, <2>4 DEF Moved, Moves
<1>4. QED
  BY <1>2, <1>3 DEF ClaimExecution

LEMMA FinishMoves ==
  ASSUME TypeOK, NEW r \in Runs, NEW result \in {"success", "failed"}, Act(r, result) \/ CompleteExecution(r)
  PROVE  \E q : Moved(r, q)
<1>1. rule' = rule /\ base' = base /\ admin' = admin /\ run[r] \in RunStates
  BY DEF Act, CompleteExecution, Quiet, TypeOK
<1>2. CASE Act(r, result)
  <2> DEFINE q == [run[r] EXCEPT !.pc = "complete", !.lag = 0, !.result = result]
  <2>1. run' = [run EXCEPT ![r] = q]
    BY <1>1, <1>2 DEF Act, At, RunStates
  <2>2. q \in RunStates
    <3>1. 0 \in 0..MaxLag
      BY AutomationAssumption
    <3>2. QED
      BY <1>1, <3>1 DEF RunStates, RunPC, Statuses
  <2>3. Proceeds(r, q)
    BY <1>1 DEF Proceeds, Carries, RunStates
  <2> HIDE DEF q
  <2>4. QED
    BY <1>1, <2>1, <2>2, <2>3 DEF Moved, Moves
<1>3. CASE CompleteExecution(r)
  <2>1. PICK s : s = NextRow(run[r])
    OBVIOUS
  <2>2. /\ s \in RunStates /\ s.pc \in {"finalRenew", "renew"} /\ s.manual = run[r].manual
        /\ s.fresh = run[r].fresh /\ s.late = run[r].late /\ s.cursor = run[r].cursor /\ s.todo = run[r].todo
    BY <1>1, <2>1, NextRowMoves
  <2>3. PICK n \in Nat : n = IF exec[run[r].next] = "processing" THEN s.done + 1 ELSE s.done
    BY <2>2 DEF RunStates
  <2> DEFINE q == [s EXCEPT !.done = n]
  <2>4. run' = [run EXCEPT ![r] = q]
    BY <1>3, <2>1, <2>2, <2>3 DEF CompleteExecution, RunStates
  <2>5. q \in RunStates
    BY <2>2 DEF RunStates
  <2>6. Proceeds(r, q)
    BY <1>1, <2>2 DEF Proceeds, Carries, RunStates
  <2> HIDE DEF q
  <2>7. QED
    BY <1>1, <2>4, <2>5, <2>6 DEF Moved, Moves
<1>4. QED
  BY <1>2, <1>3

LEMMA LeaseMoves ==
  ASSUME TypeOK, NEW r \in Runs,
         Acquire(r) \/ IdleRenew(r) \/ FinalRenew(r) \/ Progress(r) \/ Release(r) \/ Raise(r) \/ Crash(r)
  PROVE  \E q : Moved(r, q)
<1>1. rule \in RuleRows /\ run[r] \in RunStates
  BY DEF TypeOK
<1>2. /\ \A d : Renewed(d).active = rule.active
      /\ Released.active = rule.active
  BY <1>1 DEF Renewed, Released, RuleRows
<1>3. rule'.active = rule.active
  <2>1. CASE Acquire(r)
    BY <1>1, <2>1 DEF Acquire, RuleRows
  <2>2. CASE IdleRenew(r) \/ FinalRenew(r) \/ Release(r)
    BY <1>2, <2>2 DEF IdleRenew, FinalRenew, Release
  <2>3. CASE Progress(r)
    BY <1>1, <2>3 DEF Progress, RuleRows
  <2>4. CASE Raise(r) \/ Crash(r)
    BY <2>4 DEF Raise, Crash
  <2>5. QED
    BY <2>1, <2>2, <2>3, <2>4
<1>4. base' = base /\ admin' = admin
  BY DEF Acquire, IdleRenew, FinalRenew, Progress, Release, Raise, Crash, Quiet
<1>5. CASE FinalRenew(r)
  <2>1. PICK d \in 0..run[r].lag : run' = [run EXCEPT ![r].pc = "progress", ![r].lag = d]
    BY <1>5 DEF FinalRenew
  <2> DEFINE q == [run[r] EXCEPT !.pc = "progress", !.lag = d]
  <2>2. run' = [run EXCEPT ![r] = q]
    BY <1>1, <2>1 DEF TypeOK, RunStates
  <2>3. d \in 0..MaxLag
    BY <1>1, AutomationAssumption DEF RunStates
  <2>4. q \in RunStates
    BY <1>1, <2>3 DEF RunStates, RunPC
  <2>5. Proceeds(r, q)
    BY <1>1 DEF Proceeds, Carries, RunStates
  <2> HIDE DEF q
  <2>6. QED
    BY <1>3, <1>4, <2>2, <2>4, <2>5 DEF Moved, Moves
<1>6. CASE Acquire(r)
  <2>1. run' \in {[run EXCEPT ![r] = At(r, "fetch")], [run EXCEPT ![r] = NoRun]}
    BY <1>6 DEF Acquire
  <2>2. QED
    BY <1>3, <1>4, <2>1, AtMoves, RestMoves DEF RunPC
<1>7. CASE IdleRenew(r) \/ Progress(r) \/ Release(r) \/ Raise(r) \/ Crash(r)
  <2>1. run' \in {[run EXCEPT ![r] = Leaving], [run EXCEPT ![r] = NoRun]}
    BY <1>7 DEF IdleRenew, Progress, Release, Raise, Crash
  <2>2. QED
    BY <1>3, <1>4, <2>1, RestMoves
<1>8. QED
  BY <1>5, <1>6, <1>7

\* Every step of a run is one of these moves.
LEMMA RunMoves ==
  ASSUME TypeOK, NEW r \in Runs,
         (\E manual \in BOOLEAN : Begin(r, manual)) \/ RunStep(r) \/ Raise(r) \/ Crash(r)
  PROVE  \E q : Moved(r, q)
BY BeginMoves, FetchMoves, RenewMoves, ClaimMoves, FinishMoves, LeaseMoves DEF RunStep

\* While the rule is disabled, an automatic run that still has a claim to make has
\* made none since.
StopRun(s) == ~s.manual => s.late <= 1 /\ (s.pc = "claim" /\ ~rule.active => s.late = 0)

StopInv == \A r \in Runs : StopRun(run[r])

LEMMA StopStep == ASSUME TypeOK, StopInv, [Next]_vars PROVE StopInv'
<1> SUFFICES ASSUME NEW s \in Runs PROVE StopRun(run[s])'
  BY DEF StopInv
<1>1. run[s] \in RunStates /\ StopRun(run[s])
  BY DEF TypeOK, StopInv
<1>2. ASSUME NEW r \in Runs,
             (\E manual \in BOOLEAN : Begin(r, manual)) \/ RunStep(r) \/ Raise(r) \/ Crash(r)
      PROVE  StopRun(run[s])'
  <2>1. PICK q : Moved(r, q)
    BY <1>2, RunMoves
  <2>2. run'[s] = (IF s = r THEN q ELSE run[s]) /\ rule'.active = rule.active
    BY <2>1 DEF Moved, TypeOK
  <2>3. CASE s # r
    BY <1>1, <2>2, <2>3 DEF StopRun
  <2>4. CASE s = r
    <3>1. Rests(q) \/ Starts(q) => StopRun(q)'
      BY <2>2 DEF Rests, Starts, StopRun
    <3>2. Proceeds(r, q) => StopRun(q)'
      BY <1>1, <2>2, <2>4 DEF Proceeds, Carries, StopRun
    <3>3. Passes(r, q) => StopRun(q)'
      BY <1>1, <2>2, <2>4 DEF Passes, Carries, StopRun
    <3>4. Claims(r, q) => StopRun(q)'
      BY <1>1, <2>2, <2>4 DEF Claims, Carries, StopRun, RunStates
    <3>5. StopRun(q)'
      BY <2>1, <3>1, <3>2, <3>3, <3>4 DEF Moved, Moves
    <3>6. QED
      BY <2>2, <2>4, <3>5 DEF StopRun
  <2>5. QED
    BY <2>3, <2>4
<1>3. ASSUME rule'.active \/ rule'.active = rule.active, run'[s].manual = run[s].manual,
             run'[s].late = run[s].late, run'[s].pc = run[s].pc
      PROVE  StopRun(run[s])'
  BY <1>1, <1>3 DEF StopRun
<1>4. ASSUME NEW a \in Admins, Activate(a)
      PROVE  StopRun(run[s])'
  <2>1. run' \in {run, [r \in Runs |-> [run[r] EXCEPT !.fresh = FALSE]]}
    BY <1>4 DEF Activate
  <2>2. run'[s].manual = run[s].manual /\ run'[s].late = run[s].late /\ run'[s].pc = run[s].pc
    BY <1>1, <2>1 DEF RunStates
  <2>3. rule'.active \/ rule'.active = rule.active
    BY <1>4 DEF Activate, Retarget, TypeOK, RuleRows
  <2>4. QED
    BY <1>3, <2>2, <2>3
<1>5. ASSUME NEW a \in Admins, Update(a)
      PROVE  StopRun(run[s])'
  <2>1. CASE rule.active /\ ~rule'.active
    <3>1. run'[s] = [run[s] EXCEPT !.late = 0]
      BY <1>5, <2>1 DEF Update
    <3>2. run'[s].late = 0
      BY <1>1, <3>1 DEF RunStates
    <3>3. QED
      BY <3>2 DEF StopRun
  <2>2. CASE ~(rule.active /\ ~rule'.active)
    <3>1. run' = run
      BY <1>5, <2>2 DEF Update
    <3>2. rule.active => rule'.active
      BY <2>2
    <3>3. QED
      BY <1>1, <3>1, <3>2 DEF StopRun
  <2>3. QED
    BY <2>1, <2>2
<1>6. CASE Tick
  <2>1. run'[s].manual = run[s].manual /\ run'[s].late = run[s].late /\ run'[s].pc = run[s].pc
    BY <1>1, <1>6 DEF Tick, RunStates
  <2>2. rule'.active = rule.active
    BY <1>6 DEF Tick, TypeOK, RuleRows
  <2>3. QED
    BY <1>3, <2>1, <2>2
<1>7. CASE UNCHANGED <<rule, run>>
  BY <1>3, <1>7
<1>8. QED
  BY <1>2, <1>4, <1>5, <1>6, <1>7 DEF Next, vars, ReadRule, LogEvent, CommitEvent

\* After the rule is disabled an automatic run claims at most the event whose
\* checkpoint it had already passed.
THEOREM DisabledRuleStops == Spec => []StopsAfterDisable
<1>1. Init => StopInv
  BY DEF Init, StopInv, StopRun, NoRun
<1>2. TypeOK /\ StopInv /\ [Next]_vars => StopInv'
  BY StopStep
<1>3. StopInv => StopsAfterDisable
  BY DEF StopInv, StopRun, StopsAfterDisable
<1>4. QED
  BY <1>1, <1>2, <1>3, TypeCorrect, PTL DEF Spec

-----------------------------------------------------------------------------
(* What a run begun after the last activation handles.                       *)

\* A row that is shown is never changed.
LEMMA ShownStays ==
  ASSUME TypeOK, [Next]_vars, NEW e, Shown(e)
  PROVE  log'[e] = log[e]
<1>1. Len(log) \in Nat /\ e \in 1..Len(log) /\ log[e].shown /\ log \in [1..Len(log) -> LogRows]
  BY LenProperties DEF TypeOK, Shown
<1>2. WithAudit(log)[e] = log[e]
  <2> DEFINE row == [kind |-> Engine, shown |-> TRUE, overtaken |-> FALSE, armed |-> FALSE]
  <2>1. row \in LogRows /\ WithAudit(log) \in {log, Append(log, row)}
    BY DEF LogRows, WithAudit
  <2>2. Append(log, row)[e] = log[e]
    BY <1>1, <2>1, AppendProperties DEF TypeOK
  <2>3. QED
    BY <2>1, <2>2
<1>3. CASE LogEvent
  <2>1. PICK k \in Triggers, shown \in BOOLEAN :
          log' = Append(log, [kind |-> k, shown |-> shown, overtaken |-> FALSE, armed |-> rule.active])
    BY <1>3, AutomationAssumption DEF LogEvent
  <2>2. [kind |-> k, shown |-> shown, overtaken |-> FALSE, armed |-> rule.active] \in LogRows
    BY DEF TypeOK, RuleRows, LogRows
  <2>3. QED
    BY <1>1, <2>1, <2>2, AppendProperties DEF TypeOK
<1>4. ASSUME NEW x \in Ids, CommitEvent(x)
      PROVE  log'[e] = log[e]
  <2> DEFINE passed == \E f \in x + 1..Len(log) : log[f].shown
             armed  == log[x].armed \/ rule.active
             row == [kind |-> log[x].kind, shown |-> TRUE, overtaken |-> passed, armed |-> armed]
  <2>1. x \in 1..Len(log) /\ ~log[x].shown /\ log' = [log EXCEPT ![x] = row]
    BY <1>4, Zenon DEF CommitEvent
  <2>2. x # e
    BY <1>1, <2>1
  <2> HIDE DEF row
  <2>3. QED
    BY <1>1, <2>1, <2>2
<1>5. CASE log' \in {log, WithAudit(log)}
  BY <1>2, <1>5
<1>6. QED
  BY <1>3, <1>4, <1>5
  DEF Next, RunStep, vars, Begin, Acquire, Fetch, IdleRenew, Renew, ClaimExecution, Act, CompleteExecution,
      FinalRenew, Progress, Release, Raise, Crash, ReadRule, Activate, Update, Tick

\* The engine's own rows are no trigger's.
LEMMA AuditRows ==
  ASSUME TypeOK, log' = WithAudit(log), NEW e \in 1..Len(log'), log'[e].shown, log'[e].kind \in Triggers
  PROVE  Shown(e)
<1> DEFINE row == [kind |-> Engine, shown |-> TRUE, overtaken |-> FALSE, armed |-> FALSE]
<1>1. row \in LogRows /\ log' \in {log, Append(log, row)} /\ row.kind \notin Triggers /\ Len(log) \in Nat
  BY AutomationAssumption, LenProperties DEF LogRows, WithAudit, TypeOK
<1>2. CASE log' = log
  BY <1>2 DEF Shown
<1>3. CASE log' = Append(log, row)
  <2> HIDE DEF row
  <2>1. /\ Len(log') = Len(log) + 1 /\ log'[Len(log) + 1] = row
        /\ \A f \in 1..Len(log) : log'[f] = log[f]
    BY <1>1, <1>3, AppendProperties DEF TypeOK
  <2>2. e # Len(log) + 1
    BY <1>1, <2>1
  <2>3. e \in 1..Len(log)
    BY <1>1, <2>1, <2>2
  <2>4. QED
    BY <2>1, <2>3 DEF Shown
<1>4. QED
  BY <1>1, <1>2, <1>3

\* A row that becomes visible while the rule is active is armed.
LEMMA LogArms ==
  ASSUME TypeOK, [Next]_vars, rule.active, NEW e \in 1..Len(log'), log'[e].shown, log'[e].kind \in Triggers,
         ~Shown(e)
  PROVE  log'[e].armed
<1>1. Len(log) \in Nat /\ log \in [1..Len(log) -> LogRows]
  BY LenProperties DEF TypeOK
<1>2. CASE LogEvent
  <2>1. PICK k \in Triggers, shown \in BOOLEAN :
          log' = Append(log, [kind |-> k, shown |-> shown, overtaken |-> FALSE, armed |-> rule.active])
    BY <1>2, AutomationAssumption DEF LogEvent
  <2> DEFINE row == [kind |-> k, shown |-> shown, overtaken |-> FALSE, armed |-> rule.active]
  <2>2. row \in LogRows /\ row.armed
    BY DEF TypeOK, RuleRows, LogRows
  <2> HIDE DEF row
  <2>3. log' = Append(log, row)
    BY <2>1 DEF row
  <2>4. /\ Len(log') = Len(log) + 1 /\ log'[Len(log) + 1] = row
        /\ \A f \in 1..Len(log) : log'[f] = log[f]
    BY <1>1, <2>2, <2>3, AppendProperties DEF TypeOK
  <2>5. e \in 1..Len(log) => Shown(e)
    BY <2>4 DEF Shown
  <2>6. e = Len(log) + 1
    BY <1>1, <2>4, <2>5
  <2>7. QED
    BY <2>2, <2>4, <2>6
<1>3. ASSUME NEW x \in Ids, CommitEvent(x)
      PROVE  log'[e].armed
  <2> DEFINE passed == \E f \in x + 1..Len(log) : log[f].shown
             armed  == log[x].armed \/ rule.active
             row == [kind |-> log[x].kind, shown |-> TRUE, overtaken |-> passed, armed |-> armed]
  <2>1. x \in 1..Len(log) /\ log' = [log EXCEPT ![x] = row]
    BY <1>3, Zenon DEF CommitEvent
  <2>2. row.armed
    OBVIOUS
  <2> HIDE DEF row
  <2>3. \A f \in 1..Len(log) : log'[f] = IF f = x THEN row ELSE log[f]
    BY <1>1, <2>1
  <2>4. e \in 1..Len(log)
    BY <1>1, <2>1, ExceptSeq, LenProperties DEF TypeOK
  <2>5. e # x => Shown(e)
    BY <2>3, <2>4 DEF Shown
  <2>6. QED
    BY <2>2, <2>3, <2>4, <2>5
<1>4. CASE log' = log
  BY <1>4 DEF Shown
<1>5. CASE log' = WithAudit(log)
  BY <1>5, AuditRows
<1>6. QED
  BY <1>2, <1>3, <1>4, <1>5
  DEF Next, RunStep, vars, Begin, Acquire, Fetch, IdleRenew, Renew, ClaimExecution, Act, CompleteExecution,
      FinalRenew, Progress, Release, Raise, Crash, ReadRule, Activate, Update, Tick

\* While the rule is active, the rows behind its base are armed.
ArmedLog ==
  rule.active => \A e \in 1..Len(log) : base < e /\ log[e].shown /\ log[e].kind \in Triggers => log[e].armed

\* An administrator who read an active rule finds it active.
SawInv == \A a \in Admins : admin[a].pc = "apply" /\ admin[a].saw => rule.active

\* A run begun since the last activation has only rows behind the base before it.
FreshRun(s) ==
  s.fresh =>
    /\ base <= s.cursor
    /\ \A e \in s.todo : base < e
    /\ ~s.manual /\ s.pc \in {"claim", "act"} => Shown(s.next) /\ log[s.next].armed

FreshInv == ArmedLog /\ SawInv /\ base <= rule.cursor /\ \A r \in Runs : FreshRun(run[r])

OneAdministrator == \A a, b \in Admins : a = b

LEMMA FreshInit == Init => FreshInv
BY LenProperties DEF Init, FreshInv, ArmedLog, SawInv, FreshRun, NoRun, NoRequest

LEMMA SawStep == ASSUME OneAdministrator, TypeOK, SawInv, [Next]_vars PROVE SawInv'
<1> SUFFICES ASSUME NEW b \in Admins, admin'[b].pc = "apply", admin'[b].saw PROVE rule'.active
  BY DEF SawInv
<1>1. ASSUME NEW a \in Admins, Activate(a) \/ Update(a)
      PROVE  FALSE
  <2>1. admin' = [admin EXCEPT ![a] = NoRequest] /\ a = b
    BY <1>1 DEF Activate, Update, OneAdministrator
  <2>2. QED
    BY <2>1 DEF NoRequest, TypeOK
<1>2. ASSUME NEW a \in Admins, ReadRule(a)
      PROVE  rule'.active
  <2>1. PICK want \in {"on", "off", "keep"}, t \in Edits \cup {None} :
          admin' = [admin EXCEPT ![a] = [pc |-> "apply", saw |-> rule.active, want |-> want, trigger |-> t]]
    BY <1>2 DEF ReadRule
  <2>2. a = b /\ rule' = rule
    BY <1>2 DEF ReadRule, OneAdministrator
  <2>3. admin'[b].saw = rule.active
    BY <2>1, <2>2 DEF TypeOK
  <2>4. QED
    BY <2>2, <2>3
<1>3. CASE admin' = admin /\ rule'.active = rule.active
  BY <1>3 DEF SawInv
<1>4. ASSUME NEW r \in Runs, (\E manual \in BOOLEAN : Begin(r, manual)) \/ RunStep(r) \/ Raise(r) \/ Crash(r)
      PROVE  rule'.active
  BY <1>3, <1>4, RunMoves DEF Moved
<1>5. CASE Tick
  BY <1>3, <1>5 DEF Tick, TypeOK, RuleRows
<1>6. QED
  BY <1>1, <1>2, <1>3, <1>4, <1>5 DEF Next, vars, LogEvent, CommitEvent

\* A rule becomes active only behind every row seen so far.
LEMMA Reactivation ==
  ASSUME TypeOK, SawInv, [Next]_vars, rule'.active, ~rule.active
  PROVE  log' = WithAudit(log) /\ base' \in Nat /\ \A c : Shown(c) => c <= base'
<1>1. ASSUME NEW r \in Runs, (\E manual \in BOOLEAN : Begin(r, manual)) \/ RunStep(r) \/ Raise(r) \/ Crash(r)
      PROVE  FALSE
  BY <1>1, RunMoves DEF Moved
<1>2. ASSUME NEW a \in Admins, Activate(a)
      PROVE  log' = WithAudit(log) /\ base' \in Nat /\ \A c : Shown(c) => c <= base'
  <2>1. PICK w \in 0..Len(log) : IsWatermark(w) /\ base' = w /\ log' = WithAudit(log)
    BY <1>2 DEF Activate
  <2>2. \A c : Shown(c) => c <= w
    BY <2>1 DEF IsWatermark, Shown
  <2>3. QED
    BY <2>1, <2>2
<1>3. ASSUME NEW a \in Admins, Update(a)
      PROVE  FALSE
  <2>1. admin[a].want = "on" => rule.active
    BY <1>3 DEF Update, SawInv
  <2>2. rule' = Retarget(a, [rule EXCEPT !.active = CASE admin[a].want = "on" -> TRUE
                                                      [] admin[a].want = "off" -> FALSE
                                                      [] OTHER -> @])
    BY <1>3 DEF Update
  <2>3. admin[a].want # "on"
    BY <2>1
  <2>4. QED
    BY <2>2, <2>3 DEF Retarget, TypeOK, RuleRows
<1>4. ~Tick
  BY DEF Tick, TypeOK, RuleRows
<1>5. rule' # rule
  OBVIOUS
<1>6. QED
  BY <1>1, <1>2, <1>3, <1>4, <1>5 DEF Next, vars, ReadRule, LogEvent, CommitEvent

LEMMA ActivationOnly ==
  ASSUME TypeOK, [Next]_vars, base' # base
  PROVE  ~rule.active /\ \A r \in Runs : ~run'[r].fresh
<1>1. ASSUME NEW r \in Runs, (\E manual \in BOOLEAN : Begin(r, manual)) \/ RunStep(r) \/ Raise(r) \/ Crash(r)
      PROVE  FALSE
  BY <1>1, RunMoves DEF Moved
<1>2. ASSUME NEW a \in Admins, Activate(a)
      PROVE  ~rule.active /\ \A r \in Runs : ~run'[r].fresh
  <2>1. ~rule.active /\ run' = [r \in Runs |-> [run[r] EXCEPT !.fresh = FALSE]]
    BY <1>2 DEF Activate
  <2>2. QED
    BY <2>1 DEF TypeOK, RunStates
<1>3. QED
  BY <1>1, <1>2 DEF Next, vars, ReadRule, Update, LogEvent, CommitEvent, Tick

LEMMA ArmedStep == ASSUME TypeOK, SawInv, ArmedLog, [Next]_vars PROVE ArmedLog'
<1> SUFFICES ASSUME rule'.active, NEW e \in 1..Len(log'), base' < e, log'[e].shown, log'[e].kind \in Triggers
             PROVE  log'[e].armed
  BY DEF ArmedLog
<1>1. Len(log') \in Nat
  BY LogType, LenProperties
<1>2. CASE rule.active
  <2>1. base' = base
    BY <1>2, ActivationOnly
  <2>2. CASE Shown(e)
    BY <1>2, <2>1, <2>2, ShownStays DEF ArmedLog, Shown
  <2>3. CASE ~Shown(e)
    BY <1>2, <2>3, LogArms
  <2>4. QED
    BY <2>2, <2>3
<1>3. CASE ~rule.active
  <2>1. log' = WithAudit(log) /\ base' \in Nat /\ \A c : Shown(c) => c <= base'
    BY <1>3, Reactivation
  <2>2. Shown(e)
    BY <2>1, AuditRows
  <2>3. e <= base'
    BY <2>1, <2>2
  <2>4. QED
    BY <1>1, <2>1, <2>3
<1>4. QED
  BY <1>2, <1>3

LEMMA FreshStep == ASSUME TypeOK, CursorInv, FreshInv, [Next]_vars, NEW s \in Runs PROVE FreshRun(run[s])'
<1>1. run[s] \in RunStates /\ FreshRun(run[s])
  BY DEF TypeOK, FreshInv
<1>2. \A e : Shown(e) => Shown(e)' /\ log'[e] = log[e]
  BY SeenStays, ShownStays
<1>3. ASSUME base' = base, run'[s].fresh => run[s].fresh, run'[s].cursor = run[s].cursor, run'[s].todo = run[s].todo,
             run'[s].manual = run[s].manual, run'[s].pc = run[s].pc, run'[s].next = run[s].next
      PROVE  FreshRun(run[s])'
  BY <1>1, <1>2, <1>3 DEF FreshRun
<1>4. ASSUME NEW r \in Runs, (\E manual \in BOOLEAN : Begin(r, manual)) \/ RunStep(r) \/ Raise(r) \/ Crash(r)
      PROVE  FreshRun(run[s])'
  <2>1. PICK q : Moved(r, q)
    BY <1>4, RunMoves
  <2>2. run'[s] = (IF s = r THEN q ELSE run[s]) /\ base' = base
    BY <2>1 DEF Moved, TypeOK
  <2>3. CASE s # r
    BY <1>3, <2>2, <2>3
  <2>4. CASE s = r
    <3>1. q \in RunStates /\ base \in Nat /\ run[s].cursor \in Nat /\ q.cursor \in Nat /\ rule.cursor \in Nat
      BY <1>1, <2>1 DEF Moved, TypeOK, RunStates, RuleRows
    <3>2. CASE Rests(q)
      BY <2>2, <2>4, <3>2 DEF Rests, FreshRun
    <3>3. CASE Starts(q)
      BY <2>2, <2>4, <3>3 DEF Starts, FreshRun, FreshInv
    <3>4. CASE Proceeds(r, q)
      <4>1. \A e \in LogsAfter(run[s].cursor) : e > run[s].cursor /\ e \in Int
        BY DEF LogsAfter
      <4>2. run[s].fresh => \A e \in q.todo : base < e
        BY <1>1, <2>4, <3>1, <3>4, <4>1 DEF Proceeds, FreshRun
      <4>3. run[s].fresh => base <= q.cursor
        BY <1>1, <2>4, <3>1, <3>4 DEF Proceeds, FreshRun
      <4>4. QED
        BY <2>2, <2>4, <3>4, <4>2, <4>3 DEF Proceeds, Carries, FreshRun
    <3>5. CASE Passes(r, q)
      <4>1. ASSUME run[s].fresh
            PROVE  base <= q.cursor /\ \A e \in q.todo : base < e
        BY <1>1, <2>4, <3>1, <3>5, <4>1 DEF Passes, FreshRun
      <4>2. ASSUME run[s].fresh, ~run[s].manual
            PROVE  Shown(q.next) /\ log[q.next].armed
        <5>1. Shown(q.next) /\ base < q.next
          BY <1>1, <2>4, <3>5, <4>2 DEF Passes, FreshRun, CursorInv
        <5>2. rule.active /\ log[q.next].kind \in Triggers
          BY <2>4, <3>5, <4>2 DEF Passes
        <5>3. QED
          BY <5>1, <5>2 DEF FreshInv, ArmedLog, Shown
      <4>3. QED
        BY <1>2, <2>2, <2>4, <3>5, <4>1, <4>2 DEF Passes, Carries, FreshRun
    <3>6. CASE Claims(r, q)
      BY <1>1, <1>2, <2>2, <2>4, <3>6 DEF Claims, Carries, FreshRun
    <3>7. QED
      BY <2>1, <3>2, <3>3, <3>4, <3>5, <3>6 DEF Moved, Moves
  <2>5. QED
    BY <2>3, <2>4
<1>5. ASSUME NEW a \in Admins, Activate(a)
      PROVE  FreshRun(run[s])'
  <2>1. CASE base' # base
    <3>1. ~run'[s].fresh
      BY <2>1, ActivationOnly
    <3>2. QED
      BY <3>1 DEF FreshRun
  <2>2. CASE base' = base
    <3>1. run' \in {run, [r \in Runs |-> [run[r] EXCEPT !.fresh = FALSE]]}
      BY <1>5 DEF Activate
    <3>2. /\ run'[s].fresh => run[s].fresh
          /\ run'[s].cursor = run[s].cursor /\ run'[s].todo = run[s].todo
          /\ run'[s].manual = run[s].manual /\ run'[s].pc = run[s].pc /\ run'[s].next = run[s].next
      BY <1>1, <3>1 DEF RunStates
    <3>3. QED
      BY <1>3, <2>2, <3>2
  <2>3. QED
    BY <2>1, <2>2
<1>6. ASSUME NEW a \in Admins, Update(a)
      PROVE  FreshRun(run[s])'
  <2>1. run' \in {run, [r \in Runs |-> [run[r] EXCEPT !.late = 0]]} /\ base' = base
    BY <1>6 DEF Update
  <2>2. /\ run'[s].fresh => run[s].fresh
        /\ run'[s].cursor = run[s].cursor /\ run'[s].todo = run[s].todo
        /\ run'[s].manual = run[s].manual /\ run'[s].pc = run[s].pc /\ run'[s].next = run[s].next
    BY <1>1, <2>1 DEF RunStates
  <2>3. QED
    BY <1>3, <2>1, <2>2
<1>7. CASE Tick
  <2>1. /\ run'[s].fresh => run[s].fresh
        /\ run'[s].cursor = run[s].cursor /\ run'[s].todo = run[s].todo
        /\ run'[s].manual = run[s].manual /\ run'[s].pc = run[s].pc /\ run'[s].next = run[s].next
    BY <1>1, <1>7 DEF Tick, RunStates
  <2>2. QED
    BY <1>3, <1>7, <2>1 DEF Tick
<1>8. CASE UNCHANGED <<run, base>>
  BY <1>3, <1>8
<1>9. QED
  BY <1>4, <1>5, <1>6, <1>7, <1>8 DEF Next, vars, ReadRule, LogEvent, CommitEvent

\* With one administrator at a time, an automatic run that began after the last
\* activation handles no event logged while the rule was disabled: the activation
\* put its base behind them.
THEOREM FreshRunsHandleArmed ==
  ASSUME OneAdministrator
  PROVE  Spec => []FreshRunsNeverReplay
<1> DEFINE Inv == TypeOK /\ CursorInv /\ FreshInv
<1>1. Init => Inv
  BY InitType, CursorInit, FreshInit
<1>2. Inv /\ [Next]_vars => Inv'
  <2> SUFFICES ASSUME TypeOK, CursorInv, FreshInv, [Next]_vars PROVE TypeOK' /\ CursorInv' /\ FreshInv'
    OBVIOUS
  <2>1. TypeOK' /\ CursorInv' /\ rule'.cursor >= rule.cursor
    BY StepType, CursorStep
  <2>2. base \in Nat /\ rule.cursor \in Nat /\ rule'.cursor \in Nat
    BY <2>1 DEF TypeOK, RuleRows
  <2>3. base' <= rule'.cursor
    BY <2>1, <2>2, BaseMoves DEF FreshInv
  <2>4. QED
    BY <2>1, <2>3, ArmedStep, SawStep, FreshStep DEF FreshInv
<1>3. Inv => FreshRunsNeverReplay
  BY DEF FreshInv, FreshRun, FreshRunsNeverReplay
<1>4. QED
  <2> HIDE DEF Inv
  <2>1. QED
    BY <1>1, <1>2, <1>3, PTL DEF Spec

=============================================================================
