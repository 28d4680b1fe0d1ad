---------------------------- MODULE WorkItemsProofs ----------------------------
(***************************************************************************)
(* What holds of WorkItems for any items, users, payloads, policies and     *)
(* bounds: its types and its three safety properties.                       *)
(***************************************************************************)
EXTENDS WorkItems, TLAPS

-----------------------------------------------------------------------------
(* Rows, and records of columns merged over them.                            *)

Rows ==
  [status : Statuses, stage : Stages, deadline : Times, warning : Times,
   resolved : BOOLEAN, urgent : BOOLEAN]

RowColumns == {"status", "stage", "deadline", "warning", "resolved", "urgent"}

\* The columns of a row that are computed together.
Agrees(row) ==
  /\ row.resolved <=> row.status = "closed"
  /\ row.stage = "resolved" => row.status = "closed"
  /\ (row.warning # NoTime) => (row.deadline # NoTime /\ row.warning <= row.deadline)

\* Merged over any row whose columns agree, the record gives such a row again.
Keeps(fields) == \A row \in Rows : Agrees(row) => Over(fields, row) \in Rows /\ Agrees(Over(fields, row))

\* A row's columns after an update that names some of them.
LEMMA OverLemma ==
  ASSUME NEW row \in Rows, NEW f
  PROVE  /\ Over(f, row) = [c \in RowColumns |-> IF c \in DOMAIN f THEN f[c] ELSE row[c]]
         /\ Over(f, row).status   = IF "status" \in DOMAIN f THEN f.status ELSE row.status
         /\ Over(f, row).stage    = IF "stage" \in DOMAIN f THEN f.stage ELSE row.stage
         /\ Over(f, row).deadline = IF "deadline" \in DOMAIN f THEN f.deadline ELSE row.deadline
         /\ Over(f, row).warning  = IF "warning" \in DOMAIN f THEN f.warning ELSE row.warning
         /\ Over(f, row).resolved = IF "resolved" \in DOMAIN f THEN f.resolved ELSE row.resolved
         /\ Over(f, row).urgent   = IF "urgent" \in DOMAIN f THEN f.urgent ELSE row.urgent
BY DEF Over, Rows, RowColumns

LEMMA RowLemma ==
  ASSUME NEW f, f = [c \in RowColumns |-> f[c]],
         f.status \in Statuses, f.stage \in Stages, f.deadline \in Times, f.warning \in Times,
         f.resolved \in BOOLEAN, f.urgent \in BOOLEAN
  PROVE  f \in Rows
BY DEF RowColumns, Rows

\* The shapes of the records that requests and the sweep write.
Shapes ==
  {RowColumns, {"urgent"}, {"deadline", "warning", "stage", "urgent"}, {"stage", "urgent"},
   {"status", "stage", "resolved"}}

\* A record of one of these shapes keeps the columns together when its own columns do.
LEMMA ShapeLemma ==
  ASSUME NEW f, DOMAIN f \in Shapes,
         "status" \in DOMAIN f => f.status \in Statuses,
         "stage" \in DOMAIN f => f.stage \in Stages,
         "deadline" \in DOMAIN f => f.deadline \in Times,
         "warning" \in DOMAIN f => f.warning \in Times,
         "resolved" \in DOMAIN f => f.resolved \in BOOLEAN,
         "urgent" \in DOMAIN f => f.urgent \in BOOLEAN,
         "status" \in DOMAIN f => (f.resolved <=> f.status = "closed"),
         "stage" \in DOMAIN f /\ f.stage = "resolved" => "status" \in DOMAIN f /\ f.status = "closed",
         "warning" \in DOMAIN f /\ f.warning # NoTime => f.deadline # NoTime /\ f.warning <= f.deadline
  PROVE  Keeps(f)
<1> SUFFICES ASSUME NEW row \in Rows, Agrees(row)
             PROVE  Over(f, row) \in Rows /\ Agrees(Over(f, row))
  BY DEF Keeps
<1> DEFINE new == Over(f, row)
<1>1. /\ new.status   = IF "status" \in DOMAIN f THEN f.status ELSE row.status
      /\ new.stage    = IF "stage" \in DOMAIN f THEN f.stage ELSE row.stage
      /\ new.deadline = IF "deadline" \in DOMAIN f THEN f.deadline ELSE row.deadline
      /\ new.warning  = IF "warning" \in DOMAIN f THEN f.warning ELSE row.warning
      /\ new.resolved = IF "resolved" \in DOMAIN f THEN f.resolved ELSE row.resolved
      /\ new.urgent   = IF "urgent" \in DOMAIN f THEN f.urgent ELSE row.urgent
      /\ new = [c \in RowColumns |-> new[c]]
  BY OverLemma
<1>2. /\ row.status \in Statuses /\ row.stage \in Stages /\ row.deadline \in Times
      /\ row.warning \in Times /\ row.resolved \in BOOLEAN /\ row.urgent \in BOOLEAN
  BY DEF Rows
<1> HIDE DEF new
<1>3. new \in Rows
  BY <1>1, <1>2, RowLemma
<1>4. new.resolved <=> new.status = "closed"
  BY <1>1 DEF Shapes, RowColumns, Agrees
<1>5. new.stage = "resolved" => new.status = "closed"
  BY <1>1 DEF Shapes, RowColumns, Agrees
<1>6. (new.warning # NoTime) => (new.deadline # NoTime /\ new.warning <= new.deadline)
  BY <1>1 DEF Shapes, RowColumns, Agrees
<1>7. QED
  BY <1>3, <1>4, <1>5, <1>6 DEF Agrees, new

-----------------------------------------------------------------------------
(* What a request computes from the row it has read.                         *)

LEMMA StageLemma ==
  ASSUME NEW status \in Statuses, NEW warning, NEW deadline, NEW stage \in Stages
  PROVE  /\ Stage(status, warning, deadline, stage) \in Stages
         /\ Stage(status, warning, deadline, stage) = "resolved" <=> status = "closed"
         /\ Stage(status, warning, deadline, stage) = "escalated" => stage = "escalated"
BY DEF Stage, Statuses, Stages

LEMMA WarningLemma ==
  ASSUME NEW d \in Times, NEW t \in Times, Fits(d, t)
  PROVE  /\ WarningAt(d, t) \in Times
         /\ (WarningAt(d, t) # NoTime) => (d # NoTime /\ WarningAt(d, t) <= d)
<1>1. CASE d = NoTime
  BY <1>1 DEF WarningAt, Times
<1>2. CASE d # NoTime /\ t # NoTime
  BY <1>2 DEF WarningAt, Fits, Times
<1>3. CASE d # NoTime /\ t = NoTime
  <2>1. d \in Int /\ Lead \in Nat
    BY <1>3, WorkItemsAssumption DEF Times
  <2>2. WarningAt(d, t) = d - Lead
    BY <1>3 DEF WarningAt
  <2>3. QED
    BY <1>3, <2>1, <2>2 DEF Times
<1>4. QED
  BY <1>1, <1>2, <1>3

LEMMA LevelsLemma ==
  ASSUME NEW least \in BOOLEAN, NEW level \in Levels(least)
  PROVE  level \in BOOLEAN /\ (least => level)
BY WorkItemsAssumption DEF Levels

LEMMA DeadlinesLemma ==
  ASSUME NEW given \in Times, now \in Nat, NEW d \in DeadlinesOf(given)
  PROVE  d \in Times
<1>1. Target \in Nat /\ DueDates \subseteq Nat
  BY WorkItemsAssumption
<1>2. QED
  BY <1>1 DEF DeadlinesOf, Times

\* Closed rows are resolved unless escalated by hand, escalated ones urgent unless lowered.
Kept(row, hand, low) ==
  /\ row.status = "closed" /\ ~hand => row.stage = "resolved"
  /\ row.stage = "escalated" /\ ~low => row.urgent

\* A row computed as a whole.
LEMMA WholeLemma ==
  ASSUME NEW row \in Rows, Agrees(row)
  PROVE  /\ Keeps(row) /\ DOMAIN row = RowColumns
         /\ \A old \in Rows : Over(row, old) = row
<1>1. \A old \in Rows : Over(row, old) = row
  BY DEF Over, Rows
<1>2. QED
  BY <1>1 DEF Keeps, Rows, RowColumns

\* A row computed as if it were new.
LEMMA FreshLemma ==
  ASSUME now \in Nat, NEW status \in Statuses, NEW given \in Times, NEW explicit \in Times,
         NEW least \in BOOLEAN, NEW row \in FreshRows(status, given, explicit, least)
  PROVE  row \in Rows /\ Agrees(row) /\ \A hand, low \in BOOLEAN : Kept(row, hand, low)
<1>1. PICK d \in {t \in DeadlinesOf(given) : Fits(t, explicit)}, level \in Levels(least) :
        row = Columns(status, Stage(status, WarningAt(d, explicit), d, "on_track"),
                      d, WarningAt(d, explicit), status = "closed", level)
  BY DEF FreshRows
<1> DEFINE warning == WarningAt(d, explicit)
           stage == Stage(status, warning, d, "on_track")
<1>2. d \in Times /\ level \in BOOLEAN
  BY DeadlinesLemma, LevelsLemma
<1>3. warning \in Times /\ ((warning # NoTime) => (d # NoTime /\ warning <= d))
  BY <1>1, <1>2, WarningLemma
<1>4. stage \in Stages /\ (stage = "resolved" <=> status = "closed") /\ stage # "escalated"
  <2>1. "on_track" \in Stages
    BY DEF Stages
  <2>2. QED
    BY <2>1, StageLemma
<1>5. row = Columns(status, stage, d, warning, status = "closed", level)
  BY <1>1
<1> HIDE DEF warning, stage
<1>6. /\ row \in Rows
      /\ row.status = status /\ row.stage = stage /\ row.urgent = level
      /\ row.deadline = d /\ row.warning = warning /\ (row.resolved <=> status = "closed")
  BY <1>2, <1>3, <1>4, <1>5 DEF Columns, Rows
<1>7. Agrees(row)
  BY <1>3, <1>4, <1>6 DEF Agrees
<1>8. QED
  BY <1>4, <1>6, <1>7 DEF Kept

LEMMA CreatedLemma ==
  ASSUME now \in Nat, NEW form \in CreateForms, NEW row \in Created(form)
  PROVE  row \in Rows /\ Agrees(row) /\ \A hand, low \in BOOLEAN : Kept(row, hand, low)
<1>1. /\ form.status \in Statuses /\ form.deadline \in Times /\ form.warning \in Times
      /\ form.urgent \in BOOLEAN
  BY FormsAssumption
<1>2. QED
  BY <1>1, FreshLemma DEF Created

\* What an update computes: a whole row, or nothing.
LEMMA UpdatedLemma ==
  ASSUME NEW row \in Rows, Agrees(row), NEW form \in PatchForms, NEW fields \in Updated(row, form)
  PROVE  /\ Keeps(fields) /\ Over(fields, row) = fields
         /\ \A hand, low \in BOOLEAN :
              Kept(row, hand, low) /\ (form.urgent = FALSE => low) => Kept(fields, hand, low)
<1> DEFINE merged == Merged(row, form)
           explicit == WarningInput(form, row)
           warning == WarningAt(merged.deadline, explicit)
           stage == Stage(merged.status, warning, merged.deadline, row.stage)
           outcome == Outcome(row, merged, warning)
<1>1. /\ row.status \in Statuses /\ row.stage \in Stages /\ row.deadline \in Times
      /\ row.warning \in Times /\ row.resolved \in BOOLEAN /\ row.urgent \in BOOLEAN
  BY DEF Rows
<1>2. /\ form.status \in Statuses \cup {Keep} /\ form.deadline \in Times \cup {Keep}
      /\ form.warning \in Times \cup {Keep} /\ form.urgent \in BOOLEAN \cup {Keep}
  BY FormsAssumption
<1>3. merged.status \in Statuses /\ merged.deadline \in Times
  BY <1>1, <1>2 DEF Merged, Given, Rows
<1>4. explicit \in Times
  BY <1>1, <1>2 DEF WarningInput, Times
<1>5. PICK level \in Levels(Given(form.urgent, row.urgent)) :
        /\ fields = Columns(merged.status, outcome.stage, merged.deadline, warning, outcome.resolved, level)
        /\ Fits(merged.deadline, explicit)
  BY DEF Updated
<1>6. warning \in Times /\ ((warning # NoTime) => (merged.deadline # NoTime /\ warning <= merged.deadline))
  BY <1>3, <1>4, <1>5, WarningLemma
<1>7. stage \in Stages /\ (stage = "resolved" <=> merged.status = "closed")
      /\ (stage = "escalated" => row.stage = "escalated")
  BY <1>1, <1>3, StageLemma
<1>8. level \in BOOLEAN /\ (form.urgent # FALSE /\ row.urgent => level)
  <2>1. Given(form.urgent, row.urgent) \in BOOLEAN
        /\ (form.urgent # FALSE /\ row.urgent => Given(form.urgent, row.urgent))
    BY <1>1, <1>2 DEF Given
  <2>2. QED
    BY <2>1, LevelsLemma
<1> HIDE DEF merged, warning, stage
<1>9. /\ outcome.stage \in Stages /\ outcome.resolved \in BOOLEAN
      /\ outcome.resolved <=> merged.status = "closed"
      /\ outcome.stage = "resolved" <=> merged.status = "closed"
      /\ outcome.stage = "escalated" => row.stage = "escalated"
  <2>0. outcome = CASE row.status # "closed" /\ merged.status = "closed" -> [stage |-> "resolved", resolved |-> TRUE]
       [] row.status = "closed" /\ merged.status # "closed" ->
            [stage |-> IF stage = "resolved" THEN "on_track" ELSE stage, resolved |-> FALSE]
       [] OTHER -> [stage |-> stage, resolved |-> row.resolved]
    BY DEF Outcome, stage
  <2>1. CASE row.status # "closed" /\ merged.status = "closed"
    <3>1. outcome = [stage |-> "resolved", resolved |-> TRUE]
      BY <2>0, <2>1
    <3> HIDE DEF outcome
    <3>2. outcome.stage = "resolved" /\ outcome.resolved = TRUE
      BY <3>1
    <3>3. QED
      BY <2>1, <3>2 DEF Stages
  <2>2. CASE row.status = "closed" /\ merged.status # "closed"
    <3>1. outcome = [stage |-> IF stage = "resolved" THEN "on_track" ELSE stage, resolved |-> FALSE]
      BY <2>0, <2>2
    <3> HIDE DEF outcome
    <3>2. outcome.stage = stage /\ outcome.resolved = FALSE
      BY <1>7, <2>2, <3>1
    <3>3. QED
      BY <1>7, <2>2, <3>2
  <2>3. CASE row.status = "closed" <=> merged.status = "closed"
    <3>1. outcome = [stage |-> stage, resolved |-> row.resolved]
      BY <2>0, <2>3
    <3>2. row.resolved <=> row.status = "closed"
      BY DEF Agrees
    <3>3. QED
      BY <1>1, <1>7, <2>3, <3>1, <3>2
  <2>4. QED
    BY <2>1, <2>2, <2>3
<1> HIDE DEF outcome
<1>10. /\ fields \in Rows
       /\ fields.status = merged.status /\ fields.stage = outcome.stage /\ fields.urgent = level
       /\ fields.deadline = merged.deadline /\ fields.warning = warning /\ fields.resolved = outcome.resolved
  BY <1>3, <1>5, <1>6, <1>8, <1>9 DEF Columns, Rows
<1>11. Agrees(fields)
  BY <1>6, <1>9, <1>10 DEF Agrees
<1>12. ASSUME NEW hand \in BOOLEAN, NEW low \in BOOLEAN, Kept(row, hand, low), form.urgent = FALSE => low
       PROVE  Kept(fields, hand, low)
  BY <1>8, <1>9, <1>10, <1>12 DEF Kept
<1>13. QED
  BY <1>10, <1>11, <1>12, WholeLemma

\* The records that name some columns.
LEMMA PartLemma ==
  ASSUME NEW row \in Rows, Agrees(row), NEW level \in BOOLEAN, NEW hand \in BOOLEAN, NEW low \in BOOLEAN,
         Kept(row, hand, low)
  PROVE  /\ LET f == [urgent |-> level]
            IN Keeps(f) /\ ((row.urgent => level) => Kept(Over(f, row), hand, low))
         /\ LET f == [stage |-> "escalated", urgent |-> TRUE]
            IN Keeps(f) /\ ((row.status = "closed" => hand) => Kept(Over(f, row), hand, low))
         /\ LET f == [stage |-> "warning", urgent |-> level]
            IN Keeps(f) /\ (row.status # "closed" => Kept(Over(f, row), hand, low))
         /\ LET f == [status |-> "closed", stage |-> "resolved", resolved |-> TRUE]
            IN Keeps(f) /\ Kept(Over(f, row), hand, low)
<1>1. ASSUME NEW f, f = [urgent |-> level]
      PROVE  Keeps(f) /\ ((row.urgent => level) => Kept(Over(f, row), hand, low))
  <2>1. DOMAIN f = {"urgent"} /\ f.urgent = level
    BY <1>1
  <2>2. Keeps(f)
    BY <2>1, ShapeLemma DEF Shapes
  <2>3. QED
    BY <2>1, <2>2, OverLemma DEF Kept
<1>2. ASSUME NEW f, NEW s \in {"escalated", "warning"}, NEW u \in BOOLEAN, f = [stage |-> s, urgent |-> u],
             row.status = "closed" => hand, s = "escalated" => u
      PROVE  Kept(Over(f, row), hand, low)
  <2>1. DOMAIN f = {"stage", "urgent"} /\ f.stage = s /\ f.urgent = u
    BY <1>2
  <2>2. QED
    BY <1>2, <2>1, OverLemma DEF Kept
<1>3. ASSUME NEW f, NEW s \in {"escalated", "warning"}, NEW u \in BOOLEAN, f = [stage |-> s, urgent |-> u]
      PROVE  Keeps(f)
  <2>1. DOMAIN f = {"stage", "urgent"} /\ f.stage = s /\ f.urgent = u
    BY <1>3
  <2>2. QED
    BY <2>1, ShapeLemma DEF Shapes, Stages
<1>4. ASSUME NEW f, f = [status |-> "closed", stage |-> "resolved", resolved |-> TRUE]
      PROVE  Keeps(f) /\ Kept(Over(f, row), hand, low)
  <2>1. DOMAIN f = {"status", "stage", "resolved"} /\ f.status = "closed" /\ f.stage = "resolved" /\ f.resolved = TRUE
    BY <1>4
  <2>2. Keeps(f)
    <3>1. f.resolved \in BOOLEAN /\ (f.resolved <=> f.status = "closed")
      BY <2>1
    <3>2. f.status \in Statuses /\ f.stage \in Stages /\ DOMAIN f \in Shapes
      BY <2>1 DEF Shapes, Stages, Statuses
    <3>3. QED
      BY <2>1, <3>1, <3>2, ShapeLemma
  <2>3. QED
    BY <2>1, <2>2, OverLemma DEF Kept
<1>5. QED
  BY <1>1, <1>2, <1>3, <1>4

LEMMA SnoozedLemma ==
  ASSUME NEW row \in Rows, Agrees(row), NEW form \in SnoozeForms, NEW fields \in Snoozed(row, form)
  PROVE  /\ Keeps(fields)
         /\ \A hand, low \in BOOLEAN : Kept(Over(fields, row), hand, low)
<1>1. row.status # "closed" /\ row.deadline \in Times /\ row.urgent \in BOOLEAN
  BY DEF Snoozed, Rows
<1>2. SnoozedTo(row, form) \in Times
  BY <1>1, FormsAssumption DEF SnoozedTo, Times
<1>3. PICK level \in Levels(row.urgent) :
        fields = [deadline |-> SnoozedTo(row, form), warning |-> WarningAt(SnoozedTo(row, form), NoTime),
                  stage |-> "on_track", urgent |-> level]
  BY <1>1 DEF Snoozed
<1>4. /\ DOMAIN fields = {"deadline", "warning", "stage", "urgent"}
      /\ fields.deadline = SnoozedTo(row, form) /\ fields.warning = WarningAt(SnoozedTo(row, form), NoTime)
      /\ fields.stage = "on_track" /\ fields.urgent = level
  BY <1>3
<1>5. level \in BOOLEAN
  BY <1>1, LevelsLemma
<1>6. /\ fields.warning \in Times
      /\ (fields.warning # NoTime) => (fields.deadline # NoTime /\ fields.warning <= fields.deadline)
  BY <1>2, <1>4, WarningLemma DEF Fits, Times
<1>7. Keeps(fields)
  <2>1. DOMAIN fields \in Shapes /\ fields.stage \in Stages /\ fields.deadline \in Times /\ fields.urgent \in BOOLEAN
    BY <1>2, <1>4, <1>5 DEF Shapes, Stages
  <2>2. QED
    BY <1>4, <1>6, <2>1, ShapeLemma
<1>8. QED
  BY <1>1, <1>4, <1>7, OverLemma DEF Kept

LEMMA ReopenedLemma ==
  ASSUME now \in Nat, NEW row \in Rows, NEW form \in ReopenForms, NEW fields \in Reopened(row, form)
  PROVE  /\ Keeps(fields) /\ Over(fields, row) = fields
         /\ \A hand, low \in BOOLEAN : Kept(fields, hand, low)
<1>1. /\ row.deadline \in Times /\ row.warning \in Times /\ row.urgent \in BOOLEAN
      /\ form.deadline \in Times \cup {Keep} /\ form.warning \in Times \cup {Keep}
  BY FormsAssumption DEF Rows
<1>2. ReopenWarning(row, form) \in Times /\ Given(form.deadline, row.deadline) \in Times
  BY <1>1 DEF ReopenWarning, Given, Times
<1>3. "open" \in Statuses
  BY DEF Statuses
<1>4. fields \in FreshRows("open", Given(form.deadline, row.deadline), ReopenWarning(row, form), row.urgent)
  BY DEF Reopened
<1>5. fields \in Rows /\ Agrees(fields) /\ \A hand, low \in BOOLEAN : Kept(fields, hand, low)
  BY <1>1, <1>2, <1>3, <1>4, FreshLemma
<1>6. QED
  BY <1>5, WholeLemma

\* What a request is asked for is one of the known payloads.
Asked(kind, form) ==
  \/ kind = "update" /\ form \in PatchForms
  \/ kind = "snooze" /\ form \in SnoozeForms
  \/ kind = "reopen" /\ form \in ReopenForms
  \/ kind \in {"assign", "escalate", "close"}

\* Whatever a request computes from a row that agrees keeps the columns of any row together, and
\* written over the row it read it keeps stage and level.
LEMMA WritesLemma ==
  ASSUME now \in Nat, NEW row \in Rows, Agrees(row), NEW kind, NEW form, Asked(kind, form),
         NEW fields \in Writes(kind, row, form)
  PROVE  /\ Keeps(fields)
         /\ \A hand, low \in BOOLEAN :
              /\ Kept(row, hand, low)
              /\ kind = "update" /\ form.urgent = FALSE => low
              /\ kind = "escalate" /\ row.status = "closed" => hand
              => Kept(Over(fields, row), hand, low)
<1>1. row.status # "none" /\ row.urgent \in BOOLEAN
  BY DEF Rows, Statuses
<1>2. CASE kind = "update"
  <2>1. fields \in Updated(row, form) /\ form \in PatchForms
    BY <1>1, <1>2 DEF Writes, Asked
  <2>2. /\ Keeps(fields) /\ Over(fields, row) = fields
        /\ \A hand, low \in BOOLEAN :
             Kept(row, hand, low) /\ (form.urgent = FALSE => low) => Kept(fields, hand, low)
    BY <2>1, UpdatedLemma
  <2>3. QED
    BY <1>2, <2>2
<1>3. CASE kind = "snooze"
  BY <1>1, <1>3, SnoozedLemma DEF Writes, Asked
<1>4. CASE kind = "reopen"
  BY <1>1, <1>4, ReopenedLemma DEF Writes, Asked
<1>5. CASE kind = "assign"
  <2>1. PICK level \in Levels(row.urgent) : fields = [urgent |-> level]
    BY <1>1, <1>5 DEF Writes, Assigned
  <2>2. level \in BOOLEAN /\ (row.urgent => level)
    BY <1>1, LevelsLemma
  <2>3. Kept(row, TRUE, TRUE)
    BY DEF Kept
  <2>4. Keeps(fields)
    BY <2>1, <2>2, <2>3, PartLemma
  <2>5. ASSUME NEW hand \in BOOLEAN, NEW low \in BOOLEAN, Kept(row, hand, low)
        PROVE  Kept(Over(fields, row), hand, low)
    BY <2>1, <2>2, <2>5, PartLemma
  <2>6. QED
    BY <1>5, <2>4, <2>5
<1>6. CASE kind = "escalate"
  <2>1. fields = [stage |-> "escalated", urgent |-> TRUE]
    BY <1>1, <1>6 DEF Writes, Escalated
  <2>2. Kept(row, TRUE, TRUE)
    BY DEF Kept
  <2>3. QED
    BY <1>6, <2>1, <2>2, PartLemma
<1>7. CASE kind = "close"
  <2>1. fields = [status |-> "closed", stage |-> "resolved", resolved |-> TRUE]
    BY <1>1, <1>7 DEF Writes, Closed
  <2>2. Kept(row, TRUE, TRUE)
    BY DEF Kept
  <2>3. QED
    BY <1>7, <2>1, <2>2, PartLemma
<1>8. QED
  BY <1>2, <1>3, <1>4, <1>5, <1>6, <1>7 DEF Asked

-----------------------------------------------------------------------------
(* Types: whatever is prepared keeps the columns of the rows together.       *)

Busy(r) == r.pc \in {"update", "history", "event"}

RequestOK(r) ==
  \/ r = Idle
  \/ /\ r = [pc |-> "next", kind |-> r.kind, form |-> r.form, rest |-> r.rest]
     /\ r.rest \subseteq Items /\ Asked(r.kind, r.form) /\ r.kind # "update"
  \/ /\ r = [pc |-> r.pc, kind |-> r.kind, form |-> r.form, rest |-> r.rest, item |-> r.item,
             fields |-> r.fields, tells |-> r.tells]
     /\ Busy(r) /\ r.item \in Items /\ r.tells \in Statuses /\ r.rest \subseteq Items
     /\ r.rest # {} => Asked(r.kind, r.form) /\ r.kind # "update"
     /\ r.pc = "update" => Keeps(r.fields)

SweepOK(s) ==
  /\ s = [agenda |-> s.agenda, pc |-> s.pc, item |-> s.item]
  /\ s.pc \in {"update", "history", "event"}
  /\ IF s.pc = "update" THEN s.item = NoTime ELSE s.item \in Items \ DOMAIN s.agenda
  /\ s.agenda = [i \in DOMAIN s.agenda |-> s.agenda[i]] /\ DOMAIN s.agenda \subseteq Items
  /\ \A i \in DOMAIN s.agenda : Keeps(s.agenda[i])

RowsInv ==
  /\ items \in [Items -> Rows \cup {NoRow}]
  /\ \A i \in Items : items[i] # NoRow => Agrees(items[i])

\* Whoever is busy with an item is busy with one that exists.
TakenInv ==
  /\ \A u \in Users : Busy(request[u]) => items[request[u].item] # NoRow
  /\ \A i \in Items : SweptNow(i) => items[i] # NoRow

SetsInv ==
  /\ now \in 0..MaxTime /\ begun \in 0..MaxRequests /\ deaths \in 0..MaxDeaths /\ auto \in BOOLEAN
  /\ told \in [Items -> Statuses \cup {"none"}]
  /\ trailed \subseteq Items /\ mixed \subseteq Items /\ lowered \subseteq Items /\ byHand \subseteq Items

TypeInv ==
  /\ RowsInv /\ SetsInv /\ TakenInv
  /\ DOMAIN request = Users /\ \A u \in Users : RequestOK(request[u])
  /\ SweepOK(sweep)

LEMMA NoRowLemma == NoRow \notin Rows /\ NoRow.status = "none"
BY DEF NoRow, Rows, Statuses

LEMMA RequestLemma ==
  ASSUME NEW r, RequestOK(r)
  PROVE  /\ r.pc \in {"idle", "next", "update", "history", "event"}
         /\ Busy(r) <=> r.pc # "idle" /\ r.pc # "next"
         /\ r.pc = "next" => r.rest \subseteq Items /\ Asked(r.kind, r.form) /\ r.kind # "update"
         /\ Busy(r) =>
              /\ r = [pc |-> r.pc, kind |-> r.kind, form |-> r.form, rest |-> r.rest, item |-> r.item,
                      fields |-> r.fields, tells |-> r.tells]
              /\ r.item \in Items /\ r.tells \in Statuses /\ r.rest \subseteq Items
              /\ r.rest # {} => Asked(r.kind, r.form) /\ r.kind # "update"
              /\ r.pc = "update" => Keeps(r.fields)
<1>1. CASE r = Idle
  BY <1>1 DEF Idle, Busy
<1>2. CASE /\ r = [pc |-> "next", kind |-> r.kind, form |-> r.form, rest |-> r.rest]
           /\ r.rest \subseteq Items /\ Asked(r.kind, r.form) /\ r.kind # "update"
  <2>1. r.pc = "next"
    BY <1>2
  <2>2. QED
    BY <1>2, <2>1 DEF Busy
<1>3. CASE /\ r = [pc |-> r.pc, kind |-> r.kind, form |-> r.form, rest |-> r.rest, item |-> r.item,
                    fields |-> r.fields, tells |-> r.tells]
           /\ Busy(r) /\ r.item \in Items /\ r.tells \in Statuses /\ r.rest \subseteq Items
           /\ r.rest # {} => Asked(r.kind, r.form) /\ r.kind # "update"
           /\ r.pc = "update" => Keeps(r.fields)
  BY <1>3 DEF Busy
<1>4. QED
  BY <1>1, <1>2, <1>3 DEF RequestOK

LEMMA AfterLemma ==
  ASSUME NEW kind, NEW form, NEW rest \in SUBSET Items,
         rest # {} => Asked(kind, form) /\ kind # "update"
  PROVE  RequestOK(After(kind, form, rest)) /\ ~Busy(After(kind, form, rest))
<1>1. CASE rest = {}
  BY <1>1 DEF After, RequestOK, Idle, Busy
<1>2. CASE rest # {}
  <2> DEFINE r == After(kind, form, rest)
  <2>1. r = [pc |-> "next", kind |-> kind, form |-> form, rest |-> rest]
    BY <1>2 DEF After
  <2> HIDE DEF r
  <2>2. r.pc = "next" /\ r.kind = kind /\ r.form = form /\ r.rest = rest
    BY <2>1
  <2>3. RequestOK(r) /\ ~Busy(r)
    BY <1>2, <2>1, <2>2 DEF RequestOK, Busy
  <2>4. QED
    BY <2>3 DEF r
<1>3. QED
  BY <1>1, <1>2

LEMMA ReportedLemma ==
  ASSUME NEW row \in Rows, NEW f
  PROVE  Reported(row, f) = Over(f, row).status
BY OverLemma DEF Reported

\* One request changes.
LEMMA GotoLemma ==
  ASSUME DOMAIN request = Users, NEW u \in Users, NEW r, Goto(u, r)
  PROVE  /\ DOMAIN request' = Users /\ request'[u] = r
         /\ \A v \in Users \ {u} : request'[v] = request[v]
BY DEF Goto

\* What stays when the items, the policy and the sweep are left alone.
LEMMA RequestStepLemma ==
  ASSUME TypeInv, NEW u \in Users, NEW r, Goto(u, r), RequestOK(r),
         Busy(r) => items[r.item] # NoRow,
         UNCHANGED <<items, sweep>>, SetsInv'
  PROVE  TypeInv'
<1>1. /\ DOMAIN request' = Users /\ request'[u] = r
      /\ \A v \in Users \ {u} : request'[v] = request[v]
  BY GotoLemma DEF TypeInv
<1>2. RowsInv'
  BY DEF TypeInv, RowsInv
<1>3. TakenInv'
  BY <1>1 DEF TypeInv, TakenInv, SweptNow
<1>4. SweepOK(sweep)'
  BY DEF TypeInv, SweepOK
<1>5. \A v \in Users : RequestOK(request'[v])
  BY <1>1 DEF TypeInv
<1>6. (\A v \in Users : RequestOK(request[v]))'
  BY <1>5 DEF RequestOK, Asked, Keeps, Busy, Agrees, Rows
<1>7. QED
  BY <1>1, <1>2, <1>3, <1>4, <1>6 DEF TypeInv

\* What an attempt leaves: nothing, or a request about to update the item it has read.
Refused(r) == ~Busy(r) /\ UNCHANGED <<mixed, lowered, byHand>>

Prepared(r, kind, i, form) ==
  /\ Busy(r) /\ r.pc = "update" /\ r.item = i /\ items[i] \in Rows /\ Agrees(items[i])
  /\ r.fields \in Writes(kind, items[i], form)
  /\ r.tells = Over(r.fields, items[i]).status
  /\ mixed' = IF InFlight(i) THEN mixed \cup {i} ELSE mixed
  /\ lowered' = IF kind = "update" /\ form.urgent = FALSE THEN lowered \cup {i} ELSE lowered
  /\ byHand' = IF kind = "escalate" /\ items[i].status = "closed" THEN byHand \cup {i} ELSE byHand

LEMMA AttemptLemma ==
  ASSUME TypeInv, NEW u \in Users, NEW i \in Items, NEW kind, NEW form, NEW rest \in SUBSET Items,
         Asked(kind, form), rest # {} => kind # "update",
         Attempt(u, kind, i, form, rest)
  PROVE  \E r : Goto(u, r) /\ RequestOK(r) /\ (Refused(r) \/ Prepared(r, kind, i, form))
<1>1. CASE Goto(u, After(kind, form, rest)) /\ UNCHANGED <<mixed, lowered, byHand>>
  BY <1>1, AfterLemma DEF Refused
<1>2. ASSUME NEW fields \in Writes(kind, items[i], form),
             Goto(u, [pc |-> "update", kind |-> kind, form |-> IF rest = {} THEN NoTime ELSE form,
                      rest |-> rest, item |-> i, fields |-> fields,
                      tells |-> Reported(items[i], fields)])
      PROVE  \E r : /\ Goto(u, r) /\ RequestOK(r) /\ Busy(r) /\ r.pc = "update" /\ r.item = i
                    /\ items[i] \in Rows /\ Agrees(items[i])
                    /\ r.fields \in Writes(kind, items[i], form)
                    /\ r.tells = Over(r.fields, items[i]).status
  <2>1. items[i] \in Rows /\ Agrees(items[i]) /\ now \in Nat
    <3>1. items[i].status # "none"
      BY DEF Writes
    <3>2. QED
      BY <3>1, NoRowLemma, WorkItemsAssumption DEF TypeInv, RowsInv, SetsInv
  <2>2. Keeps(fields)
    BY <2>1, WritesLemma
  <2>3. Reported(items[i], fields) = Over(fields, items[i]).status /\ Reported(items[i], fields) \in Statuses
    <3>1. Over(fields, items[i]) \in Rows
      BY <2>1, <2>2 DEF Keeps
    <3>2. QED
      BY <2>1, <3>1, ReportedLemma DEF Rows
  <2>4. PICK r : r = [pc |-> "update", kind |-> kind, form |-> IF rest = {} THEN NoTime ELSE form,
                      rest |-> rest, item |-> i, fields |-> fields, tells |-> Reported(items[i], fields)]
    OBVIOUS
  <2>5. /\ r.pc = "update" /\ r.item = i /\ r.fields = fields /\ r.tells = Reported(items[i], fields)
        /\ r.rest = rest /\ r.kind = kind /\ r.form = IF rest = {} THEN NoTime ELSE form
    BY <2>4
  <2>6. r = [pc |-> r.pc, kind |-> r.kind, form |-> r.form, rest |-> r.rest, item |-> r.item,
             fields |-> r.fields, tells |-> r.tells]
    BY <2>4, <2>5
  <2>7. Busy(r)
    BY <2>5 DEF Busy
  <2>8. RequestOK(r)
    BY <2>2, <2>3, <2>5, <2>6, <2>7 DEF RequestOK
  <2>9. QED
    BY <1>2, <2>1, <2>3, <2>4, <2>5, <2>7, <2>8
<1>3. QED
  BY <1>1, <1>2 DEF Attempt, Prepared

LEMMA AttemptTypes ==
  ASSUME TypeInv, NEW u \in Users, NEW i \in Items, NEW kind, NEW form, NEW rest \in SUBSET Items,
         Asked(kind, form), rest # {} => kind # "update",
         Attempt(u, kind, i, form, rest)
  PROVE  \E r : /\ Goto(u, r) /\ RequestOK(r)
                /\ Busy(r) => items[r.item] # NoRow
                /\ mixed' \subseteq Items /\ lowered' \subseteq Items /\ byHand' \subseteq Items
<1>1. mixed \subseteq Items /\ lowered \subseteq Items /\ byHand \subseteq Items
  BY DEF TypeInv, SetsInv
<1>2. PICK r : Goto(u, r) /\ RequestOK(r) /\ (Refused(r) \/ Prepared(r, kind, i, form))
  BY AttemptLemma
<1>3. Busy(r) => items[r.item] # NoRow
  BY <1>2, NoRowLemma DEF Refused, Prepared
<1>4. mixed' \subseteq Items /\ lowered' \subseteq Items /\ byHand' \subseteq Items
  BY <1>1, <1>2 DEF Refused, Prepared
<1>5. QED
  BY <1>2, <1>3, <1>4

\* An update by id alone.
LEMMA WriteLemma ==
  ASSUME RowsInv, NEW i \in Items, items[i] # NoRow, NEW fields, Keeps(fields), Write(i, fields)
  PROVE  /\ RowsInv' /\ items'[i] = Over(fields, items[i]) /\ items'[i] \in Rows
         /\ \A j \in Items : /\ j # i => items'[j] = items[j]
                             /\ items'[j] # NoRow <=> items[j] # NoRow
         /\ trailed' = trailed \ {i}
<1>1. items[i] \in Rows /\ Agrees(items[i])
  BY DEF RowsInv
<1>2. Over(fields, items[i]) \in Rows /\ Agrees(Over(fields, items[i]))
  BY <1>1 DEF Keeps
<1>3. items' = [items EXCEPT ![i] = Over(fields, items[i])] /\ trailed' = trailed \ {i}
  BY DEF Write
<1>4. /\ items' \in [Items -> Rows \cup {NoRow}] /\ items'[i] = Over(fields, items[i])
      /\ \A j \in Items : j # i => items'[j] = items[j]
  BY <1>2, <1>3 DEF RowsInv
<1>5. \A j \in Items : items'[j] # NoRow => Agrees(items'[j])
  BY <1>2, <1>4 DEF RowsInv
<1>6. RowsInv'
  BY <1>4, <1>5 DEF RowsInv
<1>7. QED
  BY <1>2, <1>3, <1>4, <1>6, NoRowLemma

LEMMA TypeInit == Init => TypeInv
<1> SUFFICES ASSUME Init
             PROVE  TypeInv
  OBVIOUS
<1>1. \A i \in Items : items[i] \in Rows \cup {NoRow} /\ (items[i] # NoRow => Agrees(items[i]))
  BY CreatedLemma DEF Init
<1>2. RowsInv
  BY <1>1 DEF Init, RowsInv
<1>3. SetsInv
  <2>1. told \in [Items -> Statuses \cup {"none"}]
    BY <1>1 DEF Init, Rows, NoRow
  <2>2. QED
    BY <2>1, WorkItemsAssumption DEF Init, SetsInv
<1>4. DOMAIN request = Users /\ \A u \in Users : request[u] = Idle
  BY DEF Init
<1>5. RequestOK(Idle) /\ ~Busy(Idle)
  BY DEF RequestOK, Busy, Idle
<1>6. SweepOK(sweep)
  BY DEF Init, Rest, SweepOK
<1>7. TakenInv
  BY <1>4, <1>5, WorkItemsAssumption DEF Init, TakenInv, SweptNow, Rest
<1>8. QED
  BY <1>2, <1>3, <1>4, <1>5, <1>6, <1>7 DEF TypeInv

LEMMA AsksLemma ==
  ASSUME TypeInv, NEW u \in Users, NEW i \in Items, NEW kind, NEW form, Asked(kind, form), Asks(u, kind, i, form)
  PROVE  TypeInv'
<1>1. begun < MaxRequests /\ begun' = begun + 1
  BY DEF Asks, Begin
<1>2. PICK r : /\ Goto(u, r) /\ RequestOK(r)
               /\ Busy(r) => items[r.item] # NoRow
               /\ mixed' \subseteq Items /\ lowered' \subseteq Items /\ byHand' \subseteq Items
  <2>1. Attempt(u, kind, i, form, {}) /\ {} \in SUBSET Items
    BY DEF Asks
  <2>2. QED
    BY <2>1, AttemptTypes
<1>3. SetsInv'
  BY <1>1, <1>2, WorkItemsAssumption DEF Asks, TypeInv, SetsInv
<1>4. QED
  BY <1>2, <1>3, RequestStepLemma DEF Asks

LEMMA TypeRequests ==
  ASSUME TypeInv, NEW u \in Users, Requests(u)
  PROVE  TypeInv'
<1>0. /\ DOMAIN request = Users /\ \A v \in Users : RequestOK(request[v])
      /\ RowsInv /\ SetsInv /\ TakenInv /\ SweepOK(sweep)
  BY DEF TypeInv
<1>1. ASSUME NEW i \in Items, CreateWorkItem(u, i)
      PROVE  TypeInv'
  <2>0. PICK form \in CreateForms : \E row \in Created(form) :
          /\ items[i] = NoRow /\ items' = [items EXCEPT ![i] = row]
          /\ Goto(u, [pc |-> "history", kind |-> "create", form |-> NoTime, rest |-> {}, item |-> i,
                      fields |-> <<>>, tells |-> row.status])
    BY <1>1 DEF CreateWorkItem
  <2>1. PICK row \in Created(form) :
          /\ items[i] = NoRow /\ items' = [items EXCEPT ![i] = row]
          /\ Goto(u, [pc |-> "history", kind |-> "create", form |-> NoTime, rest |-> {}, item |-> i,
                      fields |-> <<>>, tells |-> row.status])
    BY <2>0
  <2>2. row \in Rows /\ Agrees(row)
    BY <1>0, CreatedLemma, WorkItemsAssumption DEF SetsInv
  <2>3. /\ items' \in [Items -> Rows \cup {NoRow}] /\ items'[i] = row
        /\ \A j \in Items : j # i => items'[j] = items[j]
    BY <1>0, <2>1, <2>2 DEF RowsInv
  <2>4. PICK r : r = [pc |-> "history", kind |-> "create", form |-> NoTime, rest |-> {}, item |-> i,
                      fields |-> <<>>, tells |-> row.status]
    OBVIOUS
  <2>5. RequestOK(r) /\ r.item = i
    <3>1. /\ r.pc = "history" /\ r.kind = "create" /\ r.form = NoTime /\ r.rest = {} /\ r.item = i
          /\ r.fields = <<>> /\ r.tells = row.status
      BY <2>4
    <3>2. r.tells \in Statuses
      BY <2>2, <3>1 DEF Rows
    <3>3. QED
      BY <2>4, <3>1, <3>2 DEF RequestOK, Busy
  <2>6. /\ DOMAIN request' = Users /\ request'[u] = r
        /\ \A v \in Users \ {u} : request'[v] = request[v]
    BY <1>0, <2>1, <2>4, GotoLemma
  <2>7. RowsInv'
    BY <1>0, <2>2, <2>3 DEF RowsInv
  <2>8. \A v \in Users : RequestOK(request'[v])
    BY <1>0, <2>5, <2>6
  <2>9. TakenInv'
    <3>1. \A v \in Users : Busy(request'[v]) => request'[v].item \in Items
      BY <2>8, RequestLemma
    <3>2. \A j \in Items : items[j] # NoRow => items'[j] # NoRow
      BY <2>1, <2>3
    <3>3. items'[i] # NoRow
      BY <2>2, <2>3, NoRowLemma
    <3>4. sweep' = sweep
      BY <1>1 DEF CreateWorkItem
    <3>5. \A v \in Users : Busy(request'[v]) => items'[request'[v].item] # NoRow
      BY <1>0, <2>5, <2>6, <3>1, <3>2, <3>3 DEF TakenInv
    <3>6. QED
      BY <1>0, <3>2, <3>4, <3>5 DEF TakenInv, SweptNow
  <2>10. SetsInv' /\ sweep' = sweep
    BY <1>0, <1>1, WorkItemsAssumption DEF CreateWorkItem, Begin, SetsInv
  <2>11. QED
    BY <1>0, <2>6, <2>7, <2>8, <2>9, <2>10 DEF TypeInv
<1>2. ASSUME NEW i \in Items, UpdateWorkItem(u, i)
      PROVE  TypeInv'
  BY <1>2, AsksLemma DEF UpdateWorkItem, Asked
<1>3. ASSUME NEW i \in Items, \/ AssignWorkItem(u, i) \/ EscalateWorkItem(u, i) \/ CloseWorkItem(u, i)
      PROVE  TypeInv'
  BY <1>3, AsksLemma DEF AssignWorkItem, EscalateWorkItem, CloseWorkItem, Asked
<1>4. ASSUME NEW i \in Items, SnoozeWorkItem(u, i)
      PROVE  TypeInv'
  BY <1>4, AsksLemma DEF SnoozeWorkItem, Asked
<1>5. ASSUME NEW i \in Items, ReopenWorkItem(u, i)
      PROVE  TypeInv'
  BY <1>5, AsksLemma DEF ReopenWorkItem, Asked
<1>6. CASE BulkApply(u)
  <2>1. PICK ask \in BulkForms, ids \in SUBSET Items : Goto(u, After(ask[1], ask[2], ids))
    BY <1>6 DEF BulkApply
  <2>2. Asked(ask[1], ask[2]) /\ ask[1] # "update"
    BY DEF BulkForms, Asked
  <2>3. RequestOK(After(ask[1], ask[2], ids)) /\ ~Busy(After(ask[1], ask[2], ids))
    BY <2>2, AfterLemma
  <2>4. SetsInv' /\ UNCHANGED <<items, sweep>>
    BY <1>0, <1>6, WorkItemsAssumption DEF BulkApply, Begin, SetsInv
  <2>5. QED
    BY <2>1, <2>3, <2>4, RequestStepLemma
<1>7. CASE NextOfBulk(u)
  <2>1. PICK i \in request[u].rest :
          Attempt(u, request[u].kind, i, request[u].form, request[u].rest \ {i})
    BY <1>7 DEF NextOfBulk
  <2>2. request[u].rest \subseteq Items /\ Asked(request[u].kind, request[u].form) /\ request[u].kind # "update"
    BY <1>0, <1>7, RequestLemma DEF NextOfBulk
  <2>3. PICK kind, form, rest : kind = request[u].kind /\ form = request[u].form /\ rest = request[u].rest \ {i}
    OBVIOUS
  <2>4. PICK r : /\ Goto(u, r) /\ RequestOK(r)
                 /\ Busy(r) => items[r.item] # NoRow
                 /\ mixed' \subseteq Items /\ lowered' \subseteq Items /\ byHand' \subseteq Items
    <3>1. Attempt(u, kind, i, form, rest) /\ rest \in SUBSET Items /\ i \in Items /\ Asked(kind, form) /\ kind # "update"
      BY <2>1, <2>2, <2>3
    <3>2. QED
      BY <3>1, AttemptTypes
  <2>5. SetsInv' /\ UNCHANGED <<items, sweep>>
    BY <1>0, <1>7, <2>4 DEF NextOfBulk, SetsInv
  <2>6. QED
    BY <2>4, <2>5, RequestStepLemma
<1>8. CASE UpdateSlaPolicy(u)
  <2>1. SetsInv' /\ UNCHANGED <<items, sweep, request>>
    BY <1>0, <1>8, WorkItemsAssumption DEF UpdateSlaPolicy, Begin, SetsInv
  <2>2. RowsInv' /\ TakenInv' /\ SweepOK(sweep)'
    BY <1>0, <2>1 DEF RowsInv, TakenInv, SweptNow, SweepOK
  <2>3. QED
    BY <1>0, <2>1, <2>2 DEF TypeInv
<1>9. CASE WriteItem(u)
  <2>1. /\ request[u].pc = "update" /\ Write(request[u].item, request[u].fields)
        /\ Goto(u, [request[u] EXCEPT !.pc = "history", !.fields = <<>>])
        /\ UNCHANGED <<now, told, auto, sweep, begun, deaths, mixed, lowered, byHand>>
    BY <1>9 DEF WriteItem
  <2>2. Busy(request[u])
    BY <2>1 DEF Busy
  <2>3. /\ request[u] = [pc |-> request[u].pc, kind |-> request[u].kind, form |-> request[u].form,
                         rest |-> request[u].rest, item |-> request[u].item,
                         fields |-> request[u].fields, tells |-> request[u].tells]
        /\ request[u].item \in Items /\ Keeps(request[u].fields) /\ items[request[u].item] # NoRow
    BY <1>0, <2>1, <2>2, RequestLemma DEF TakenInv
  <2>4. PICK r : r = [request[u] EXCEPT !.pc = "history", !.fields = <<>>]
    OBVIOUS
  <2>5. RequestOK(r) /\ r.item = request[u].item
    BY <1>0, <2>2, <2>3, <2>4, RequestLemma DEF RequestOK, Busy
  <2>6. /\ DOMAIN request' = Users /\ request'[u] = r
        /\ \A v \in Users \ {u} : request'[v] = request[v]
    BY <1>0, <2>1, <2>4, GotoLemma
  <2>7. /\ RowsInv' /\ trailed' = trailed \ {request[u].item}
        /\ \A j \in Items : items'[j] # NoRow <=> items[j] # NoRow
    BY <1>0, <2>1, <2>3, WriteLemma
  <2>8. \A v \in Users : RequestOK(request'[v])
    BY <1>0, <2>5, <2>6
  <2>9. TakenInv'
    <3>1. \A v \in Users : Busy(request'[v]) => request'[v].item \in Items
      BY <2>8, RequestLemma
    <3>2. \A v \in Users : Busy(request'[v]) => items'[request'[v].item] # NoRow
      BY <1>0, <2>3, <2>5, <2>6, <2>7, <3>1 DEF TakenInv
    <3>3. QED
      BY <1>0, <2>1, <2>7, <3>2 DEF TakenInv, SweptNow
  <2>10. SetsInv' /\ sweep' = sweep
    BY <1>0, <2>1, <2>7 DEF SetsInv
  <2>11. QED
    BY <1>0, <2>6, <2>7, <2>8, <2>9, <2>10 DEF TypeInv
<1>10. CASE WriteHistory(u)
  <2>1. /\ request[u].pc = "history" /\ trailed' = trailed \cup {request[u].item}
        /\ Goto(u, [request[u] EXCEPT !.pc = "event"])
        /\ UNCHANGED <<now, items, told, auto, sweep, begun, deaths, mixed, lowered, byHand>>
    BY <1>10 DEF WriteHistory
  <2>2. Busy(request[u])
    BY <2>1 DEF Busy
  <2>3. PICK r : r = [request[u] EXCEPT !.pc = "event"]
    OBVIOUS
  <2>4. RequestOK(r) /\ r.item = request[u].item
    BY <1>0, <2>2, <2>3, RequestLemma DEF RequestOK, Busy
  <2>5. request[u].item \in Items /\ items[request[u].item] # NoRow
    BY <1>0, <2>2, RequestLemma DEF TakenInv
  <2>6. SetsInv'
    BY <1>0, <2>1, <2>5 DEF SetsInv
  <2>7. QED
    BY <2>1, <2>3, <2>4, <2>5, <2>6, RequestStepLemma
<1>11. CASE LogEvent(u)
  <2>1. /\ request[u].pc = "event" /\ told' = [told EXCEPT ![request[u].item] = request[u].tells]
        /\ Goto(u, After(request[u].kind, request[u].form, request[u].rest))
        /\ UNCHANGED <<now, items, trailed, auto, sweep, begun, deaths, mixed, lowered, byHand>>
    BY <1>11 DEF LogEvent
  <2>2. Busy(request[u])
    BY <2>1 DEF Busy
  <2>3. /\ request[u].item \in Items /\ request[u].tells \in Statuses /\ request[u].rest \subseteq Items
        /\ request[u].rest # {} => Asked(request[u].kind, request[u].form) /\ request[u].kind # "update"
    BY <1>0, <2>2, RequestLemma
  <2>4. PICK kind, form, rest : kind = request[u].kind /\ form = request[u].form /\ rest = request[u].rest
    OBVIOUS
  <2>5. RequestOK(After(kind, form, rest)) /\ ~Busy(After(kind, form, rest))
    BY <2>3, <2>4, AfterLemma
  <2>6. SetsInv'
    BY <1>0, <2>1, <2>3 DEF SetsInv
  <2>7. QED
    BY <2>1, <2>4, <2>5, <2>6, RequestStepLemma
<1>12. CASE RequestDies(u)
  <2>1. RequestOK(Idle) /\ ~Busy(Idle)
    BY DEF RequestOK, Busy, Idle
  <2>2. SetsInv' /\ Goto(u, Idle) /\ UNCHANGED <<items, sweep>>
    BY <1>0, <1>12, WorkItemsAssumption DEF RequestDies, SetsInv
  <2>3. QED
    BY <2>1, <2>2, RequestStepLemma
<1>13. QED
  BY <1>1, <1>2, <1>3, <1>4, <1>5, <1>6, <1>7, <1>8, <1>9, <1>10, <1>11, <1>12 DEF Requests

\* What the sweep prepares from a candidate.
LEMMA SweptLemma ==
  ASSUME NEW row \in Rows, Agrees(row), row.status = "open", NEW fields \in SweepWrites(row)
  PROVE  /\ Keeps(fields) /\ Over(fields, row).status = "open"
         /\ \A hand, low \in BOOLEAN : Kept(row, hand, low) => Kept(Over(fields, row), hand, low)
<1>1. row.urgent \in BOOLEAN /\ Kept(row, TRUE, TRUE)
  BY DEF Rows, Kept
<1>2. CASE fields = [stage |-> "escalated", urgent |-> TRUE]
  <2>1. Keeps(fields)
    BY <1>1, <1>2, PartLemma
  <2>2. ASSUME NEW hand \in BOOLEAN, NEW low \in BOOLEAN, Kept(row, hand, low)
        PROVE  Kept(Over(fields, row), hand, low)
    BY <1>2, <2>2, PartLemma
  <2>3. "status" \notin DOMAIN fields
    BY <1>2
  <2>4. QED
    BY <2>1, <2>2, <2>3, OverLemma
<1>3. ASSUME NEW level \in Levels(row.urgent), fields = [stage |-> "warning", urgent |-> level]
      PROVE  /\ Keeps(fields) /\ Over(fields, row).status = "open"
             /\ \A hand, low \in BOOLEAN : Kept(row, hand, low) => Kept(Over(fields, row), hand, low)
  <2>0. level \in BOOLEAN
    BY <1>1, LevelsLemma
  <2>1. Keeps(fields)
    BY <1>1, <1>3, <2>0, PartLemma
  <2>2. ASSUME NEW hand \in BOOLEAN, NEW low \in BOOLEAN, Kept(row, hand, low)
        PROVE  Kept(Over(fields, row), hand, low)
    BY <1>3, <2>0, <2>2, PartLemma
  <2>3. "status" \notin DOMAIN fields
    BY <1>3
  <2>4. QED
    BY <2>1, <2>2, <2>3, OverLemma
<1>4. QED
  BY <1>2, <1>3 DEF SweepWrites, Escalated

\* A listing, taken apart.
ListedAs(S) ==
  /\ \A i \in S : items[i] \in Rows /\ Agrees(items[i]) /\ items[i].status = "open"
  /\ sweep'.pc = "update" /\ sweep'.item = NoTime
  /\ sweep' = [agenda |-> sweep'.agenda, pc |-> "update", item |-> NoTime]
  /\ DOMAIN sweep'.agenda = S /\ sweep'.agenda = [i \in S |-> sweep'.agenda[i]]
  /\ \A i \in S : sweep'.agenda[i] \in SweepWrites(items[i])
  /\ mixed' = mixed \cup {i \in S : InFlight(i)}

LEMMA ListLemma ==
  ASSUME TypeInv, ListCandidates
  PROVE  \E S \in SUBSET Items : ListedAs(S)
<1>1. PICK S \in Listed : /\ \E choice \in [S -> UNION {SweepWrites(items[i]) : i \in S}] :
                                  /\ \A i \in S : choice[i] \in SweepWrites(items[i])
                                  /\ sweep' = [Rest EXCEPT !.agenda = choice]
                          /\ mixed' = mixed \cup {i \in S : InFlight(i)}
  BY DEF ListCandidates
<1>2. PICK choice \in [S -> UNION {SweepWrites(items[i]) : i \in S}] :
        /\ \A i \in S : choice[i] \in SweepWrites(items[i])
        /\ sweep' = [Rest EXCEPT !.agenda = choice]
  BY <1>1
<1>3. S \subseteq Items /\ \A i \in S : items[i].status = "open"
  BY DEF Listed, DueSlaCandidates
<1>4. \A i \in S : items[i] \in Rows /\ Agrees(items[i])
  BY <1>3, NoRowLemma DEF TypeInv, RowsInv
<1>5. /\ sweep' = [agenda |-> choice, pc |-> "update", item |-> NoTime]
      /\ DOMAIN choice = S /\ choice = [i \in S |-> choice[i]]
  BY <1>2 DEF Rest
<1>6. sweep'.agenda = choice /\ sweep'.pc = "update" /\ sweep'.item = NoTime
  BY <1>5
<1>7. ListedAs(S)
  BY <1>1, <1>2, <1>3, <1>4, <1>5, <1>6 DEF ListedAs
<1>8. QED
  BY <1>3, <1>7

\* The items and the sweep change, no request does.
LEMMA SweepStepLemma ==
  ASSUME TypeInv, RowsInv', \A j \in Items : items'[j] # NoRow <=> items[j] # NoRow,
         SweepOK(sweep'), \A i \in Items : i \in DOMAIN sweep'.agenda \/ sweep'.item = i => items[i] # NoRow,
         SetsInv', UNCHANGED request
  PROVE  TypeInv'
<1>1. \A u \in Users : RequestOK(request[u])
  BY DEF TypeInv
<1>2. \A u \in Users : Busy(request[u]) => request[u].item \in Items
  BY <1>1, RequestLemma
<1>3. TakenInv'
  BY <1>2 DEF TypeInv, TakenInv, SweptNow
<1>4. QED
  BY <1>1, <1>3 DEF TypeInv

LEMMA TypeSweep ==
  ASSUME TypeInv, Sweep \/ SweepDies \/ Tick \/ UNCHANGED vars
  PROVE  TypeInv'
<1>0. /\ DOMAIN request = Users /\ \A v \in Users : RequestOK(request[v])
      /\ RowsInv /\ SetsInv /\ TakenInv /\ SweepOK(sweep)
      /\ \A i \in Items : i \in DOMAIN sweep.agenda \/ sweep.item = i => items[i] # NoRow
  BY DEF TypeInv, TakenInv, SweptNow
<1>1. CASE ListCandidates
  <2>1. PICK S \in SUBSET Items : ListedAs(S)
    BY <1>1, ListLemma
  <2>2. \A i \in S : Keeps(sweep'.agenda[i])
    BY <2>1, SweptLemma DEF ListedAs
  <2>3. SweepOK(sweep')
    BY <2>1, <2>2 DEF ListedAs, SweepOK
  <2>4. \A i \in Items : i \in DOMAIN sweep'.agenda \/ sweep'.item = i => items[i] # NoRow
    BY <2>1, NoRowLemma, WorkItemsAssumption DEF ListedAs
  <2>5. RowsInv' /\ UNCHANGED <<items, request>>
    BY <1>0, <1>1 DEF ListCandidates, RowsInv
  <2>6. SetsInv'
    BY <1>0, <1>1, <2>1 DEF ListedAs, ListCandidates, SetsInv
  <2>7. QED
    BY <2>3, <2>4, <2>5, <2>6, SweepStepLemma
<1>2. CASE SweepItem
  <2>1. PICK i \in DOMAIN sweep.agenda :
          /\ Write(i, sweep.agenda[i])
          /\ sweep' = [agenda |-> [j \in DOMAIN sweep.agenda \ {i} |-> sweep.agenda[j]],
                       pc |-> "history", item |-> i]
    BY <1>2 DEF SweepItem
  <2>2. i \in Items /\ items[i] # NoRow /\ Keeps(sweep.agenda[i])
    BY <1>0 DEF SweepOK
  <2>3. /\ RowsInv' /\ trailed' = trailed \ {i}
        /\ \A j \in Items : items'[j] # NoRow <=> items[j] # NoRow
    BY <1>0, <2>1, <2>2, WriteLemma
  <2>4. /\ sweep'.pc = "history" /\ sweep'.item = i /\ DOMAIN sweep'.agenda = DOMAIN sweep.agenda \ {i}
        /\ \A j \in DOMAIN sweep'.agenda : sweep'.agenda[j] = sweep.agenda[j]
        /\ sweep'.agenda = [j \in DOMAIN sweep'.agenda |-> sweep'.agenda[j]]
        /\ sweep' = [agenda |-> sweep'.agenda, pc |-> sweep'.pc, item |-> sweep'.item]
    BY <2>1
  <2>5. SweepOK(sweep')
    BY <1>0, <2>2, <2>4 DEF SweepOK
  <2>6. \A j \in Items : j \in DOMAIN sweep'.agenda \/ sweep'.item = j => items[j] # NoRow
    BY <1>0, <2>2, <2>4
  <2>7. SetsInv' /\ UNCHANGED request
    BY <1>0, <1>2, <2>3 DEF SweepItem, SetsInv
  <2>8. QED
    BY <2>3, <2>5, <2>6, <2>7, SweepStepLemma
<1>3. CASE SweepHistory \/ SweepEvent
  <2>1. /\ sweep.item \in Items \ DOMAIN sweep.agenda
        /\ sweep.pc # "update"
    BY <1>0, <1>3 DEF SweepHistory, SweepEvent, SweepOK
  <2>2. /\ sweep' = [agenda |-> sweep'.agenda, pc |-> sweep'.pc, item |-> sweep'.item]
        /\ sweep'.agenda = sweep.agenda
        /\ (sweep'.pc = "event" /\ sweep'.item = sweep.item) \/ (sweep'.pc = "update" /\ sweep'.item = NoTime)
    <3>1. sweep = [agenda |-> sweep.agenda, pc |-> sweep.pc, item |-> sweep.item]
      BY <1>0 DEF SweepOK
    <3>2. sweep' = [sweep EXCEPT !.pc = "event"] \/ sweep' = [sweep EXCEPT !.pc = "update", !.item = NoTime]
      BY <1>3 DEF SweepHistory, SweepEvent
    <3>3. QED
      BY <3>1, <3>2
  <2>3. SweepOK(sweep')
    BY <1>0, <2>1, <2>2 DEF SweepOK
  <2>4. \A j \in Items : j \in DOMAIN sweep'.agenda \/ sweep'.item = j => items[j] # NoRow
    BY <1>0, <2>2, WorkItemsAssumption
  <2>5. RowsInv' /\ UNCHANGED <<items, request>>
    BY <1>0, <1>3 DEF SweepHistory, SweepEvent, RowsInv
  <2>6. SetsInv'
    BY <1>0, <1>3, <2>1 DEF SweepHistory, SweepEvent, SetsInv, Statuses
  <2>7. QED
    BY <2>3, <2>4, <2>5, <2>6, SweepStepLemma
<1>4. CASE SweepDies
  <2>1. sweep' = Rest /\ UNCHANGED <<items, request>>
    BY <1>4 DEF SweepDies
  <2>2. sweep'.item = NoTime /\ DOMAIN sweep'.agenda = {}
    BY <2>1 DEF Rest
  <2>3. SweepOK(sweep')
    BY <2>1 DEF Rest, SweepOK
  <2>4. \A j \in Items : j \in DOMAIN sweep'.agenda \/ sweep'.item = j => items[j] # NoRow
    BY <2>2, WorkItemsAssumption
  <2>5. RowsInv'
    BY <1>0, <2>1 DEF RowsInv
  <2>6. SetsInv'
    BY <1>0, <1>4, WorkItemsAssumption DEF SweepDies, SetsInv
  <2>7. QED
    BY <2>1, <2>3, <2>4, <2>5, <2>6, SweepStepLemma
<1>5. CASE Tick \/ UNCHANGED vars
  <2>1. UNCHANGED <<items, request, sweep>>
    BY <1>5 DEF Tick, vars
  <2>2. RowsInv'
    BY <1>0, <2>1 DEF RowsInv
  <2>3. SetsInv'
    BY <1>0, <1>5, WorkItemsAssumption DEF Tick, vars, SetsInv
  <2>4. SweepOK(sweep') /\ \A j \in Items : j \in DOMAIN sweep'.agenda \/ sweep'.item = j => items[j] # NoRow
    BY <1>0, <2>1
  <2>5. QED
    BY <2>1, <2>2, <2>3, <2>4, SweepStepLemma
<1>6. QED
  BY <1>1, <1>2, <1>3, <1>4, <1>5 DEF Sweep

LEMMA TypeInductive == Spec => []TypeInv
<1>1. TypeInv /\ [Next]_vars => TypeInv'
  BY TypeRequests, TypeSweep DEF Next
<1>2. QED
  BY <1>1, TypeInit, PTL DEF Spec

\* Rows, requests and the sweep keep their types: each is at one of its steps, and every row an
\* update writes (WorkItemRepository.update) has a known status and stage.
THEOREM TypeCorrect == Spec => []TypeOK
<1>1. TypeInv => TypeOK
  <2> SUFFICES ASSUME TypeInv
               PROVE  TypeOK
    OBVIOUS
  <2>1. \A u \in Users : request[u].pc \in {"idle", "next", "update", "history", "event"}
    BY RequestLemma DEF TypeInv
  <2>2. DOMAIN items = Items /\ \A i \in Items : RowOK(items[i])
    BY DEF TypeInv, RowsInv, RowOK, Rows
  <2>3. QED
    BY <2>1, <2>2 DEF TypeInv, SetsInv, SweepOK, TypeOK
<1>2. QED
  BY <1>1, TypeInductive, PTL

\* However requests and the sweep overlap and fail, the columns of every item agree: resolution
\* time and closed status, resolved stage and closed status, warning and deadline. Every record
\* that WorkItemRepository.update writes keeps them together over any row, not only the one read.
THEOREM ColumnsStayTogether == Spec => []ColumnsAgree
<1>1. TypeInv => ColumnsAgree
  BY DEF TypeInv, RowsInv, ColumnsAgree, Agrees
<1>2. QED
  BY <1>1, TypeInductive, PTL

-----------------------------------------------------------------------------
(* Items that one request or sweep worked on at a time.                      *)

Single(i) ==
  /\ \A u, v \in Users : TakenBy(u, i) /\ TakenBy(v, i) => u = v
  /\ SweptNow(i) => \A u \in Users : ~TakenBy(u, i)

\* What is about to be written keeps stage and level, and is what will be reported; what has
\* been written is.
Pending(u, i) ==
  TakenBy(u, i) =>
    IF request[u].pc = "update"
    THEN LET new == Over(request[u].fields, items[i])
         IN Kept(new, i \in byHand, i \in lowered) /\ request[u].tells = new.status
    ELSE request[u].tells = items[i].status

SweepPending(i) ==
  /\ i \in DOMAIN sweep.agenda =>
       LET new == Over(sweep.agenda[i], items[i])
       IN Kept(new, i \in byHand, i \in lowered) /\ new.status = "open"
  /\ sweep.item = i => items[i].status = "open"

Order(i) ==
  (i \notin mixed /\ items[i] # NoRow) =>
    /\ Kept(items[i], i \in byHand, i \in lowered)
    /\ Single(i) /\ SweepPending(i) /\ \A u \in Users : Pending(u, i)

OrderInv == \A i \in Items : Order(i)

\* With fewer exceptions the promise is stronger.
LEMMA KeptLemma ==
  /\ \A row : Kept(row, FALSE, FALSE) => Kept(row, TRUE, TRUE) /\ Kept(row, TRUE, FALSE) /\ Kept(row, FALSE, TRUE)
  /\ \A row, i, h, l, hand, low :
       h \subseteq hand /\ l \subseteq low /\ Kept(row, i \in h, i \in l) => Kept(row, i \in hand, i \in low)
  /\ \A row, i, h, l : Kept(row, FALSE, FALSE) => Kept(row, i \in h, i \in l)
BY DEF Kept

\* An item whose row stays, and of which nobody gets more to do.
LEMMA OrderFrame ==
  ASSUME NEW i \in Items, Order(i),
         items'[i] = items[i], mixed \subseteq mixed', lowered \subseteq lowered', byHand \subseteq byHand',
         \A u \in Users : ~TakenBy(u, i)' \/ request'[u] = request[u],
         i \in DOMAIN sweep'.agenda => i \in DOMAIN sweep.agenda /\ sweep'.agenda[i] = sweep.agenda[i],
         sweep'.item = i => sweep.item = i
  PROVE  Order(i)'
<1> SUFFICES ASSUME i \notin mixed', items'[i] # NoRow
             PROVE  /\ Kept(items'[i], i \in byHand', i \in lowered')
                    /\ Single(i)' /\ SweepPending(i)' /\ \A u \in Users : Pending(u, i)'
  BY DEF Order
<1>1. /\ Kept(items[i], i \in byHand, i \in lowered)
      /\ Single(i) /\ SweepPending(i) /\ \A u \in Users : Pending(u, i)
  BY DEF Order
<1>2. \A row : Kept(row, i \in byHand, i \in lowered) => Kept(row, i \in byHand', i \in lowered')
  BY KeptLemma
<1>3. \A u \in Users : TakenBy(u, i)' => TakenBy(u, i) /\ request'[u] = request[u]
  BY DEF TakenBy
<1>4. SweptNow(i)' => SweptNow(i)
  BY DEF SweptNow
<1>5. Single(i)'
  BY <1>1, <1>3, <1>4 DEF Single
<1>6. SweepPending(i)'
  BY <1>1, <1>2 DEF SweepPending
<1>7. ASSUME NEW u \in Users
      PROVE  Pending(u, i)'
  BY <1>1, <1>2, <1>3 DEF Pending
<1>8. QED
  BY <1>1, <1>2, <1>5, <1>6, <1>7

\* Only requests without an item change, and none takes one.
LEMMA OrderStill ==
  ASSUME OrderInv, UNCHANGED <<items, mixed, lowered, byHand>>,
         \A u \in Users : ~Busy(request'[u]) \/ request'[u] = request[u],
         \A u \in Users : RequestOK(request'[u]),
         sweep' = sweep \/ sweep' = Rest
  PROVE  OrderInv'
<1>1. \A i \in Items : i \notin DOMAIN Rest.agenda /\ Rest.item # i
  BY WorkItemsAssumption DEF Rest
<1>2. \A u \in Users, i \in Items : ~TakenBy(u, i)' \/ request'[u] = request[u]
  BY RequestLemma DEF TakenBy
<1>3. ASSUME NEW i \in Items
      PROVE  Order(i)'
  BY <1>1, <1>2, OrderFrame DEF OrderInv
<1>4. QED
  BY <1>3 DEF OrderInv

LEMMA OrderInit == Init => OrderInv
<1> SUFFICES ASSUME Init, NEW i \in Items, items[i] # NoRow
             PROVE  /\ Kept(items[i], i \in byHand, i \in lowered)
                    /\ Single(i) /\ SweepPending(i) /\ \A u \in Users : Pending(u, i)
  BY DEF OrderInv, Order
<1>1. \A u \in Users : ~TakenBy(u, i)
  BY DEF Init, TakenBy, Idle
<1>2. i \notin DOMAIN sweep.agenda /\ sweep.item # i
  BY WorkItemsAssumption DEF Init, Rest
<1>3. PICK form \in CreateForms : items[i] \in Created(form)
  BY DEF Init
<1>4. Kept(items[i], i \in byHand, i \in lowered)
  <2>1. Kept(items[i], FALSE, FALSE)
    BY <1>3, CreatedLemma DEF Init
  <2>2. QED
    BY <2>1, KeptLemma
<1>5. QED
  BY <1>1, <1>2, <1>4 DEF Single, SweepPending, SweptNow, Pending

LEMMA OrderAttempt ==
  ASSUME TypeInv, OrderInv, NEW u \in Users, NEW i \in Items, NEW kind, NEW form, NEW rest \in SUBSET Items,
         Asked(kind, form), rest # {} => kind # "update",
         ~Busy(request[u]), UNCHANGED <<items, sweep>>,
         Attempt(u, kind, i, form, rest)
  PROVE  OrderInv'
<1>1. PICK r : Goto(u, r) /\ RequestOK(r) /\ (Refused(r) \/ Prepared(r, kind, i, form))
  BY AttemptLemma
<1>2. /\ DOMAIN request' = Users /\ request'[u] = r
      /\ \A v \in Users \ {u} : request'[v] = request[v]
  BY <1>1, GotoLemma DEF TypeInv
<1>3. \A v \in Users : RequestOK(request'[v]) /\ RequestOK(request[v])
  BY <1>1, <1>2 DEF TypeInv
<1>4. CASE Refused(r)
  BY <1>2, <1>3, <1>4, OrderStill DEF Refused
<1>5. CASE Prepared(r, kind, i, form)
  <2>1. mixed \subseteq mixed' /\ lowered \subseteq lowered' /\ byHand \subseteq byHand'
    BY <1>5 DEF Prepared
  <2>2. ASSUME NEW j \in Items, j # i
        PROVE  Order(j)'
    <3>1. \A v \in Users : ~TakenBy(v, j)' \/ request'[v] = request[v]
      BY <1>2, <1>5, <2>2 DEF Prepared, TakenBy
    <3>2. Order(j)
      BY DEF OrderInv
    <3>3. QED
      BY <2>1, <3>1, <3>2, OrderFrame
  <2>3. ASSUME i \notin mixed'
        PROVE  Order(i)'
    <3>1. ~InFlight(i) /\ i \notin mixed
      BY <1>5, <2>3 DEF Prepared
    <3>2. /\ \A v \in Users : ~TakenBy(v, i)
          /\ i \notin DOMAIN sweep.agenda /\ sweep.item # i
      BY <3>1 DEF InFlight, SweptNow
    <3>3. \A v \in Users : TakenBy(v, i)' => v = u
      BY <1>2, <3>2 DEF TakenBy
    <3>4. Kept(items[i], i \in byHand, i \in lowered)
      BY <1>5, <3>1, NoRowLemma DEF OrderInv, Order, Prepared
    <3>5. PICK hand \in BOOLEAN, low \in BOOLEAN : (hand <=> i \in byHand') /\ (low <=> i \in lowered')
      <4>1. \E hand \in BOOLEAN : hand <=> i \in byHand'
        OBVIOUS
      <4>2. \E low \in BOOLEAN : low <=> i \in lowered'
        OBVIOUS
      <4>3. QED
        BY <4>1, <4>2
    <3>6. Kept(items[i], i \in byHand', i \in lowered')
      BY <2>1, <3>4, KeptLemma
    <3>7. Kept(items[i], hand, low)
      BY <3>5, <3>6 DEF Kept
    <3>8. Kept(Over(r.fields, items[i]), hand, low)
      <4>1. now \in Nat
        BY WorkItemsAssumption DEF TypeInv, SetsInv
      <4>2. (kind = "update" /\ form.urgent = FALSE => low) /\ (kind = "escalate" /\ items[i].status = "closed" => hand)
        BY <1>5, <3>5 DEF Prepared
      <4>3. PICK row : row = items[i]
        OBVIOUS
      <4>4. row \in Rows /\ Agrees(row) /\ r.fields \in Writes(kind, row, form)
        BY <1>5, <4>3 DEF Prepared
      <4>5. \A h, l \in BOOLEAN :
              /\ Kept(row, h, l)
              /\ kind = "update" /\ form.urgent = FALSE => l
              /\ kind = "escalate" /\ row.status = "closed" => h
              => Kept(Over(r.fields, row), h, l)
        BY <4>1, <4>4, WritesLemma
      <4>6. QED
        BY <3>7, <4>2, <4>3, <4>5
    <3>9. Kept(Over(r.fields, items[i]), i \in byHand', i \in lowered')
      BY <3>5, <3>8 DEF Kept
    <3>10. Pending(u, i)'
      BY <1>2, <1>5, <3>9 DEF Pending, Prepared
    <3>11. \A v \in Users : Pending(v, i)'
      BY <3>3, <3>10 DEF Pending
    <3>12. Single(i)' /\ SweepPending(i)'
      BY <3>2, <3>3 DEF Single, SweepPending, SweptNow
    <3>13. QED
      BY <3>6, <3>11, <3>12 DEF Order
  <2>4. QED
    BY <2>2, <2>3 DEF OrderInv, Order
<1>6. QED
  BY <1>1, <1>4, <1>5

\* A request that is busy, and what is known of its item.
LEMMA BusyLemma ==
  ASSUME TypeInv, NEW u \in Users, Busy(request[u])
  PROVE  /\ request[u] = [pc |-> request[u].pc, kind |-> request[u].kind, form |-> request[u].form,
                          rest |-> request[u].rest, item |-> request[u].item,
                          fields |-> request[u].fields, tells |-> request[u].tells]
         /\ request[u].item \in Items /\ items[request[u].item] # NoRow
         /\ request[u].pc = "update" => Keeps(request[u].fields)
         /\ TakenBy(u, request[u].item)
         /\ \A i \in Items : TakenBy(u, i) => i = request[u].item
BY RequestLemma DEF TypeInv, TakenInv, TakenBy, Busy

LEMMA OrderRequests ==
  ASSUME TypeInv, OrderInv, NEW u \in Users, Requests(u), TypeInv'
  PROVE  OrderInv'
<1>0. /\ DOMAIN request = Users /\ \A v \in Users : RequestOK(request[v])
      /\ \A v \in Users : RequestOK(request'[v])
      /\ RowsInv /\ TakenInv /\ SweepOK(sweep)
  BY DEF TypeInv
<1>1. ASSUME NEW i \in Items, NEW kind, NEW form, Asked(kind, form), Asks(u, kind, i, form)
      PROVE  OrderInv'
  <2>1. ~Busy(request[u]) /\ Attempt(u, kind, i, form, {}) /\ UNCHANGED <<items, sweep>>
    BY <1>1 DEF Asks, Begin, Busy
  <2>2. QED
    BY <1>1, <2>1, OrderAttempt
<1>2. CASE \E i \in Items : \/ UpdateWorkItem(u, i) \/ AssignWorkItem(u, i) \/ SnoozeWorkItem(u, i)
                            \/ EscalateWorkItem(u, i) \/ CloseWorkItem(u, i) \/ ReopenWorkItem(u, i)
  BY <1>1, <1>2 DEF UpdateWorkItem, AssignWorkItem, SnoozeWorkItem, EscalateWorkItem, CloseWorkItem,
                    ReopenWorkItem, Asked
<1>3. ASSUME NEW i \in Items, CreateWorkItem(u, i)
      PROVE  OrderInv'
  <2>1. PICK form \in CreateForms : \E row \in Created(form) :
          /\ items[i] = NoRow /\ items' = [items EXCEPT ![i] = row]
          /\ Goto(u, [pc |-> "history", kind |-> "create", form |-> NoTime, rest |-> {}, item |-> i,
                      fields |-> <<>>, tells |-> row.status])
    BY <1>3 DEF CreateWorkItem
  <2>2. PICK row \in Created(form) :
          /\ items[i] = NoRow /\ items' = [items EXCEPT ![i] = row]
          /\ Goto(u, [pc |-> "history", kind |-> "create", form |-> NoTime, rest |-> {}, item |-> i,
                      fields |-> <<>>, tells |-> row.status])
    BY <2>1
  <2>3. row \in Rows /\ Kept(row, FALSE, FALSE)
    <3>1. now \in Nat
      BY WorkItemsAssumption DEF TypeInv, SetsInv
    <3>2. row \in Rows /\ \A hand, low \in BOOLEAN : Kept(row, hand, low)
      BY <3>1, CreatedLemma
    <3>3. QED
      BY <3>2
  <2>4. /\ items'[i] = row /\ \A j \in Items : j # i => items'[j] = items[j]
    BY <1>0, <2>2 DEF RowsInv
  <2>5. PICK r : r = [pc |-> "history", kind |-> "create", form |-> NoTime, rest |-> {}, item |-> i,
                      fields |-> <<>>, tells |-> row.status]
    OBVIOUS
  <2>6. /\ request'[u] = r /\ \A v \in Users \ {u} : request'[v] = request[v]
    BY <1>0, <2>2, <2>5, GotoLemma
  <2>7. r.pc = "history" /\ r.item = i /\ r.tells = row.status
    BY <2>5
  <2>8. UNCHANGED <<sweep, mixed, lowered, byHand>>
    BY <1>3 DEF CreateWorkItem
  <2>9. ASSUME NEW j \in Items, j # i
        PROVE  Order(j)'
    <3>1. \A v \in Users : ~TakenBy(v, j)' \/ request'[v] = request[v]
      BY <2>6, <2>7, <2>9 DEF TakenBy
    <3>2. QED
      BY <2>4, <2>8, <2>9, <3>1, OrderFrame DEF OrderInv
  <2>10. Order(i)'
    <3>1. \A v \in Users : ~TakenBy(v, i)
      BY <1>0, <2>2, RequestLemma DEF TakenInv, TakenBy
    <3>2. i \notin DOMAIN sweep.agenda /\ sweep.item # i
      BY <1>0, <2>2 DEF TakenInv, SweptNow
    <3>3. \A v \in Users : TakenBy(v, i)' => v = u
      BY <2>6, <3>1 DEF TakenBy
    <3>4. Kept(items'[i], i \in byHand', i \in lowered')
      BY <2>3, <2>4, KeptLemma
    <3>5. \A v \in Users : Pending(v, i)'
      BY <2>4, <2>6, <2>7, <3>3 DEF Pending
    <3>6. Single(i)' /\ SweepPending(i)'
      BY <2>8, <3>2, <3>3 DEF Single, SweepPending, SweptNow
    <3>7. QED
      BY <3>4, <3>5, <3>6 DEF Order
  <2>11. QED
    BY <2>9, <2>10 DEF OrderInv
<1>4. CASE BulkApply(u)
  <2>1. PICK ask \in BulkForms, ids \in SUBSET Items : Goto(u, After(ask[1], ask[2], ids))
    BY <1>4 DEF BulkApply
  <2>2. Asked(ask[1], ask[2]) /\ ask[1] # "update"
    BY DEF BulkForms, Asked
  <2>3. ~Busy(After(ask[1], ask[2], ids))
    BY <2>2, AfterLemma
  <2>4. \A v \in Users : ~Busy(request'[v]) \/ request'[v] = request[v]
    BY <1>0, <2>1, <2>3, GotoLemma
  <2>5. QED
    BY <1>0, <1>4, <2>4, OrderStill DEF BulkApply
<1>5. CASE NextOfBulk(u)
  <2>1. PICK i \in request[u].rest :
          Attempt(u, request[u].kind, i, request[u].form, request[u].rest \ {i})
    BY <1>5 DEF NextOfBulk
  <2>2. request[u].rest \subseteq Items /\ Asked(request[u].kind, request[u].form) /\ request[u].kind # "update"
    BY <1>0, <1>5, RequestLemma DEF NextOfBulk
  <2>3. PICK kind, form, rest : kind = request[u].kind /\ form = request[u].form /\ rest = request[u].rest \ {i}
    OBVIOUS
  <2>4. Attempt(u, kind, i, form, rest) /\ rest \in SUBSET Items /\ i \in Items /\ Asked(kind, form) /\ kind # "update"
    BY <2>1, <2>2, <2>3
  <2>5. ~Busy(request[u]) /\ UNCHANGED <<items, sweep>>
    BY <1>5 DEF NextOfBulk, Busy
  <2>6. QED
    BY <2>4, <2>5, OrderAttempt
<1>6. CASE UpdateSlaPolicy(u)
  BY <1>0, <1>6, OrderStill DEF UpdateSlaPolicy
<1>7. CASE WriteItem(u)
  <2>0. PICK i, new : i = request[u].item /\ new = Over(request[u].fields, items[i])
    OBVIOUS
  <2>1. /\ request[u].pc = "update" /\ Write(i, request[u].fields)
        /\ Goto(u, [request[u] EXCEPT !.pc = "history", !.fields = <<>>])
        /\ UNCHANGED <<sweep, mixed, lowered, byHand>>
    BY <1>7, <2>0 DEF WriteItem
  <2>2. Busy(request[u])
    BY <2>1 DEF Busy
  <2>3. i \in Items /\ items[i] # NoRow /\ TakenBy(u, i) /\ Keeps(request[u].fields)
    BY <2>0, <2>1, <2>2, BusyLemma
  <2>4. PICK r : r = [request[u] EXCEPT !.pc = "history", !.fields = <<>>]
    OBVIOUS
  <2>5. r.pc = "history" /\ r.item = i /\ r.tells = request[u].tells
    BY <2>0, <2>2, <2>4, BusyLemma
  <2>6. /\ request'[u] = r /\ \A v \in Users \ {u} : request'[v] = request[v]
    BY <1>0, <2>1, <2>4, GotoLemma
  <2>7. items'[i] = new /\ \A j \in Items : j # i => items'[j] = items[j]
    BY <1>0, <2>0, <2>1, <2>3, WriteLemma
  <2>8. ASSUME NEW j \in Items, j # i
        PROVE  Order(j)'
    <3>1. \A v \in Users : ~TakenBy(v, j)' \/ request'[v] = request[v]
      BY <2>5, <2>6, <2>8 DEF TakenBy
    <3>2. QED
      BY <2>1, <2>7, <2>8, <3>1, OrderFrame DEF OrderInv
  <2>9. ASSUME i \notin mixed
        PROVE  Order(i)'
    <3>1. Single(i) /\ Pending(u, i)
      BY <2>3, <2>9 DEF OrderInv, Order
    <3>2. /\ \A v \in Users : TakenBy(v, i) => v = u
          /\ i \notin DOMAIN sweep.agenda /\ sweep.item # i
      BY <2>3, <3>1 DEF Single, SweptNow
    <3>3. \A v \in Users : TakenBy(v, i)' => v = u
      BY <2>6, <3>2 DEF TakenBy
    <3>4. Kept(new, i \in byHand, i \in lowered) /\ request[u].tells = new.status
      BY <2>0, <2>1, <2>3, <3>1 DEF Pending
    <3>5. Kept(items'[i], i \in byHand', i \in lowered')
      BY <2>1, <2>7, <3>4
    <3>6. \A v \in Users : Pending(v, i)'
      BY <2>5, <2>6, <2>7, <3>3, <3>4 DEF Pending
    <3>7. Single(i)' /\ SweepPending(i)'
      BY <2>1, <3>2, <3>3 DEF Single, SweepPending, SweptNow
    <3>8. QED
      BY <3>5, <3>6, <3>7 DEF Order
  <2>10. QED
    BY <2>1, <2>3, <2>8, <2>9 DEF OrderInv, Order
<1>8. CASE WriteHistory(u)
  <2>1. /\ request[u].pc = "history" /\ Goto(u, [request[u] EXCEPT !.pc = "event"])
        /\ UNCHANGED <<items, sweep, mixed, lowered, byHand>>
    BY <1>8 DEF WriteHistory
  <2>2. Busy(request[u])
    BY <2>1 DEF Busy
  <2>3. PICK r : r = [request[u] EXCEPT !.pc = "event"]
    OBVIOUS
  <2>4. r.pc = "event" /\ r.item = request[u].item /\ r.tells = request[u].tells
    BY <2>2, <2>3, BusyLemma
  <2>5. /\ request'[u] = r /\ \A v \in Users \ {u} : request'[v] = request[v]
    BY <1>0, <2>1, <2>3, GotoLemma
  <2>6. \A v \in Users, i \in Items : TakenBy(v, i)' <=> TakenBy(v, i)
    BY <2>1, <2>4, <2>5 DEF TakenBy
  <2>7. ASSUME NEW i \in Items
        PROVE  Order(i)'
    <3>1. \A v \in Users : Pending(v, i) => Pending(v, i)'
      BY <2>1, <2>4, <2>5, <2>6 DEF Pending
    <3>2. Order(i)
      BY DEF OrderInv
    <3>3. QED
      BY <2>1, <2>6, <3>1, <3>2 DEF Order, Single, SweepPending, SweptNow
  <2>8. QED
    BY <2>7 DEF OrderInv
<1>9. CASE LogEvent(u) \/ RequestDies(u)
  <2>1. ~Busy(Idle)
    BY DEF Busy, Idle
  <2>2. CASE LogEvent(u)
    <3>1. PICK kind, form, rest : /\ kind = request[u].kind /\ form = request[u].form /\ rest = request[u].rest
                                  /\ Goto(u, After(kind, form, rest)) /\ Busy(request[u])
      BY <2>2 DEF LogEvent, Busy
    <3>2. ~Busy(After(kind, form, rest))
      BY <1>0, <3>1, RequestLemma, AfterLemma
    <3>3. \A v \in Users : ~Busy(request'[v]) \/ request'[v] = request[v]
      BY <1>0, <3>1, <3>2, GotoLemma
    <3>4. QED
      BY <1>0, <2>2, <3>3, OrderStill DEF LogEvent
  <2>3. CASE RequestDies(u)
    <3>1. \A v \in Users : ~Busy(request'[v]) \/ request'[v] = request[v]
      BY <1>0, <2>1, <2>3, GotoLemma DEF RequestDies
    <3>2. QED
      BY <1>0, <2>3, <3>1, OrderStill DEF RequestDies
  <2>4. QED
    BY <1>9, <2>2, <2>3
<1>10. QED
  BY <1>2, <1>3, <1>4, <1>5, <1>6, <1>7, <1>8, <1>9 DEF Requests

LEMMA OrderSweep ==
  ASSUME TypeInv, OrderInv, Sweep \/ SweepDies \/ Tick \/ UNCHANGED vars, TypeInv'
  PROVE  OrderInv'
<1>0. /\ \A v \in Users : RequestOK(request'[v])
      /\ RowsInv /\ TakenInv /\ SweepOK(sweep)
  BY DEF TypeInv
<1>1. CASE ListCandidates
  <2>1. PICK S \in SUBSET Items : ListedAs(S)
    BY <1>1, ListLemma
  <2>2. UNCHANGED <<items, request, lowered, byHand>>
    BY <1>1 DEF ListCandidates
  <2>3. ASSUME NEW i \in Items
        PROVE  Order(i)'
    <3>0. Order(i) /\ mixed \subseteq mixed' /\ sweep'.item # i /\ DOMAIN sweep'.agenda = S
      BY <2>1, WorkItemsAssumption DEF OrderInv, ListedAs
    <3>1. CASE i \notin S
      BY <2>2, <3>0, <3>1, OrderFrame
    <3>2. CASE i \in S /\ i \notin mixed'
      <4>1. ~InFlight(i) /\ i \notin mixed
        BY <2>1, <3>2 DEF ListedAs
      <4>2. items[i] \in Rows /\ Agrees(items[i]) /\ items[i].status = "open" /\ sweep'.agenda[i] \in SweepWrites(items[i])
        BY <2>1, <3>2 DEF ListedAs
      <4>3. Kept(items[i], i \in byHand, i \in lowered)
        BY <3>0, <4>1, <4>2, NoRowLemma DEF Order
      <4>4. PICK hand \in BOOLEAN, low \in BOOLEAN : (hand <=> i \in byHand) /\ (low <=> i \in lowered)
        <5>1. \E hand \in BOOLEAN : hand <=> i \in byHand
          OBVIOUS
        <5>2. \E low \in BOOLEAN : low <=> i \in lowered
          OBVIOUS
        <5>3. QED
          BY <5>1, <5>2
      <4>5. Kept(items[i], hand, low)
        BY <4>3, <4>4 DEF Kept
      <4>6. /\ Over(sweep'.agenda[i], items[i]).status = "open"
            /\ \A h, l \in BOOLEAN : Kept(items[i], h, l) => Kept(Over(sweep'.agenda[i], items[i]), h, l)
        BY <4>2, SweptLemma
      <4>7. Kept(Over(sweep'.agenda[i], items[i]), hand, low)
        BY <4>5, <4>6
      <4>8. Kept(Over(sweep'.agenda[i], items[i]), i \in byHand, i \in lowered)
        BY <4>4, <4>7 DEF Kept
      <4>9. \A v \in Users : ~TakenBy(v, i)'
        BY <2>2, <4>1 DEF InFlight, TakenBy
      <4>10. SweepPending(i)'
        BY <2>2, <3>0, <4>6, <4>8 DEF SweepPending
      <4>11. Single(i)' /\ \A v \in Users : Pending(v, i)'
        BY <4>9 DEF Single, Pending
      <4>12. QED
        BY <2>2, <4>3, <4>10, <4>11 DEF Order
    <3>3. QED
      BY <3>1, <3>2 DEF Order
  <2>4. QED
    BY <2>3 DEF OrderInv
<1>2. CASE SweepItem
  <2>1. PICK i \in DOMAIN sweep.agenda :
          /\ Write(i, sweep.agenda[i])
          /\ sweep' = [agenda |-> [j \in DOMAIN sweep.agenda \ {i} |-> sweep.agenda[j]],
                       pc |-> "history", item |-> i]
    BY <1>2 DEF SweepItem
  <2>2. i \in Items /\ items[i] # NoRow /\ Keeps(sweep.agenda[i]) /\ SweptNow(i)
    BY <1>0 DEF SweepOK, TakenInv, SweptNow
  <2>3. /\ items'[i] = Over(sweep.agenda[i], items[i])
        /\ \A j \in Items : j # i => items'[j] = items[j]
    BY <1>0, <2>1, <2>2, WriteLemma
  <2>4. /\ sweep'.item = i /\ DOMAIN sweep'.agenda = DOMAIN sweep.agenda \ {i}
        /\ \A j \in DOMAIN sweep'.agenda : sweep'.agenda[j] = sweep.agenda[j]
    BY <2>1
  <2>5. UNCHANGED <<request, mixed, lowered, byHand>>
    BY <1>2 DEF SweepItem
  <2>6. ASSUME NEW j \in Items, j # i
        PROVE  Order(j)'
    BY <2>3, <2>4, <2>5, <2>6, OrderFrame DEF OrderInv
  <2>7. ASSUME i \notin mixed
        PROVE  Order(i)'
    <3>1. Single(i) /\ SweepPending(i)
      BY <2>2, <2>7 DEF OrderInv, Order
    <3>2. \A v \in Users : ~TakenBy(v, i)'
      BY <2>2, <2>5, <3>1 DEF Single, TakenBy
    <3>3. Kept(items'[i], i \in byHand', i \in lowered') /\ items'[i].status = "open"
      BY <2>3, <2>5, <3>1 DEF SweepPending
    <3>4. SweepPending(i)'
      BY <2>4, <3>3 DEF SweepPending
    <3>5. Single(i)' /\ \A v \in Users : Pending(v, i)'
      BY <3>2 DEF Single, Pending
    <3>6. QED
      BY <3>3, <3>4, <3>5 DEF Order
  <2>8. QED
    BY <2>5, <2>6, <2>7 DEF OrderInv, Order
<1>3. CASE SweepHistory \/ SweepEvent
  <2>1. /\ sweep'.agenda = sweep.agenda /\ (sweep'.item = sweep.item \/ sweep'.item = NoTime)
        /\ UNCHANGED <<items, request, mixed, lowered, byHand>>
    <3>1. sweep = [agenda |-> sweep.agenda, pc |-> sweep.pc, item |-> sweep.item]
      BY <1>0 DEF SweepOK
    <3>2. sweep' = [sweep EXCEPT !.pc = "event"] \/ sweep' = [sweep EXCEPT !.pc = "update", !.item = NoTime]
      BY <1>3 DEF SweepHistory, SweepEvent
    <3>3. QED
      BY <1>3, <3>1, <3>2 DEF SweepHistory, SweepEvent
  <2>2. ASSUME NEW i \in Items
        PROVE  Order(i)'
    BY <2>1, OrderFrame, WorkItemsAssumption DEF OrderInv
  <2>3. QED
    BY <2>2 DEF OrderInv
<1>4. CASE SweepDies \/ Tick \/ UNCHANGED vars
  BY <1>0, <1>4, OrderStill DEF SweepDies, Tick, vars
<1>5. QED
  BY <1>1, <1>2, <1>3, <1>4 DEF Sweep

LEMMA OrderInductive == Spec => []OrderInv
<1>1. TypeInv /\ TypeInv' /\ OrderInv /\ [Next]_vars => OrderInv'
  BY OrderRequests, OrderSweep DEF Next
<1>2. QED
  BY <1>1, OrderInit, TypeInductive, PTL DEF Spec

\* An item that one request or sweep at a time works on stays resolved while it is closed unless
\* it is escalated by hand, and urgent while it is escalated unless a payload lowers it
\* (update_work_item, snooze_work_item, reopen_work_item, run_sla_sweep).
THEOREM StagesStay == Spec => []StagesAreKept
<1>1. TypeInv /\ OrderInv => StagesAreKept
  BY DEF OrderInv, Order, Kept, StagesAreKept, Orderly
<1>2. QED
  BY <1>1, TypeInductive, OrderInductive, PTL

-----------------------------------------------------------------------------
(* Records: whoever has written an item but not recorded it is still at it,  *)
(* as long as nobody died.                                                   *)

Recording(u, i) == request[u].pc = "history" /\ request[u].item = i
Reporting(u, i) == request[u].pc \in {"history", "event"} /\ request[u].item = i

Trail(i) ==
  items[i] # NoRow =>
    /\ \/ i \in trailed
       \/ \E u \in Users : Recording(u, i)
       \/ sweep.pc = "history" /\ sweep.item = i
    /\ i \notin mixed =>
         \/ told[i] = items[i].status
         \/ \E u \in Users : Reporting(u, i)
         \/ sweep.pc \in {"history", "event"} /\ sweep.item = i

TrailInv == deaths = 0 => \A i \in Items : Trail(i)

LEMMA TrailFrame ==
  ASSUME NEW i \in Items, Trail(i), items'[i] = items[i], mixed \subseteq mixed',
         i \in trailed => i \in trailed', told'[i] = told[i],
         \A u \in Users : Reporting(u, i) => request'[u] = request[u],
         sweep.pc \in {"history", "event"} /\ sweep.item = i => sweep'.pc = sweep.pc /\ sweep'.item = i
  PROVE  Trail(i)'
<1>1. \A u \in Users : (Recording(u, i) => Recording(u, i)') /\ (Reporting(u, i) => Reporting(u, i)')
  BY DEF Recording, Reporting
<1>2. QED
  BY <1>1 DEF Trail

LEMMA TrailInit == Init => TrailInv
BY DEF Init, TrailInv, Trail

LEMMA TrailAttempt ==
  ASSUME TypeInv, TrailInv, NEW u \in Users, NEW i \in Items, NEW kind, NEW form, NEW rest \in SUBSET Items,
         Asked(kind, form), rest # {} => kind # "update",
         ~Busy(request[u]), UNCHANGED <<items, sweep, trailed, told, deaths>>,
         Attempt(u, kind, i, form, rest)
  PROVE  TrailInv'
<1>1. PICK r : Goto(u, r) /\ RequestOK(r) /\ (Refused(r) \/ Prepared(r, kind, i, form))
  BY AttemptLemma
<1>2. mixed \subseteq mixed' /\ \A v \in Users \ {u} : request'[v] = request[v]
  BY <1>1, GotoLemma DEF TypeInv, Refused, Prepared
<1>3. ASSUME NEW j \in Items, Trail(j)
      PROVE  Trail(j)'
  <2>1. \A v \in Users : Reporting(v, j) => request'[v] = request[v]
    BY <1>2 DEF Reporting, Busy
  <2>2. QED
    BY <1>2, <1>3, <2>1, TrailFrame
<1>4. QED
  BY <1>3 DEF TrailInv

LEMMA TrailRequests ==
  ASSUME TypeInv, OrderInv, TrailInv, NEW u \in Users, Requests(u)
  PROVE  TrailInv'
<1>0. /\ DOMAIN request = Users /\ \A v \in Users : RequestOK(request[v])
      /\ RowsInv /\ TakenInv /\ SweepOK(sweep) /\ told \in [Items -> Statuses \cup {"none"}]
  BY DEF TypeInv, SetsInv
<1>1. ASSUME NEW i \in Items, NEW kind, NEW form, Asked(kind, form), Asks(u, kind, i, form)
      PROVE  TrailInv'
  <2>1. ~Busy(request[u]) /\ Attempt(u, kind, i, form, {}) /\ UNCHANGED <<items, sweep, trailed, told, deaths>>
    BY <1>1 DEF Asks, Begin, Busy
  <2>2. QED
    BY <1>1, <2>1, TrailAttempt
<1>2. CASE \E i \in Items : \/ UpdateWorkItem(u, i) \/ AssignWorkItem(u, i) \/ SnoozeWorkItem(u, i)
                            \/ EscalateWorkItem(u, i) \/ CloseWorkItem(u, i) \/ ReopenWorkItem(u, i)
  BY <1>1, <1>2 DEF UpdateWorkItem, AssignWorkItem, SnoozeWorkItem, EscalateWorkItem, CloseWorkItem,
                    ReopenWorkItem, Asked
<1>3. CASE NextOfBulk(u)
  <2>1. PICK i \in request[u].rest :
          Attempt(u, request[u].kind, i, request[u].form, request[u].rest \ {i})
    BY <1>3 DEF NextOfBulk
  <2>2. request[u].rest \subseteq Items /\ Asked(request[u].kind, request[u].form) /\ request[u].kind # "update"
    BY <1>0, <1>3, RequestLemma DEF NextOfBulk
  <2>3. PICK kind, form, rest : kind = request[u].kind /\ form = request[u].form /\ rest = request[u].rest \ {i}
    OBVIOUS
  <2>4. Attempt(u, kind, i, form, rest) /\ rest \in SUBSET Items /\ i \in Items /\ Asked(kind, form) /\ kind # "update"
    BY <2>1, <2>2, <2>3
  <2>5. ~Busy(request[u]) /\ UNCHANGED <<items, sweep, trailed, told, deaths>>
    BY <1>3 DEF NextOfBulk, Busy
  <2>6. QED
    BY <2>4, <2>5, TrailAttempt
<1>4. ASSUME NEW i \in Items, CreateWorkItem(u, i)
      PROVE  TrailInv'
  <2>1. PICK row, tells :
          /\ items' = [items EXCEPT ![i] = row]
          /\ Goto(u, [pc |-> "history", kind |-> "create", form |-> NoTime, rest |-> {}, item |-> i,
                      fields |-> <<>>, tells |-> tells])
    BY <1>4 DEF CreateWorkItem
  <2>2. PICK r : r = [pc |-> "history", kind |-> "create", form |-> NoTime, rest |-> {}, item |-> i,
                      fields |-> <<>>, tells |-> tells]
    OBVIOUS
  <2>3. r.pc = "history" /\ r.item = i
    BY <2>2
  <2>4. /\ request'[u] = r /\ \A v \in Users \ {u} : request'[v] = request[v]
    BY <1>0, <2>1, <2>2, GotoLemma
  <2>5. \A j \in Items : j # i => items'[j] = items[j]
    BY <1>0, <2>1 DEF RowsInv
  <2>6. request[u].pc = "idle" /\ UNCHANGED <<sweep, mixed, trailed, told, deaths>>
    BY <1>4 DEF CreateWorkItem, Begin
  <2>7. Trail(i)'
    BY <2>3, <2>4 DEF Trail, Recording, Reporting
  <2>8. ASSUME NEW j \in Items, j # i, Trail(j)
        PROVE  Trail(j)'
    <3>1. \A v \in Users : Reporting(v, j) => request'[v] = request[v]
      BY <2>4, <2>6 DEF Reporting
    <3>2. QED
      BY <2>5, <2>6, <2>8, <3>1, TrailFrame
  <2>9. QED
    BY <2>6, <2>7, <2>8 DEF TrailInv
<1>5. CASE BulkApply(u) \/ UpdateSlaPolicy(u)
  <2>1. request[u].pc = "idle" /\ UNCHANGED <<items, sweep, mixed, trailed, told, deaths>>
    BY <1>5 DEF BulkApply, UpdateSlaPolicy, Begin
  <2>2. \A v \in Users \ {u} : request'[v] = request[v]
    BY <1>0, <1>5, GotoLemma DEF BulkApply, UpdateSlaPolicy
  <2>3. ASSUME NEW j \in Items, Trail(j)
        PROVE  Trail(j)'
    <3>1. \A v \in Users : Reporting(v, j) => request'[v] = request[v]
      BY <2>1, <2>2 DEF Reporting
    <3>2. QED
      BY <2>1, <2>3, <3>1, TrailFrame
  <2>4. QED
    BY <2>1, <2>3 DEF TrailInv
<1>6. CASE WriteItem(u)
  <2>0. PICK i : i = request[u].item
    OBVIOUS
  <2>1. /\ request[u].pc = "update" /\ Write(i, request[u].fields)
        /\ Goto(u, [request[u] EXCEPT !.pc = "history", !.fields = <<>>])
        /\ UNCHANGED <<sweep, mixed, told, deaths>>
    BY <1>6, <2>0 DEF WriteItem
  <2>2. Busy(request[u])
    BY <2>1 DEF Busy
  <2>3. i \in Items /\ items[i] # NoRow /\ Keeps(request[u].fields)
    BY <2>0, <2>1, <2>2, BusyLemma
  <2>4. PICK r : r = [request[u] EXCEPT !.pc = "history", !.fields = <<>>]
    OBVIOUS
  <2>5. r.pc = "history" /\ r.item = i
    BY <2>0, <2>2, <2>4, BusyLemma
  <2>6. /\ request'[u] = r /\ \A v \in Users \ {u} : request'[v] = request[v]
    BY <1>0, <2>1, <2>4, GotoLemma
  <2>7. trailed' = trailed \ {i} /\ \A j \in Items : j # i => items'[j] = items[j]
    BY <1>0, <2>0, <2>1, <2>3, WriteLemma
  <2>8. Trail(i)'
    BY <2>5, <2>6 DEF Trail, Recording, Reporting
  <2>9. ASSUME NEW j \in Items, j # i, Trail(j)
        PROVE  Trail(j)'
    <3>1. \A v \in Users : Reporting(v, j) => request'[v] = request[v]
      BY <2>1, <2>6 DEF Reporting
    <3>2. QED
      BY <2>1, <2>7, <2>9, <3>1, TrailFrame
  <2>10. QED
    BY <2>1, <2>8, <2>9 DEF TrailInv
<1>7. CASE WriteHistory(u)
  <2>0. PICK i : i = request[u].item
    OBVIOUS
  <2>1. /\ request[u].pc = "history" /\ trailed' = trailed \cup {i}
        /\ Goto(u, [request[u] EXCEPT !.pc = "event"])
        /\ UNCHANGED <<items, sweep, mixed, told, deaths>>
    BY <1>7, <2>0 DEF WriteHistory
  <2>2. Busy(request[u])
    BY <2>1 DEF Busy
  <2>3. PICK r : r = [request[u] EXCEPT !.pc = "event"]
    OBVIOUS
  <2>4. r.pc = "event" /\ r.item = i
    BY <2>0, <2>2, <2>3, BusyLemma
  <2>5. /\ request'[u] = r /\ \A v \in Users \ {u} : request'[v] = request[v]
    BY <1>0, <2>1, <2>3, GotoLemma
  <2>6. Trail(i)'
    BY <2>1, <2>4, <2>5 DEF Trail, Reporting
  <2>7. ASSUME NEW j \in Items, j # i, Trail(j)
        PROVE  Trail(j)'
    <3>1. \A v \in Users : Reporting(v, j) => request'[v] = request[v]
      BY <2>0, <2>5, <2>7 DEF Reporting
    <3>2. QED
      BY <2>1, <2>7, <3>1, TrailFrame
  <2>8. QED
    BY <2>1, <2>6, <2>7 DEF TrailInv
<1>8. CASE LogEvent(u)
  <2>0. PICK i : i = request[u].item
    OBVIOUS
  <2>1. /\ request[u].pc = "event" /\ told' = [told EXCEPT ![i] = request[u].tells]
        /\ Goto(u, After(request[u].kind, request[u].form, request[u].rest))
        /\ UNCHANGED <<items, trailed, sweep, mixed, deaths>>
    BY <1>8, <2>0 DEF LogEvent
  <2>2. i \in Items /\ items[i] # NoRow /\ TakenBy(u, i)
    BY <2>0, <2>1, BusyLemma DEF Busy
  <2>3. \A v \in Users \ {u} : request'[v] = request[v]
    BY <1>0, <2>1, GotoLemma
  <2>4. told'[i] = request[u].tells /\ \A j \in Items : j # i => told'[j] = told[j]
    BY <1>0, <2>1, <2>2
  <2>5. i \notin mixed => request[u].tells = items[i].status
    BY <2>1, <2>2 DEF OrderInv, Order, Pending
  <2>6. ASSUME Trail(i)
        PROVE  Trail(i)'
    <3>1. \A v \in Users : Recording(v, i) => Recording(v, i)'
      BY <2>1, <2>3 DEF Recording
    <3>2. QED
      BY <2>1, <2>4, <2>5, <2>6, <3>1 DEF Trail
  <2>7. ASSUME NEW j \in Items, j # i, Trail(j)
        PROVE  Trail(j)'
    <3>1. \A v \in Users : Reporting(v, j) => request'[v] = request[v]
      BY <2>0, <2>3, <2>7 DEF Reporting
    <3>2. QED
      BY <2>1, <2>4, <2>7, <3>1, TrailFrame
  <2>8. QED
    BY <2>1, <2>2, <2>6, <2>7 DEF TrailInv
<1>9. CASE RequestDies(u)
  BY <1>9 DEF RequestDies, TypeInv, SetsInv, TrailInv
<1>10. QED
  BY <1>2, <1>3, <1>4, <1>5, <1>6, <1>7, <1>8, <1>9 DEF Requests

LEMMA TrailSweep ==
  ASSUME TypeInv, OrderInv, TrailInv, Sweep \/ SweepDies \/ Tick \/ UNCHANGED vars
  PROVE  TrailInv'
<1>0. /\ RowsInv /\ TakenInv /\ SweepOK(sweep) /\ told \in [Items -> Statuses \cup {"none"}]
      /\ sweep = [agenda |-> sweep.agenda, pc |-> sweep.pc, item |-> sweep.item]
  BY DEF TypeInv, SetsInv, SweepOK
<1>1. CASE ListCandidates
  <2>1. sweep.pc = "update" /\ UNCHANGED <<items, trailed, told, request, deaths>>
    BY <1>1 DEF ListCandidates, Rest
  <2>2. mixed \subseteq mixed'
    BY <1>1 DEF ListCandidates
  <2>3. \A i \in Items : Trail(i) => Trail(i)'
    BY <2>1, <2>2, TrailFrame
  <2>4. QED
    BY <2>1, <2>3 DEF TrailInv
<1>2. CASE SweepItem
  <2>1. PICK i \in DOMAIN sweep.agenda :
          /\ Write(i, sweep.agenda[i])
          /\ sweep' = [agenda |-> [j \in DOMAIN sweep.agenda \ {i} |-> sweep.agenda[j]],
                       pc |-> "history", item |-> i]
    BY <1>2 DEF SweepItem
  <2>2. i \in Items /\ items[i] # NoRow /\ Keeps(sweep.agenda[i])
    BY <1>0 DEF SweepOK, TakenInv, SweptNow
  <2>3. trailed' = trailed \ {i} /\ \A j \in Items : j # i => items'[j] = items[j]
    BY <1>0, <2>1, <2>2, WriteLemma
  <2>4. sweep'.pc = "history" /\ sweep'.item = i
    BY <2>1
  <2>5. sweep.pc = "update" /\ UNCHANGED <<request, mixed, told, deaths>>
    BY <1>2 DEF SweepItem
  <2>6. Trail(i)'
    BY <2>4 DEF Trail
  <2>7. ASSUME NEW j \in Items, j # i, Trail(j)
        PROVE  Trail(j)'
    BY <2>3, <2>5, <2>7, TrailFrame
  <2>8. QED
    BY <2>5, <2>6, <2>7 DEF TrailInv
<1>3. CASE SweepHistory
  <2>0. PICK i : i = sweep.item
    OBVIOUS
  <2>1. /\ trailed' = trailed \cup {i} /\ sweep' = [sweep EXCEPT !.pc = "event"]
        /\ UNCHANGED <<items, told, request, deaths, mixed>>
    BY <1>3, <2>0 DEF SweepHistory
  <2>2. sweep'.pc = "event" /\ sweep'.item = i
    BY <1>0, <2>0, <2>1
  <2>3. ASSUME NEW j \in Items, j # i, Trail(j)
        PROVE  Trail(j)'
    BY <2>0, <2>1, <2>3, TrailFrame
  <2>4. Trail(i)'
    BY <2>1, <2>2 DEF Trail
  <2>5. QED
    BY <2>1, <2>3, <2>4 DEF TrailInv
<1>4. CASE SweepEvent
  <2>0. PICK i : i = sweep.item
    OBVIOUS
  <2>1. /\ sweep.pc = "event" /\ told' = [told EXCEPT ![i] = "open"]
        /\ UNCHANGED <<items, trailed, request, deaths, mixed>>
    BY <1>4, <2>0 DEF SweepEvent
  <2>2. i \in Items /\ SweptNow(i) /\ items[i] # NoRow
    BY <1>0, <2>0, <2>1 DEF SweepOK, TakenInv, SweptNow
  <2>3. told'[i] = "open" /\ \A j \in Items : j # i => told'[j] = told[j]
    BY <1>0, <2>1, <2>2
  <2>4. i \notin mixed => items[i].status = "open"
    BY <2>0, <2>2 DEF OrderInv, Order, SweepPending
  <2>5. ASSUME Trail(i)
        PROVE  Trail(i)'
    BY <2>1, <2>3, <2>4, <2>5 DEF Trail, Recording
  <2>6. ASSUME NEW j \in Items, j # i, Trail(j)
        PROVE  Trail(j)'
    BY <2>0, <2>1, <2>3, <2>6, TrailFrame
  <2>7. QED
    BY <2>1, <2>2, <2>5, <2>6 DEF TrailInv
<1>5. CASE SweepDies
  BY <1>5 DEF SweepDies, TypeInv, SetsInv, TrailInv
<1>6. CASE Tick \/ UNCHANGED vars
  <2>1. UNCHANGED <<items, trailed, told, request, sweep, deaths, mixed>>
    BY <1>6 DEF Tick, vars
  <2>2. \A i \in Items : Trail(i) => Trail(i)'
    BY <2>1, TrailFrame
  <2>3. QED
    BY <2>1, <2>2 DEF TrailInv
<1>7. QED
  BY <1>1, <1>2, <1>3, <1>4, <1>5, <1>6 DEF Sweep

\* When nobody works on an item and nobody died half way, its last write is in its history and,
\* unless two worked on it at once, its last event reports its status (create_history and log of
\* every operation of the service).
THEOREM RecordsAreComplete == Spec => []RecordsComplete
<1>1. TypeInv /\ OrderInv /\ TrailInv /\ [Next]_vars => TrailInv'
  BY TrailRequests, TrailSweep DEF Next
<1>2. TrailInv => RecordsComplete
  BY DEF TrailInv, Trail, Recording, Reporting, RecordsComplete, InFlight, TakenBy, SweptNow
<1>3. QED
  BY <1>1, <1>2, TrailInit, TypeInductive, OrderInductive, PTL DEF Spec

=============================================================================
