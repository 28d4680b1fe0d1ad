----------------------------- MODULE InvoicesProofs -----------------------------
(***************************************************************************)
(* Theorems about Invoices, for any operators, documents, mailboxes, edits, *)
(* invoices and numbers of requests: its types and three safety properties. *)
(***************************************************************************)
EXTENDS Invoices, FiniteSetTheorems, SequenceTheorems, WellFoundedInduction, NaturalsInduction, TLAPS

-----------------------------------------------------------------------------
(* Agendas *)

Steps == {"fetch", "look_up", "finalize", "candidate", "item", "seek_contractor", "create_contractor",
          "insert", "stats", "evaluate", "flag", "sync", "authority", "save", "rehash",
          "approve_directly", "local", "ask", "override", "decide", "status", "read", "settle"}

\* Steps that are an agenda of their own, and those that change an invoice or what refers to it.
Alone == {"fetch", "look_up", "finalize", "candidate"}
RowSteps == {"stats", "evaluate", "flag", "sync", "authority", "save", "rehash", "approve_directly",
             "local", "ask", "override", "decide", "status", "read", "settle"}

\* Steps that come before any of those, but for the one of them they are.
Firsts == {"seek_contractor", "create_contractor", "insert", "authority", "save"}

\* What is to follow a step, and what may not come after it.
Musts == {<<"insert", "evaluate">>, <<"save", "evaluate">>, <<"authority", "evaluate">>,
          <<"evaluate", "flag">>, <<"approve_directly", "local">>}
Nevers == {<<x, x>> : x \in Steps} \cup {<<"status", x>> : x \in Steps}
          \cup RowSteps \X Firsts
          \cup {"insert"} \X (Steps \ {"stats", "evaluate", "flag", "sync", "item"})
          \cup {<<"settle", "approve_directly">>, <<"approve_directly", "settle">>, <<"local", "settle">>,
                <<"flag", "evaluate">>, <<"local", "evaluate">>, <<"ask", "settle">>,
                <<"ask", "decide">>, <<"authority", "local">>, <<"override", "ask">>, <<"settle", "decide">>,
                <<"local", "approve_directly">>, <<"local", "read">>, <<"settle", "read">>}

Ordered(a) ==
  /\ a \in Seq(Steps)
  /\ \A x \in Alone : x \in Range(a) => a = <<x>>
  /\ \A n \in DOMAIN a : a[n] = "seek_contractor" => n + 1 \in DOMAIN a /\ a[n + 1] = "create_contractor"
  /\ \A p \in Musts : \A n \in DOMAIN a : a[n] = p[1] => \E m \in DOMAIN a : n < m /\ a[m] = p[2]
  /\ \A p \in Nevers : \A m, n \in DOMAIN a : m < n /\ a[m] = p[1] => a[n] # p[2]

-----------------------------------------------------------------------------
(* The invariants *)

Fields == {"agenda", "messages", "run", "message", "row", "seen", "before", "type", "matches",
           "outcome", "change", "approval", "decision"}
Kinds == {"brak", "podejrzenie", "pewny"}

Left(r) == Range(r.agenda)

Formed(r) == DOMAIN r = Fields /\ Ordered(r.agenda) /\ r.type \in Kinds

\* What a request knows of the rows its steps are about.
KnowsRow(r) ==
  /\ Left(r) \cap RowSteps # {} /\ "insert" \notin Left(r) => r.row \in DOMAIN invoices
  /\ Left(r) \cap {"look_up", "candidate", "insert"} # {} => r.row = 0
KnowsMessage(r) ==
  /\ Left(r) \cap {"candidate", "insert", "authority"} # {} => r.message \in Messages
  /\ Left(r) \cap {"candidate", "authority"} # {} => Paper[r.message].source = "KSEF"
HasSeen(r) ==
  (\/ "authority" \in Left(r)
   \/ "flag" \in Left(r) /\ "evaluate" \notin Left(r)
   \/ "rehash" \in Left(r) /\ "save" \notin Left(r)
   \/ "local" \in Left(r) /\ Left(r) \cap {"evaluate", "read"} = {})
  => r.seen \in Rows
KnowsChange(r) ==
  Left(r) \cap {"save", "approve_directly", "override"} # {} \/ ("local" \in Left(r) /\ "settle" \notin Left(r))
    => r.change \in KsefFields \X Given
KnowsApproval(r) ==
  /\ Left(r) \cap {"decide", "settle"} # {} \/ ("override" \in Left(r) /\ "ask" \notin Left(r))
       => r.approval \in DOMAIN approvals /\ approvals[r.approval].invoice = r.row
  /\ "settle" \in Left(r) => r.decision = (IF "local" \in Left(r) THEN "approved" ELSE "rejected")
  /\ "decide" \in Left(r) => r.decision \in {"approved", "rejected", "cancelled"}
Corrects(r) ==
  Left(r) \cap {"approve_directly", "ask", "override"} # {} =>
    r.row \in DOMAIN invoices /\ invoices[r.row].authority = "KSEF"

Aware(r) ==
  Formed(r) /\ KnowsRow(r) /\ KnowsMessage(r) /\ HasSeen(r) /\ KnowsChange(r) /\ KnowsApproval(r) /\ Corrects(r)

\* The run a request imports for.
Conducts(r) ==
  /\ r.run \in {0} \cup DOMAIN runs
  /\ r.run # 0 => r.messages \in Seq(Messages) /\ runs[r.run].status = "running"
  /\ Left(r) \cap {"fetch", "look_up", "finalize"} # {} => r.run # 0
  /\ "look_up" \in Left(r) => r.messages # <<>>
  /\ "finalize" \in Left(r) => r.messages = <<>>

RowsInv ==
  /\ invoices \in Seq(Rows)
  /\ \A i \in DOMAIN invoices : invoices[i].external = invoices[i].file \/ Paper[invoices[i].external].source = "KSEF"
PapersInv ==
  /\ approvals \in Seq(ApprovalRows) /\ \A a \in DOMAIN approvals : approvals[a].invoice \in DOMAIN invoices
  /\ overrides \in Seq(OverrideRows)
  /\ \A k \in DOMAIN overrides :
       /\ overrides[k].invoice \in DOMAIN invoices /\ invoices[overrides[k].invoice].authority = "KSEF"
       /\ overrides[k].approval \in 0..Len(approvals)
       /\ overrides[k].approval # 0 => approvals[overrides[k].approval].invoice = overrides[k].invoice
AwareInv == DOMAIN request = Operators /\ \A p \in Operators : Aware(request[p])

RunsInv ==
  /\ runs \in Seq(RunRows)
  /\ \A p \in Operators : Conducts(request[p])
  /\ \A p, q \in Operators : p # q /\ request[p].run # 0 => request[p].run # request[q].run

\* A message of a run: still to come, in an invoice, an error the run has counted or is to count.
Accounted(r, m) ==
  \/ m \in Range(r.messages)
  \/ \E i \in DOMAIN invoices : invoices[i].file = m
  \/ runs[r.run].errors > 0
  \/ m = r.message /\ ("insert" \in Left(r) \/ ("item" \in Left(r) /\ r.outcome = "skipped_error"))
\* The run of the request leaves no message of the mailbox behind.
Carries(r) ==
  r.run # 0 /\ runs[r.run].source = "EMAIL" =>
    /\ "candidate" \notin Left(r)
    /\ \A m \in Range(Mailbox) : Accounted(r, m)
    /\ \A m \in Range(r.messages) : Paper[m].source = "EMAIL"
MailInv == (\A p \in Operators : Carries(request[p])) /\ NothingLeftBehind

-----------------------------------------------------------------------------
(* While requests come one at a time *)

Lone == \A p, q \in Operators : Working(p) /\ Working(q) => p = q

InForce(k) ==
  LET i == overrides[k].invoice
      f == overrides[k].field
  IN /\ invoices[i][f] = invoices[i].local[f]
     /\ \E l \in DOMAIN overrides : /\ overrides[l].invoice = i /\ overrides[l].field = f
                                    /\ overrides[l].value = invoices[i].local[f]
                                    /\ overrides[l].status = "approved"

\* The request is to put an approved correction in force.
Applies(r) == "local" \in Left(r) /\ Left(r) \cap {"approve_directly", "settle"} = {}
AwaitedBy(r, k) == Applies(r) /\ r.row = overrides[k].invoice /\ r.change[1] = overrides[k].field

Sees(r) ==
  "authority" \in Left(r) \/ ("local" \in Left(r) /\ Left(r) \cap {"read", "evaluate"} = {})
    => r.seen.local = invoices[r.row].local
Settles(r) ==
  "settle" \in Left(r) =>
    /\ \A k \in OverridesOf(r.approval) : overrides[k].status = "pending"
    /\ "decide" \notin Left(r) => approvals[r.approval].status # "pending"
Approved(r) ==
  Applies(r) => \E k \in DOMAIN overrides :
    /\ overrides[k].invoice = r.row /\ overrides[k].field = r.change[1]
    /\ overrides[k].value = r.change[2] /\ overrides[k].status = "approved"
OneAtATime(r) ==
  Sees(r) /\ Settles(r) /\ Approved(r) /\ ("save" \in Left(r) => invoices[r.row].authority # "KSEF")

CorrectionsInv ==
  Orderly =>
    /\ Lone /\ \A p \in Operators : OneAtATime(request[p])
    /\ \A k \in DOMAIN overrides :
         overrides[k].status = "approved" => InForce(k) \/ \E p \in Operators : AwaitedBy(request[p], k)
    /\ \A a \in DOMAIN approvals : approvals[a].status = "pending" =>
         \A k \in OverridesOf(a) : overrides[k].status = "pending"

Flagging(r) == "flag" \in Left(r) /\ "evaluate" \notin Left(r)
Compares(r) ==
  Flagging(r) =>
    /\ r.matches \subseteq DOMAIN invoices /\ \A x \in relations : x[1] # r.row
    /\ r.type = "brak" => r.matches = {}
    /\ r.type = "pewny" => r.matches # {}
\* The request is to flag the invoice it is about as a duplicate of another one, if it is one.
WillFlag(r, i, j) ==
  r.row = i /\ ("evaluate" \in Left(r) \/ (Flagging(r) /\ (r.type = "pewny" \/ j \in r.matches)))
TwinsInv ==
  Orderly =>
    /\ \A p \in Operators : Compares(request[p])
    /\ \A i, j \in DOMAIN invoices :
         (i # j /\ Twins(i, j) /\ {i, j} \cap handled = {} /\ ~Corrected(i) /\ ~Corrected(j)) =>
            \/ Flags(i, j) \/ Flags(j, i)
            \/ \E p \in Operators : WillFlag(request[p], i, j) \/ WillFlag(request[p], j, i)

-----------------------------------------------------------------------------
(* What refers to a row *)

\* Whose contractor a request needs, and that it is stored once the request has sought it.
Seeks(r) ==
  /\ Left(r) \cap {"look_up", "candidate", "insert", "authority"} # {} => r.change = NoValue
  /\ "authority" \in Left(r) => r.row # 0
HasContractor(r) ==
  Left(r) \cap {"seek_contractor", "create_contractor"} = {} =>
    /\ "insert" \in Left(r) => Paper[r.message].supplier \in DOMAIN contractors
    /\ "authority" \in Left(r) => Authoritative(r.seen, r.message)["supplier"] \in DOMAIN contractors
    /\ "save" \in Left(r) /\ r.change[1] = "supplier" => r.change[2] \in DOMAIN contractors
\* The matches of a check are other invoices.
HasFound(r) == Flagging(r) => r.matches \subseteq DOMAIN invoices \ {r.row}

KnowingInv == \A p \in Operators : Seeks(request[p]) /\ HasContractor(request[p]) /\ HasFound(request[p])

LinksInv ==
  /\ \A i \in DOMAIN invoices : invoices[i].contractor \in DOMAIN contractors
  /\ \A x \in relations : x[1] \in DOMAIN invoices /\ x[2] \in DOMAIN invoices /\ x[1] # x[2]
  /\ intake \in Seq(IntakeRows)
  /\ exceptions \in Seq([Codes -> ItemStatuses]) /\ DOMAIN exceptions = DOMAIN invoices
  /\ cycle \in Operators \cup {NoOne} /\ handled \subseteq DOMAIN invoices

LEMMA StepSeqs ==
  ASSUME NEW a \in Seq(Steps), a # <<>>
  PROVE  /\ Tail(a) \in Seq(Steps) /\ Head(a) = a[1] /\ 1 \in DOMAIN a /\ DOMAIN a \subseteq Nat \ {0}
         /\ \A n \in DOMAIN Tail(a) : n \in Nat \ {0} /\ n + 1 \in DOMAIN a /\ Tail(a)[n] = a[n + 1]
         /\ \A n \in DOMAIN a : n # 1 => n - 1 \in DOMAIN Tail(a) /\ Tail(a)[n - 1] = a[n]
OBVIOUS

LEMMA AheadLemma ==
  ASSUME NEW a, Ordered(a), a # <<>>
  PROVE  /\ Ordered(Tail(a)) /\ Head(a) \in Steps /\ Range(a) = {Head(a)} \cup Range(Tail(a))
         /\ \A p \in Musts : Head(a) = p[1] => p[2] \in Range(Tail(a))
         /\ \A p \in Nevers : Head(a) = p[1] => p[2] \notin Range(Tail(a))
         /\ Head(a) \in Alone => a = <<Head(a)>> /\ Tail(a) = <<>> /\ Range(a) = {Head(a)}
         /\ Head(a) = "seek_contractor" => Tail(a) # <<>> /\ Head(Tail(a)) = "create_contractor"
<1>1. a \in Seq(Steps)  BY DEF Ordered
<1>2. /\ Tail(a) \in Seq(Steps) /\ Head(a) = a[1] /\ 1 \in DOMAIN a /\ DOMAIN a \subseteq Nat \ {0}
      /\ \A n \in DOMAIN Tail(a) : n \in Nat \ {0} /\ n + 1 \in DOMAIN a /\ Tail(a)[n] = a[n + 1]
      /\ \A n \in DOMAIN a : n # 1 => n - 1 \in DOMAIN Tail(a) /\ Tail(a)[n - 1] = a[n]
  BY <1>1, StepSeqs
<1>3. PICK t : t = Tail(a)  OBVIOUS
<1>4. Range(a) = {Head(a)} \cup Range(t)
  <2>1. \A n \in DOMAIN a : a[n] = Head(a) \/ \E m \in DOMAIN t : t[m] = a[n]
    BY <1>2, <1>3
  <2>2. \A n \in DOMAIN t : \E m \in DOMAIN a : a[m] = t[n]  BY <1>2, <1>3
  <2> QED  BY <1>2, <2>1, <2>2 DEF Range
<1>5. Head(a) \in Steps  BY <1>1, <1>2
<1>6. \A p \in Musts : Head(a) = p[1] => p[2] \in Range(t)
  <2> SUFFICES ASSUME NEW p \in Musts, Head(a) = p[1] PROVE p[2] \in Range(t)
    OBVIOUS
  <2>1. PICK m \in DOMAIN a : 1 < m /\ a[m] = p[2]  BY <1>2 DEF Ordered
  <2>2. m - 1 \in DOMAIN t /\ t[m - 1] = p[2]  BY <1>2, <1>3, <2>1
  <2> QED  BY <2>2 DEF Range
<1>7. \A p \in Nevers : Head(a) = p[1] => p[2] \notin Range(t)
  <2> SUFFICES ASSUME NEW p \in Nevers, Head(a) = p[1], NEW n \in DOMAIN t, t[n] = p[2] PROVE FALSE
    BY DEF Range
  <2>1. n + 1 \in DOMAIN a /\ a[n + 1] = p[2] /\ 1 < n + 1  BY <1>2, <1>3
  <2>2. a[1] = p[1] /\ 1 \in DOMAIN a  BY <1>2
  <2> QED  BY <2>1, <2>2 DEF Ordered
<1>8. Head(a) \in Alone => a = <<Head(a)>> /\ t = <<>> /\ Range(a) = {Head(a)}
  <2> SUFFICES ASSUME Head(a) \in Alone PROVE a = <<Head(a)>> /\ t = <<>> /\ Range(a) = {Head(a)}
    OBVIOUS
  <2>1. PICK x : x = Head(a)  OBVIOUS
  <2>2. a = <<x>>  BY <1>4, <2>1 DEF Ordered
  <2>3. Tail(<<x>>) = <<>> /\ DOMAIN <<x>> = {1} /\ <<x>>[1] = x  OBVIOUS
  <2>4. t = <<>>  BY ONLY <1>3, <2>2, <2>3
  <2>5. Range(a) = {x}  BY <2>2, <2>3 DEF Range
  <2> QED  BY <2>1, <2>2, <2>4, <2>5
<1>9. Ordered(t)
  <2>1. \A x \in Alone : x \in Range(t) => t = <<x>>
    <3> SUFFICES ASSUME NEW x \in Alone, x \in Range(t) PROVE FALSE
      OBVIOUS
    <3>1. a = <<x>>  BY <1>4 DEF Ordered
    <3>2. Tail(<<x>>) = <<>> /\ DOMAIN <<>> = {}  OBVIOUS
    <3>3. t = <<>>  BY ONLY <1>3, <3>1, <3>2
    <3> QED  BY <3>2, <3>3 DEF Range
  <2>2. ASSUME NEW p \in Musts, NEW n \in DOMAIN t, t[n] = p[1]
        PROVE  \E m \in DOMAIN t : n < m /\ t[m] = p[2]
    <3>1. n + 1 \in DOMAIN a /\ a[n + 1] = p[1] /\ n \in Nat \ {0}  BY <1>2, <1>3, <2>2
    <3>2. PICK m \in DOMAIN a : n + 1 < m /\ a[m] = p[2]  BY <3>1 DEF Ordered
    <3>3. m - 1 \in DOMAIN t /\ t[m - 1] = p[2] /\ n < m - 1  BY <1>2, <1>3, <3>1, <3>2
    <3> QED  BY <3>3
  <2>3. ASSUME NEW p \in Nevers, NEW m \in DOMAIN t, NEW n \in DOMAIN t, m < n, t[m] = p[1], t[n] = p[2]
        PROVE  FALSE
    <3>1. /\ n + 1 \in DOMAIN a /\ a[n + 1] = p[2] /\ n \in Nat \ {0}
          /\ m + 1 \in DOMAIN a /\ a[m + 1] = p[1] /\ m \in Nat \ {0}  BY <1>2, <1>3, <2>3
    <3>2. m + 1 < n + 1  BY <2>3, <3>1
    <3> QED  BY <3>1, <3>2 DEF Ordered
  <2>4. t \in Seq(Steps)  BY <1>2, <1>3
  <2>5. ASSUME NEW n \in DOMAIN t, t[n] = "seek_contractor"
        PROVE  n + 1 \in DOMAIN t /\ t[n + 1] = "create_contractor"
    <3>1. n + 1 \in DOMAIN a /\ a[n + 1] = "seek_contractor" /\ n \in Nat \ {0}  BY <1>2, <1>3, <2>5
    <3>2. n + 1 + 1 \in DOMAIN a /\ a[n + 1 + 1] = "create_contractor"  BY <3>1 DEF Ordered
    <3>3. n + 1 + 1 # 1 /\ n + 1 + 1 - 1 = n + 1  BY <3>1
    <3> QED  BY <1>2, <1>3, <3>2, <3>3
  <2> QED  BY <2>1, <2>2, <2>3, <2>4, <2>5 DEF Ordered
<1>10. Head(a) = "seek_contractor" => t # <<>> /\ Head(t) = "create_contractor"
  <2> SUFFICES ASSUME Head(a) = "seek_contractor" PROVE t # <<>> /\ Head(t) = "create_contractor"
    OBVIOUS
  <2>1. 2 \in DOMAIN a /\ a[2] = "create_contractor"
    <3>1. 1 + 1 \in DOMAIN a /\ a[1 + 1] = "create_contractor"  BY <1>2 DEF Ordered
    <3> QED  BY <3>1
  <2>2. 1 \in DOMAIN t /\ t[1] = "create_contractor"
    <3>1. 2 - 1 \in DOMAIN t /\ t[2 - 1] = a[2]  BY <1>2, <1>3, <2>1
    <3> QED  BY <2>1, <3>1
  <2>3. t # <<>>  BY <2>2
  <2>4. t \in Seq(Steps)  BY <1>2, <1>3
  <2> QED  BY <2>2, <2>3, <2>4
<1> QED  BY <1>3, <1>4, <1>5, <1>6, <1>7, <1>8, <1>9, <1>10

-----------------------------------------------------------------------------
(* What a request becomes *)

\* Nothing left, or only the next message or the end of the run.
Resting(s) == Formed(s) /\ Left(s) \subseteq {"finalize", "look_up"} /\ s.row = 0

Same(r, s, fields) == \A f \in fields : s[f] = r[f]

\* The request q, once it has made the first step of its agenda, is s.
GoesOn(q, s) ==
  \/ Resting(s) /\ s = Onward(q) /\ Left(q) = {Head(q.agenda)}
  \/ /\ s.agenda = Tail(q.agenda) /\ s.agenda # <<>> /\ Formed(s) /\ Same(q, s, Fields \ {"agenda"})
     /\ Left(s) = Left(q) \ {Head(q.agenda)}

LEMMA OrderedSingle ==
  \A x \in Steps : x \notin {p[1] : p \in Musts} /\ x # "seek_contractor" => Ordered(<<x>>)
<1> SUFFICES ASSUME NEW x \in Steps, x \notin {p[1] : p \in Musts}, x # "seek_contractor" PROVE Ordered(<<x>>)
  OBVIOUS
<1>1. DOMAIN <<x>> = {1} /\ <<x>>[1] = x /\ <<x>> \in Seq(Steps) /\ 1 \in Nat /\ Range(<<x>>) = {x}  BY DEF Range
<1>2. PICK a : a = <<x>>  OBVIOUS
<1>3. \A y \in Alone : y \in Range(a) => a = <<y>>  BY <1>1, <1>2
<1>4. \A p \in Musts : \A n \in DOMAIN a : a[n] # p[1]  BY <1>1, <1>2
<1>5. \A n \in DOMAIN a : a[n] # "seek_contractor"  BY <1>1, <1>2
<1>6. \A m, n \in DOMAIN a : ~(m < n)  BY <1>1, <1>2
<1> QED  BY <1>1, <1>2, <1>3, <1>4, <1>6, <1>5 DEF Ordered

LEMMA RangeSingle == \A x : Range(<<x>>) = {x} /\ <<x>> # <<>> /\ Head(<<x>>) = x /\ Tail(<<x>>) = <<>>
BY DEF Range

LEMMA NothingOrdered == Ordered(<<>>) /\ Range(<<>>) = {}
BY DEF Ordered, Range

LEMMA IdleLemma == Resting(Idle) /\ Idle.agenda = <<>> /\ Left(Idle) = {} /\ Idle.run = 0 /\ DOMAIN Idle = Fields
<1>1. Idle.agenda = <<>> /\ Idle.run = 0 /\ DOMAIN Idle = Fields /\ Idle.type = "brak" /\ Idle.row = 0
  BY DEF Idle, Fields
<1>2. Left(Idle) = {} /\ Ordered(Idle.agenda)  BY <1>1, NothingOrdered DEF Left
<1> QED  BY <1>1, <1>2 DEF Resting, Formed, Kinds

LEMMA OnwardLemma ==
  ASSUME NEW q, DOMAIN q = Fields, NEW s, s = Onward(q)
  PROVE  /\ Resting(s)
         /\ q.run = 0 => s = Idle
         /\ q.run # 0 /\ q.messages = <<>> => Left(s) = {"finalize"} /\ s.run = q.run /\ s.messages = <<>>
         /\ q.run # 0 /\ q.messages # <<>> => Left(s) = {"look_up"} /\ s.run = q.run /\ s.messages = q.messages
<1>1. CASE q.run = 0  BY <1>1, IdleLemma DEF Onward
<1>2. ASSUME NEW x \in {"finalize", "look_up"}, NEW k, NEW ms,
             s = [Idle EXCEPT !.run = k, !.messages = ms, !.agenda = <<x>>]
      PROVE  Resting(s) /\ Left(s) = {x} /\ s.run = k /\ s.messages = ms
  <2>1. s.agenda = <<x>> /\ s.run = k /\ s.messages = ms /\ DOMAIN s = Fields /\ s.type = "brak" /\ s.row = 0
    BY <1>2, IdleLemma DEF Idle, Fields
  <2>2. Ordered(<<x>>)  BY OrderedSingle DEF Steps, Musts
  <2>3. Left(s) = {x}  BY <2>1, RangeSingle DEF Left
  <2> QED  BY <2>1, <2>2, <2>3 DEF Resting, Formed, Kinds
<1>3. CASE q.run # 0
  <2>1. PICK x : x = IF q.messages = <<>> THEN "finalize" ELSE "look_up"  OBVIOUS
  <2>2. s = [Idle EXCEPT !.run = q.run, !.messages = q.messages, !.agenda = <<x>>]  BY <1>3, <2>1 DEF Onward
  <2>3. x \in {"finalize", "look_up"}  BY <2>1
  <2>4. Resting(s) /\ Left(s) = {x} /\ s.run = q.run /\ s.messages = q.messages  BY <1>2, <2>2, <2>3
  <2> QED  BY <1>3, <2>1, <2>4
<1> QED  BY <1>1, <1>3

LEMMA GoesOnLemma ==
  ASSUME NEW q, Formed(q), q.agenda # <<>>, NEW s, s = Then(q, Tail(q.agenda))
  PROVE  GoesOn(q, s)
<1>1. DOMAIN q = Fields /\ Ordered(q.agenda) /\ q.type \in Kinds  BY DEF Formed
<1>2. PICK t : t = Tail(q.agenda)  OBVIOUS
<1>3. CASE t = <<>>
  <2>1. s = Onward(q)  BY <1>2, <1>3 DEF Then
  <2>2. Range(q.agenda) = {Head(q.agenda)} \cup Range(t)  BY <1>1, <1>2, AheadLemma
  <2>3. Left(q) = {Head(q.agenda)}  BY <1>3, <2>2, NothingOrdered DEF Left
  <2> QED  BY <1>1, <2>1, <2>3, OnwardLemma DEF GoesOn
<1>4. CASE t # <<>>
  <2>1. s = [q EXCEPT !.agenda = t]  BY <1>2, <1>4 DEF Then
  <2>2. s.agenda = t /\ DOMAIN s = Fields /\ \A f \in Fields \ {"agenda"} : s[f] = q[f]
    BY <1>1, <2>1 DEF Fields
  <2>3. Ordered(t) /\ Range(q.agenda) = {Head(q.agenda)} \cup Range(t) /\ Head(q.agenda) \in Steps
    BY <1>1, <1>2, AheadLemma
  <2>4. Head(q.agenda) \notin Range(t)
    <3>1. <<Head(q.agenda), Head(q.agenda)>> \in Nevers  BY <2>3 DEF Nevers
    <3> QED  BY <1>1, <1>2, <3>1, AheadLemma
  <2>5. Formed(s)
    <3>1. s.type = q.type  BY <2>2 DEF Fields
    <3> QED  BY <1>1, <2>2, <2>3, <3>1 DEF Formed
  <2>6. Left(s) = Left(q) \ {Head(q.agenda)}  BY <2>2, <2>3, <2>4 DEF Left
  <2> QED  BY <1>2, <1>4, <2>2, <2>5, <2>6 DEF GoesOn, Same
<1> QED  BY <1>3, <1>4

-----------------------------------------------------------------------------
(* The agendas a request starts with *)

LEMMA CreationOrdered ==
  /\ Ordered(Creation)
  /\ Range(Creation) = {"seek_contractor", "create_contractor", "insert", "stats", "evaluate", "flag", "sync", "item"}
<1>1. PICK a : a = Creation  OBVIOUS
<1>2. /\ DOMAIN a = 1..8 /\ a[1] = "seek_contractor" /\ a[2] = "create_contractor"
      /\ a[3] = "insert" /\ a[4] = "stats" /\ a[5] = "evaluate" /\ a[6] = "flag"
      /\ a[7] = "sync" /\ a[8] = "item"
  BY <1>1 DEF Creation
<1>3. a \in Seq(Steps)  BY <1>1 DEF Creation, Steps
<1>4. Range(a) = {"seek_contractor", "create_contractor", "insert", "stats", "evaluate", "flag", "sync", "item"}
  BY <1>2 DEF Range
<1>5. \A x \in Alone : x \in Range(a) => a = <<x>>  BY <1>4 DEF Alone
<1>6. \A n \in DOMAIN a : a[n] = "seek_contractor" => n + 1 \in DOMAIN a /\ a[n + 1] = "create_contractor"  BY <1>2
<1>7. \A p \in Musts : \A n \in DOMAIN a : a[n] = p[1] => \E m \in DOMAIN a : n < m /\ a[m] = p[2]
  BY <1>2 DEF Musts
<1>8. \A p \in Nevers : \A m, n \in DOMAIN a : m < n /\ a[m] = p[1] => a[n] # p[2]
  BY <1>2 DEF Nevers, Firsts, RowSteps, Steps
<1> QED  BY <1>1, <1>3, <1>4, <1>5, <1>6, <1>7, <1>8 DEF Ordered

LEMMA OverrulingOrdered ==
  /\ Ordered(Overruling)
  /\ Range(Overruling) = {"seek_contractor", "create_contractor", "authority", "evaluate", "flag", "stats", "item"}
<1>1. PICK a : a = Overruling  OBVIOUS
<1>2. /\ DOMAIN a = 1..7 /\ a[1] = "seek_contractor" /\ a[2] = "create_contractor"
      /\ a[3] = "authority" /\ a[4] = "evaluate" /\ a[5] = "flag" /\ a[6] = "stats"
      /\ a[7] = "item"
  BY <1>1 DEF Overruling
<1>3. a \in Seq(Steps)  BY <1>1 DEF Overruling, Steps
<1>4. Range(a) = {"seek_contractor", "create_contractor", "authority", "evaluate", "flag", "stats", "item"}
  BY <1>2 DEF Range
<1>5. \A x \in Alone : x \in Range(a) => a = <<x>>  BY <1>4 DEF Alone
<1>6. \A n \in DOMAIN a : a[n] = "seek_contractor" => n + 1 \in DOMAIN a /\ a[n + 1] = "create_contractor"  BY <1>2
<1>7. \A p \in Musts : \A n \in DOMAIN a : a[n] = p[1] => \E m \in DOMAIN a : n < m /\ a[m] = p[2]
  BY <1>2 DEF Musts
<1>8. \A p \in Nevers : \A m, n \in DOMAIN a : m < n /\ a[m] = p[1] => a[n] # p[2]
  BY <1>2 DEF Nevers, Firsts, RowSteps, Steps
<1> QED  BY <1>1, <1>3, <1>4, <1>5, <1>6, <1>7, <1>8 DEF Ordered

LEMMA EditingSupplierOrdered ==
  /\ Ordered(Editing("supplier"))
  /\ Range(Editing("supplier")) = {"seek_contractor", "create_contractor", "save", "rehash", "evaluate", "flag", "stats", "sync"}
<1>1. PICK a : a = Editing("supplier")  OBVIOUS
<1>2. /\ DOMAIN a = 1..8 /\ a[1] = "seek_contractor" /\ a[2] = "create_contractor"
      /\ a[3] = "save" /\ a[4] = "rehash" /\ a[5] = "evaluate" /\ a[6] = "flag"
      /\ a[7] = "stats" /\ a[8] = "sync"
  BY <1>1 DEF Editing
<1>3. a \in Seq(Steps)  BY <1>1 DEF Editing, Steps
<1>4. Range(a) = {"seek_contractor", "create_contractor", "save", "rehash", "evaluate", "flag", "stats", "sync"}
  BY <1>2 DEF Range
<1>5. \A x \in Alone : x \in Range(a) => a = <<x>>  BY <1>4 DEF Alone
<1>6. \A n \in DOMAIN a : a[n] = "seek_contractor" => n + 1 \in DOMAIN a /\ a[n + 1] = "create_contractor"  BY <1>2
<1>7. \A p \in Musts : \A n \in DOMAIN a : a[n] = p[1] => \E m \in DOMAIN a : n < m /\ a[m] = p[2]
  BY <1>2 DEF Musts
<1>8. \A p \in Nevers : \A m, n \in DOMAIN a : m < n /\ a[m] = p[1] => a[n] # p[2]
  BY <1>2 DEF Nevers, Firsts, RowSteps, Steps
<1> QED  BY <1>1, <1>3, <1>4, <1>5, <1>6, <1>7, <1>8 DEF Ordered

LEMMA EditingOrdered ==
  ASSUME NEW f, f # "supplier"
  PROVE  Ordered(Editing(f)) /\ Range(Editing(f)) = {"save", "rehash", "evaluate", "flag", "stats", "sync"}
<1>1. PICK a : a = Editing(f)  OBVIOUS
<1>2. /\ DOMAIN a = 1..6 /\ a[1] = "save" /\ a[2] = "rehash" /\ a[3] = "evaluate"
      /\ a[4] = "flag" /\ a[5] = "stats" /\ a[6] = "sync"
  BY <1>1 DEF Editing
<1>3. a \in Seq(Steps)  BY <1>1 DEF Editing, Steps
<1>4. Range(a) = {"save", "rehash", "evaluate", "flag", "stats", "sync"}
  BY <1>2 DEF Range
<1>5. \A x \in Alone : x \in Range(a) => a = <<x>>  BY <1>4 DEF Alone
<1>6. \A n \in DOMAIN a : a[n] = "seek_contractor" => n + 1 \in DOMAIN a /\ a[n + 1] = "create_contractor"  BY <1>2
<1>7. \A p \in Musts : \A n \in DOMAIN a : a[n] = p[1] => \E m \in DOMAIN a : n < m /\ a[m] = p[2]
  BY <1>2 DEF Musts
<1>8. \A p \in Nevers : \A m, n \in DOMAIN a : m < n /\ a[m] = p[1] => a[n] # p[2]
  BY <1>2 DEF Nevers, Firsts, RowSteps, Steps
<1> QED  BY <1>1, <1>3, <1>4, <1>5, <1>6, <1>7, <1>8 DEF Ordered

LEMMA CorrectingOrdered ==
  /\ Ordered(Correcting(TRUE))
  /\ Range(Correcting(TRUE)) = {"evaluate", "flag", "stats", "approve_directly", "local", "sync"}
<1>1. PICK a : a = Correcting(TRUE)  OBVIOUS
<1>2. /\ DOMAIN a = 1..6 /\ a[1] = "evaluate" /\ a[2] = "flag" /\ a[3] = "stats"
      /\ a[4] = "approve_directly" /\ a[5] = "local" /\ a[6] = "sync"
  BY <1>1 DEF Correcting
<1>3. a \in Seq(Steps)  BY <1>1 DEF Correcting, Steps
<1>4. Range(a) = {"evaluate", "flag", "stats", "approve_directly", "local", "sync"}
  BY <1>2 DEF Range
<1>5. \A x \in Alone : x \in Range(a) => a = <<x>>  BY <1>4 DEF Alone
<1>6. \A n \in DOMAIN a : a[n] = "seek_contractor" => n + 1 \in DOMAIN a /\ a[n + 1] = "create_contractor"  BY <1>2
<1>7. \A p \in Musts : \A n \in DOMAIN a : a[n] = p[1] => \E m \in DOMAIN a : n < m /\ a[m] = p[2]
  BY <1>2 DEF Musts
<1>8. \A p \in Nevers : \A m, n \in DOMAIN a : m < n /\ a[m] = p[1] => a[n] # p[2]
  BY <1>2 DEF Nevers, Firsts, RowSteps, Steps
<1>9. Ordered(a)  BY <1>3, <1>5, <1>6, <1>7, <1>8 DEF Ordered
<1> QED  BY <1>1, <1>4, <1>9

LEMMA AskingOrdered ==
  /\ Ordered(Correcting(FALSE))
  /\ Range(Correcting(FALSE)) = {"evaluate", "flag", "stats", "ask", "override", "sync"}
<1>1. PICK a : a = Correcting(FALSE)  OBVIOUS
<1>2. /\ DOMAIN a = 1..6 /\ a[1] = "evaluate" /\ a[2] = "flag" /\ a[3] = "stats"
      /\ a[4] = "ask" /\ a[5] = "override" /\ a[6] = "sync"
  BY <1>1 DEF Correcting
<1>3. a \in Seq(Steps)  BY <1>1 DEF Correcting, Steps
<1>4. Range(a) = {"evaluate", "flag", "stats", "ask", "override", "sync"}
  BY <1>2 DEF Range
<1>5. \A x \in Alone : x \in Range(a) => a = <<x>>  BY <1>4 DEF Alone
<1>6. \A n \in DOMAIN a : a[n] = "seek_contractor" => n + 1 \in DOMAIN a /\ a[n + 1] = "create_contractor"  BY <1>2
<1>7. \A p \in Musts : \A n \in DOMAIN a : a[n] = p[1] => \E m \in DOMAIN a : n < m /\ a[m] = p[2]
  BY <1>2 DEF Musts
<1>8. \A p \in Nevers : \A m, n \in DOMAIN a : m < n /\ a[m] = p[1] => a[n] # p[2]
  BY <1>2 DEF Nevers, Firsts, RowSteps, Steps
<1>9. Ordered(a)  BY <1>3, <1>5, <1>6, <1>7, <1>8 DEF Ordered
<1> QED  BY <1>1, <1>4, <1>9

LEMMA DecideOrdered ==
  Ordered(<<"decide">>) /\ Range(<<"decide">>) = {"decide"}
<1>1. PICK a : a = <<"decide">>  OBVIOUS
<1>2. /\ DOMAIN a = 1..1 /\ a[1] = "decide"
  BY <1>1
<1>3. a \in Seq(Steps)  BY <1>1 DEF Steps
<1>4. Range(a) = {"decide"}
  BY <1>2 DEF Range
<1>5. \A x \in Alone : x \in Range(a) => a = <<x>>  BY <1>4 DEF Alone
<1>6. \A n \in DOMAIN a : a[n] = "seek_contractor" => n + 1 \in DOMAIN a /\ a[n + 1] = "create_contractor"  BY <1>2
<1>7. \A p \in Musts : \A n \in DOMAIN a : a[n] = p[1] => \E m \in DOMAIN a : n < m /\ a[m] = p[2]
  BY <1>2 DEF Musts
<1>8. \A p \in Nevers : \A m, n \in DOMAIN a : m < n /\ a[m] = p[1] => a[n] # p[2]
  BY <1>2 DEF Nevers, Firsts, RowSteps, Steps
<1> QED  BY <1>1, <1>3, <1>4, <1>5, <1>6, <1>7, <1>8 DEF Ordered

LEMMA DecideStatusOrdered ==
  Ordered(<<"decide", "status">>) /\ Range(<<"decide", "status">>) = {"decide", "status"}
<1>1. PICK a : a = <<"decide", "status">>  OBVIOUS
<1>2. /\ DOMAIN a = 1..2 /\ a[1] = "decide" /\ a[2] = "status"
  BY <1>1
<1>3. a \in Seq(Steps)  BY <1>1 DEF Steps
<1>4. Range(a) = {"decide", "status"}
  BY <1>2 DEF Range
<1>5. \A x \in Alone : x \in Range(a) => a = <<x>>  BY <1>4 DEF Alone
<1>6. \A n \in DOMAIN a : a[n] = "seek_contractor" => n + 1 \in DOMAIN a /\ a[n + 1] = "create_contractor"  BY <1>2
<1>7. \A p \in Musts : \A n \in DOMAIN a : a[n] = p[1] => \E m \in DOMAIN a : n < m /\ a[m] = p[2]
  BY <1>2 DEF Musts
<1>8. \A p \in Nevers : \A m, n \in DOMAIN a : m < n /\ a[m] = p[1] => a[n] # p[2]
  BY <1>2 DEF Nevers, Firsts, RowSteps, Steps
<1> QED  BY <1>1, <1>3, <1>4, <1>5, <1>6, <1>7, <1>8 DEF Ordered

LEMMA ApproveOrdered ==
  /\ Ordered(<<"decide", "read", "settle", "local">>)
  /\ Range(<<"decide", "read", "settle", "local">>) = {"decide", "read", "settle", "local"}
<1>1. PICK a : a = <<"decide", "read", "settle", "local">>  OBVIOUS
<1>2. /\ DOMAIN a = 1..4 /\ a[1] = "decide" /\ a[2] = "read" /\ a[3] = "settle" /\ a[4] = "local"
  BY <1>1
<1>3. a \in Seq(Steps)  BY <1>1 DEF Steps
<1>4. Range(a) = {"decide", "read", "settle", "local"}
  BY <1>2 DEF Range
<1>5. \A x \in Alone : x \in Range(a) => a = <<x>>  BY <1>4 DEF Alone
<1>6. \A n \in DOMAIN a : a[n] = "seek_contractor" => n + 1 \in DOMAIN a /\ a[n + 1] = "create_contractor"  BY <1>2
<1>7. \A p \in Musts : \A n \in DOMAIN a : a[n] = p[1] => \E m \in DOMAIN a : n < m /\ a[m] = p[2]
  BY <1>2 DEF Musts
<1>8. \A p \in Nevers : \A m, n \in DOMAIN a : m < n /\ a[m] = p[1] => a[n] # p[2]
  BY <1>2 DEF Nevers, Firsts, RowSteps, Steps
<1> QED  BY <1>1, <1>3, <1>4, <1>5, <1>6, <1>7, <1>8 DEF Ordered

LEMMA RejectOrdered ==
  Ordered(<<"decide", "read", "settle">>) /\ Range(<<"decide", "read", "settle">>) = {"decide", "read", "settle"}
<1>1. PICK a : a = <<"decide", "read", "settle">>  OBVIOUS
<1>2. /\ DOMAIN a = 1..3 /\ a[1] = "decide" /\ a[2] = "read" /\ a[3] = "settle"
  BY <1>1
<1>3. a \in Seq(Steps)  BY <1>1 DEF Steps
<1>4. Range(a) = {"decide", "read", "settle"}
  BY <1>2 DEF Range
<1>5. \A x \in Alone : x \in Range(a) => a = <<x>>  BY <1>4 DEF Alone
<1>6. \A n \in DOMAIN a : a[n] = "seek_contractor" => n + 1 \in DOMAIN a /\ a[n + 1] = "create_contractor"  BY <1>2
<1>7. \A p \in Musts : \A n \in DOMAIN a : a[n] = p[1] => \E m \in DOMAIN a : n < m /\ a[m] = p[2]
  BY <1>2 DEF Musts
<1>8. \A p \in Nevers : \A m, n \in DOMAIN a : m < n /\ a[m] = p[1] => a[n] # p[2]
  BY <1>2 DEF Nevers, Firsts, RowSteps, Steps
<1> QED  BY <1>1, <1>3, <1>4, <1>5, <1>6, <1>7, <1>8 DEF Ordered

-----------------------------------------------------------------------------
(* What a request knows stays so *)

\* No table a request refers to loses a row, or what the request relies on in one.
Grow ==
  /\ DOMAIN invoices \subseteq DOMAIN invoices'
  /\ \A i \in DOMAIN invoices : invoices[i].authority = "KSEF" => invoices'[i].authority = "KSEF"
  /\ DOMAIN approvals \subseteq DOMAIN approvals'
  /\ \A a \in DOMAIN approvals : approvals'[a].invoice = approvals[a].invoice

LEMMA AwareStays ==
  ASSUME NEW r, Aware(r), Grow
  PROVE  Aware(r)'
BY DEF Aware, Grow, KnowsRow, KnowsMessage, HasSeen, KnowsChange, KnowsApproval, Corrects, Formed, Left

LEMMA RestingAware ==
  ASSUME NEW r, Resting(r)
  PROVE  Aware(r)'
BY DEF Aware, Resting, KnowsRow, KnowsMessage, HasSeen, KnowsChange, KnowsApproval, Corrects, Formed, Left, RowSteps

Kept == {"row", "message", "seen", "change", "approval", "decision"}

LEMMA AwareOn ==
  ASSUME NEW r, Aware(r), Grow, r.agenda # <<>>, NEW q, NEW s, GoesOn(q, s), q.agenda = r.agenda,
         Same(r, q, Kept \ {"seen"}), Head(r.agenda) \notin {"insert", "settle", "ask"},
         q.seen \in Rows \/ (q.seen = r.seen /\ Head(r.agenda) \notin {"evaluate", "save", "read"})
  PROVE  Aware(s)'
<1>1. CASE Resting(s)  BY <1>1, RestingAware
<1>2. CASE ~Resting(s)
  <2>1. /\ s.agenda = Tail(q.agenda) /\ s.agenda # <<>> /\ Formed(s) /\ Same(q, s, Fields \ {"agenda"})
        /\ Left(s) = Left(r) \ {Head(r.agenda)}
    BY <1>2 DEF GoesOn, Left
  <2>2. /\ s.row = r.row /\ s.message = r.message /\ s.seen = q.seen
        /\ s.change = r.change /\ s.approval = r.approval /\ s.decision = r.decision
    BY <2>1 DEF Same, Kept, Fields
  <2>3. Ordered(r.agenda) /\ Ordered(s.agenda) /\ Left(r) = {Head(r.agenda)} \cup Left(s) /\ Head(r.agenda) \in Steps
    BY <2>1, AheadLemma DEF Aware, Formed, Left
  <2>4. Head(r.agenda) = "local" => "settle" \notin Left(s)
    <3>1. <<"local", "settle">> \in Nevers  BY DEF Nevers
    <3>2. Left(s) = Range(Tail(r.agenda))  BY <2>1 DEF Left
    <3> QED  BY <2>3, <3>1, <3>2, AheadLemma
  <2>5. Aware(r)'  BY AwareStays
  <2>6. KnowsRow(s)'  BY <2>1, <2>2, <2>3, <2>5 DEF Aware, KnowsRow
  <2>7. KnowsMessage(s)'  BY <2>1, <2>2, <2>3, <2>5 DEF Aware, KnowsMessage
  <2>8. HasSeen(s)'  BY <2>1, <2>2, <2>3, <2>4, <2>5 DEF Aware, HasSeen
  <2>9. KnowsChange(s)'  BY <2>1, <2>2, <2>3, <2>4, <2>5 DEF Aware, KnowsChange
  <2>10. KnowsApproval(s)'  BY <2>1, <2>2, <2>3, <2>4, <2>5 DEF Aware, KnowsApproval
  <2>11. Corrects(s)'  BY <2>1, <2>2, <2>3, <2>5 DEF Aware, Corrects
  <2> QED  BY <2>1, <2>6, <2>7, <2>8, <2>9, <2>10, <2>11 DEF Aware
<1> QED  BY <1>1, <1>2

\* The step a request is about to make, and what it still has to do after it.
LEMMA HeadLemma ==
  ASSUME NEW r, Formed(r), r.agenda # <<>>, NEW x, x = Head(r.agenda)
  PROVE  /\ x \in Left(r) /\ x \in Steps
         /\ x \in RowSteps => "insert" \notin Left(r) /\ Left(r) \cap Firsts \subseteq {x}
         /\ x = "insert" => Left(r) \subseteq {"insert", "stats", "evaluate", "flag", "sync", "item"} /\ "evaluate" \in Left(r)
         /\ x = "evaluate" => "flag" \in Left(r)
         /\ x = "authority" => "evaluate" \in Left(r) /\ Left(r) \cap {"local", "save"} = {}
         /\ x = "save" => "evaluate" \in Left(r)
         /\ x = "approve_directly" => "local" \in Left(r) /\ "settle" \notin Left(r)
         /\ x = "settle" => Left(r) \cap {"approve_directly", "decide", "read"} = {}
         /\ x = "local" => Left(r) \cap {"settle", "evaluate", "approve_directly", "read"} = {}
         /\ x = "flag" => "evaluate" \notin Left(r)
         /\ x = "override" => "ask" \notin Left(r)
         /\ x = "rehash" => "save" \notin Left(r)
         /\ x = "ask" => Left(r) \cap {"settle", "decide"} = {}
         /\ x \in Alone => Left(r) = {x} /\ Tail(r.agenda) = <<>>
<1>1. Ordered(r.agenda)  BY DEF Formed
<1>2. /\ Ordered(Tail(r.agenda)) /\ x \in Steps /\ Left(r) = {x} \cup Range(Tail(r.agenda))
      /\ \A p \in Musts : x = p[1] => p[2] \in Left(r)
      /\ \A p \in Nevers : x = p[1] => p[2] \notin Range(Tail(r.agenda))
      /\ x \in Alone => Tail(r.agenda) = <<>> /\ Left(r) = {x}
  BY <1>1, AheadLemma DEF Left
<1>3. \A y \in Steps : <<x, y>> \in Nevers /\ x # y => y \notin Left(r)  BY <1>2
<1>4. x \in RowSteps => "insert" \notin Left(r) /\ Left(r) \cap Firsts \subseteq {x}
  <2> SUFFICES ASSUME x \in RowSteps, NEW y \in Firsts, y # x PROVE y \notin Left(r) /\ x # "insert" /\ "insert" \in Firsts
    BY DEF RowSteps, Firsts
  <2>1. <<x, y>> \in Nevers /\ y \in Steps  BY DEF Nevers, Firsts, RowSteps, Steps
  <2> QED  BY <1>3, <2>1 DEF RowSteps, Firsts
<1>5. ASSUME x = "insert"
      PROVE  Left(r) \subseteq {"insert", "stats", "evaluate", "flag", "sync", "item"} /\ "evaluate" \in Left(r)
  <2>1. \A y \in Steps \ {"insert", "stats", "evaluate", "flag", "sync", "item"} : <<x, y>> \in Nevers /\ x # y
    BY <1>5 DEF Nevers
  <2>2. Left(r) \subseteq Steps  BY <1>1 DEF Ordered, Left, Range
  <2>3. <<"insert", "evaluate">> \in Musts  BY DEF Musts
  <2> QED  BY <1>2, <1>3, <1>5, <2>1, <2>2, <2>3
<1>6. x = "evaluate" => "flag" \in Left(r)  BY <1>2 DEF Musts
<1>7. x = "authority" => "evaluate" \in Left(r) /\ Left(r) \cap {"local", "save"} = {}
  BY <1>2, <1>3, <1>4 DEF Musts, Nevers, Steps, Firsts, RowSteps
<1>8. x = "save" => "evaluate" \in Left(r)  BY <1>2 DEF Musts
<1>9. x = "approve_directly" => "local" \in Left(r) /\ "settle" \notin Left(r)
  BY <1>2, <1>3 DEF Musts, Nevers, Steps
<1>10. x = "settle" => Left(r) \cap {"approve_directly", "decide", "read"} = {}  BY <1>3 DEF Nevers, Steps
<1>11. x = "local" => Left(r) \cap {"settle", "evaluate", "approve_directly", "read"} = {}  BY <1>3 DEF Nevers, Steps
<1>12. x = "ask" => Left(r) \cap {"settle", "decide"} = {}  BY <1>3 DEF Nevers, Steps
<1>13. x = "flag" => "evaluate" \notin Left(r)  BY <1>3 DEF Nevers, Steps
<1>14. x = "rehash" => "save" \notin Left(r)  BY <1>4 DEF RowSteps, Firsts
<1>15. x = "override" => "ask" \notin Left(r)  BY <1>3 DEF Nevers, Steps
<1> QED  BY <1>2, <1>4, <1>5, <1>6, <1>7, <1>8, <1>9, <1>10, <1>11, <1>12, <1>13, <1>14, <1>15

-----------------------------------------------------------------------------
(* Steps of a request *)

Becomes(o, s) == request' = [request EXCEPT ![o] = s]

LEMMA BecomesLemma ==
  ASSUME AwareInv, NEW o \in Operators, NEW s, Becomes(o, s)
  PROVE  DOMAIN request' = Operators /\ request'[o] = s /\ \A p \in Operators : p # o => request'[p] = request[p]
BY DEF AwareInv, Becomes

LEMMA AwareStep ==
  ASSUME AwareInv, Grow, NEW o \in Operators, NEW s, Becomes(o, s), Aware(s)'
  PROVE  AwareInv'
<1>1. DOMAIN request' = Operators /\ request'[o] = s /\ \A p \in Operators : p # o => request'[p] = request[p]
  BY BecomesLemma
<1>2. ASSUME NEW p \in Operators, p # o PROVE Aware(request[p])'
  <2>1. PICK r : r = request[p]  OBVIOUS
  <2>2. Aware(r)'  BY <2>1, AwareStays DEF AwareInv
  <2>3. r = request'[p]  BY <1>1, <1>2, <2>1
  <2> QED  BY <2>2, <2>3
<1>3. Aware(request[o])'  BY <1>1
<1> QED  BY <1>1, <1>2, <1>3 DEF AwareInv

\* The runs but the request's own keep their status.
KeepsRuns(k) ==
  /\ runs' \in Seq(RunRows) /\ DOMAIN runs \subseteq DOMAIN runs'
  /\ \A l \in DOMAIN runs : l # k => runs'[l].status = runs[l].status

LEMMA RunsStep ==
  ASSUME RunsInv, AwareInv, NEW o \in Operators, NEW s, Becomes(o, s), KeepsRuns(request[o].run), Conducts(s)',
         s.run \notin DOMAIN runs \ {request[o].run}
  PROVE  RunsInv'
<1>1. DOMAIN request' = Operators /\ request'[o] = s /\ \A p \in Operators : p # o => request'[p] = request[p]
  BY BecomesLemma
<1>2. ASSUME NEW p \in Operators, p # o PROVE Conducts(request[p])'
  <2>1. PICK r : r = request[p]  OBVIOUS
  <2>2. Conducts(r) /\ (r.run # 0 => r.run # request[o].run)  BY <1>2, <2>1 DEF RunsInv
  <2>3. r.run # 0 => r.run \in DOMAIN runs' /\ runs'[r.run].status = runs[r.run].status
    BY <2>2 DEF KeepsRuns, Conducts
  <2>4. Conducts(r)'  BY <2>2, <2>3 DEF Conducts, Left
  <2>5. r = request'[p]  BY <1>1, <1>2, <2>1
  <2> QED  BY <2>4, <2>5
<1>3. Conducts(request[o])'  BY <1>1
<1>4. ASSUME NEW p \in Operators, NEW q \in Operators, p # q, request'[p].run # 0
      PROVE  request'[p].run # request'[q].run
  <2>1. \A x, y \in Operators : x # y /\ request[x].run # 0 => request[x].run # request[y].run  BY DEF RunsInv
  <2>2. \A x \in Operators : request[x].run \in {0} \cup DOMAIN runs  BY DEF RunsInv, Conducts
  <2> QED  BY <1>1, <1>4, <2>1, <2>2
<1> QED  BY <1>2, <1>3, <1>4 DEF RunsInv, KeepsRuns

LEMMA ConductsOn ==
  ASSUME NEW r, Conducts(r), Formed(r), r.agenda # <<>>, NEW q, DOMAIN q = Fields, Same(r, q, {"agenda", "run", "messages"}),
         NEW s, GoesOn(q, s), KeepsRuns(0)
  PROVE  Conducts(s)' /\ s.run \in {0, r.run}
<1>1. q.run = r.run /\ q.messages = r.messages /\ q.agenda = r.agenda  BY DEF Same
<1>2. r.run # 0 => r.messages \in Seq(Messages) /\ r.run \in DOMAIN runs' /\ runs'[r.run].status = "running"
  BY DEF Conducts, KeepsRuns
<1>3. CASE s = Onward(q)
  <2>1. CASE q.run = 0  BY <2>1, <1>3, OnwardLemma, IdleLemma DEF Conducts, Left
  <2>2. CASE q.run # 0 /\ q.messages = <<>>
    <3>1. Left(s) = {"finalize"} /\ s.run = q.run /\ s.messages = <<>>  BY <1>3, <2>2, OnwardLemma
    <3>2. s.messages \in Seq(Messages) /\ s.run = r.run /\ s.run # 0  BY <1>1, <2>2, <3>1
    <3> QED  BY <1>2, <3>1, <3>2 DEF Conducts, Left
  <2>3. CASE q.run # 0 /\ q.messages # <<>>
    BY <1>1, <1>2, <1>3, <2>3, OnwardLemma DEF Conducts, Left
  <2> QED  BY <2>1, <2>2, <2>3
<1>4. CASE s # Onward(q)
  <2>1. Same(q, s, Fields \ {"agenda"}) /\ Left(s) \subseteq Left(r) /\ s.agenda = Tail(r.agenda) /\ s.agenda # <<>>
    BY <1>1, <1>4 DEF GoesOn, Left
  <2>2. s.run = r.run /\ s.messages = r.messages  BY <1>1, <2>1 DEF Same, Fields
  <2>3. Left(s) \cap Alone = {}
    <3>1. \A x \in Alone : x \in Range(r.agenda) => r.agenda = <<x>>  BY DEF Formed, Ordered
    <3>2. \A x : Tail(<<x>>) = <<>>  BY RangeSingle
    <3> QED  BY <2>1, <3>1, <3>2 DEF Left
  <2>4. Left(s) \cap {"fetch", "look_up", "finalize"} = {}  BY <2>3 DEF Alone
  <2> QED  BY <1>2, <2>2, <2>4 DEF Conducts, Left
<1> QED  BY <1>3, <1>4

\* A transaction of a request, and no change of its run's status.
LEMMA DoneStep ==
  ASSUME RunsInv, AwareInv, NEW o \in Operators, Working(o), NEW q, Formed(q),
         Same(request[o], q, {"agenda", "run", "messages"}), Done(o, q), KeepsRuns(0)
  PROVE  RunsInv' /\ \E s : Becomes(o, s) /\ GoesOn(q, s)
<1>1. PICK s : s = Then(q, Tail(q.agenda))  OBVIOUS
<1>2. PICK r : r = request[o]  OBVIOUS
<1>3. q.agenda = r.agenda /\ r.agenda # <<>>  BY <1>2 DEF Same, Working
<1>4. GoesOn(q, s)  BY <1>1, <1>3, GoesOnLemma
<1>5. Becomes(o, s)  BY <1>1 DEF Done, Becomes
<1>6. Conducts(r) /\ Formed(r) /\ Same(r, q, {"agenda", "run", "messages"})
  BY <1>2 DEF RunsInv, AwareInv, Aware
<1>7. DOMAIN q = Fields  BY DEF Formed
<1>8. Conducts(s)' /\ s.run \in {0, r.run}  BY <1>3, <1>4, <1>6, <1>7, ConductsOn
<1>9. s.run \notin DOMAIN runs \ {request[o].run}
  <2>1. 0 \notin DOMAIN runs  BY DEF RunsInv
  <2> QED  BY <1>2, <1>8, <2>1
<1>10. KeepsRuns(request[o].run)  BY DEF KeepsRuns
<1>11. RunsInv'  BY <1>5, <1>8, <1>9, <1>10, RunsStep
<1> QED  BY <1>4, <1>5, <1>11

-----------------------------------------------------------------------------
(* Rows *)

BaseInv == RowsInv /\ PapersInv /\ AwareInv /\ RunsInv

\* What is stored about a message came from it or from KSeF.
Traced(row) == row.external = row.file \/ Paper[row.external].source = "KSEF"

LEMMA PaperValues ==
  \A m \in Messages : /\ \A f \in KsefFields : Paper[m][f] \in Values
                      /\ {Paper[m].ksef, Paper[m].number, Paper[m].supplier} \subseteq Values
<1>1. \A m \in Messages : \A f \in KsefFields : Paper[m][f] \in Values
  <2> SUFFICES ASSUME NEW m \in Messages, NEW f \in KsefFields PROVE Paper[m][f] \in Values
    OBVIOUS
  <2>1. PICK S : S = {Paper[m][g] : g \in KsefFields}  OBVIOUS
  <2>2. Paper[m][f] \in S  BY <2>1
  <2>3. S \in {{Paper[n][g] : g \in KsefFields} : n \in Messages}  BY <2>1
  <2> QED  BY <2>2, <2>3 DEF Values
<1> QED  BY <1>1 DEF KsefFields

LEMMA HashLemma ==
  ASSUME NEW row \in Rows
  PROVE  Hash(row) \in Hashes /\ [row EXCEPT !.hash = Hash(row)] \in Rows
<1>1. Hash(row) \in Hashes  BY DEF Rows, Hash, Hashes
<1> QED  BY <1>1 DEF Rows

LEMMA NewRow ==
  ASSUME NEW m \in Messages, NEW row, row = NewInvoice(m)
  PROVE  /\ row \in Rows /\ row.file = m /\ row.external = m
         /\ row.ksef = Paper[m].ksef /\ row.number = Paper[m].number /\ row.supplier = Paper[m].supplier
         /\ row.source = Paper[m].source
         /\ [row EXCEPT !.hash = Hash(row)] \in Rows /\ Traced([row EXCEPT !.hash = Hash(row)])
<1>1. /\ {Paper[m].ksef, Paper[m].number, Paper[m].supplier} \subseteq Values
      /\ Paper[m].source \in Sources /\ Paper[m].weak \in BOOLEAN
  BY PaperValues, InvoicesAssumption
<1>2. [f \in KsefFields |-> NoValue] \in [KsefFields -> Values]  BY DEF Values
<1>3. NoValue \in Hashes  BY DEF Hashes
<1>4. row \in Rows /\ row.file = m /\ row.external = m
  <2>1. PICK st : st = IF Paper[m].weak THEN "weryfikacja" ELSE "nowa"  OBVIOUS
  <2>2. PICK rs : rs = IF Paper[m].weak THEN "ocr" ELSE "none"  OBVIOUS
  <2>3. st \in Statuses /\ rs \in {"none", "ocr", "manual", "duplicate"}  BY <2>1, <2>2 DEF Statuses
  <2> QED  BY <1>1, <1>2, <1>3, <2>1, <2>2, <2>3 DEF Rows, NewInvoice
<1>5. [row EXCEPT !.hash = Hash(row)] \in Rows  BY <1>4, HashLemma
<1>6. Traced([row EXCEPT !.hash = Hash(row)])  BY <1>4 DEF Traced, Rows
<1> QED  BY <1>4, <1>5, <1>6 DEF NewInvoice

\* An invoice changed in place.
LEMMA RowStep ==
  ASSUME RowsInv, NEW i \in DOMAIN invoices, NEW row \in Rows, Traced(row),
         invoices[i].authority = "KSEF" => row.authority = "KSEF", invoices' = [invoices EXCEPT ![i] = row]
  PROVE  /\ RowsInv' /\ DOMAIN invoices' = DOMAIN invoices /\ Len(invoices') = Len(invoices)
         /\ invoices'[i] = row /\ \A j \in DOMAIN invoices : j # i => invoices'[j] = invoices[j]
         /\ \A j \in DOMAIN invoices : invoices[j].authority = "KSEF" => invoices'[j].authority = "KSEF"
<1>1. invoices \in Seq(Rows)  BY DEF RowsInv
<1>2. /\ invoices' \in Seq(Rows) /\ DOMAIN invoices' = DOMAIN invoices /\ Len(invoices') = Len(invoices)
      /\ invoices'[i] = row /\ \A j \in DOMAIN invoices : j # i => invoices'[j] = invoices[j]
  BY <1>1
<1>3. \A j \in DOMAIN invoices : Traced(invoices[j])  BY DEF RowsInv, Traced
<1>4. \A j \in DOMAIN invoices' : Traced(invoices'[j])  BY <1>2, <1>3
<1>5. RowsInv'  BY <1>2, <1>4 DEF RowsInv, Traced
<1> QED  BY <1>2, <1>5

LEMMA RowAdded ==
  ASSUME RowsInv, NEW row \in Rows, Traced(row), invoices' = Append(invoices, row)
  PROVE  /\ RowsInv' /\ DOMAIN invoices' = DOMAIN invoices \cup {Len(invoices) + 1}
         /\ invoices'[Len(invoices) + 1] = row /\ \A j \in DOMAIN invoices : invoices'[j] = invoices[j]
         /\ Len(invoices) + 1 \notin DOMAIN invoices /\ DOMAIN invoices \subseteq Nat \ {0}
<1>1. invoices \in Seq(Rows)  BY DEF RowsInv
<1>2. /\ invoices' \in Seq(Rows) /\ DOMAIN invoices' = DOMAIN invoices \cup {Len(invoices) + 1}
      /\ invoices'[Len(invoices) + 1] = row /\ \A j \in DOMAIN invoices : invoices'[j] = invoices[j]
      /\ Len(invoices) + 1 \notin DOMAIN invoices /\ DOMAIN invoices \subseteq Nat \ {0}
  BY <1>1
<1>3. \A j \in DOMAIN invoices : Traced(invoices[j])  BY DEF RowsInv, Traced
<1>4. \A j \in DOMAIN invoices' : Traced(invoices'[j])  BY <1>2, <1>3
<1>5. RowsInv'  BY <1>2, <1>4 DEF RowsInv, Traced
<1> QED  BY <1>2, <1>5

LEMMA PapersStay ==
  ASSUME PapersInv, UNCHANGED correcting, DOMAIN invoices \subseteq DOMAIN invoices',
         \A i \in DOMAIN invoices : invoices[i].authority = "KSEF" => invoices'[i].authority = "KSEF"
  PROVE  PapersInv' /\ Grow
BY DEF PapersInv, Grow, correcting

-----------------------------------------------------------------------------
(* Steps about the invoice a request knows *)

NewKnowledge == {"evaluate", "insert", "save", "read", "settle", "ask"}

\* A transaction that leaves the invoices and the corrections alone.
LEMMA ElsewhereStep ==
  ASSUME BaseInv, NEW o \in Operators, Working(o), NEW q, Formed(q),
         Same(request[o], q, Kept \cup {"agenda", "run", "messages"}), Done(o, q), KeepsRuns(0),
         UNCHANGED <<invoices, correcting>>, Head(request[o].agenda) \notin NewKnowledge
  PROVE  BaseInv'
<1>1. RowsInv /\ PapersInv /\ AwareInv /\ RunsInv  BY DEF BaseInv
<1>2. RowsInv'  BY <1>1 DEF RowsInv
<1>3. PapersInv' /\ Grow  BY <1>1, PapersStay
<1>4. /\ Same(request[o], q, {"agenda", "run", "messages"}) /\ q.agenda = request[o].agenda
      /\ Same(request[o], q, Kept \ {"seen"}) /\ q.seen = request[o].seen
  BY DEF Same, Kept
<1>5. RunsInv' /\ \E s : Becomes(o, s) /\ GoesOn(q, s)  BY <1>1, <1>4, DoneStep
<1>6. PICK s : Becomes(o, s) /\ GoesOn(q, s)  BY <1>5
<1>7. PICK r : r = request[o]  OBVIOUS
<1>8. Aware(r) /\ r.agenda # <<>>  BY <1>1, <1>7 DEF AwareInv, Working
<1>9. Aware(s)'  BY <1>3, <1>4, <1>6, <1>7, <1>8, AwareOn DEF NewKnowledge
<1>10. AwareInv'  BY <1>1, <1>3, <1>6, <1>9, AwareStep
<1> QED  BY <1>2, <1>3, <1>5, <1>10 DEF BaseInv

\* What a request becomes, whatever it was.
LEMMA BecomesStep ==
  ASSUME BaseInv, NEW o \in Operators, NEW s, Becomes(o, s), Aware(s)', Conducts(s)',
         s.run \notin DOMAIN runs \ {request[o].run}, KeepsRuns(request[o].run), Grow, RowsInv', PapersInv'
  PROVE  BaseInv'
<1>1. AwareInv /\ RunsInv  BY DEF BaseInv
<1>2. AwareInv'  BY <1>1, AwareStep
<1>3. RunsInv'  BY <1>1, RunsStep
<1> QED  BY <1>2, <1>3 DEF BaseInv

LEMMA IdleStep ==
  ASSUME BaseInv, NEW o \in Operators, Becomes(o, Idle), KeepsRuns(request[o].run), Grow, RowsInv', PapersInv'
  PROVE  BaseInv'
<1>1. Aware(Idle)'
  <2>1. PICK r : r = Idle  OBVIOUS
  <2>2. Aware(r)'  BY <2>1, IdleLemma, RestingAware
  <2>3. r = Idle'  BY <2>1 DEF Idle
  <2> QED  BY <2>2, <2>3
<1>2. Conducts(Idle)'  BY IdleLemma DEF Conducts, Left
<1>3. Idle.run \notin DOMAIN runs \ {request[o].run}
  <2>1. 0 \notin DOMAIN runs  BY DEF BaseInv, RunsInv
  <2> QED  BY <2>1, IdleLemma
<1> QED  BY <1>1, <1>2, <1>3, BecomesStep

\* A transaction that tells the request something new, or changes what others see.
LEMMA KnowingStep ==
  ASSUME BaseInv, NEW o \in Operators, Working(o), NEW q, Formed(q),
         Same(request[o], q, {"agenda", "run", "messages"}), Done(o, q), KeepsRuns(0), Grow, RowsInv', PapersInv',
         \A s : GoesOn(q, s) => Aware(s)'
  PROVE  BaseInv'
<1>1. AwareInv /\ RunsInv  BY DEF BaseInv
<1>2. RunsInv' /\ \E s : Becomes(o, s) /\ GoesOn(q, s)  BY <1>1, DoneStep
<1>3. PICK s : Becomes(o, s) /\ GoesOn(q, s)  BY <1>2
<1>4. Aware(s)'  BY <1>3
<1>5. AwareInv'  BY <1>1, <1>3, <1>4, AwareStep
<1> QED  BY <1>2, <1>5 DEF BaseInv

\* What a request at work is known to be.
LEMMA WorkingLemma ==
  ASSUME BaseInv, NEW o \in Operators, NEW r, r = request[o], NEW x, Does(o, x)
  PROVE  /\ Working(o) /\ r.agenda # <<>> /\ Head(r.agenda) = x /\ Aware(r) /\ Conducts(r)
         /\ Formed(r) /\ DOMAIN r = Fields /\ r.type \in Kinds /\ x \in Left(r)
         /\ x \in RowSteps => r.row \in DOMAIN invoices
<1>1. Working(o) /\ r.agenda # <<>> /\ Head(r.agenda) = x /\ Aware(r) /\ Conducts(r)
  BY DEF Does, Working, BaseInv, AwareInv, RunsInv
<1>2. Formed(r) /\ DOMAIN r = Fields /\ r.type \in Kinds /\ KnowsRow(r)  BY <1>1 DEF Aware, Formed
<1>3. x \in Left(r) /\ (x \in RowSteps => "insert" \notin Left(r))  BY <1>1, <1>2, HeadLemma
<1>4. x \in RowSteps => r.row \in DOMAIN invoices  BY <1>2, <1>3 DEF KnowsRow
<1> QED  BY <1>1, <1>2, <1>3, <1>4

LEMMA RunsAlone == RunsInv /\ UNCHANGED runs => \A k : KeepsRuns(k)
BY DEF RunsInv, KeepsRuns

-----------------------------------------------------------------------------
(* The base of the invariant, action by action: imports *)

LEMMA FetchBase ==
  ASSUME BaseInv, NEW o \in Operators, Fetch(o)
  PROVE  BaseInv'
<1>1. PICK r : r = request[o]  OBVIOUS
<1>2. Does(o, "fetch") /\ Done(o, r) /\ UNCHANGED <<invoices, correcting, runs>>
  BY <1>1 DEF Fetch, importing
<1>3. Working(o) /\ Formed(r) /\ Head(r.agenda) = "fetch"  BY <1>1, <1>2, WorkingLemma
<1>4. KeepsRuns(0)  BY <1>2, RunsAlone DEF BaseInv
<1>5. Same(request[o], r, Kept \cup {"agenda", "run", "messages"})  BY <1>1 DEF Same
<1>6. UNCHANGED <<invoices, correcting>> /\ Head(request[o].agenda) \notin NewKnowledge
  BY <1>1, <1>2, <1>3 DEF NewKnowledge
<1> QED  BY <1>2, <1>3, <1>4, <1>5, <1>6, ElsewhereStep

LEMMA AddItemBase ==
  ASSUME BaseInv, NEW o \in Operators, AddItem(o)
  PROVE  BaseInv'
<1>1. PICK r : r = request[o]  OBVIOUS
<1>2. Does(o, "item") /\ Done(o, r) /\ UNCHANGED <<invoices, correcting>>
  BY <1>1 DEF AddItem
<1>3. Working(o) /\ Formed(r) /\ Head(r.agenda) = "item" /\ Conducts(r)  BY <1>1, <1>2, WorkingLemma
<1>4. KeepsRuns(0)
  <2>1. runs \in Seq(RunRows)  BY DEF BaseInv, RunsInv
  <2>2. CASE r.run = 0  BY <1>1, <2>1, <2>2 DEF AddItem, KeepsRuns
  <2>3. CASE r.run # 0
    <3>1. r.run \in DOMAIN runs  BY <1>3, <2>3 DEF Conducts
    <3>2. PICK d \in {0, 1} : d = IF r.outcome = "imported" THEN 1 ELSE 0  OBVIOUS
    <3>3. PICK e \in {0, 1} : e = IF r.outcome = "skipped_error" THEN 1 ELSE 0  OBVIOUS
    <3>4. runs[r.run] \in RunRows  BY <2>1, <3>1
    <3>5. PICK i \in Nat : i = runs[r.run].imported + d  BY <3>4 DEF RunRows
    <3>6. PICK n \in Nat : n = runs[r.run].errors + e  BY <3>4 DEF RunRows
    <3>7. PICK row : row = [runs[r.run] EXCEPT !.imported = i, !.errors = n]  OBVIOUS
    <3>8. runs' = [runs EXCEPT ![r.run] = row]
      BY <1>1, <2>3, <3>1, <3>2, <3>3, <3>5, <3>6, <3>7 DEF AddItem
    <3>9. row \in RunRows /\ row.status = runs[r.run].status  BY <3>4, <3>7 DEF RunRows
    <3> QED  BY <2>1, <3>1, <3>8, <3>9 DEF KeepsRuns
  <2> QED  BY <2>2, <2>3
<1>5. Same(request[o], r, Kept \cup {"agenda", "run", "messages"})  BY <1>1 DEF Same
<1>6. Head(request[o].agenda) \notin NewKnowledge  BY <1>1, <1>3 DEF NewKnowledge
<1> QED  BY <1>2, <1>3, <1>4, <1>5, <1>6, ElsewhereStep

\* The request has found its message, and no invoice it is about yet.
LEMMA StartingLemma ==
  ASSUME NEW s, DOMAIN s = Fields, s.type \in Kinds, s.row = 0, s.message \in Messages,
         s.agenda \in {Starting(s.message), Creation, <<"item">>}
  PROVE  /\ Aware(s)' /\ Left(s) \cap {"fetch", "look_up", "finalize"} = {} /\ s.agenda # <<>>
         /\ "candidate" \in Left(s) => Paper[s.message].source = "KSEF"
<1>1. s.agenda \in {Creation, <<"item">>} \/ (s.agenda = <<"candidate">> /\ Paper[s.message].source = "KSEF")
  BY DEF Starting
<1>2. CASE s.agenda = Creation
  <2>1. Ordered(s.agenda)
        /\ Left(s) = {"seek_contractor", "create_contractor", "insert", "stats", "evaluate", "flag", "sync", "item"}
    BY <1>2, CreationOrdered DEF Left
  <2>2. s.agenda # <<>>  BY <1>2 DEF Creation
  <2>3. "insert" \in Left(s) /\ "evaluate" \in Left(s)
        /\ Left(s) \cap {"look_up", "candidate", "authority", "rehash", "local", "save", "approve_directly",
                          "ask", "override", "decide", "settle", "fetch", "finalize"} = {}
    BY <2>1
  <2> QED
    BY <2>1, <2>2, <2>3
       DEF Aware, Formed, KnowsRow, KnowsMessage, HasSeen, KnowsChange, KnowsApproval, Corrects, Left
<1>3. ASSUME NEW x \in {"item", "candidate"}, s.agenda = <<x>>, x = "candidate" => Paper[s.message].source = "KSEF"
      PROVE  /\ Aware(s)' /\ Left(s) \cap {"fetch", "look_up", "finalize"} = {} /\ s.agenda # <<>>
             /\ "candidate" \in Left(s) => Paper[s.message].source = "KSEF"
  <2>1. Left(s) = {x} /\ s.agenda # <<>>  BY <1>3, RangeSingle DEF Left
  <2>2. Ordered(s.agenda)  BY <1>3, OrderedSingle DEF Steps, Musts
  <2>3. x \notin RowSteps  BY DEF RowSteps
  <2> QED
    BY <1>3, <2>1, <2>2, <2>3
       DEF Aware, Formed, KnowsRow, KnowsMessage, HasSeen, KnowsChange, KnowsApproval, Corrects, Left
<1> QED  BY <1>1, <1>2, <1>3

LEMMA LookUpBase ==
  ASSUME BaseInv, NEW o \in Operators, LookUp(o)
  PROVE  BaseInv'
<1>1. PICK r : r = request[o]  OBVIOUS
<1>2. Does(o, "look_up") /\ UNCHANGED <<invoices, correcting, runs>>
  BY DEF LookUp, importing
<1>3. /\ r.agenda # <<>> /\ Head(r.agenda) = "look_up" /\ Conducts(r) /\ DOMAIN r = Fields /\ r.type \in Kinds
      /\ "look_up" \in Left(r) /\ Formed(r) /\ Aware(r)
  BY <1>1, <1>2, WorkingLemma
<1>4. PICK m : m = Head(r.messages)  OBVIOUS
<1>5. PICK rest : rest = Tail(r.messages)  OBVIOUS
<1>6. m \in Messages /\ rest \in Seq(Messages) /\ r.run \in DOMAIN runs
  BY <1>3, <1>4, <1>5 DEF Conducts
<1>7. PICK q : q = [r EXCEPT !.messages = rest]  OBVIOUS
<1>8. PICK a : a = IF Imported(m) = {} THEN Starting(m) ELSE <<"item">>  OBVIOUS
<1>9. PICK u : u = IF Imported(m) = {} THEN "imported" ELSE "skipped_existing"  OBVIOUS
<1>10. PICK s : s = [q EXCEPT !.message = m, !.agenda = a, !.outcome = u]  OBVIOUS
<1>11. Becomes(o, s)
  <2>1. CASE Imported(m) = {}
    BY <1>1, <1>4, <1>5, <1>7, <1>8, <1>9, <1>10, <2>1 DEF LookUp, Becomes, Import
  <2>2. CASE Imported(m) # {}
    BY <1>1, <1>4, <1>5, <1>7, <1>8, <1>9, <1>10, <2>2 DEF LookUp, Becomes
  <2> QED  BY <2>1, <2>2
<1>12. DOMAIN q = Fields /\ q.messages = rest /\ \A f \in Fields \ {"messages"} : q[f] = r[f]
  BY <1>3, <1>7 DEF Fields
<1>13. /\ DOMAIN s = Fields /\ s.messages = rest /\ s.run = r.run /\ s.type = r.type /\ s.message = m /\ s.agenda = a
       /\ s.row = r.row
  BY <1>10, <1>12 DEF Fields
<1>14. r.row = 0  BY <1>3 DEF Aware, KnowsRow
<1>15. a \in {Starting(s.message), Creation, <<"item">>}  BY <1>8, <1>13
<1>16. /\ Aware(s)' /\ Left(s) \cap {"fetch", "look_up", "finalize"} = {}
  <2>1. s.type \in Kinds /\ s.row = 0 /\ s.message \in Messages /\ s.agenda \in {Starting(s.message), Creation, <<"item">>}
    BY <1>3, <1>6, <1>13, <1>14, <1>15
  <2> QED  BY <1>13, <2>1, StartingLemma
<1>17. KeepsRuns(r.run)  BY <1>2, RunsAlone DEF BaseInv
<1>18. Conducts(s)'
  <2>1. s.run \in DOMAIN runs' /\ runs'[s.run].status = "running" /\ s.messages \in Seq(Messages)
    BY <1>2, <1>3, <1>6, <1>13 DEF Conducts
  <2> QED  BY <1>16, <2>1 DEF Conducts, Left
<1>19. RowsInv' /\ PapersInv' /\ Grow
  <2>1. RowsInv'  BY <1>2 DEF BaseInv, RowsInv
  <2>2. PapersInv' /\ Grow  BY <1>2, PapersStay DEF BaseInv
  <2> QED  BY <2>1, <2>2
<1> QED  BY <1>1, <1>11, <1>13, <1>16, <1>17, <1>18, <1>19, BecomesStep

\* A request that ends, well or not.
LEMMA EndingBase ==
  ASSUME BaseInv, NEW o \in Operators, Becomes(o, Idle), UNCHANGED <<invoices, correcting>>, KeepsRuns(request[o].run)
  PROVE  BaseInv'
<1>1. RowsInv'  BY DEF BaseInv, RowsInv
<1>2. PapersInv' /\ Grow  BY PapersStay DEF BaseInv
<1> QED  BY <1>1, <1>2, IdleStep

LEMMA EndHalfWayBase ==
  ASSUME BaseInv, NEW o \in Operators, EndHalfWay(o), UNCHANGED <<invoices, correcting, runs>>
  PROVE  BaseInv'
<1>1. Becomes(o, Idle)  BY DEF EndHalfWay, Becomes
<1>2. KeepsRuns(request[o].run)  BY RunsAlone DEF BaseInv
<1> QED  BY <1>1, <1>2, EndingBase

LEMMA EndRunBase ==
  ASSUME BaseInv, NEW o \in Operators, Becomes(o, Idle), UNCHANGED <<invoices, correcting>>, NEW st,
         request[o].run \in DOMAIN runs, runs' = [runs EXCEPT ![request[o].run].status = st],
         st \in {"failed", "completed", "completed_with_issues", "no_new_documents"}
  PROVE  BaseInv'
<1>1. runs \in Seq(RunRows)  BY DEF BaseInv, RunsInv
<1>2. PICK k : k = request[o].run  OBVIOUS
<1>3. PICK row : row = [runs[k] EXCEPT !.status = st]  OBVIOUS
<1>4. runs' = [runs EXCEPT ![k] = row]  BY <1>2, <1>3
<1>5. runs[k] \in RunRows  BY <1>1, <1>2
<1>6. row \in RunRows  BY <1>3, <1>5 DEF RunRows
<1>7. KeepsRuns(k)  BY <1>1, <1>2, <1>4, <1>6 DEF KeepsRuns
<1> QED  BY <1>2, <1>7, EndingBase

LEMMA FetchFailsBase ==
  ASSUME BaseInv, NEW o \in Operators, FetchFails(o)
  PROVE  BaseInv'
<1>1. Does(o, "fetch") /\ Becomes(o, Idle) /\ UNCHANGED <<invoices, correcting>>
  BY DEF FetchFails, Becomes
<1>2. request[o].run \in DOMAIN runs
  <2>1. Conducts(request[o]) /\ "fetch" \in Left(request[o])  BY <1>1, WorkingLemma
  <2> QED  BY <2>1 DEF Conducts
<1>3. runs' = [runs EXCEPT ![request[o].run].status = "failed"]  BY DEF FetchFails
<1> QED  BY <1>1, <1>2, <1>3, EndRunBase

LEMMA FinalizeBase ==
  ASSUME BaseInv, NEW o \in Operators, Finalize(o)
  PROVE  BaseInv'
<1>1. Does(o, "finalize") /\ Becomes(o, Idle) /\ UNCHANGED <<invoices, correcting>>
  BY DEF Finalize, Becomes
<1>2. request[o].run \in DOMAIN runs
  <2>1. Conducts(request[o]) /\ "finalize" \in Left(request[o])  BY <1>1, WorkingLemma
  <2> QED  BY <2>1 DEF Conducts
<1>3. PICK st : st = Finished(runs[request[o].run])  OBVIOUS
<1>4. runs' = [runs EXCEPT ![request[o].run].status = st]  BY <1>3 DEF Finalize
<1>5. st \in {"failed", "completed", "completed_with_issues", "no_new_documents"}
  <2>1. runs[request[o].run] \in RunRows  BY <1>2 DEF BaseInv, RunsInv
  <2>2. runs[request[o].run].errors \in Nat /\ runs[request[o].run].imported \in Nat  BY <2>1 DEF RunRows
  <2> QED  BY <1>3, <2>2 DEF Finished
<1> QED  BY <1>1, <1>2, <1>4, <1>5, EndRunBase

\* A run that starts.
LEMMA CheckBase ==
  ASSUME BaseInv, NEW o \in Operators, NEW source \in {"EMAIL", "KSEF"}, NEW inbox \in Seq(Messages),
         Becomes(o, [Idle EXCEPT !.agenda = <<"fetch">>, !.messages = inbox, !.run = Len(runs) + 1]),
         runs' = Append(runs, StartRun(source)), UNCHANGED <<invoices, correcting>>
  PROVE  BaseInv'
<1>1. runs \in Seq(RunRows)  BY DEF BaseInv, RunsInv
<1>2. PICK row : row = StartRun(source)  OBVIOUS
<1>3. row \in RunRows /\ row.status = "running"  BY <1>2 DEF StartRun, RunRows
<1>4. PICK k : k = Len(runs) + 1  OBVIOUS
<1>5. runs' \in Seq(RunRows) /\ DOMAIN runs' = DOMAIN runs \cup {k} /\ runs'[k] = row /\ k \notin DOMAIN runs /\ k # 0
      /\ \A l \in DOMAIN runs : runs'[l] = runs[l]
  BY <1>1, <1>2, <1>3, <1>4
<1>6. PICK s : s = [Idle EXCEPT !.agenda = <<"fetch">>, !.messages = inbox, !.run = k]  OBVIOUS
<1>7. Becomes(o, s)  BY <1>4, <1>6
<1>8. DOMAIN s = Fields /\ s.agenda = <<"fetch">> /\ s.messages = inbox /\ s.run = k /\ s.row = 0 /\ s.type = "brak"
  BY <1>6 DEF Idle, Fields
<1>9. Left(s) = {"fetch"}  BY <1>8, RangeSingle DEF Left
<1>10. Ordered(s.agenda)  BY <1>8, OrderedSingle DEF Steps, Musts
<1>11. Aware(s)'
  BY <1>8, <1>9, <1>10
     DEF Aware, Formed, KnowsRow, KnowsMessage, HasSeen, KnowsChange, KnowsApproval, Corrects, Left, RowSteps, Kinds
<1>12. Conducts(s)'  BY <1>3, <1>5, <1>8, <1>9 DEF Conducts, Left
<1>13. KeepsRuns(request[o].run)  BY <1>5 DEF KeepsRuns
<1>14. RowsInv'  BY DEF BaseInv, RowsInv
<1>15. PapersInv' /\ Grow  BY PapersStay DEF BaseInv
<1> QED  BY <1>5, <1>7, <1>8, <1>11, <1>12, <1>13, <1>14, <1>15, BecomesStep

\* A request without a run.
LEMMA BeginBase ==
  ASSUME BaseInv, NEW o \in Operators, NEW s, Becomes(o, s), s.run = 0, Aware(s),
         Left(s) \cap {"fetch", "look_up", "finalize"} = {}, UNCHANGED <<invoices, correcting, runs>>
  PROVE  BaseInv'
<1>1. RowsInv'  BY DEF BaseInv, RowsInv
<1>2. PapersInv' /\ Grow  BY PapersStay DEF BaseInv
<1>3. Aware(s)'  BY <1>2, AwareStays
<1>4. KeepsRuns(request[o].run)  BY RunsAlone DEF BaseInv
<1>5. Conducts(s)'  BY DEF Conducts, Left
<1>6. s.run \notin DOMAIN runs \ {request[o].run}
  <2>1. 0 \notin DOMAIN runs  BY DEF BaseInv, RunsInv
  <2> QED  BY <2>1
<1> QED  BY <1>1, <1>2, <1>3, <1>4, <1>5, <1>6, BecomesStep

LEMMA UploadBase ==
  ASSUME BaseInv, NEW o \in Operators, Upload(o)
  PROVE  BaseInv'
<1>1. PICK m \in Messages : Paper[m].source = "TELEGRAM" /\ Begin(o, Import(Idle, m))
  BY DEF Upload
<1>2. UNCHANGED <<invoices, correcting, runs>>  BY DEF Upload, importing
<1>3. PICK a : a = Starting(m)  OBVIOUS
<1>4. PICK s : s = [Idle EXCEPT !.message = m, !.agenda = a, !.outcome = "imported"]  OBVIOUS
<1>5. Becomes(o, s)  BY <1>1, <1>3, <1>4 DEF Begin, Import, Becomes
<1>6. DOMAIN s = Fields /\ s.agenda = a /\ s.message = m /\ s.run = 0 /\ s.row = 0 /\ s.type = "brak"
  BY <1>4 DEF Idle, Fields
<1>7. s.type \in Kinds /\ s.message \in Messages /\ s.agenda \in {Starting(s.message), Creation, <<"item">>}
  BY <1>3, <1>6 DEF Kinds
<1>8. Aware(s)' /\ Left(s) \cap {"fetch", "look_up", "finalize"} = {}  BY <1>6, <1>7, StartingLemma
<1>9. RowsInv'  BY <1>2 DEF BaseInv, RowsInv
<1>10. PapersInv' /\ Grow  BY <1>2, PapersStay DEF BaseInv
<1>11. KeepsRuns(request[o].run)  BY <1>2, RunsAlone DEF BaseInv
<1>12. Conducts(s)'  BY <1>6, <1>8 DEF Conducts, Left
<1>13. s.run \notin DOMAIN runs \ {request[o].run}
  <2>1. 0 \notin DOMAIN runs  BY DEF BaseInv, RunsInv
  <2> QED  BY <1>6, <2>1
<1> QED  BY <1>5, <1>8, <1>9, <1>10, <1>11, <1>12, <1>13, BecomesStep

LEMMA ImportingBase ==
  ASSUME BaseInv, NEW o \in Operators, Importing(o)
  PROVE  BaseInv'
<1>1. {Mailbox, KsefInbox} \subseteq Seq(Messages)  BY InvoicesAssumption
<1>2. CASE CheckMail(o) \/ CheckMailByCycle(o)
  <2>1. /\ Becomes(o, [Idle EXCEPT !.agenda = <<"fetch">>, !.messages = Mailbox, !.run = Len(runs) + 1])
        /\ runs' = Append(runs, StartRun("EMAIL")) /\ UNCHANGED <<invoices, correcting>>
    BY <1>2 DEF CheckMail, CheckMailByCycle, Begin, Becomes
  <2> QED  BY <1>1, <2>1, CheckBase
<1>3. CASE CheckKsef(o)
  <2>1. /\ Becomes(o, [Idle EXCEPT !.agenda = <<"fetch">>, !.messages = KsefInbox, !.run = Len(runs) + 1])
        /\ runs' = Append(runs, StartRun("KSEF")) /\ UNCHANGED <<invoices, correcting>>
    BY <1>3 DEF CheckKsef, Begin, Becomes, StartKsefRun
  <2> QED  BY <1>1, <2>1, CheckBase
<1> QED
  BY <1>2, <1>3, UploadBase, FetchFailsBase, FetchBase, LookUpBase, AddItemBase, FinalizeBase DEF Importing

LEMMA LeastLemma ==
  ASSUME NEW T \in SUBSET Nat, T # {}
  PROVE  \E n \in T : \A m \in T : n <= m
<1>1. OpToRel(<, Nat) = {ss \in Nat \X Nat : ss[1] < ss[2]}
  BY DEF OpToRel
<1>2. PICK n \in T : \A m \in T : ~(<<m, n>> \in OpToRel(<, Nat))
  BY NatLessThanWellFounded, WFMin
<1>3. ASSUME NEW m \in T PROVE n <= m
  <2>1. m \in Nat /\ n \in Nat  OBVIOUS
  <2>2. ~(<<m, n>> \in {ss \in Nat \X Nat : ss[1] < ss[2]})  BY <1>1, <1>2
  <2> QED  BY <2>1, <2>2
<1> QED  BY <1>3

-----------------------------------------------------------------------------
(* The base of the invariant: what makes and flags an invoice *)

LEMMA SeekContractorBase ==
  ASSUME BaseInv, NEW o \in Operators, SeekContractor(o)
  PROVE  BaseInv'
<1>1. PICK r : r = request[o]  OBVIOUS
<1>2. Does(o, "seek_contractor") /\ UNCHANGED <<invoices, correcting, runs>>
  BY DEF SeekContractor, importing
<1>3. /\ r.agenda # <<>> /\ Head(r.agenda) = "seek_contractor" /\ Conducts(r) /\ DOMAIN r = Fields /\ r.type \in Kinds
      /\ "seek_contractor" \in Left(r) /\ Formed(r) /\ Aware(r)
  BY <1>1, <1>2, WorkingLemma
<1>4. PICK t : t = Tail(r.agenda)  OBVIOUS
<1>5. /\ Ordered(t) /\ t # <<>> /\ Head(t) = "create_contractor"
      /\ Left(r) = {"seek_contractor"} \cup Range(t)
  BY <1>3, <1>4, AheadLemma DEF Formed, Left
<1>6. Ordered(Tail(t)) /\ Range(t) = {"create_contractor"} \cup Range(Tail(t))
  BY <1>5, AheadLemma
<1>7. PICK a : a = IF Nip(r) \in DOMAIN contractors THEN Tail(t) ELSE t  OBVIOUS
<1>8. PICK s : s = [r EXCEPT !.agenda = a]  OBVIOUS
<1>9. Becomes(o, s)  BY <1>1, <1>4, <1>7, <1>8 DEF SeekContractor, Becomes
<1>10. DOMAIN s = Fields /\ s.agenda = a /\ \A f \in Fields \ {"agenda"} : s[f] = r[f]
  BY <1>3, <1>8 DEF Fields
<1>11. Ordered(a) /\ Left(s) \subseteq Left(r) /\ Left(r) \subseteq Left(s) \cup {"seek_contractor", "create_contractor"}
  <2>1. Left(s) = Range(a)  BY <1>10 DEF Left
  <2> QED  BY <1>5, <1>6, <1>7, <2>1
<1>12. /\ s.row = r.row /\ s.message = r.message /\ s.seen = r.seen /\ s.type = r.type
       /\ s.change = r.change /\ s.approval = r.approval /\ s.decision = r.decision
       /\ s.run = r.run /\ s.messages = r.messages
  BY <1>10 DEF Fields
<1>13. Aware(s)
  <2>1. \A x : x \notin {"seek_contractor", "create_contractor"} => (x \in Left(s) <=> x \in Left(r))  BY <1>11
  <2>2. Formed(s)  BY <1>3, <1>10, <1>11, <1>12 DEF Formed
  <2>3. KnowsRow(s)
    <3>1. Left(s) \cap RowSteps = Left(r) \cap RowSteps  BY <2>1 DEF RowSteps
    <3> QED  BY <1>3, <1>12, <2>1, <3>1 DEF Aware, KnowsRow
  <2>4. KnowsMessage(s)  BY <1>3, <1>12, <2>1 DEF Aware, KnowsMessage
  <2>5. HasSeen(s)  BY <1>3, <1>12, <2>1 DEF Aware, HasSeen
  <2>6. KnowsChange(s)  BY <1>3, <1>12, <2>1 DEF Aware, KnowsChange
  <2>7. KnowsApproval(s)  BY <1>3, <1>12, <2>1 DEF Aware, KnowsApproval
  <2>8. Corrects(s)  BY <1>3, <1>12, <2>1 DEF Aware, Corrects
  <2> QED  BY <2>2, <2>3, <2>4, <2>5, <2>6, <2>7, <2>8 DEF Aware
<1>14. RowsInv'  BY <1>2 DEF BaseInv, RowsInv
<1>15. PapersInv' /\ Grow  BY <1>2, PapersStay DEF BaseInv
<1>16. Aware(s)'  BY <1>13, <1>15, AwareStays
<1>17. KeepsRuns(request[o].run)  BY <1>2, RunsAlone DEF BaseInv
<1>18. Conducts(s)'  BY <1>2, <1>3, <1>11, <1>12 DEF Conducts, Left
<1>19. s.run \notin DOMAIN runs \ {request[o].run}  BY <1>1, <1>12
<1> QED  BY <1>9, <1>14, <1>15, <1>16, <1>17, <1>18, <1>19, BecomesStep

LEMMA CreateContractorBase ==
  ASSUME BaseInv, NEW o \in Operators, CreateContractor(o)
  PROVE  BaseInv'
<1>1. PICK r : r = request[o]  OBVIOUS
<1>2. Does(o, "create_contractor") /\ Done(o, r) /\ UNCHANGED <<invoices, correcting, runs>>
  BY <1>1 DEF CreateContractor, importing
<1>3. Working(o) /\ Formed(r) /\ Head(r.agenda) = "create_contractor"  BY <1>1, <1>2, WorkingLemma
<1>4. KeepsRuns(0)  BY <1>2, RunsAlone DEF BaseInv
<1>5. Same(request[o], r, Kept \cup {"agenda", "run", "messages"})  BY <1>1 DEF Same
<1>6. UNCHANGED <<invoices, correcting>> /\ Head(request[o].agenda) \notin NewKnowledge
  BY <1>1, <1>2, <1>3 DEF NewKnowledge
<1> QED  BY <1>2, <1>3, <1>4, <1>5, <1>6, ElsewhereStep

LEMMA SyncBase ==
  ASSUME BaseInv, NEW o \in Operators, Sync(o)
  PROVE  BaseInv'
<1>1. PICK r : r = request[o]  OBVIOUS
<1>2. Does(o, "sync") /\ Done(o, r) /\ UNCHANGED <<invoices, correcting, runs>>
  BY <1>1 DEF Sync, importing
<1>3. Working(o) /\ Formed(r) /\ Head(r.agenda) = "sync"  BY <1>1, <1>2, WorkingLemma
<1>4. KeepsRuns(0)  BY <1>2, RunsAlone DEF BaseInv
<1>5. Same(request[o], r, Kept \cup {"agenda", "run", "messages"})  BY <1>1 DEF Same
<1>6. UNCHANGED <<invoices, correcting>> /\ Head(request[o].agenda) \notin NewKnowledge
  BY <1>1, <1>2, <1>3 DEF NewKnowledge
<1> QED  BY <1>2, <1>3, <1>4, <1>5, <1>6, ElsewhereStep

LEMMA RefreshStatsBase ==
  ASSUME BaseInv, NEW o \in Operators, RefreshStats(o)
  PROVE  BaseInv'
<1>1. PICK r : r = request[o]  OBVIOUS
<1>2. PICK q : q = [r EXCEPT !.before = NoValue]  OBVIOUS
<1>3. Does(o, "stats") /\ Done(o, q) /\ UNCHANGED <<invoices, correcting, runs>>
  BY <1>1, <1>2 DEF RefreshStats, importing
<1>4. Working(o) /\ Formed(r) /\ Head(r.agenda) = "stats" /\ DOMAIN r = Fields  BY <1>1, <1>3, WorkingLemma
<1>5. DOMAIN q = Fields /\ \A f \in Fields \ {"before"} : q[f] = r[f]  BY <1>2, <1>4 DEF Fields
<1>6. KeepsRuns(0)  BY <1>3, RunsAlone DEF BaseInv
<1>7. Same(request[o], q, Kept \cup {"agenda", "run", "messages"}) /\ q.agenda = r.agenda /\ q.type = r.type
  BY <1>1, <1>5 DEF Same, Kept, Fields
<1>8. Formed(q)  BY <1>4, <1>5, <1>7 DEF Formed
<1>9. UNCHANGED <<invoices, correcting>> /\ Head(request[o].agenda) \notin NewKnowledge
  BY <1>1, <1>3, <1>4 DEF NewKnowledge
<1> QED  BY <1>3, <1>4, <1>6, <1>7, <1>8, <1>9, ElsewhereStep

LEMMA InsertRefusedBase ==
  ASSUME BaseInv, NEW o \in Operators, InsertRefused(o)
  PROVE  BaseInv'
<1>1. PICK r : r = request[o]  OBVIOUS
<1>2. Does(o, "insert") /\ UNCHANGED <<invoices, correcting, runs>>
  BY DEF InsertRefused, importing
<1>3. /\ r.agenda # <<>> /\ Conducts(r) /\ DOMAIN r = Fields /\ r.type \in Kinds /\ "insert" \in Left(r) /\ Aware(r)
  BY <1>1, <1>2, WorkingLemma
<1>4. PICK s : s = [r EXCEPT !.agenda = <<"item">>, !.outcome = "skipped_error"]  OBVIOUS
<1>5. Becomes(o, s)  BY <1>1, <1>4 DEF InsertRefused, Becomes
<1>6. /\ DOMAIN s = Fields /\ s.agenda = <<"item">> /\ s.run = r.run /\ s.messages = r.messages /\ s.type = r.type
      /\ s.row = r.row /\ s.message = r.message
  BY <1>3, <1>4 DEF Fields
<1>7. r.row = 0 /\ r.message \in Messages  BY <1>3 DEF Aware, KnowsRow, KnowsMessage
<1>8. s.type \in Kinds /\ s.message \in Messages /\ s.row = 0 /\ s.agenda \in {Starting(s.message), Creation, <<"item">>}
  BY <1>3, <1>6, <1>7
<1>9. Aware(s)' /\ Left(s) \cap {"fetch", "look_up", "finalize"} = {}  BY <1>6, <1>8, StartingLemma
<1>10. RowsInv'  BY <1>2 DEF BaseInv, RowsInv
<1>11. PapersInv' /\ Grow  BY <1>2, PapersStay DEF BaseInv
<1>12. KeepsRuns(request[o].run)  BY <1>2, RunsAlone DEF BaseInv
<1>13. Conducts(s)'  BY <1>2, <1>3, <1>6, <1>9 DEF Conducts, Left
<1>14. s.run \notin DOMAIN runs \ {request[o].run}  BY <1>1, <1>6
<1> QED  BY <1>5, <1>9, <1>10, <1>11, <1>12, <1>13, <1>14, BecomesStep

LEMMA RankedLemma ==
  ASSUME RowsInv, NEW found, found \subseteq DOMAIN invoices, found # {}
  PROVE  Ranked(found) \in found
<1>1. \A i \in found : invoices[i] \in Rows /\ i \in Nat  BY DEF RowsInv
<1>2. PICK P : P = [i \in found |-> SourcePriority[invoices[i].authority]]  OBVIOUS
<1>3. \A i \in found : P[i] \in {1, 2, 3} /\ P[i] = SourcePriority[invoices[i].authority]
  <2>1. \A i \in found : invoices[i].authority \in Sources  BY <1>1 DEF Rows
  <2> QED  BY <1>2, <2>1 DEF SourcePriority, Sources
<1>4. \E n \in {1, 2, 3} : (\E i \in found : P[i] = n) /\ \A i \in found : P[i] <= n
  <2>1. CASE \E i \in found : P[i] = 3  BY <1>3, <2>1
  <2>2. CASE (\A i \in found : P[i] # 3) /\ \E i \in found : P[i] = 2  BY <1>3, <2>2
  <2>3. CASE \A i \in found : P[i] # 3 /\ P[i] # 2  BY <1>3, <2>3
  <2> QED  BY <2>1, <2>2, <2>3
<1>5. PICK n \in {1, 2, 3} : (\E i \in found : P[i] = n) /\ \A i \in found : P[i] <= n  BY <1>4
<1>6. PICK T : T = {i \in found : P[i] = n}  OBVIOUS
<1>7. T \in SUBSET Nat /\ T # {}  BY <1>1, <1>5, <1>6
<1>8. PICK i \in T : \A j \in T : i <= j  BY <1>7, LeastLemma
<1>9. i \in found /\ \A j \in found : P[i] > P[j] \/ (P[i] = P[j] /\ i <= j)
  <2>1. \A j \in found : P[j] # n => P[i] > P[j]  BY <1>3, <1>5, <1>6
  <2> QED  BY <1>5, <1>6, <1>8, <2>1
<1>10. \A j \in found :
         \/ SourcePriority[invoices[i].authority] > SourcePriority[invoices[j].authority]
         \/ SourcePriority[invoices[i].authority] = SourcePriority[invoices[j].authority] /\ i <= j
  BY <1>3, <1>9
<1> QED  BY <1>9, <1>10 DEF Ranked

LEMMA FindCandidateBase ==
  ASSUME BaseInv, NEW o \in Operators, FindCandidate(o)
  PROVE  BaseInv'
<1>1. PICK r : r = request[o]  OBVIOUS
<1>2. Does(o, "candidate") /\ UNCHANGED <<invoices, correcting, runs>>
  BY DEF FindCandidate, importing
<1>3. /\ r.agenda # <<>> /\ Conducts(r) /\ DOMAIN r = Fields /\ r.type \in Kinds /\ "candidate" \in Left(r) /\ Aware(r)
  BY <1>1, <1>2, WorkingLemma
<1>4. r.row = 0 /\ r.message \in Messages /\ Paper[r.message].source = "KSEF"
  BY <1>3 DEF Aware, KnowsRow, KnowsMessage
<1>5. RowsInv'  BY <1>2 DEF BaseInv, RowsInv
<1>6. PapersInv' /\ Grow  BY <1>2, PapersStay DEF BaseInv
<1>7. KeepsRuns(request[o].run)  BY <1>2, RunsAlone DEF BaseInv
<1>8. ASSUME NEW s, Becomes(o, s), s.run = r.run, s.messages = r.messages, Aware(s)',
             Left(s) \cap {"fetch", "look_up", "finalize"} = {}
      PROVE  BaseInv'
  <2>1. Conducts(s)'  BY <1>2, <1>3, <1>8 DEF Conducts, Left
  <2>2. s.run \notin DOMAIN runs \ {request[o].run}  BY <1>1, <1>8
  <2> QED  BY <1>5, <1>6, <1>7, <1>8, <2>1, <2>2, BecomesStep
<1>9. PICK found : found = Candidates(r.message)  OBVIOUS
<1>10. CASE found = {}
  <2>1. PICK s : s = [r EXCEPT !.agenda = Creation]  OBVIOUS
  <2>2. Becomes(o, s)  BY <1>1, <1>9, <1>10, <2>1 DEF FindCandidate, Becomes
  <2>3. /\ DOMAIN s = Fields /\ s.agenda = Creation /\ s.run = r.run /\ s.messages = r.messages
        /\ s.type = r.type /\ s.row = r.row /\ s.message = r.message
    BY <1>3, <2>1 DEF Fields
  <2>4. s.type \in Kinds /\ s.message \in Messages /\ s.row = 0 /\ s.agenda \in {Starting(s.message), Creation, <<"item">>}
    BY <1>3, <1>4, <2>3
  <2>5. Aware(s)' /\ Left(s) \cap {"fetch", "look_up", "finalize"} = {}  BY <2>3, <2>4, StartingLemma
  <2> QED  BY <1>8, <2>2, <2>3, <2>5
<1>11. CASE found # {}
  <2>1. PICK i : i = Ranked(found)  OBVIOUS
  <2>2. found \subseteq DOMAIN invoices  BY <1>9 DEF Candidates, SameKsef, SameNumber
  <2>3. i \in DOMAIN invoices  BY <1>11, <2>1, <2>2, RankedLemma DEF BaseInv
  <2>4. invoices[i] \in Rows  BY <2>3 DEF BaseInv, RowsInv
  <2>5. PICK s : s = [r EXCEPT !.agenda = Overruling, !.row = i, !.seen = invoices[i], !.before = invoices[i].contractor]
    OBVIOUS
  <2>6. Becomes(o, s)  BY <1>1, <1>9, <1>11, <2>1, <2>5 DEF FindCandidate, Becomes
  <2>7. /\ DOMAIN s = Fields /\ s.agenda = Overruling /\ s.run = r.run /\ s.messages = r.messages
        /\ s.type = r.type /\ s.row = i /\ s.message = r.message /\ s.seen = invoices[i]
    BY <1>3, <2>5 DEF Fields
  <2>8. Ordered(s.agenda)
        /\ Left(s) = {"seek_contractor", "create_contractor", "authority", "evaluate", "flag", "stats", "item"}
    BY <2>7, OverrulingOrdered DEF Left
  <2>9. Left(s) \cap {"fetch", "look_up", "finalize", "insert", "candidate", "local", "rehash", "save", "settle",
                       "decide", "ask", "override", "approve_directly"} = {}
    BY <2>8
  <2>10. Aware(s)
    <3>1. Formed(s)  BY <1>3, <2>7, <2>8 DEF Formed
    <3> QED
      BY <1>4, <2>3, <2>4, <2>7, <2>9, <3>1
         DEF Aware, KnowsRow, KnowsMessage, HasSeen, KnowsChange, KnowsApproval, Corrects
  <2>11. Aware(s)'  BY <1>6, <2>10, AwareStays
  <2>12. Left(s) \cap {"fetch", "look_up", "finalize"} = {}  BY <2>9
  <2> QED  BY <1>8, <2>6, <2>7, <2>11, <2>12
<1> QED  BY <1>10, <1>11

\* A transaction that changes the invoice of its request.
LEMMA RowChangeStep ==
  ASSUME BaseInv, NEW o \in Operators, NEW r, r = request[o], NEW x \in RowSteps \ {"insert", "settle", "ask"}, Does(o, x),
         NEW q, Formed(q), Done(o, q), UNCHANGED <<correcting, runs>>,
         Same(r, q, {"agenda", "run", "messages"}), Same(r, q, Kept \ {"seen"}),
         q.seen \in Rows \/ (q.seen = r.seen /\ x \notin {"evaluate", "save", "read"}),
         NEW row \in Rows, Traced(row), invoices[r.row].authority = "KSEF" => row.authority = "KSEF",
         invoices' = [invoices EXCEPT ![r.row] = row]
  PROVE  BaseInv'
<1>1. Working(o) /\ Head(r.agenda) = x /\ r.agenda # <<>> /\ Aware(r) /\ r.row \in DOMAIN invoices  BY WorkingLemma
<1>2. /\ RowsInv' /\ DOMAIN invoices' = DOMAIN invoices
      /\ \A j \in DOMAIN invoices : invoices[j].authority = "KSEF" => invoices'[j].authority = "KSEF"
  BY <1>1, RowStep DEF BaseInv
<1>3. PapersInv' /\ Grow  BY <1>2, PapersStay DEF BaseInv
<1>4. KeepsRuns(0)  BY RunsAlone DEF BaseInv
<1>5. q.agenda = r.agenda  BY DEF Same
<1>6. ASSUME NEW s, GoesOn(q, s) PROVE Aware(s)'
  <2>1. Head(r.agenda) \notin {"insert", "settle", "ask"}  BY <1>1
  <2>2. q.seen \in Rows \/ (q.seen = r.seen /\ Head(r.agenda) \notin {"evaluate", "save", "read"})  BY <1>1
  <2> QED  BY <1>1, <1>3, <1>5, <1>6, <2>1, <2>2, AwareOn
<1> QED  BY <1>1, <1>2, <1>3, <1>4, <1>6, KnowingStep

LEMMA InsertBase ==
  ASSUME BaseInv, NEW o \in Operators, Insert(o)
  PROVE  BaseInv'
<1>1. PICK r : r = request[o]  OBVIOUS
<1>2. PICK i : i = Len(invoices) + 1  OBVIOUS
<1>3. PICK q : q = [r EXCEPT !.row = i]  OBVIOUS
<1>4. Does(o, "insert") /\ Done(o, q) /\ UNCHANGED <<correcting, runs>>
  BY <1>1, <1>2, <1>3 DEF Insert, importing
<1>5. /\ Working(o) /\ r.agenda # <<>> /\ Head(r.agenda) = "insert" /\ Aware(r) /\ DOMAIN r = Fields /\ Formed(r)
      /\ "insert" \in Left(r)
  BY <1>1, <1>4, WorkingLemma
<1>6. DOMAIN q = Fields /\ q.row = i /\ \A f \in Fields \ {"row"} : q[f] = r[f]  BY <1>3, <1>5 DEF Fields
<1>7. Same(r, q, {"agenda", "run", "messages"}) /\ q.agenda = r.agenda /\ q.type = r.type
  BY <1>6 DEF Same, Fields
<1>8. Formed(q)  BY <1>5, <1>6, <1>7 DEF Formed
<1>9. r.message \in Messages  BY <1>5 DEF Aware, KnowsMessage
<1>10. PICK n : n = NewInvoice(r.message)  OBVIOUS
<1>11. PICK row \in Rows : row = [n EXCEPT !.hash = Hash(n)] /\ Traced(row)  BY <1>9, <1>10, NewRow
<1>12. invoices' = Append(invoices, row)  BY <1>1, <1>10, <1>11 DEF Insert
<1>13. RowsInv' /\ DOMAIN invoices' = DOMAIN invoices \cup {i} /\ \A j \in DOMAIN invoices : invoices'[j] = invoices[j]
  BY <1>2, <1>11, <1>12, RowAdded DEF BaseInv
<1>14. PapersInv' /\ Grow  BY <1>4, <1>13, PapersStay DEF BaseInv
<1>15. KeepsRuns(0)  BY <1>4, RunsAlone DEF BaseInv
<1>16. Left(r) \subseteq {"insert", "stats", "evaluate", "flag", "sync", "item"} /\ "evaluate" \in Left(r)
  BY <1>5, HeadLemma
<1>17. ASSUME NEW s, GoesOn(q, s) PROVE Aware(s)'
  <2>1. CASE Resting(s)  BY <2>1, RestingAware
  <2>2. CASE ~Resting(s)
    <3>1. Formed(s) /\ Same(q, s, Fields \ {"agenda"}) /\ Left(s) = Left(q) \ {"insert"} /\ Left(q) = Left(r)
      BY <1>5, <1>7, <1>17, <2>2 DEF GoesOn, Left
    <3>2. Left(s) \subseteq {"stats", "evaluate", "flag", "sync", "item"} /\ "evaluate" \in Left(s)  BY <1>16, <3>1
    <3>3. s.row \in DOMAIN invoices'  BY <1>6, <1>13, <3>1 DEF Same, Fields
    <3> QED
      BY <3>1, <3>2, <3>3
         DEF Aware, Formed, KnowsRow, KnowsMessage, HasSeen, KnowsChange, KnowsApproval, Corrects, Left
  <2> QED  BY <2>1, <2>2
<1> QED  BY <1>1, <1>4, <1>5, <1>7, <1>8, <1>13, <1>14, <1>15, <1>17, KnowingStep

\* The values KSeF gives, and the row they make.
LEMMA AuthoritativeLemma ==
  ASSUME NEW seen \in Rows, NEW m \in Messages
  PROVE  Authoritative(seen, m) \in [KsefFields -> Values]
<1>1. seen.local \in [KsefFields -> Values]
      /\ seen.ksef \in Values /\ seen.number \in Values /\ seen.supplier \in Values
  BY DEF Rows
<1>2. \A f \in KsefFields : seen[f] \in Values  BY <1>1 DEF KsefFields
<1>3. \A f \in KsefFields : Paper[m][f] \in Values  BY PaperValues
<1> QED  BY <1>1, <1>2, <1>3 DEF Authoritative

RowFields == {"source", "file", "external", "authority", "ksef", "number", "supplier", "contractor",
              "status", "duplicate", "reason", "local", "hash"}

LEMMA RowColumns == \A row \in Rows : DOMAIN row = RowFields
BY DEF Rows, RowFields

\* The invoice as KSeF data, a check, an edit and a correction leave it.
Overruled(old, seen, m) ==
  LET v == Authoritative(seen, m)
      cleared == seen.status = "weryfikacja" /\ seen.duplicate = "brak"
      row == [old EXCEPT !.ksef = v["ksef"], !.number = v["number"], !.supplier = v["supplier"],
                !.contractor = v["supplier"], !.external = m, !.authority = "KSEF", !.local = seen.local,
                !.status = IF cleared THEN "nowa" ELSE @, !.reason = IF cleared THEN "none" ELSE @]
  IN [row EXCEPT !.hash = Hash(row)]
Checked(old, seen, type) ==
  [old EXCEPT !.status = Flagged(seen, type).status, !.reason = Flagged(seen, type).reason, !.duplicate = type]
Edited(old, c) ==
  [old EXCEPT ![c[1]] = c[2], !.contractor = IF c[1] = "supplier" THEN c[2] ELSE @]
CorrectedRow(old, seen, c) ==
  [old EXCEPT ![c[1]] = c[2], !.local = [seen.local EXCEPT ![c[1]] = c[2]],
              !.hash = Hash([seen EXCEPT ![c[1]] = c[2]])]

\* What such a row is.
IsOverruled(new, old, seen, m) ==
  /\ new \in Rows /\ Traced(new) /\ new.authority = "KSEF" /\ new.file = old.file /\ new.external = m
  /\ new.local = seen.local /\ new.duplicate = old.duplicate
  /\ \A f \in KsefFields : new[f] = Authoritative(seen, m)[f]
  /\ new.contractor = Authoritative(seen, m)["supplier"]
IsChecked(row, old, type) ==
  row \in Rows /\ row.duplicate = type /\ \A f \in RowFields \ {"status", "reason", "duplicate"} : row[f] = old[f]
IsEdited(row, old, c) ==
  /\ row \in Rows /\ row[c[1]] = c[2] /\ (\A g \in RowFields \ {c[1], "contractor"} : row[g] = old[g])
  /\ row.contractor = IF c[1] = "supplier" THEN c[2] ELSE old.contractor
IsCorrected(row, old, seen, c) ==
  /\ row \in Rows /\ row[c[1]] = c[2] /\ row.local = [seen.local EXCEPT ![c[1]] = c[2]]
  /\ \A g \in RowFields \ {c[1], "local", "hash"} : row[g] = old[g]

LEMMA OverruledRow ==
  ASSUME NEW old \in Rows, NEW seen \in Rows, NEW m \in Messages, Paper[m].source = "KSEF",
         NEW new, new = Overruled(old, seen, m)
  PROVE  IsOverruled(new, old, seen, m)
<1> PICK v : v = Authoritative(seen, m)  OBVIOUS
<1> PICK st : st = IF seen.status = "weryfikacja" /\ seen.duplicate = "brak" THEN "nowa" ELSE old.status  OBVIOUS
<1> PICK rs : rs = IF seen.status = "weryfikacja" /\ seen.duplicate = "brak" THEN "none" ELSE old.reason  OBVIOUS
<1> PICK row : row = [old EXCEPT !.ksef = v["ksef"], !.number = v["number"], !.supplier = v["supplier"],
                !.contractor = v["supplier"], !.external = m, !.authority = "KSEF",
                !.local = seen.local, !.status = st, !.reason = rs]
  OBVIOUS
<1>1. PICK vk \in Values, vn \in Values, vs \in Values : v["ksef"] = vk /\ v["number"] = vn /\ v["supplier"] = vs
  BY AuthoritativeLemma DEF KsefFields
<1>2. seen.local \in [KsefFields -> Values]  BY DEF Rows
<1>3. st \in Statuses /\ rs \in {"none", "ocr", "manual", "duplicate"}  BY DEF Rows, Statuses
<1>4. PICK a : a = [old EXCEPT !.ksef = vk, !.number = vn, !.supplier = vs, !.contractor = vs]  OBVIOUS
<1>5. PICK b : b = [a EXCEPT !.external = m, !.authority = "KSEF", !.local = seen.local]  OBVIOUS
<1>6. row = [b EXCEPT !.status = st, !.reason = rs]
  BY <1>1, <1>4, <1>5
<1>7. /\ a \in Rows /\ a.ksef = vk /\ a.number = vn /\ a.supplier = vs /\ a.contractor = vs
      /\ a.file = old.file /\ a.duplicate = old.duplicate /\ a.status = old.status /\ a.reason = old.reason
  <2>1. old \in Rows  OBVIOUS
  <2> QED  BY ONLY <1>4, <2>1, vk \in Values, vn \in Values, vs \in Values DEF Rows
<1>8. /\ row \in Rows /\ row.ksef = vk /\ row.number = vn /\ row.supplier = vs /\ row.file = old.file
      /\ row.contractor = vs
      /\ row.duplicate = old.duplicate /\ row.authority = "KSEF" /\ row.external = m /\ row.local = seen.local
  <2>1. /\ b \in Rows /\ b.ksef = vk /\ b.number = vn /\ b.supplier = vs /\ b.file = old.file
        /\ b.contractor = vs
        /\ b.duplicate = old.duplicate /\ b.authority = "KSEF" /\ b.external = m /\ b.local = seen.local
    BY ONLY <1>2, <1>5, <1>7, m \in Messages DEF Rows, Sources
  <2> QED  BY ONLY <1>3, <1>6, <2>1 DEF Rows
<1>9. new = [row EXCEPT !.hash = Hash(row)]  BY DEF Overruled
<1>10. new \in Rows
  <2>1. [row EXCEPT !.hash = Hash(row)] \in Rows  BY <1>8, HashLemma
  <2> QED  BY ONLY <1>9, <2>1
<1>11. DOMAIN row = RowFields  BY <1>8, RowColumns
<1>12. \A f \in RowFields \ {"hash"} : new[f] = row[f]  BY ONLY <1>9, <1>11
<1>13. /\ new.authority = "KSEF" /\ new.file = old.file /\ new.external = m /\ new.local = seen.local
       /\ new.ksef = vk /\ new.number = vn /\ new.supplier = vs /\ new.duplicate = old.duplicate
       /\ new.contractor = vs
  BY ONLY <1>8, <1>12 DEF RowFields
<1> QED  BY <1>1, <1>10, <1>13 DEF Traced, KsefFields, IsOverruled

LEMMA CheckedRow ==
  ASSUME NEW old \in Rows, NEW seen \in Rows, NEW type \in Kinds, NEW row, row = Checked(old, seen, type)
  PROVE  IsChecked(row, old, type)
<1>1. PICK st \in Statuses, rs \in {"none", "ocr", "manual", "duplicate"} : Flagged(seen, type) = [status |-> st, reason |-> rs]
  <2>1. PICK st : st = IF type # "brak" THEN IF type = "pewny" THEN "pewny_duplikat" ELSE "podejrzenie_duplikatu"
                       ELSE IF seen.status \in {"podejrzenie_duplikatu", "pewny_duplikat"} THEN "nowa" ELSE seen.status
    OBVIOUS
  <2>2. PICK rs : rs = IF type # "brak" THEN "duplicate"
                       ELSE IF seen.status = "weryfikacja" THEN seen.reason ELSE "none"
    OBVIOUS
  <2>3. seen.status \in Statuses /\ seen.reason \in {"none", "ocr", "manual", "duplicate"}  BY DEF Rows
  <2>4. st \in Statuses  BY <2>1, <2>3 DEF Statuses
  <2>5. rs \in {"none", "ocr", "manual", "duplicate"}  BY <2>2, <2>3
  <2>6. Flagged(seen, type) = [status |-> st, reason |-> rs]  BY <2>1, <2>2 DEF Flagged
  <2> QED  BY <2>4, <2>5, <2>6
<1>2. row = [old EXCEPT !.status = st, !.reason = rs, !.duplicate = type]  BY <1>1 DEF Checked
<1>3. old \in Rows  OBVIOUS
<1> QED  BY ONLY <1>2, <1>3, type \in Kinds, st \in Statuses, rs \in {"none", "ocr", "manual", "duplicate"}
         DEF Rows, RowFields, Kinds, IsChecked

\* A change the request makes has a value of its own.
LEMMA ChangeLemma ==
  ASSUME NEW c \in KsefFields \X Given
  PROVE  c[1] \in KsefFields /\ c[2] \in Given /\ c[2] \in Values /\ c[2] # NoValue
BY InvoicesAssumption DEF Values

LEMMA EditedRow ==
  ASSUME NEW old \in Rows, NEW c \in KsefFields \X Given, NEW row, row = Edited(old, c)
  PROVE  IsEdited(row, old, c)
<1>1. PICK f \in KsefFields, v \in Values : f = c[1] /\ v = c[2]  BY ChangeLemma
<1>2. PICK d : d = IF f = "supplier" THEN v ELSE old.contractor  OBVIOUS
<1>3. old \in Rows /\ d \in Values  BY <1>2 DEF Rows
<1>4. row = [old EXCEPT ![f] = v, !.contractor = d]
  <2>1. f # "contractor"  BY DEF KsefFields
  <2>2. [old EXCEPT ![f] = v].contractor = old.contractor  BY <1>3, <2>1 DEF Rows
  <2> QED  BY <1>1, <1>2, <2>2 DEF Edited
<1>5. ASSUME NEW k \in {"ksef", "number", "supplier"}, f = k
      PROVE  row \in Rows /\ row[f] = v /\ row.contractor = d /\ \A g \in RowFields \ {f, "contractor"} : row[g] = old[g]
  BY ONLY <1>3, <1>4, <1>5, v \in Values DEF Rows, RowFields
<1>6. row \in Rows /\ row[f] = v /\ row.contractor = d /\ \A g \in RowFields \ {f, "contractor"} : row[g] = old[g]
  BY <1>5 DEF KsefFields
<1> QED  BY <1>1, <1>2, <1>6 DEF IsEdited

LEMMA CorrectionRow ==
  ASSUME NEW old \in Rows, NEW seen \in Rows, NEW c \in KsefFields \X Given, NEW row, row = CorrectedRow(old, seen, c)
  PROVE  IsCorrected(row, old, seen, c)
<1>1. PICK f \in KsefFields, v \in Values : f = c[1] /\ v = c[2]  BY ChangeLemma
<1>2. PICK l \in [KsefFields -> Values] : l = [seen.local EXCEPT ![f] = v]
  <2>1. seen.local \in [KsefFields -> Values]  BY DEF Rows
  <2> QED  BY <2>1
<1>3. PICK h \in Hashes : h = Hash([seen EXCEPT ![f] = v])
  <2>1. PICK p : p = [seen EXCEPT ![f] = v]  OBVIOUS
  <2>2. seen \in Rows  OBVIOUS
  <2>3. ASSUME NEW k \in {"ksef", "number", "supplier"}, f = k PROVE p \in Rows
    BY ONLY <2>1, <2>2, <2>3, v \in Values DEF Rows
  <2>4. p \in Rows  BY <2>3 DEF KsefFields
  <2> QED  BY <2>1, <2>4, HashLemma
<1>4. old \in Rows /\ row = [old EXCEPT ![f] = v, !.local = l, !.hash = h]  BY <1>1, <1>2, <1>3 DEF CorrectedRow
<1>5. ASSUME NEW k \in {"ksef", "number", "supplier"}, f = k
      PROVE  row \in Rows /\ row[f] = v /\ row.local = l /\ \A g \in RowFields \ {f, "local", "hash"} : row[g] = old[g]
  BY ONLY <1>4, <1>5, v \in Values, l \in [KsefFields -> Values], h \in Hashes DEF Rows, RowFields
<1>6. row \in Rows /\ row[f] = v /\ row.local = l /\ \A g \in RowFields \ {f, "local", "hash"} : row[g] = old[g]
  BY <1>5 DEF KsefFields
<1> QED  BY <1>1, <1>2, <1>6 DEF IsCorrected

\* The row i is changed to be row.
Writes(i, row) == invoices' = [invoices EXCEPT ![i] = row]

\* A row that stays what it was about.
Keeps(row, old) ==
  row \in Rows /\ Traced(row) /\ row.file = old.file /\ (old.authority = "KSEF" => row.authority = "KSEF")

LEMMA KeepsLemma ==
  ASSUME RowsInv, NEW i \in DOMAIN invoices, NEW row \in Rows,
         row.authority = invoices[i].authority, row.file = invoices[i].file, row.external = invoices[i].external
  PROVE  Keeps(row, invoices[i])
<1>1. Traced(invoices[i])  BY DEF RowsInv, Traced
<1>2. PICK old : old = invoices[i]  OBVIOUS
<1> QED  BY <1>1, <1>2 DEF Keeps, Traced

LEMMA AuthorityWrites ==
  ASSUME BaseInv, NEW o \in Operators, NEW r, r = request[o], ApplyAuthority(o)
  PROVE  \E row : Writes(r.row, row) /\ IsOverruled(row, invoices[r.row], r.seen, r.message) /\ Keeps(row, invoices[r.row])
<1>1. Does(o, "authority")  BY DEF ApplyAuthority
<1>2. Aware(r) /\ "authority" \in Left(r) /\ r.row \in DOMAIN invoices  BY <1>1, WorkingLemma DEF RowSteps
<1>3. PICK m \in Messages, seen \in Rows : m = r.message /\ seen = r.seen /\ Paper[m].source = "KSEF"
  BY <1>2 DEF Aware, KnowsMessage, HasSeen
<1>4. PICK old \in Rows : old = invoices[r.row]  BY <1>2 DEF BaseInv, RowsInv
<1>5. PICK row : row = Overruled(old, seen, m)  OBVIOUS
<1>6. Writes(r.row, row)  BY <1>3, <1>4, <1>5 DEF ApplyAuthority, Overruled, Writes
<1>7. IsOverruled(row, old, seen, m)  BY <1>3, <1>5, OverruledRow
<1>8. Keeps(row, old)  BY <1>7 DEF IsOverruled, Keeps
<1> QED  BY <1>3, <1>4, <1>6, <1>7, <1>8

LEMMA FlagWrites ==
  ASSUME BaseInv, NEW o \in Operators, NEW r, r = request[o], Flag(o)
  PROVE  \E row : /\ Writes(r.row, row) /\ IsChecked(row, invoices[r.row], r.type) /\ Keeps(row, invoices[r.row])
                  /\ Done(o, [r EXCEPT !.seen = row, !.matches = {}, !.type = "brak"])
<1>1. Does(o, "flag")  BY DEF Flag
<1>2. /\ Aware(r) /\ Formed(r) /\ "flag" \in Left(r) /\ r.row \in DOMAIN invoices /\ r.type \in Kinds
      /\ r.agenda # <<>> /\ Head(r.agenda) = "flag"
  BY <1>1, WorkingLemma DEF RowSteps
<1>3. r.seen \in Rows
  <2>1. "evaluate" \notin Left(r)  BY <1>2, HeadLemma
  <2> QED  BY <1>2, <2>1 DEF Aware, HasSeen
<1>4. PICK seen \in Rows, type \in Kinds : seen = r.seen /\ type = r.type  BY <1>2, <1>3
<1>5. PICK old \in Rows : old = invoices[r.row]  BY <1>2 DEF BaseInv, RowsInv
<1>6. PICK row : row = Checked(old, seen, type)  OBVIOUS
<1>7. Writes(r.row, row)  BY <1>4, <1>5, <1>6 DEF Flag, Checked, Writes
<1>8. IsChecked(row, old, type)  BY <1>6, CheckedRow
<1>9. Done(o, [r EXCEPT !.seen = row, !.matches = {}, !.type = "brak"])  BY <1>4, <1>5, <1>6 DEF Flag, Checked
<1>10. row \in Rows /\ row.authority = old.authority /\ row.file = old.file /\ row.external = old.external
  BY <1>8 DEF IsChecked, RowFields
<1>11. Keeps(row, invoices[r.row])  BY <1>2, <1>5, <1>10, KeepsLemma DEF BaseInv
<1> QED  BY <1>4, <1>5, <1>7, <1>8, <1>9, <1>11

LEMMA SaveWrites ==
  ASSUME BaseInv, NEW o \in Operators, NEW r, r = request[o], SaveInvoice(o)
  PROVE  \E row : /\ Writes(r.row, row) /\ IsEdited(row, invoices[r.row], r.change) /\ Keeps(row, invoices[r.row])
                  /\ Done(o, [r EXCEPT !.seen = row])
<1>1. Does(o, "save")  BY DEF SaveInvoice
<1>2. Aware(r) /\ "save" \in Left(r) /\ r.row \in DOMAIN invoices  BY <1>1, WorkingLemma DEF RowSteps
<1>3. PICK c \in KsefFields \X Given : c = r.change  BY <1>2 DEF Aware, KnowsChange
<1>4. PICK old \in Rows : old = invoices[r.row]  BY <1>2 DEF BaseInv, RowsInv
<1>5. PICK row : row = Edited(old, c)  OBVIOUS
<1>6. Writes(r.row, row)  BY <1>3, <1>4, <1>5 DEF SaveInvoice, Edited, Writes
<1>7. IsEdited(row, old, c)  BY <1>5, EditedRow
<1>8. Done(o, [r EXCEPT !.seen = row])  BY <1>3, <1>4, <1>5 DEF SaveInvoice, Edited
<1>9. row \in Rows /\ row.authority = old.authority /\ row.file = old.file /\ row.external = old.external
  <2>1. c[1] \in KsefFields  OBVIOUS
  <2> QED  BY <1>7, <2>1 DEF IsEdited, RowFields, KsefFields
<1>10. Keeps(row, invoices[r.row])  BY <1>2, <1>4, <1>9, KeepsLemma DEF BaseInv
<1> QED  BY <1>3, <1>4, <1>6, <1>7, <1>8, <1>10

IsRehashed(row, old) == row \in Rows /\ \A g \in RowFields \ {"hash"} : row[g] = old[g]

LEMMA RehashWrites ==
  ASSUME BaseInv, NEW o \in Operators, NEW r, r = request[o], Rehash(o)
  PROVE  \E row : Writes(r.row, row) /\ IsRehashed(row, invoices[r.row]) /\ Keeps(row, invoices[r.row])
<1>1. Does(o, "rehash")  BY DEF Rehash
<1>2. /\ Aware(r) /\ Formed(r) /\ "rehash" \in Left(r) /\ r.row \in DOMAIN invoices /\ r.agenda # <<>>
      /\ Head(r.agenda) = "rehash"
  BY <1>1, WorkingLemma DEF RowSteps
<1>3. "save" \notin Left(r)  BY <1>2, HeadLemma
<1>4. PICK seen \in Rows : seen = r.seen  BY <1>2, <1>3 DEF Aware, HasSeen
<1>5. PICK old \in Rows : old = invoices[r.row]  BY <1>2 DEF BaseInv, RowsInv
<1>6. PICK h \in Hashes : h = Hash(seen)  BY HashLemma
<1>7. PICK row : row = [old EXCEPT !.hash = h]  OBVIOUS
<1>8. Writes(r.row, row)  BY <1>4, <1>5, <1>6, <1>7 DEF Rehash, Writes
<1>9. IsRehashed(row, old)
  BY ONLY <1>7, old \in Rows, h \in Hashes DEF Rows, RowFields, IsRehashed
<1>10. row \in Rows /\ row.authority = old.authority /\ row.file = old.file /\ row.external = old.external
  BY <1>9 DEF IsRehashed, RowFields
<1>11. Keeps(row, invoices[r.row])  BY <1>2, <1>5, <1>10, KeepsLemma DEF BaseInv
<1> QED  BY <1>5, <1>8, <1>9, <1>11

LEMMA LocalWrites ==
  ASSUME BaseInv, NEW o \in Operators, NEW r, r = request[o], ApplyLocal(o)
  PROVE  \E row : /\ Writes(r.row, row) /\ IsCorrected(row, invoices[r.row], r.seen, r.change)
                  /\ Keeps(row, invoices[r.row]) /\ Done(o, [r EXCEPT !.seen = row])
<1>1. Does(o, "local")  BY DEF ApplyLocal
<1>2. /\ Aware(r) /\ Formed(r) /\ "local" \in Left(r) /\ r.row \in DOMAIN invoices
      /\ r.agenda # <<>> /\ Head(r.agenda) = "local"
  BY <1>1, WorkingLemma DEF RowSteps
<1>3. "settle" \notin Left(r) /\ Left(r) \cap {"evaluate", "read"} = {}  BY <1>2, HeadLemma
<1>4. PICK seen \in Rows : seen = r.seen  BY <1>2, <1>3 DEF Aware, HasSeen
<1>5. PICK c \in KsefFields \X Given : c = r.change  BY <1>2, <1>3 DEF Aware, KnowsChange
<1>6. PICK old \in Rows : old = invoices[r.row]  BY <1>2 DEF BaseInv, RowsInv
<1>7. PICK row : row = CorrectedRow(old, seen, c)  OBVIOUS
<1>8. Writes(r.row, row)  BY <1>4, <1>5, <1>6, <1>7 DEF ApplyLocal, CorrectedRow, Writes
<1>9. IsCorrected(row, old, seen, c)  BY <1>7, CorrectionRow
<1>10. Done(o, [r EXCEPT !.seen = row])  BY <1>4, <1>5, <1>6, <1>7 DEF ApplyLocal, CorrectedRow
<1>11. row \in Rows /\ row.authority = old.authority /\ row.file = old.file /\ row.external = old.external
  <2>1. c[1] \in KsefFields  OBVIOUS
  <2> QED  BY <1>9, <2>1 DEF IsCorrected, RowFields, KsefFields
<1>12. Keeps(row, invoices[r.row])  BY <1>2, <1>6, <1>11, KeepsLemma DEF BaseInv
<1> QED  BY <1>4, <1>5, <1>6, <1>8, <1>9, <1>10, <1>12

LEMMA ApplyAuthorityBase ==
  ASSUME BaseInv, NEW o \in Operators, ApplyAuthority(o)
  PROVE  BaseInv'
<1>1. PICK r : r = request[o]  OBVIOUS
<1>2. Does(o, "authority") /\ Done(o, r) /\ UNCHANGED <<correcting, runs>>
  BY <1>1 DEF ApplyAuthority, importing
<1>3. Formed(r)  BY <1>1, <1>2, WorkingLemma
<1>4. PICK row : Writes(r.row, row) /\ Keeps(row, invoices[r.row])  BY <1>1, AuthorityWrites
<1>5. "authority" \in RowSteps \ {"insert", "settle", "ask"}  BY DEF RowSteps
<1>6. Same(r, r, {"agenda", "run", "messages"}) /\ Same(r, r, Kept \ {"seen"})  BY DEF Same
<1> QED  BY <1>1, <1>2, <1>3, <1>4, <1>5, <1>6, RowChangeStep DEF Writes, Keeps

LEMMA FlagBase ==
  ASSUME BaseInv, NEW o \in Operators, Flag(o)
  PROVE  BaseInv'
<1>1. PICK r : r = request[o]  OBVIOUS
<1>2. Does(o, "flag") /\ UNCHANGED <<correcting, runs>>  BY DEF Flag, importing
<1>3. Formed(r) /\ DOMAIN r = Fields  BY <1>1, <1>2, WorkingLemma
<1>4. PICK row : /\ Writes(r.row, row) /\ Keeps(row, invoices[r.row])
                 /\ Done(o, [r EXCEPT !.seen = row, !.matches = {}, !.type = "brak"])
  BY <1>1, FlagWrites
<1>5. PICK q : q = [r EXCEPT !.seen = row, !.matches = {}, !.type = "brak"]  OBVIOUS
<1>6. DOMAIN q = Fields /\ q.seen = row /\ q.type = "brak" /\ \A f \in Fields \ {"seen", "matches", "type"} : q[f] = r[f]
  BY <1>3, <1>5 DEF Fields
<1>7. Same(r, q, {"agenda", "run", "messages"}) /\ Same(r, q, Kept \ {"seen"})  BY <1>6 DEF Same, Kept, Fields
<1>8. Formed(q)
  <2>1. q.agenda = r.agenda  BY <1>6 DEF Fields
  <2> QED  BY <1>3, <1>6, <2>1 DEF Formed, Kinds
<1>9. "flag" \in RowSteps \ {"insert", "settle", "ask"}  BY DEF RowSteps
<1>10. q.seen \in Rows  BY <1>4, <1>6 DEF Keeps
<1> QED  BY <1>1, <1>2, <1>4, <1>5, <1>7, <1>8, <1>9, <1>10, RowChangeStep DEF Writes, Keeps

LEMMA EvaluateBase ==
  ASSUME BaseInv, NEW o \in Operators, Evaluate(o)
  PROVE  BaseInv'
<1>1. PICK r : r = request[o]  OBVIOUS
<1>2. Does(o, "evaluate") /\ UNCHANGED <<invoices, correcting, runs>>  BY DEF Evaluate, importing
<1>3. /\ Aware(r) /\ Formed(r) /\ r.row \in DOMAIN invoices /\ DOMAIN r = Fields
      /\ Working(o) /\ r.agenda # <<>> /\ Head(r.agenda) = "evaluate"
  BY <1>1, <1>2, WorkingLemma DEF RowSteps
<1>4. PICK old \in Rows : old = invoices[r.row]  BY <1>3 DEF BaseInv, RowsInv
<1>5. PICK exact : exact = SameKsef(old.ksef, DOMAIN invoices \ {r.row})  OBVIOUS
<1>6. PICK suspected : suspected = SameNumber(old.number, old.supplier, DOMAIN invoices \ {r.row})  OBVIOUS
<1>7. PICK ms : ms = IF exact # {} THEN exact ELSE suspected  OBVIOUS
<1>8. PICK ty : ty = IF exact # {} THEN "pewny" ELSE IF suspected # {} THEN "podejrzenie" ELSE "brak"  OBVIOUS
<1>9. PICK q : q = [r EXCEPT !.seen = old, !.matches = ms, !.type = ty]  OBVIOUS
<1>10. Done(o, q)  BY <1>1, <1>4, <1>5, <1>6, <1>7, <1>8, <1>9 DEF Evaluate
<1>11. DOMAIN q = Fields /\ q.seen = old /\ q.type = ty /\ \A f \in Fields \ {"seen", "matches", "type"} : q[f] = r[f]
  BY <1>3, <1>9 DEF Fields
<1>12. Same(r, q, {"agenda", "run", "messages"}) /\ Same(r, q, Kept \ {"seen"})  BY <1>11 DEF Same, Kept, Fields
<1>13. q.agenda = r.agenda  BY <1>12 DEF Same
<1>14. Formed(q)  BY <1>3, <1>8, <1>11, <1>13 DEF Formed, Kinds
<1>15. RowsInv'  BY <1>2 DEF BaseInv, RowsInv
<1>16. PapersInv' /\ Grow  BY <1>2, PapersStay DEF BaseInv
<1>17. KeepsRuns(0)  BY <1>2, RunsAlone DEF BaseInv
<1>18. ASSUME NEW s, GoesOn(q, s) PROVE Aware(s)'
  <2>1. q.seen \in Rows /\ Head(r.agenda) \notin {"insert", "settle", "ask"}  BY <1>3, <1>11
  <2> QED  BY <1>3, <1>12, <1>13, <1>16, <1>18, <2>1, AwareOn
<1> QED  BY <1>1, <1>3, <1>10, <1>12, <1>14, <1>15, <1>16, <1>17, <1>18, KnowingStep

-----------------------------------------------------------------------------
(* The base of the invariant: edits and corrections *)

\* A request that writes its invoice and reads what it has written.
LEMMA WritingBase ==
  ASSUME BaseInv, NEW o \in Operators, NEW r, r = request[o], NEW x \in {"save", "local"}, Does(o, x), NEW row,
         Writes(r.row, row), Keeps(row, invoices[r.row]), Done(o, [r EXCEPT !.seen = row]), UNCHANGED <<correcting, runs>>
  PROVE  BaseInv'
<1>1. Formed(r) /\ DOMAIN r = Fields  BY WorkingLemma
<1>2. PICK q : q = [r EXCEPT !.seen = row]  OBVIOUS
<1>3. DOMAIN q = Fields /\ q.seen = row /\ \A f \in Fields \ {"seen"} : q[f] = r[f]
  BY <1>1, <1>2 DEF Fields
<1>4. Same(r, q, {"agenda", "run", "messages"}) /\ Same(r, q, Kept \ {"seen"})  BY <1>3 DEF Same, Kept, Fields
<1>5. Formed(q)  BY <1>1, <1>3 DEF Formed, Fields
<1>6. x \in RowSteps \ {"insert", "settle", "ask"}  BY DEF RowSteps
<1> QED  BY <1>2, <1>3, <1>4, <1>5, <1>6, RowChangeStep DEF Writes, Keeps

LEMMA SaveInvoiceBase ==
  ASSUME BaseInv, NEW o \in Operators, SaveInvoice(o)
  PROVE  BaseInv'
<1>1. PICK r : r = request[o]  OBVIOUS
<1>2. Does(o, "save") /\ UNCHANGED <<correcting, runs>>  BY DEF SaveInvoice, importing
<1>3. PICK row : Writes(r.row, row) /\ Keeps(row, invoices[r.row]) /\ Done(o, [r EXCEPT !.seen = row])
  BY <1>1, SaveWrites
<1> QED  BY <1>1, <1>2, <1>3, WritingBase

LEMMA RehashBase ==
  ASSUME BaseInv, NEW o \in Operators, Rehash(o)
  PROVE  BaseInv'
<1>1. PICK r : r = request[o]  OBVIOUS
<1>2. Does(o, "rehash") /\ Done(o, r) /\ UNCHANGED <<correcting, runs>>  BY <1>1 DEF Rehash, importing
<1>3. Formed(r)  BY <1>1, <1>2, WorkingLemma
<1>4. PICK row : Writes(r.row, row) /\ Keeps(row, invoices[r.row])  BY <1>1, RehashWrites
<1>5. Same(r, r, {"agenda", "run", "messages"}) /\ Same(r, r, Kept \ {"seen"})  BY DEF Same
<1>6. "rehash" \in RowSteps \ {"insert", "settle", "ask"}  BY DEF RowSteps
<1> QED  BY <1>1, <1>2, <1>3, <1>4, <1>5, <1>6, RowChangeStep DEF Writes, Keeps

LEMMA ApplyLocalBase ==
  ASSUME BaseInv, NEW o \in Operators, ApplyLocal(o)
  PROVE  BaseInv'
<1>1. PICK r : r = request[o]  OBVIOUS
<1>2. Does(o, "local") /\ UNCHANGED <<correcting, runs>>  BY DEF ApplyLocal, importing
<1>3. PICK row : Writes(r.row, row) /\ Keeps(row, invoices[r.row]) /\ Done(o, [r EXCEPT !.seen = row])
  BY <1>1, LocalWrites
<1> QED  BY <1>1, <1>2, <1>3, WritingBase

LEMMA OverrideAdded ==
  ASSUME BaseInv, NEW x \in OverrideRows, x.invoice \in DOMAIN invoices, invoices[x.invoice].authority = "KSEF",
         x.approval \in 0..Len(approvals), x.approval # 0 => approvals[x.approval].invoice = x.invoice,
         overrides' = Append(overrides, x), UNCHANGED <<invoices, approvals>>
  PROVE  /\ PapersInv' /\ Grow /\ DOMAIN overrides' = DOMAIN overrides \cup {Len(overrides) + 1}
         /\ overrides'[Len(overrides) + 1] = x /\ \A k \in DOMAIN overrides : overrides'[k] = overrides[k]
         /\ Len(overrides) + 1 \notin DOMAIN overrides
<1>1. overrides \in Seq(OverrideRows)  BY DEF BaseInv, PapersInv
<1>2. /\ overrides' \in Seq(OverrideRows) /\ DOMAIN overrides' = DOMAIN overrides \cup {Len(overrides) + 1}
      /\ overrides'[Len(overrides) + 1] = x /\ \A k \in DOMAIN overrides : overrides'[k] = overrides[k]
      /\ Len(overrides) + 1 \notin DOMAIN overrides
  BY <1>1
<1>3. PapersInv'  BY <1>2 DEF BaseInv, PapersInv
<1>4. Grow  BY DEF Grow
<1> QED  BY <1>2, <1>3, <1>4

\* The correction a request saves.
LEMMA SavedOverride ==
  ASSUME BaseInv, NEW r, Aware(r), {"approve_directly", "override"} \cap Left(r) # {}, NEW a \in 0..Len(approvals),
         a # 0 => approvals[a].invoice = r.row, NEW st \in {"approved", "pending"},
         NEW x, x = [invoice |-> r.row, approval |-> a, field |-> r.change[1], value |-> r.change[2], status |-> st],
         overrides' = Append(overrides, x), UNCHANGED <<invoices, approvals>>
  PROVE  /\ PapersInv' /\ Grow /\ DOMAIN overrides' = DOMAIN overrides \cup {Len(overrides) + 1}
         /\ overrides'[Len(overrides) + 1] = x /\ \A k \in DOMAIN overrides : overrides'[k] = overrides[k]
         /\ Len(overrides) + 1 \notin DOMAIN overrides
<1>1. r.row \in DOMAIN invoices /\ invoices[r.row].authority = "KSEF" /\ r.change \in KsefFields \X Given
  BY DEF Aware, Corrects, KnowsChange
<1>2. r.row \in Nat  BY <1>1 DEF BaseInv, RowsInv
<1>3. a \in Nat  BY DEF BaseInv, PapersInv
<1>4. x \in OverrideRows  BY <1>1, <1>2, <1>3, ChangeLemma DEF OverrideRows
<1> QED  BY <1>1, <1>4, OverrideAdded

LEMMA ApproveDirectlyBase ==
  ASSUME BaseInv, NEW o \in Operators, ApproveDirectly(o)
  PROVE  BaseInv'
<1>1. PICK r : r = request[o]  OBVIOUS
<1>2. Does(o, "approve_directly") /\ Done(o, r) /\ UNCHANGED <<invoices, approvals, runs>>
  BY <1>1 DEF ApproveDirectly, importing
<1>3. /\ Working(o) /\ Aware(r) /\ Formed(r) /\ r.agenda # <<>> /\ Head(r.agenda) = "approve_directly"
      /\ "approve_directly" \in Left(r)
  BY <1>1, <1>2, WorkingLemma
<1>4. PICK x : x = [invoice |-> r.row, approval |-> 0, field |-> r.change[1], value |-> r.change[2], status |-> "approved"]
  OBVIOUS
<1>5. overrides' = Append(overrides, x)  BY <1>1, <1>4 DEF ApproveDirectly, InsertOverride
<1>6. PapersInv' /\ Grow
  <2>1. 0 \in 0..Len(approvals)  BY DEF BaseInv, PapersInv
  <2> QED  BY <1>2, <1>3, <1>4, <1>5, <2>1, SavedOverride
<1>7. RowsInv'  BY <1>2 DEF BaseInv, RowsInv
<1>8. KeepsRuns(0)  BY <1>2, RunsAlone DEF BaseInv
<1>9. Same(r, r, {"agenda", "run", "messages"}) /\ Same(r, r, Kept \ {"seen"})  BY DEF Same
<1>10. ASSUME NEW s, GoesOn(r, s) PROVE Aware(s)'
  BY <1>3, <1>6, <1>9, <1>10, AwareOn
<1> QED  BY <1>1, <1>2, <1>3, <1>6, <1>7, <1>8, <1>9, <1>10, KnowingStep

LEMMA SaveOverrideBase ==
  ASSUME BaseInv, NEW o \in Operators, SaveOverride(o)
  PROVE  BaseInv'
<1>1. PICK r : r = request[o]  OBVIOUS
<1>2. PICK q : q = [r EXCEPT !.seen = invoices[r.row]]  OBVIOUS
<1>3. Does(o, "override") /\ Done(o, q) /\ UNCHANGED <<invoices, approvals, runs>>
  BY <1>1, <1>2 DEF SaveOverride, importing
<1>4. /\ Working(o) /\ Aware(r) /\ Formed(r) /\ r.agenda # <<>> /\ Head(r.agenda) = "override"
      /\ "override" \in Left(r) /\ DOMAIN r = Fields /\ r.row \in DOMAIN invoices
  BY <1>1, <1>3, WorkingLemma DEF RowSteps
<1>5. PICK x : x = [invoice |-> r.row, approval |-> r.approval, field |-> r.change[1], value |-> r.change[2], status |-> "pending"]
  OBVIOUS
<1>6. overrides' = Append(overrides, x)  BY <1>1, <1>5 DEF SaveOverride, InsertOverride
<1>7. r.approval \in 0..Len(approvals) /\ approvals[r.approval].invoice = r.row
  <2>1. "ask" \notin Left(r)  BY <1>4, HeadLemma
  <2>2. r.approval \in DOMAIN approvals /\ approvals[r.approval].invoice = r.row  BY <1>4, <2>1 DEF Aware, KnowsApproval
  <2>3. approvals \in Seq(ApprovalRows)  BY DEF BaseInv, PapersInv
  <2> QED  BY <2>2, <2>3
<1>8. PapersInv' /\ Grow
  <2>1. PICK a \in 0..Len(approvals) : a = r.approval  BY <1>7
  <2>2. a # 0 => approvals[a].invoice = r.row  BY <1>7, <2>1
  <2>3. x = [invoice |-> r.row, approval |-> a, field |-> r.change[1], value |-> r.change[2], status |-> "pending"]
    BY <1>5, <2>1
  <2> QED  BY <1>3, <1>4, <1>6, <2>2, <2>3, SavedOverride
<1>9. RowsInv'  BY <1>3 DEF BaseInv, RowsInv
<1>10. KeepsRuns(0)  BY <1>3, RunsAlone DEF BaseInv
<1>11. DOMAIN q = Fields /\ q.seen = invoices[r.row] /\ \A f \in Fields \ {"seen"} : q[f] = r[f]
  BY <1>2, <1>4 DEF Fields
<1>12. Same(r, q, {"agenda", "run", "messages"}) /\ Same(r, q, Kept \ {"seen"})  BY <1>11 DEF Same, Kept, Fields
<1>13. Formed(q) /\ q.agenda = r.agenda  BY <1>4, <1>11 DEF Formed, Fields
<1>14. q.seen \in Rows  BY <1>4, <1>11 DEF BaseInv, RowsInv
<1>15. ASSUME NEW s, GoesOn(q, s) PROVE Aware(s)'
  BY <1>4, <1>8, <1>12, <1>13, <1>14, <1>15, AwareOn
<1> QED  BY <1>1, <1>3, <1>4, <1>8, <1>9, <1>10, <1>12, <1>13, <1>15, KnowingStep

LEMMA ApprovalAdded ==
  ASSUME BaseInv, NEW i \in DOMAIN invoices, NEW kind \in {"status", "ksef"},
         approvals' = NewApproval(i, kind), UNCHANGED <<invoices, overrides>>
  PROVE  /\ PapersInv' /\ Grow /\ DOMAIN approvals' = DOMAIN approvals \cup {Len(approvals) + 1}
         /\ approvals'[Len(approvals) + 1] = [invoice |-> i, kind |-> kind, status |-> "pending"]
         /\ Len(approvals) + 1 \notin DOMAIN approvals
         /\ \A a \in DOMAIN approvals : approvals'[a] = approvals[a]
<1>1. approvals \in Seq(ApprovalRows)  BY DEF BaseInv, PapersInv
<1>2. PICK x : x = [invoice |-> i, kind |-> kind, status |-> "pending"]  OBVIOUS
<1>3. x \in ApprovalRows /\ x.invoice = i
  <2>1. i \in Nat  BY DEF BaseInv, RowsInv
  <2> QED  BY <1>2, <2>1 DEF ApprovalRows
<1>4. approvals' = Append(approvals, x)  BY <1>2 DEF NewApproval
<1>5. /\ approvals' \in Seq(ApprovalRows) /\ DOMAIN approvals' = DOMAIN approvals \cup {Len(approvals) + 1}
      /\ approvals'[Len(approvals) + 1] = x /\ Len(approvals) + 1 \notin DOMAIN approvals
      /\ \A a \in DOMAIN approvals : approvals'[a] = approvals[a]
      /\ Len(approvals') = Len(approvals) + 1 /\ Len(approvals) \in Nat /\ DOMAIN approvals = 1..Len(approvals)
  BY <1>1, <1>3, <1>4
<1>6. PapersInv'
  <2>1. \A k \in DOMAIN overrides : overrides[k].approval \in 0..Len(approvals)  BY DEF BaseInv, PapersInv
  <2>2. \A k \in DOMAIN overrides : overrides[k].approval \in 0..Len(approvals')  BY <1>5, <2>1
  <2>3. \A k \in DOMAIN overrides : overrides[k].approval # 0 => overrides[k].approval \in DOMAIN approvals
    BY <1>5, <2>1
  <2> QED  BY <1>3, <1>5, <2>2, <2>3 DEF BaseInv, PapersInv
<1>7. Grow  BY <1>5 DEF Grow
<1> QED  BY <1>2, <1>5, <1>6, <1>7

LEMMA AskForCorrectionBase ==
  ASSUME BaseInv, NEW o \in Operators, AskForCorrection(o)
  PROVE  BaseInv'
<1>1. PICK r : r = request[o]  OBVIOUS
<1>2. PICK n : n = Len(approvals) + 1  OBVIOUS
<1>3. PICK q : q = [r EXCEPT !.approval = n]  OBVIOUS
<1>4. Does(o, "ask") /\ Done(o, q) /\ UNCHANGED <<invoices, overrides, runs>> /\ approvals' = NewApproval(r.row, "ksef")
  BY <1>1, <1>2, <1>3 DEF AskForCorrection, importing
<1>5. /\ Working(o) /\ Aware(r) /\ Formed(r) /\ r.agenda # <<>> /\ Head(r.agenda) = "ask"
      /\ "ask" \in Left(r) /\ DOMAIN r = Fields /\ r.row \in DOMAIN invoices
  BY <1>1, <1>4, WorkingLemma DEF RowSteps
<1>6. PICK i \in DOMAIN invoices : i = r.row  BY <1>5
<1>7. /\ PapersInv' /\ Grow /\ n \in DOMAIN approvals' /\ approvals'[n].invoice = r.row
  <2>1. approvals' = NewApproval(i, "ksef")  BY <1>4, <1>6
  <2>2. /\ PapersInv' /\ Grow /\ DOMAIN approvals' = DOMAIN approvals \cup {Len(approvals) + 1}
        /\ approvals'[Len(approvals) + 1] = [invoice |-> i, kind |-> "ksef", status |-> "pending"]
    BY <1>4, <2>1, ApprovalAdded
  <2> QED  BY <1>2, <1>6, <2>2
<1>8. RowsInv'  BY <1>4 DEF BaseInv, RowsInv
<1>9. KeepsRuns(0)  BY <1>4, RunsAlone DEF BaseInv
<1>10. DOMAIN q = Fields /\ q.approval = n /\ \A f \in Fields \ {"approval"} : q[f] = r[f]
  BY <1>3, <1>5 DEF Fields
<1>11. Same(r, q, {"agenda", "run", "messages"}) /\ q.agenda = r.agenda /\ q.type = r.type  BY <1>10 DEF Same, Fields
<1>12. Formed(q)  BY <1>5, <1>10, <1>11 DEF Formed
<1>13. ASSUME NEW s, GoesOn(q, s) PROVE Aware(s)'
  <2>1. CASE Resting(s)  BY <2>1, RestingAware
  <2>2. CASE ~Resting(s)
    <3>1. Formed(s) /\ Same(q, s, Fields \ {"agenda"}) /\ Left(s) = Left(q) \ {"ask"} /\ Left(q) = Left(r)
      BY <1>5, <1>11, <1>13, <2>2 DEF GoesOn, Left
    <3>2. /\ s.row = r.row /\ s.message = r.message /\ s.seen = r.seen
          /\ s.change = r.change /\ s.approval = n /\ s.decision = r.decision
      BY <1>10, <3>1 DEF Same, Fields
    <3>3. Left(r) \cap {"settle", "decide", "insert"} = {}  BY <1>5, HeadLemma DEF RowSteps
    <3>4. Aware(r)'  BY <1>5, <1>7, AwareStays
    <3>5. KnowsRow(s)' /\ KnowsMessage(s)' /\ HasSeen(s)'
      BY <3>1, <3>2, <3>4 DEF Aware, KnowsRow, KnowsMessage, HasSeen
    <3>6. KnowsChange(s)' /\ Corrects(s)'
      BY <3>1, <3>2, <3>4 DEF Aware, KnowsChange, Corrects
    <3>7. KnowsApproval(s)'  BY <1>7, <3>1, <3>2, <3>3 DEF KnowsApproval
    <3> QED  BY <3>1, <3>5, <3>6, <3>7 DEF Aware
  <2> QED  BY <2>1, <2>2
<1> QED  BY <1>1, <1>4, <1>5, <1>7, <1>8, <1>9, <1>11, <1>12, <1>13, KnowingStep

\* A request about a stored invoice, before its first step.
LEMMA FreshAware ==
  ASSUME NEW s, DOMAIN s = Fields, s.type \in Kinds, Ordered(s.agenda), s.row \in DOMAIN invoices,
         Left(s) \cap {"fetch", "look_up", "finalize", "candidate", "insert", "authority"} = {},
         HasSeen(s), KnowsChange(s), KnowsApproval(s), Corrects(s)
  PROVE  Aware(s)
BY DEF Aware, Formed, KnowsRow, KnowsMessage

LEMMA UpdateInvoiceBase ==
  ASSUME BaseInv, NEW o \in Operators, UpdateInvoice(o)
  PROVE  BaseInv'
<1>1. PICK i \in DOMAIN invoices, c \in Changes, may \in BOOLEAN :
        Begin(o, [Idle EXCEPT !.row = i, !.change = c, !.before = invoices[i].contractor,
                             !.agenda = IF invoices[i].authority = "KSEF" THEN Correcting(may) ELSE Editing(c[1])])
  BY DEF UpdateInvoice, Approves
<1>2. UNCHANGED <<invoices, correcting, runs>>  BY DEF UpdateInvoice, importing
<1>3. PICK a : a = IF invoices[i].authority = "KSEF" THEN Correcting(may) ELSE Editing(c[1])  OBVIOUS
<1>4. PICK s : s = [Idle EXCEPT !.row = i, !.change = c, !.before = invoices[i].contractor, !.agenda = a]
  OBVIOUS
<1>5. Becomes(o, s)  BY <1>1, <1>3, <1>4 DEF Begin, Becomes
<1>6. DOMAIN s = Fields /\ s.agenda = a /\ s.row = i /\ s.change = c /\ s.run = 0 /\ s.type = "brak"
  BY <1>4 DEF Idle, Fields
<1>7. c \in KsefFields \X Given  BY InvoicesAssumption
<1>8. Left(s) = Range(a)  BY <1>6 DEF Left
<1>9. CASE invoices[i].authority = "KSEF" /\ may
  <2>1. Ordered(a) /\ Left(s) = {"evaluate", "flag", "stats", "approve_directly", "local", "sync"}
    BY <1>3, <1>8, <1>9, CorrectingOrdered
  <2>2. HasSeen(s)  BY <2>1 DEF HasSeen
  <2>3. KnowsChange(s)  BY <1>6, <1>7, <2>1 DEF KnowsChange
  <2>4. KnowsApproval(s)  BY <2>1 DEF KnowsApproval
  <2>5. Corrects(s)  BY <1>6, <1>9 DEF Corrects
  <2>6. Left(s) \cap {"fetch", "look_up", "finalize", "candidate", "insert", "authority"} = {}
    BY <2>1
  <2>7. Aware(s)  BY <1>6, <2>1, <2>2, <2>3, <2>4, <2>5, <2>6, FreshAware DEF Kinds
  <2> QED  BY <1>2, <1>5, <1>6, <2>6, <2>7, BeginBase
<1>10. CASE invoices[i].authority = "KSEF" /\ ~may
  <2>1. Ordered(a) /\ Left(s) = {"evaluate", "flag", "stats", "ask", "override", "sync"}
    BY <1>3, <1>8, <1>10, AskingOrdered
  <2>2. HasSeen(s)  BY <2>1 DEF HasSeen
  <2>3. KnowsChange(s)  BY <1>6, <1>7, <2>1 DEF KnowsChange
  <2>4. KnowsApproval(s)  BY <2>1 DEF KnowsApproval
  <2>5. Corrects(s)  BY <1>6, <1>10 DEF Corrects
  <2>6. Left(s) \cap {"fetch", "look_up", "finalize", "candidate", "insert", "authority"} = {}
    BY <2>1
  <2>7. Aware(s)  BY <1>6, <2>1, <2>2, <2>3, <2>4, <2>5, <2>6, FreshAware DEF Kinds
  <2> QED  BY <1>2, <1>5, <1>6, <2>6, <2>7, BeginBase
<1>11. CASE invoices[i].authority # "KSEF"
  <2>1. /\ Ordered(a) /\ Left(s) \subseteq {"seek_contractor", "create_contractor", "save", "rehash", "evaluate", "flag", "stats", "sync"}
        /\ {"save", "evaluate"} \subseteq Left(s)
    <3>1. a = Editing(c[1])  BY <1>3, <1>11
    <3>2. CASE c[1] = "supplier"  BY <1>8, <3>1, <3>2, EditingSupplierOrdered
    <3>3. CASE c[1] # "supplier"  BY <1>8, <3>1, <3>3, EditingOrdered
    <3> QED  BY <3>2, <3>3
  <2>2. HasSeen(s)  BY <2>1 DEF HasSeen
  <2>3. KnowsChange(s)  BY <1>6, <1>7, <2>1 DEF KnowsChange
  <2>4. KnowsApproval(s)  BY <2>1 DEF KnowsApproval
  <2>5. Corrects(s)  BY <2>1 DEF Corrects
  <2>6. Left(s) \cap {"fetch", "look_up", "finalize", "candidate", "insert", "authority"} = {}
    BY <2>1
  <2>7. Aware(s)  BY <1>6, <2>1, <2>2, <2>3, <2>4, <2>5, <2>6, FreshAware DEF Kinds
  <2> QED  BY <1>2, <1>5, <1>6, <2>6, <2>7, BeginBase
<1> QED  BY <1>9, <1>10, <1>11

LEMMA ChangingBase ==
  ASSUME BaseInv, NEW o \in Operators, Changing(o)
  PROVE  BaseInv'
BY UpdateInvoiceBase, SaveInvoiceBase, RehashBase, ApproveDirectlyBase, ApplyLocalBase, AskForCorrectionBase,
   SaveOverrideBase DEF Changing

-----------------------------------------------------------------------------
(* The base of the invariant: decisions *)

LEMMA MarkedBase ==
  ASSUME BaseInv, NEW i \in DOMAIN invoices, NEW st \in Statuses, NEW d \in Kinds, MarkRow(i, st, d),
         UNCHANGED <<correcting, runs, request>>
  PROVE  BaseInv'
<1>1. PICK old \in Rows : old = invoices[i]  BY DEF BaseInv, RowsInv
<1>2. PICK row : row = [old EXCEPT !.status = st, !.duplicate = d, !.reason = "manual"]  OBVIOUS
<1>3. invoices' = [invoices EXCEPT ![i] = row]  BY <1>1, <1>2 DEF MarkRow
<1>4. row \in Rows /\ row.authority = old.authority /\ row.file = old.file /\ row.external = old.external
  BY ONLY <1>2, old \in Rows, st \in Statuses, d \in Kinds DEF Rows, Kinds
<1>5. Traced(row)
  <2>1. Traced(old)  BY <1>1 DEF BaseInv, RowsInv, Traced
  <2> QED  BY <1>4, <2>1 DEF Traced
<1>6. /\ RowsInv' /\ DOMAIN invoices' = DOMAIN invoices
      /\ \A j \in DOMAIN invoices : invoices[j].authority = "KSEF" => invoices'[j].authority = "KSEF"
  BY <1>1, <1>3, <1>4, <1>5, RowStep DEF BaseInv
<1>7. PapersInv' /\ Grow  BY <1>6, PapersStay DEF BaseInv
<1>8. AwareInv'
  <2>1. \A r : Aware(r) => Aware(r)'  BY <1>7, AwareStays
  <2>2. ASSUME NEW p \in Operators PROVE Aware(request[p])'
    <3>1. PICK r : r = request[p]  OBVIOUS
    <3>2. Aware(r)'  BY <2>1, <3>1 DEF BaseInv, AwareInv
    <3>3. r = request'[p]  BY <3>1
    <3> QED  BY <3>2, <3>3
  <2> QED  BY <2>2 DEF BaseInv, AwareInv
<1>9. RunsInv'  BY DEF BaseInv, RunsInv, Conducts, Left
<1> QED  BY <1>6, <1>7, <1>8, <1>9 DEF BaseInv

LEMMA MarkingBase ==
  ASSUME BaseInv, NEW o \in Operators, MarkForVerification(o) \/ ConfirmDuplicate(o) \/ MarkCorrect(o)
  PROVE  BaseInv'
<1>1. CASE MarkForVerification(o)
  <2>1. PICK i \in DOMAIN invoices : MarkRow(i, "weryfikacja", invoices[i].duplicate)
    BY <1>1 DEF MarkForVerification
  <2>2. UNCHANGED <<correcting, runs, request>>  BY <1>1 DEF MarkForVerification, Decides, importing
  <2>3. invoices[i].duplicate \in Kinds
    <3>1. invoices[i] \in Rows  BY DEF BaseInv, RowsInv
    <3> QED  BY <3>1 DEF Rows, Kinds
  <2> QED  BY <2>1, <2>2, <2>3, MarkedBase DEF Statuses
<1>2. CASE ConfirmDuplicate(o)
  <2>1. PICK i \in DOMAIN invoices : MarkRow(i, "pewny_duplikat", "pewny")  BY <1>2 DEF ConfirmDuplicate
  <2>2. UNCHANGED <<correcting, runs, request>>  BY <1>2 DEF ConfirmDuplicate, Decides, importing
  <2> QED  BY <2>1, <2>2, MarkedBase DEF Statuses, Kinds
<1>3. CASE MarkCorrect(o)
  <2>1. PICK i \in DOMAIN invoices : MarkRow(i, "poprawna", "brak")  BY <1>3 DEF MarkCorrect
  <2>2. UNCHANGED <<correcting, runs, request>>  BY <1>3 DEF MarkCorrect, Decides, importing
  <2> QED  BY <2>1, <2>2, MarkedBase DEF Statuses, Kinds
<1> QED  BY <1>1, <1>2, <1>3

LEMMA CreateRequestBase ==
  ASSUME BaseInv, NEW o \in Operators, CreateRequest(o)
  PROVE  BaseInv'
<1>1. PICK i \in DOMAIN invoices : approvals' = NewApproval(i, "status")  BY DEF CreateRequest
<1>2. UNCHANGED <<invoices, overrides, runs, request>>  BY DEF CreateRequest, importing
<1>3. PapersInv' /\ Grow  BY <1>1, <1>2, ApprovalAdded
<1>4. RowsInv'  BY <1>2 DEF BaseInv, RowsInv
<1>5. AwareInv'
  <2>1. \A r : Aware(r) => Aware(r)'  BY <1>3, AwareStays
  <2>2. ASSUME NEW p \in Operators PROVE Aware(request[p])'
    <3>1. PICK r : r = request[p]  OBVIOUS
    <3>2. Aware(r)'  BY <2>1, <3>1 DEF BaseInv, AwareInv
    <3>3. r = request'[p]  BY <1>2, <3>1
    <3> QED  BY <3>2, <3>3
  <2> QED  BY <1>2, <2>2 DEF BaseInv, AwareInv
<1>6. RunsInv'  BY <1>2 DEF BaseInv, RunsInv, Conducts, Left
<1> QED  BY <1>3, <1>4, <1>5, <1>6 DEF BaseInv

\* The steps of a decision.
LEMMA DecidingOrdered ==
  ASSUME NEW a, NEW d \in {"approved", "rejected", "cancelled"}, NEW x, x = Deciding(a, d)
  PROVE  /\ Ordered(x) /\ "decide" \in Range(x) /\ Range(x) \subseteq {"decide", "read", "settle", "local", "status"}
         /\ "local" \in Range(x) => {"read", "settle"} \subseteq Range(x)
         /\ "settle" \in Range(x) => d = IF "local" \in Range(x) THEN "approved" ELSE "rejected"
<1>1. CASE d = "cancelled"  BY <1>1, DecideOrdered DEF Deciding
<1>2. CASE d # "cancelled" /\ approvals[a].kind = "status"  BY <1>2, DecideStatusOrdered DEF Deciding
<1>3. CASE d = "approved" /\ approvals[a].kind # "status"  BY <1>3, ApproveOrdered DEF Deciding
<1>4. CASE d = "rejected" /\ approvals[a].kind # "status"  BY <1>4, RejectOrdered DEF Deciding
<1> QED  BY <1>1, <1>2, <1>3, <1>4

LEMMA DecideRequestBase ==
  ASSUME BaseInv, NEW o \in Operators, DecideRequest(o)
  PROVE  BaseInv'
<1>1. PICK a \in DOMAIN approvals, d \in {"approved", "rejected", "cancelled"} :
        Begin(o, [Idle EXCEPT !.agenda = Deciding(a, d), !.approval = a, !.decision = d, !.row = approvals[a].invoice])
  BY DEF DecideRequest
<1>2. UNCHANGED <<invoices, correcting, runs>>  BY DEF DecideRequest, importing
<1>3. PICK x : x = Deciding(a, d)  OBVIOUS
<1>4. PICK s : s = [Idle EXCEPT !.agenda = x, !.approval = a, !.decision = d, !.row = approvals[a].invoice]  OBVIOUS
<1>5. Becomes(o, s)  BY <1>1, <1>3, <1>4 DEF Begin, Becomes
<1>6. /\ DOMAIN s = Fields /\ s.agenda = x /\ s.row = approvals[a].invoice /\ s.approval = a /\ s.decision = d
      /\ s.run = 0 /\ s.type = "brak" /\ Left(s) = Range(x)
  BY <1>4 DEF Idle, Fields, Left
<1>7. /\ Ordered(x) /\ "decide" \in Left(s) /\ Left(s) \subseteq {"decide", "read", "settle", "local", "status"}
      /\ "local" \in Left(s) => {"read", "settle"} \subseteq Left(s)
      /\ "settle" \in Left(s) => d = IF "local" \in Left(s) THEN "approved" ELSE "rejected"
  BY <1>3, <1>6, DecidingOrdered
<1>8. s.row \in DOMAIN invoices  BY <1>6 DEF BaseInv, PapersInv
<1>9. HasSeen(s)  BY <1>7 DEF HasSeen
<1>10. KnowsChange(s)  BY <1>7 DEF KnowsChange
<1>11. KnowsApproval(s)  BY <1>6, <1>7 DEF KnowsApproval
<1>12. Corrects(s)  BY <1>7 DEF Corrects
<1>13. Left(s) \cap {"fetch", "look_up", "finalize", "candidate", "insert", "authority"} = {}  BY <1>7
<1>14. Aware(s)  BY <1>6, <1>7, <1>8, <1>9, <1>10, <1>11, <1>12, <1>13, FreshAware DEF Kinds
<1> QED  BY <1>2, <1>5, <1>6, <1>13, <1>14, BeginBase

LEMMA DecideBase ==
  ASSUME BaseInv, NEW o \in Operators, Decide(o)
  PROVE  BaseInv'
<1>1. PICK r : r = request[o]  OBVIOUS
<1>2. Does(o, "decide") /\ Done(o, r) /\ UNCHANGED <<invoices, overrides, runs>>
  BY <1>1 DEF Decide, importing
<1>3. /\ Working(o) /\ Aware(r) /\ Formed(r) /\ r.agenda # <<>> /\ Head(r.agenda) = "decide" /\ "decide" \in Left(r)
  BY <1>1, <1>2, WorkingLemma
<1>4. PICK a \in DOMAIN approvals : a = r.approval  BY <1>3 DEF Aware, KnowsApproval
<1>5. PICK d \in {"approved", "rejected", "cancelled"} : d = r.decision  BY <1>3 DEF Aware, KnowsApproval
<1>6. PICK row : row = [approvals[a] EXCEPT !.status = d]  OBVIOUS
<1>7. approvals' = [approvals EXCEPT ![a] = row]  BY <1>1, <1>4, <1>5, <1>6 DEF Decide
<1>8. approvals \in Seq(ApprovalRows)  BY DEF BaseInv, PapersInv
<1>9. row \in ApprovalRows /\ row.invoice = approvals[a].invoice
  <2>1. approvals[a] \in ApprovalRows  BY <1>8
  <2> QED  BY <1>6, <2>1 DEF ApprovalRows
<1>10. /\ approvals' \in Seq(ApprovalRows) /\ DOMAIN approvals' = DOMAIN approvals /\ Len(approvals') = Len(approvals)
       /\ \A b \in DOMAIN approvals : approvals'[b].invoice = approvals[b].invoice
  BY <1>7, <1>8, <1>9
<1>11. PapersInv'
  <2>1. 0 \notin DOMAIN approvals /\ \A k \in DOMAIN overrides :
          overrides[k].approval \in 0..Len(approvals)
          /\ (overrides[k].approval # 0 => overrides[k].approval \in DOMAIN approvals)
    BY <1>8 DEF BaseInv, PapersInv
  <2> QED  BY <1>2, <1>10, <2>1 DEF BaseInv, PapersInv
<1>12. Grow  BY <1>2, <1>10 DEF Grow
<1>13. RowsInv'  BY <1>2 DEF BaseInv, RowsInv
<1>14. KeepsRuns(0)  BY <1>2, RunsAlone DEF BaseInv
<1>15. Same(r, r, {"agenda", "run", "messages"}) /\ Same(r, r, Kept \ {"seen"})  BY DEF Same
<1>16. ASSUME NEW s, GoesOn(r, s) PROVE Aware(s)'
  BY <1>3, <1>12, <1>15, <1>16, AwareOn
<1> QED  BY <1>1, <1>2, <1>3, <1>11, <1>12, <1>13, <1>14, <1>15, <1>16, KnowingStep

LEMMA ApplyStatusBase ==
  ASSUME BaseInv, NEW o \in Operators, ApplyStatus(o)
  PROVE  BaseInv'
<1>1. PICK r : r = request[o]  OBVIOUS
<1>2. Does(o, "status") /\ Becomes(o, Idle) /\ UNCHANGED <<correcting, runs>>
  BY DEF ApplyStatus, importing, Becomes
<1>3. r.row \in DOMAIN invoices  BY <1>1, <1>2, WorkingLemma DEF RowSteps
<1>4. PICK old \in Rows : old = invoices[r.row]  BY <1>3 DEF BaseInv, RowsInv
<1>5. PICK st \in Statuses : st = EntityStatus(r.decision)  BY DEF EntityStatus, Statuses
<1>6. PICK row : row = [old EXCEPT !.status = st]  OBVIOUS
<1>7. invoices' = [invoices EXCEPT ![r.row] = row]  BY <1>1, <1>4, <1>5, <1>6 DEF ApplyStatus
<1>8. row \in Rows /\ row.authority = old.authority /\ row.file = old.file /\ row.external = old.external
  BY ONLY <1>6, old \in Rows, st \in Statuses DEF Rows
<1>9. Traced(row)
  <2>1. Traced(old)  BY <1>3, <1>4 DEF BaseInv, RowsInv, Traced
  <2> QED  BY <1>8, <2>1 DEF Traced
<1>10. /\ RowsInv' /\ DOMAIN invoices' = DOMAIN invoices
       /\ \A j \in DOMAIN invoices : invoices[j].authority = "KSEF" => invoices'[j].authority = "KSEF"
  BY <1>3, <1>4, <1>7, <1>8, <1>9, RowStep DEF BaseInv
<1>11. PapersInv' /\ Grow  BY <1>2, <1>10, PapersStay DEF BaseInv
<1>12. KeepsRuns(request[o].run)  BY <1>2, RunsAlone DEF BaseInv
<1> QED  BY <1>2, <1>10, <1>11, <1>12, IdleStep

LEMMA ReadInvoiceBase ==
  ASSUME BaseInv, NEW o \in Operators, ReadInvoice(o)
  PROVE  BaseInv'
<1>1. PICK r : r = request[o]  OBVIOUS
<1>2. PICK q : q = [r EXCEPT !.seen = invoices[r.row]]  OBVIOUS
<1>3. Does(o, "read") /\ Done(o, q) /\ UNCHANGED <<invoices, correcting, runs>>
  BY <1>1, <1>2 DEF ReadInvoice, importing
<1>4. /\ Working(o) /\ Aware(r) /\ Formed(r) /\ r.agenda # <<>> /\ Head(r.agenda) = "read"
      /\ DOMAIN r = Fields /\ r.row \in DOMAIN invoices
  BY <1>1, <1>3, WorkingLemma DEF RowSteps
<1>5. DOMAIN q = Fields /\ q.seen = invoices[r.row] /\ \A f \in Fields \ {"seen"} : q[f] = r[f]
  BY <1>2, <1>4 DEF Fields
<1>6. /\ Same(r, q, {"agenda", "run", "messages"}) /\ Same(r, q, Kept \ {"seen"})
      /\ q.agenda = r.agenda /\ q.type = r.type
  BY <1>5 DEF Same, Fields, Kept
<1>7. Formed(q)  BY <1>4, <1>5, <1>6 DEF Formed
<1>8. q.seen \in Rows  BY <1>4, <1>5 DEF BaseInv, RowsInv
<1>9. RowsInv'  BY <1>3 DEF BaseInv, RowsInv
<1>10. PapersInv' /\ Grow  BY <1>3, PapersStay DEF BaseInv
<1>11. KeepsRuns(0)  BY <1>3, RunsAlone DEF BaseInv
<1>12. ASSUME NEW s, GoesOn(q, s) PROVE Aware(s)'
  BY <1>4, <1>6, <1>8, <1>10, <1>12, AwareOn
<1> QED  BY <1>1, <1>3, <1>4, <1>6, <1>7, <1>9, <1>10, <1>11, <1>12, KnowingStep

LEMMA SettleBase ==
  ASSUME BaseInv, NEW o \in Operators, Settle(o)
  PROVE  BaseInv'
<1>1. PICK r : r = request[o]  OBVIOUS
<1>2. PICK k \in DOMAIN overrides : /\ overrides[k].approval = r.approval
                                    /\ overrides' = [overrides EXCEPT ![k].status = r.decision]
                                    /\ Done(o, [r EXCEPT !.change = <<overrides[k].field, overrides[k].value>>])
  BY <1>1 DEF Settle, OverridesOf
<1>3. Does(o, "settle") /\ UNCHANGED <<invoices, approvals, runs>>  BY DEF Settle, importing
<1>4. /\ Working(o) /\ Aware(r) /\ Formed(r) /\ r.agenda # <<>> /\ Head(r.agenda) = "settle" /\ "settle" \in Left(r)
      /\ DOMAIN r = Fields /\ r.row \in DOMAIN invoices
  BY <1>1, <1>3, WorkingLemma DEF RowSteps
<1>5. PICK d \in {"approved", "rejected"} : d = r.decision  BY <1>4 DEF Aware, KnowsApproval
<1>6. overrides \in Seq(OverrideRows)  BY DEF BaseInv, PapersInv
<1>7. PICK old \in OverrideRows : old = overrides[k]  BY <1>6
<1>8. PICK row : row = [old EXCEPT !.status = d]  OBVIOUS
<1>9. overrides' = [overrides EXCEPT ![k] = row]  BY <1>2, <1>5, <1>7, <1>8
<1>10. row \in OverrideRows /\ row.invoice = old.invoice /\ row.approval = old.approval
  BY <1>8 DEF OverrideRows
<1>11. /\ overrides' \in Seq(OverrideRows) /\ DOMAIN overrides' = DOMAIN overrides
       /\ \A l \in DOMAIN overrides : overrides'[l].invoice = overrides[l].invoice
                                      /\ overrides'[l].approval = overrides[l].approval
  BY <1>6, <1>7, <1>9, <1>10
<1>12. PapersInv'  BY <1>3, <1>11 DEF BaseInv, PapersInv
<1>13. Grow  BY <1>3 DEF Grow
<1>14. RowsInv'  BY <1>3 DEF BaseInv, RowsInv
<1>15. KeepsRuns(0)  BY <1>3, RunsAlone DEF BaseInv
<1>16. PICK c \in KsefFields \X Given : c = <<overrides[k].field, overrides[k].value>>
  BY <1>7 DEF OverrideRows
<1>17. PICK q : q = [r EXCEPT !.change = c]  OBVIOUS
<1>18. Done(o, q)  BY <1>2, <1>16, <1>17
<1>19. DOMAIN q = Fields /\ q.change = c /\ \A f \in Fields \ {"change"} : q[f] = r[f]
  BY <1>4, <1>17 DEF Fields
<1>20. Same(r, q, {"agenda", "run", "messages"}) /\ q.agenda = r.agenda /\ q.type = r.type  BY <1>19 DEF Same, Fields
<1>21. Formed(q)  BY <1>4, <1>19, <1>20 DEF Formed
<1>22. ASSUME NEW s, GoesOn(q, s) PROVE Aware(s)'
  <2>1. CASE Resting(s)  BY <2>1, RestingAware
  <2>2. CASE ~Resting(s)
    <3>1. Formed(s) /\ Same(q, s, Fields \ {"agenda"}) /\ Left(s) = Left(q) \ {"settle"} /\ Left(q) = Left(r)
      BY <1>4, <1>20, <1>22, <2>2 DEF GoesOn, Left
    <3>2. /\ s.row = r.row /\ s.message = r.message /\ s.seen = r.seen
          /\ s.change = c /\ s.approval = r.approval /\ s.decision = r.decision
      BY <1>19, <3>1 DEF Same, Fields
    <3>3. Aware(r)'  BY <1>4, <1>13, AwareStays
    <3>4. "read" \notin Left(r)  BY <1>4, HeadLemma
    <3>5. KnowsRow(s)' /\ KnowsMessage(s)' /\ Corrects(s)'
      BY <3>1, <3>2, <3>3 DEF Aware, KnowsRow, KnowsMessage, Corrects
    <3>6. HasSeen(s)'  BY <3>1, <3>2, <3>3, <3>4 DEF Aware, HasSeen
    <3>7. KnowsChange(s)'  BY <3>2 DEF KnowsChange
    <3>8. KnowsApproval(s)'  BY <3>1, <3>2, <3>3 DEF Aware, KnowsApproval
    <3> QED  BY <3>1, <3>5, <3>6, <3>7, <3>8 DEF Aware
  <2> QED  BY <2>1, <2>2
<1> QED  BY <1>1, <1>4, <1>12, <1>13, <1>14, <1>15, <1>18, <1>20, <1>21, <1>22, KnowingStep

LEMMA DecidingBase ==
  ASSUME BaseInv, NEW o \in Operators, DecidingOn(o)
  PROVE  BaseInv'
<1>1. CASE NothingToSettle(o)
  <2>1. EndHalfWay(o) /\ UNCHANGED <<invoices, correcting, runs>>  BY <1>1 DEF NothingToSettle
  <2> QED  BY <2>1, EndHalfWayBase
<1> QED
  BY <1>1, MarkingBase, CreateRequestBase, DecideRequestBase, DecideBase, ApplyStatusBase, ReadInvoiceBase,
     SettleBase DEF DecidingOn

LEMMA CreatingBase ==
  ASSUME BaseInv, NEW o \in Operators, Creating(o)
  PROVE  BaseInv'
<1>1. CASE ContractorExists(o)
  <2>1. EndHalfWay(o) /\ UNCHANGED <<invoices, correcting, runs>>  BY <1>1 DEF ContractorExists
  <2> QED  BY <2>1, EndHalfWayBase
<1> QED
  BY <1>1, FindCandidateBase, SeekContractorBase, CreateContractorBase, InsertBase, InsertRefusedBase,
     ApplyAuthorityBase, RefreshStatsBase, EvaluateBase, FlagBase, SyncBase DEF Creating

LEMMA DieBase ==
  ASSUME BaseInv, NEW o \in Operators, Die(o)
  PROVE  BaseInv'
<1>1. EndHalfWay(o) /\ UNCHANGED <<invoices, correcting, runs>>  BY DEF Die
<1> QED  BY <1>1, EndHalfWayBase

-----------------------------------------------------------------------------

LEMMA FirstInvoiceLemma ==
  /\ FirstInvoice \in Rows /\ FirstInvoice.file = Early /\ FirstInvoice.external = EarlyDoc
  /\ FirstInvoice.authority = "KSEF" /\ \A f \in KsefFields : FirstInvoice.local[f] = NoValue
<1>1. Early \in Messages /\ EarlyDoc \in Messages  BY InvoicesAssumption
<1>2. PICK n \in Rows : n = NewInvoice(Early) /\ n.file = Early  BY <1>1, NewRow
<1>3. n.local = [f \in KsefFields |-> NoValue]  BY <1>2 DEF NewInvoice
<1>4. PICK vk \in Values, vn \in Values : vk = Paper[EarlyDoc].ksef /\ vn = Paper[EarlyDoc].number
  BY <1>1, PaperValues
<1>5. PICK row : row = [n EXCEPT !.external = EarlyDoc, !.authority = "KSEF", !.ksef = vk, !.number = vn]  OBVIOUS
<1>6. PICK e \in Messages : e = EarlyDoc  BY <1>1
<1>7. row \in Rows /\ row.file = Early /\ row.external = EarlyDoc /\ row.authority = "KSEF" /\ row.local = n.local
  BY ONLY <1>2, <1>5, <1>6, n \in Rows, vk \in Values, vn \in Values DEF Rows, Sources
<1>8. PICK h \in Hashes : h = Hash(row)  BY <1>7, HashLemma
<1>9. FirstInvoice = [row EXCEPT !.hash = h]  BY <1>2, <1>4, <1>5, <1>8 DEF FirstInvoice
<1>10. /\ FirstInvoice \in Rows /\ FirstInvoice.file = row.file /\ FirstInvoice.external = row.external
       /\ FirstInvoice.authority = row.authority /\ FirstInvoice.local = row.local
  BY ONLY <1>7, <1>9, h \in Hashes DEF Rows
<1> QED  BY <1>3, <1>7, <1>10

LEMMA InitBase == Init => BaseInv
<1> SUFFICES ASSUME Init PROVE BaseInv
  OBVIOUS
<1>1. invoices = <<FirstInvoice>> /\ approvals = <<>> /\ overrides = <<>> /\ runs = <<>>
      /\ request = [o \in Operators |-> Idle]
  BY DEF Init
<1>2. RowsInv
  <2>1. DOMAIN invoices = {1} /\ invoices[1] = FirstInvoice /\ invoices \in Seq(Rows)  BY <1>1, FirstInvoiceLemma
  <2> QED  BY <2>1, FirstInvoiceLemma, InvoicesAssumption DEF RowsInv
<1>3. PapersInv  BY <1>1 DEF PapersInv
<1>4. Aware(Idle)
  <2>1. Left(Idle) = {} /\ Formed(Idle)  BY IdleLemma DEF Resting
  <2> QED  BY <2>1 DEF Aware, KnowsRow, KnowsMessage, HasSeen, KnowsChange, KnowsApproval, Corrects
<1>5. AwareInv  BY <1>1, <1>4 DEF AwareInv
<1>6. RunsInv
  <2>1. Idle.run = 0 /\ Left(Idle) = {}  BY IdleLemma
  <2>2. Conducts(Idle)  BY <2>1 DEF Conducts
  <2> QED  BY <1>1, <2>1, <2>2 DEF RunsInv
<1> QED  BY <1>2, <1>3, <1>5, <1>6 DEF BaseInv

LEMMA StutterBase ==
  ASSUME BaseInv, UNCHANGED <<invoices, correcting, runs, request>>
  PROVE  BaseInv'
<1>1. RowsInv'  BY DEF BaseInv, RowsInv
<1>2. PapersInv' /\ Grow  BY PapersStay DEF BaseInv
<1>3. AwareInv'
  <2>1. \A r : Aware(r) => Aware(r)'  BY <1>2, AwareStays
  <2>2. ASSUME NEW p \in Operators PROVE Aware(request[p])'
    <3>1. PICK r : r = request[p]  OBVIOUS
    <3>2. Aware(r)'  BY <2>1, <3>1 DEF BaseInv, AwareInv
    <3>3. r = request'[p]  BY <3>1
    <3> QED  BY <3>2, <3>3
  <2> QED  BY <2>2 DEF BaseInv, AwareInv
<1>4. RunsInv'  BY DEF BaseInv, RunsInv, Conducts, Left
<1> QED  BY <1>1, <1>2, <1>3, <1>4 DEF BaseInv

\* Rows keep their shape; what a request knows of the rows it works on, and of the run it imports
\* for, stays so whoever else works meanwhile.
THEOREM RequestsKnow == Spec => []BaseInv
<1>1. BaseInv /\ [Next]_vars => BaseInv'
  <2> SUFFICES ASSUME BaseInv, [Next]_vars PROVE BaseInv'
    OBVIOUS
  <2>1. ASSUME NEW o \in Operators, Importing(o) \/ Creating(o) \/ Changing(o) \/ DecidingOn(o) \/ Die(o)
        PROVE  BaseInv'
    BY <2>1, ImportingBase, CreatingBase, ChangingBase, DecidingBase, DieBase
  <2>2. CASE UNCHANGED vars
    <3>1. UNCHANGED <<invoices, correcting, runs, request>>  BY <2>2 DEF vars, correcting, importing
    <3> QED  BY <3>1, StutterBase
  <2> QED  BY <2>1, <2>2 DEF Next
<1> QED  BY <1>1, InitBase, PTL DEF Spec

-----------------------------------------------------------------------------
(* What a transaction makes of its request *)

\* The request, knowing q after its transaction, becomes s.
Turn(o, q, s) == Becomes(o, s) /\ GoesOn(q, s) /\ Formed(q) /\ q.agenda = request[o].agenda

LEMMA TurnLemma ==
  ASSUME BaseInv, NEW o \in Operators, NEW x, Does(o, x), NEW q, Done(o, q), DOMAIN q = Fields, q.type \in Kinds,
         q.agenda = request[o].agenda
  PROVE  \E s : Turn(o, q, s)
<1>1. Formed(q)
  <2>1. Formed(request[o])  BY WorkingLemma
  <2> QED  BY <2>1 DEF Formed
<1>2. PICK s : s = Then(q, Tail(q.agenda))  OBVIOUS
<1>3. q.agenda # <<>>  BY DEF Does, Working
<1>4. GoesOn(q, s)  BY <1>1, <1>2, <1>3, GoesOnLemma
<1>5. Becomes(o, s)  BY <1>2 DEF Done, Becomes
<1> QED  BY <1>1, <1>4, <1>5 DEF Turn

\* Transactions from which a request learns nothing.
Plain(o) ==
  \/ Fetch(o) \/ AddItem(o) \/ CreateContractor(o) \/ RefreshStats(o) \/ Sync(o)
  \/ Rehash(o) \/ ApproveDirectly(o) \/ ApplyAuthority(o) \/ Decide(o)

LEMMA PlainTurn ==
  ASSUME BaseInv, NEW o \in Operators, Plain(o)
  PROVE  \E q, s : Turn(o, q, s) /\ Same(request[o], q, Fields \ {"before"})
<1>1. PICK r : r = request[o]  OBVIOUS
<1>2. ASSUME NEW x, Does(o, x), Done(o, r)
      PROVE  \E q, s : Turn(o, q, s) /\ Same(request[o], q, Fields \ {"before"})
  <2>1. DOMAIN r = Fields /\ r.type \in Kinds  BY <1>1, <1>2, WorkingLemma
  <2>2. \E s : Turn(o, r, s)  BY <1>1, <1>2, <2>1, TurnLemma
  <2> QED  BY <1>1, <2>2 DEF Same
<1>3. CASE RefreshStats(o)
  <2>1. PICK q : q = [r EXCEPT !.before = NoValue]  OBVIOUS
  <2>2. Does(o, "stats") /\ Done(o, q)  BY <1>1, <1>3, <2>1 DEF RefreshStats
  <2>3. DOMAIN r = Fields /\ r.type \in Kinds  BY <1>1, <2>2, WorkingLemma
  <2>4. DOMAIN q = Fields /\ \A f \in Fields \ {"before"} : q[f] = r[f]  BY <2>1, <2>3 DEF Fields
  <2>5. q.type \in Kinds /\ q.agenda = request[o].agenda  BY <1>1, <2>3, <2>4 DEF Fields
  <2>6. \E s : Turn(o, q, s)  BY <2>2, <2>4, <2>5, TurnLemma
  <2> QED  BY <1>1, <2>4, <2>6 DEF Same
<1>4. CASE Fetch(o)  BY <1>1, <1>2, <1>4 DEF Fetch
<1>5. CASE AddItem(o)  BY <1>1, <1>2, <1>5 DEF AddItem
<1>6. CASE CreateContractor(o)  BY <1>1, <1>2, <1>6 DEF CreateContractor
<1>7. CASE Sync(o)  BY <1>1, <1>2, <1>7 DEF Sync
<1>8. CASE Rehash(o)  BY <1>1, <1>2, <1>8 DEF Rehash
<1>9. CASE ApproveDirectly(o)  BY <1>1, <1>2, <1>9 DEF ApproveDirectly
<1>10. CASE ApplyAuthority(o)  BY <1>1, <1>2, <1>10 DEF ApplyAuthority
<1>11. CASE Decide(o)  BY <1>1, <1>2, <1>11 DEF Decide
<1> QED  BY <1>3, <1>4, <1>5, <1>6, <1>7, <1>8, <1>9, <1>10, <1>11 DEF Plain

\* Transactions after which the request has seen its invoice as it is.
LEMMA SeenTurn ==
  ASSUME BaseInv, NEW o \in Operators, NEW x \in {"save", "local", "override", "read"}, Does(o, x),
         NEW v, Done(o, [request[o] EXCEPT !.seen = v])
  PROVE  \E q, s : Turn(o, q, s) /\ Same(request[o], q, Fields \ {"seen"}) /\ q.seen = v
<1>1. PICK r : r = request[o]  OBVIOUS
<1>2. PICK q : q = [r EXCEPT !.seen = v]  OBVIOUS
<1>3. DOMAIN r = Fields /\ r.type \in Kinds  BY <1>1, WorkingLemma
<1>4. DOMAIN q = Fields /\ q.seen = v /\ \A f \in Fields \ {"seen"} : q[f] = r[f]  BY <1>2, <1>3 DEF Fields
<1>5. q.type \in Kinds /\ q.agenda = request[o].agenda  BY <1>1, <1>3, <1>4 DEF Fields
<1>6. Done(o, q)  BY <1>1, <1>2
<1>7. \E s : Turn(o, q, s)  BY <1>4, <1>5, <1>6, TurnLemma
<1> QED  BY <1>1, <1>4, <1>7 DEF Same

LEMMA WritesLemma ==
  ASSUME BaseInv, NEW i \in DOMAIN invoices, NEW row, Writes(i, row)
  PROVE  DOMAIN invoices' = DOMAIN invoices /\ invoices'[i] = row
         /\ \A j \in DOMAIN invoices : j # i => invoices'[j] = invoices[j]
<1>1. invoices \in Seq(Rows)  BY DEF BaseInv, RowsInv
<1> QED  BY <1>1 DEF Writes

LEMMA SaveTurn ==
  ASSUME BaseInv, NEW o \in Operators, SaveInvoice(o)
  PROVE  \E q, s : Turn(o, q, s) /\ Same(request[o], q, Fields \ {"seen"}) /\ q.seen = invoices'[request[o].row]
<1>1. PICK row : Writes(request[o].row, row) /\ Done(o, [request[o] EXCEPT !.seen = row])  BY SaveWrites
<1>2. Does(o, "save")  BY DEF SaveInvoice
<1>3. request[o].row \in DOMAIN invoices  BY <1>2, WorkingLemma DEF RowSteps
<1>4. invoices'[request[o].row] = row  BY <1>1, <1>3, WritesLemma
<1> QED  BY <1>1, <1>2, <1>4, SeenTurn

LEMMA LocalTurn ==
  ASSUME BaseInv, NEW o \in Operators, ApplyLocal(o)
  PROVE  \E q, s : Turn(o, q, s) /\ Same(request[o], q, Fields \ {"seen"}) /\ q.seen = invoices'[request[o].row]
<1>1. PICK row : Writes(request[o].row, row) /\ Done(o, [request[o] EXCEPT !.seen = row])  BY LocalWrites
<1>2. Does(o, "local")  BY DEF ApplyLocal
<1>3. request[o].row \in DOMAIN invoices  BY <1>2, WorkingLemma DEF RowSteps
<1>4. invoices'[request[o].row] = row  BY <1>1, <1>3, WritesLemma
<1> QED  BY <1>1, <1>2, <1>4, SeenTurn

LEMMA OverrideTurn ==
  ASSUME BaseInv, NEW o \in Operators, SaveOverride(o)
  PROVE  \E q, s : Turn(o, q, s) /\ Same(request[o], q, Fields \ {"seen"}) /\ q.seen = invoices'[request[o].row]
<1>1. Does(o, "override") /\ invoices' = invoices /\ Done(o, [request[o] EXCEPT !.seen = invoices[request[o].row]])
  BY DEF SaveOverride
<1> QED  BY <1>1, SeenTurn

LEMMA ReadTurn ==
  ASSUME BaseInv, NEW o \in Operators, ReadInvoice(o)
  PROVE  \E q, s : Turn(o, q, s) /\ Same(request[o], q, Fields \ {"seen"}) /\ q.seen = invoices'[request[o].row]
<1>1. Does(o, "read") /\ invoices' = invoices /\ Done(o, [request[o] EXCEPT !.seen = invoices[request[o].row]])
  BY DEF ReadInvoice
<1> QED  BY <1>1, SeenTurn

LEMMA FlagTurn ==
  ASSUME BaseInv, NEW o \in Operators, Flag(o)
  PROVE  \E q, s : /\ Turn(o, q, s) /\ Same(request[o], q, Fields \ {"seen", "matches", "type"})
                   /\ q.seen = invoices'[request[o].row] /\ q.type = "brak"
<1>1. PICK r : r = request[o]  OBVIOUS
<1>2. PICK row : Writes(r.row, row) /\ Done(o, [r EXCEPT !.seen = row, !.matches = {}, !.type = "brak"])
  BY <1>1, FlagWrites
<1>3. Does(o, "flag")  BY DEF Flag
<1>4. r.row \in DOMAIN invoices /\ DOMAIN r = Fields  BY <1>1, <1>3, WorkingLemma DEF RowSteps
<1>5. invoices'[r.row] = row  BY <1>2, <1>4, WritesLemma
<1>6. PICK q : q = [r EXCEPT !.seen = row, !.matches = {}, !.type = "brak"]  OBVIOUS
<1>7. /\ DOMAIN q = Fields /\ q.seen = row /\ q.type = "brak" /\ q.type \in Kinds
      /\ \A f \in Fields \ {"seen", "matches", "type"} : q[f] = r[f]
  BY <1>4, <1>6 DEF Fields, Kinds
<1>8. q.agenda = request[o].agenda  BY <1>1, <1>7 DEF Fields
<1>9. \E s : Turn(o, q, s)  BY <1>2, <1>3, <1>6, <1>7, <1>8, TurnLemma
<1> QED  BY <1>1, <1>5, <1>7, <1>9 DEF Same

\* What a duplicate check of the row i finds.
ExactOf(i) == SameKsef(invoices[i].ksef, DOMAIN invoices \ {i})
SuspectedOf(i) == SameNumber(invoices[i].number, invoices[i].supplier, DOMAIN invoices \ {i})

\* The request q knows what a check of the row i finds.
Finds(q, i) ==
  /\ q.matches = (IF ExactOf(i) # {} THEN ExactOf(i) ELSE SuspectedOf(i))
  /\ q.type = (IF ExactOf(i) # {} THEN "pewny" ELSE IF SuspectedOf(i) # {} THEN "podejrzenie" ELSE "brak")

LEMMA EvaluateTurn ==
  ASSUME BaseInv, NEW o \in Operators, NEW r, r = request[o], Evaluate(o)
  PROVE  \E q, s : /\ Turn(o, q, s) /\ Same(r, q, Fields \ {"seen", "matches", "type"})
                   /\ q.seen = invoices[r.row] /\ Finds(q, r.row)
<1>1. Does(o, "evaluate")  BY DEF Evaluate
<1>2. DOMAIN r = Fields  BY <1>1, WorkingLemma
<1>3. PICK ms : ms = IF ExactOf(r.row) # {} THEN ExactOf(r.row) ELSE SuspectedOf(r.row)  OBVIOUS
<1>4. PICK ty : ty = IF ExactOf(r.row) # {} THEN "pewny" ELSE IF SuspectedOf(r.row) # {} THEN "podejrzenie" ELSE "brak"
  OBVIOUS
<1>5. PICK q : q = [r EXCEPT !.seen = invoices[r.row], !.matches = ms, !.type = ty]  OBVIOUS
<1>6. Done(o, q)  BY <1>3, <1>4, <1>5 DEF Evaluate, ExactOf, SuspectedOf
<1>7. /\ DOMAIN q = Fields /\ q.seen = invoices[r.row] /\ q.matches = ms /\ q.type = ty
      /\ \A f \in Fields \ {"seen", "matches", "type"} : q[f] = r[f]
  BY <1>2, <1>5 DEF Fields
<1>8. q.agenda = request[o].agenda /\ q.type \in Kinds  BY <1>4, <1>7 DEF Fields, Kinds
<1>9. \E s : Turn(o, q, s)  BY <1>1, <1>6, <1>7, <1>8, TurnLemma
<1>10. Finds(q, r.row)  BY <1>3, <1>4, <1>7 DEF Finds
<1> QED  BY <1>7, <1>9, <1>10 DEF Same

LEMMA InsertTurn ==
  ASSUME BaseInv, NEW o \in Operators, NEW r, r = request[o], Insert(o)
  PROVE  \E q, s : /\ Turn(o, q, s) /\ Same(r, q, Fields \ {"row"}) /\ q.row = Len(invoices) + 1
<1>1. Does(o, "insert")  BY DEF Insert
<1>2. DOMAIN r = Fields /\ r.type \in Kinds  BY <1>1, WorkingLemma
<1>3. PICK i : i = Len(invoices) + 1  OBVIOUS
<1>4. PICK q : q = [r EXCEPT !.row = i]  OBVIOUS
<1>5. Done(o, q)  BY <1>3, <1>4 DEF Insert
<1>6. DOMAIN q = Fields /\ q.row = i /\ \A f \in Fields \ {"row"} : q[f] = r[f]  BY <1>2, <1>4 DEF Fields
<1>7. q.agenda = request[o].agenda /\ q.type \in Kinds  BY <1>2, <1>6 DEF Fields
<1>8. \E s : Turn(o, q, s)  BY <1>1, <1>5, <1>6, <1>7, TurnLemma
<1> QED  BY <1>3, <1>6, <1>8 DEF Same

LEMMA AskTurn ==
  ASSUME BaseInv, NEW o \in Operators, NEW r, r = request[o], AskForCorrection(o)
  PROVE  \E q, s : /\ Turn(o, q, s) /\ Same(r, q, Fields \ {"approval"}) /\ q.approval = Len(approvals) + 1
<1>1. Does(o, "ask")  BY DEF AskForCorrection
<1>2. DOMAIN r = Fields /\ r.type \in Kinds  BY <1>1, WorkingLemma
<1>3. PICK n : n = Len(approvals) + 1  OBVIOUS
<1>4. PICK q : q = [r EXCEPT !.approval = n]  OBVIOUS
<1>5. Done(o, q)  BY <1>3, <1>4 DEF AskForCorrection
<1>6. DOMAIN q = Fields /\ q.approval = n /\ \A f \in Fields \ {"approval"} : q[f] = r[f]  BY <1>2, <1>4 DEF Fields
<1>7. q.agenda = request[o].agenda /\ q.type \in Kinds  BY <1>2, <1>6 DEF Fields
<1>8. \E s : Turn(o, q, s)  BY <1>1, <1>5, <1>6, <1>7, TurnLemma
<1> QED  BY <1>3, <1>6, <1>8 DEF Same

\* The request r, settling its correction k, knows q and becomes s.
Settling(o, r, k, q, s) ==
  /\ Turn(o, q, s) /\ Same(r, q, Fields \ {"change"})
  /\ q.change = <<overrides[k].field, overrides[k].value>>
  /\ overrides' = [overrides EXCEPT ![k].status = r.decision]

LEMMA SettleTurn ==
  ASSUME BaseInv, NEW o \in Operators, NEW r, r = request[o], Settle(o)
  PROVE  \E q, s : \E k \in OverridesOf(r.approval) : Settling(o, r, k, q, s)
<1>1. Does(o, "settle")  BY DEF Settle
<1>2. DOMAIN r = Fields /\ r.type \in Kinds  BY <1>1, WorkingLemma
<1>3. PICK k \in OverridesOf(r.approval) : /\ overrides' = [overrides EXCEPT ![k].status = r.decision]
                                         /\ Done(o, [r EXCEPT !.change = <<overrides[k].field, overrides[k].value>>])
  BY DEF Settle
<1>4. PICK c : c = <<overrides[k].field, overrides[k].value>>  OBVIOUS
<1>5. PICK q : q = [r EXCEPT !.change = c]  OBVIOUS
<1>6. Done(o, q)  BY <1>3, <1>4, <1>5
<1>7. DOMAIN q = Fields /\ q.change = c /\ \A f \in Fields \ {"change"} : q[f] = r[f]
  BY <1>2, <1>5 DEF Fields
<1>8. q.agenda = request[o].agenda /\ q.type \in Kinds  BY <1>2, <1>7 DEF Fields
<1>9. \E s : Turn(o, q, s)  BY <1>1, <1>6, <1>7, <1>8, TurnLemma
<1> QED  BY <1>3, <1>4, <1>7, <1>9 DEF Same, Settling

-----------------------------------------------------------------------------
(* No message of a mailbox is left behind *)

FilesStay ==
  DOMAIN invoices \subseteq DOMAIN invoices' /\ \A i \in DOMAIN invoices : invoices'[i].file = invoices[i].file

RunsStay ==
  /\ DOMAIN runs \subseteq DOMAIN runs'
  /\ \A k \in DOMAIN runs : runs'[k].source = runs[k].source /\ (runs[k].errors > 0 => runs'[k].errors > 0)

LEMMA SameFiles == UNCHANGED invoices => FilesStay
BY DEF FilesStay

LEMMA SameRuns == UNCHANGED runs => RunsStay
BY DEF RunsStay

LEMMA WritesFile ==
  ASSUME BaseInv, NEW i \in DOMAIN invoices, NEW row, Writes(i, row), row.file = invoices[i].file
  PROVE  FilesStay
BY WritesLemma DEF FilesStay

LEMMA MarkWrites ==
  ASSUME BaseInv, NEW i \in DOMAIN invoices, NEW st \in Statuses, NEW d \in Kinds, MarkRow(i, st, d)
  PROVE  \E row : /\ Writes(i, row) /\ row \in Rows
                  /\ \A f \in RowFields \ {"status", "duplicate", "reason"} : row[f] = invoices[i][f]
<1>1. PICK old \in Rows : old = invoices[i]  BY DEF BaseInv, RowsInv
<1>2. PICK row : row = [old EXCEPT !.status = st, !.duplicate = d, !.reason = "manual"]  OBVIOUS
<1>3. Writes(i, row)  BY <1>1, <1>2 DEF MarkRow, Writes
<1>4. row \in Rows /\ \A f \in RowFields \ {"status", "duplicate", "reason"} : row[f] = old[f]
  BY ONLY <1>2, old \in Rows, st \in Statuses, d \in Kinds DEF Rows, Kinds, RowFields
<1> QED  BY <1>1, <1>3, <1>4

LEMMA StatusWrites ==
  ASSUME BaseInv, NEW o \in Operators, NEW r, r = request[o], ApplyStatus(o)
  PROVE  \E row : Writes(r.row, row) /\ row \in Rows /\ \A f \in RowFields \ {"status"} : row[f] = invoices[r.row][f]
<1>1. Does(o, "status")  BY DEF ApplyStatus
<1>2. r.row \in DOMAIN invoices  BY <1>1, WorkingLemma DEF RowSteps
<1>3. PICK old \in Rows : old = invoices[r.row]  BY <1>2 DEF BaseInv, RowsInv
<1>4. PICK st \in Statuses : st = EntityStatus(r.decision)  BY DEF EntityStatus, Statuses
<1>5. PICK row : row = [old EXCEPT !.status = st]  OBVIOUS
<1>6. Writes(r.row, row)  BY <1>3, <1>4, <1>5 DEF ApplyStatus, Writes
<1>7. row \in Rows /\ \A f \in RowFields \ {"status"} : row[f] = old[f]
  BY ONLY <1>5, old \in Rows, st \in Statuses DEF Rows, RowFields
<1> QED  BY <1>3, <1>6, <1>7

LEMMA MarkingFiles ==
  ASSUME BaseInv, NEW o \in Operators, MarkForVerification(o) \/ ConfirmDuplicate(o) \/ MarkCorrect(o)
  PROVE  FilesStay
<1>1. PICK i \in DOMAIN invoices, st \in Statuses, d \in Kinds : MarkRow(i, st, d)
  <2>1. CASE MarkForVerification(o)
    <3>1. PICK i \in DOMAIN invoices : MarkRow(i, "weryfikacja", invoices[i].duplicate)
      BY <2>1 DEF MarkForVerification
    <3>2. invoices[i] \in Rows  BY DEF BaseInv, RowsInv
    <3>3. invoices[i].duplicate \in Kinds  BY <3>2 DEF Rows, Kinds
    <3> QED  BY <3>1, <3>3 DEF Statuses
  <2>2. CASE ConfirmDuplicate(o)  BY <2>2 DEF ConfirmDuplicate, Statuses, Kinds
  <2>3. CASE MarkCorrect(o)  BY <2>3 DEF MarkCorrect, Statuses, Kinds
  <2> QED  BY <2>1, <2>2, <2>3
<1>2. PICK row : Writes(i, row) /\ \A f \in RowFields \ {"status", "duplicate", "reason"} : row[f] = invoices[i][f]
  BY <1>1, MarkWrites
<1>3. row.file = invoices[i].file  BY <1>2 DEF RowFields
<1> QED  BY <1>2, <1>3, WritesFile

\* A request that writes to its invoice does not change its file.
LEMMA WritingFiles ==
  ASSUME BaseInv, NEW o \in Operators,
         ApplyAuthority(o) \/ Flag(o) \/ SaveInvoice(o) \/ Rehash(o) \/ ApplyLocal(o) \/ ApplyStatus(o)
  PROVE  FilesStay
<1>1. PICK r : r = request[o]  OBVIOUS
<1>2. PICK x \in RowSteps : Does(o, x)
  BY DEF ApplyAuthority, Flag, SaveInvoice, Rehash, ApplyLocal, ApplyStatus, RowSteps
<1>3. r.row \in DOMAIN invoices  BY <1>1, <1>2, WorkingLemma
<1>4. \E row : Writes(r.row, row) /\ row.file = invoices[r.row].file
  <2>1. CASE ApplyStatus(o)
    <3>1. PICK row : Writes(r.row, row) /\ \A f \in RowFields \ {"status"} : row[f] = invoices[r.row][f]
      BY <1>1, <2>1, StatusWrites
    <3> QED  BY <3>1 DEF RowFields
  <2>2. CASE ApplyAuthority(o)  BY <1>1, <2>2, AuthorityWrites DEF Keeps
  <2>3. CASE Flag(o)  BY <1>1, <2>3, FlagWrites DEF Keeps
  <2>4. CASE SaveInvoice(o)  BY <1>1, <2>4, SaveWrites DEF Keeps
  <2>5. CASE Rehash(o)  BY <1>1, <2>5, RehashWrites DEF Keeps
  <2>6. CASE ApplyLocal(o)  BY <1>1, <2>6, LocalWrites DEF Keeps
  <2> QED  BY <2>1, <2>2, <2>3, <2>4, <2>5, <2>6
<1> QED  BY <1>3, <1>4, WritesFile

LEMMA InsertRow ==
  ASSUME BaseInv, NEW o \in Operators, NEW r, r = request[o], Insert(o)
  PROVE  \E row \in Rows : /\ DOMAIN invoices' = DOMAIN invoices \cup {Len(invoices) + 1}
                           /\ invoices'[Len(invoices) + 1] = row /\ row.file = r.message
                           /\ \A j \in DOMAIN invoices : invoices'[j] = invoices[j]
                           /\ Len(invoices) + 1 \notin DOMAIN invoices
<1>1. Does(o, "insert")  BY DEF Insert
<1>2. Aware(r) /\ "insert" \in Left(r)  BY <1>1, WorkingLemma
<1>3. r.message \in Messages  BY <1>2 DEF Aware, KnowsMessage
<1>4. PICK n : n = NewInvoice(r.message)  OBVIOUS
<1>5. PICK row \in Rows : row = [n EXCEPT !.hash = Hash(n)] /\ Traced(row)  BY <1>3, <1>4, NewRow
<1>6. invoices' = Append(invoices, row)  BY <1>4, <1>5 DEF Insert
<1>7. n \in Rows /\ n.file = r.message  BY <1>3, <1>4, NewRow
<1>8. row.file = r.message
  <2>1. Hash(n) \in Hashes  BY <1>7, HashLemma
  <2> QED  BY <1>5, <1>7, <2>1 DEF Rows
<1> QED  BY <1>5, <1>6, <1>8, RowAdded DEF BaseInv

LEMMA CarriesStays ==
  ASSUME NEW r, r.run \in {0} \cup DOMAIN runs, Carries(r), FilesStay, RunsStay
  PROVE  Carries(r)'
<1> SUFFICES ASSUME r.run # 0, runs'[r.run].source = "EMAIL"
             PROVE  /\ "candidate" \notin Left(r)
                    /\ \A m \in Range(Mailbox) : Accounted(r, m)'
                    /\ \A m \in Range(r.messages) : Paper[m].source = "EMAIL"
  BY DEF Carries, Left
<1>1. /\ "candidate" \notin Left(r) /\ \A m \in Range(Mailbox) : Accounted(r, m)
      /\ \A m \in Range(r.messages) : Paper[m].source = "EMAIL"
  BY DEF Carries, RunsStay
<1>2. ASSUME NEW m, Accounted(r, m) PROVE Accounted(r, m)'
  BY <1>2 DEF Accounted, FilesStay, RunsStay, Left
<1> QED  BY <1>1, <1>2

LEMMA MailStep ==
  ASSUME BaseInv, MailInv, NEW o \in Operators, NEW s, Becomes(o, s), Carries(s)', FilesStay, RunsStay,
         \A k \in DOMAIN runs' : Finishes(k)' /\ runs'[k].source = "EMAIL" =>
           \/ k \in DOMAIN runs /\ Finishes(k)
           \/ \A m \in Range(Mailbox) : \E i \in DOMAIN invoices : invoices[i].file = m
  PROVE  MailInv'
<1>1. DOMAIN request' = Operators /\ request'[o] = s /\ \A p \in Operators : p # o => request'[p] = request[p]
  BY BecomesLemma DEF BaseInv
<1>2. ASSUME NEW p \in Operators, p # o PROVE Carries(request[p])'
  <2>1. PICK r : r = request[p]  OBVIOUS
  <2>2. Carries(r) /\ r.run \in {0} \cup DOMAIN runs  BY <2>1 DEF MailInv, BaseInv, RunsInv, Conducts
  <2>3. Carries(r)'  BY <2>2, CarriesStays
  <2>4. r = request'[p]  BY <1>1, <1>2, <2>1
  <2> QED  BY <2>3, <2>4
<1>3. Carries(request[o])'  BY <1>1
<1>4. NothingLeftBehind'
  <2> SUFFICES ASSUME NEW k \in DOMAIN runs', runs'[k].source = "EMAIL", Finishes(k)', NEW m \in Range(Mailbox)
               PROVE  \E i \in DOMAIN invoices' : invoices'[i].file = m
    BY DEF NothingLeftBehind
  <2>1. \E i \in DOMAIN invoices : invoices[i].file = m
    <3>1. CASE k \in DOMAIN runs /\ Finishes(k)
      BY <3>1 DEF MailInv, NothingLeftBehind, RunsStay
    <3> QED  BY <3>1
  <2> QED  BY <2>1 DEF FilesStay
<1> QED  BY <1>2, <1>3, <1>4 DEF MailInv

\* A request that goes on with its run.
LEMMA CarriesOn ==
  ASSUME NEW r, Carries(r), Conducts(r), Formed(r), r.agenda # <<>>, NEW q, Formed(q),
         Same(r, q, {"agenda", "run", "messages", "message", "outcome"}), NEW s, GoesOn(q, s), FilesStay, RunsStay,
         Head(r.agenda) = "insert" => \E i \in DOMAIN invoices' : invoices'[i].file = r.message,
         Head(r.agenda) = "item" /\ r.outcome = "skipped_error" /\ r.run # 0 => runs'[r.run].errors > 0
  PROVE  Carries(s)'
<1>1. /\ q.run = r.run /\ q.messages = r.messages /\ q.agenda = r.agenda /\ q.message = r.message
      /\ q.outcome = r.outcome /\ Left(q) = Left(r)
  BY DEF Same, Left
<1>2. CASE r.run = 0
  <2>1. s.run = 0
    <3>1. CASE s = Onward(q)  BY <1>1, <1>2, <3>1, OnwardLemma, IdleLemma DEF Formed
    <3>2. CASE s # Onward(q)  BY <1>1, <1>2, <3>2 DEF GoesOn, Same, Fields
    <3> QED  BY <3>1, <3>2
  <2> QED  BY <2>1 DEF Carries
<1>3. CASE r.run # 0
  <2>1. /\ s.run = r.run /\ s.messages = r.messages
        /\ \/ s.message = r.message /\ s.outcome = r.outcome /\ Left(s) = Left(r) \ {Head(r.agenda)}
           \/ Left(s) \subseteq {"finalize", "look_up"} /\ Left(r) = {Head(r.agenda)}
    <3>1. CASE s = Onward(q) /\ Resting(s) /\ Left(q) = {Head(q.agenda)}
      <4>1. s.run = q.run /\ s.messages = q.messages
        <5>1. DOMAIN q = Fields  BY DEF Formed
        <5>2. CASE q.messages = <<>>  BY <1>1, <1>3, <3>1, <5>1, <5>2, OnwardLemma
        <5>3. CASE q.messages # <<>>  BY <1>1, <1>3, <3>1, <5>1, <5>3, OnwardLemma
        <5> QED  BY <5>2, <5>3
      <4> QED  BY <1>1, <3>1, <4>1 DEF Resting
    <3>2. CASE Same(q, s, Fields \ {"agenda"}) /\ Left(s) = Left(q) \ {Head(q.agenda)}
      BY <1>1, <3>2 DEF Same, Fields
    <3> QED  BY <3>1, <3>2 DEF GoesOn
  <2>2. "candidate" \notin Left(s) \/ runs[r.run].source # "EMAIL"
    BY <1>3, <2>1 DEF Carries
  <2>3. ASSUME NEW m, Accounted(r, m) PROVE Accounted(s, m)'
    <3>1. CASE m \in Range(r.messages)  BY <2>1, <3>1 DEF Accounted
    <3>2. CASE \E i \in DOMAIN invoices : invoices[i].file = m  BY <3>2 DEF Accounted, FilesStay
    <3>3. CASE runs[r.run].errors > 0  BY <1>3, <2>1, <3>3 DEF Accounted, RunsStay, Conducts
    <3>4. CASE m = r.message /\ "insert" \in Left(r)
      BY <2>1, <3>4 DEF Accounted, Left
    <3>5. CASE m = r.message /\ "item" \in Left(r) /\ r.outcome = "skipped_error"
      BY <1>3, <2>1, <3>5 DEF Accounted, Left
    <3> QED  BY <2>3, <3>1, <3>2, <3>3, <3>4, <3>5 DEF Accounted
  <2>4. runs'[s.run].source = runs[r.run].source  BY <1>3, <2>1 DEF RunsStay, Conducts
  <2> QED  BY <1>3, <2>1, <2>2, <2>3, <2>4 DEF Carries, Left
<1> QED  BY <1>2, <1>3

\* A request that makes its transaction and goes on with its run.
LEMMA MailTurn ==
  ASSUME BaseInv, MailInv, NEW o \in Operators, NEW q, NEW s, Turn(o, q, s), NEW x, Does(o, x),
         Same(request[o], q, {"agenda", "run", "messages", "message", "outcome"}), FilesStay, UNCHANGED runs,
         x = "insert" => \E i \in DOMAIN invoices' : invoices'[i].file = request[o].message, x # "item"
  PROVE  MailInv'
<1>1. RunsStay  BY SameRuns
<1>2. PICK r : r = request[o]  OBVIOUS
<1>3. Conducts(r) /\ Formed(r) /\ r.agenda # <<>> /\ Head(r.agenda) = x  BY <1>2, WorkingLemma
<1>4. Carries(r)  BY <1>2 DEF MailInv
<1>5. Carries(s)'
  <2>1. Formed(q) /\ GoesOn(q, s)  BY DEF Turn
  <2>2. Head(r.agenda) = "insert" => \E i \in DOMAIN invoices' : invoices'[i].file = r.message  BY <1>2, <1>3
  <2>3. Head(r.agenda) # "item"  BY <1>3
  <2> QED  BY <1>1, <1>2, <1>3, <1>4, <2>1, <2>2, <2>3, CarriesOn
<1>6. \A k \in DOMAIN runs' : Finishes(k)' => k \in DOMAIN runs /\ Finishes(k)  BY DEF Finishes
<1> QED  BY <1>1, <1>5, <1>6, MailStep DEF Turn

\* A request without a run carries nothing.
LEMMA MailIdle ==
  ASSUME BaseInv, MailInv, NEW o \in Operators, NEW s, Becomes(o, s), s.run = 0, FilesStay, UNCHANGED runs
  PROVE  MailInv'
<1>1. RunsStay  BY SameRuns
<1>2. Carries(s)'  BY DEF Carries
<1>3. \A k \in DOMAIN runs' : Finishes(k)' => k \in DOMAIN runs /\ Finishes(k)  BY DEF Finishes
<1> QED  BY <1>1, <1>2, <1>3, MailStep

LEMMA PlainMail ==
  ASSUME BaseInv, MailInv, NEW o \in Operators, Plain(o), ~AddItem(o)
  PROVE  MailInv'
<1>1. PICK q, s : Turn(o, q, s) /\ Same(request[o], q, Fields \ {"before"})  BY PlainTurn
<1>2. PICK x \in Steps \ {"insert", "item"} : Does(o, x)
  BY DEF Plain, Fetch, CreateContractor, RefreshStats, Sync, Rehash, ApproveDirectly, ApplyAuthority, Decide, Steps
<1>3. UNCHANGED runs
  BY DEF Plain, Fetch, CreateContractor, RefreshStats, Sync, Rehash, ApproveDirectly, ApplyAuthority, Decide, importing
<1>4. FilesStay
  <2>1. CASE ApplyAuthority(o) \/ Rehash(o)  BY <2>1, WritingFiles
  <2>2. CASE ~(ApplyAuthority(o) \/ Rehash(o))
    BY <2>2, SameFiles DEF Plain, Fetch, CreateContractor, RefreshStats, Sync, ApproveDirectly, Decide
  <2> QED  BY <2>1, <2>2
<1>5. Same(request[o], q, {"agenda", "run", "messages", "message", "outcome"})  BY <1>1 DEF Same, Fields
<1> QED  BY <1>1, <1>2, <1>3, <1>4, <1>5, MailTurn

LEMMA AddItemMail ==
  ASSUME BaseInv, MailInv, NEW o \in Operators, AddItem(o)
  PROVE  MailInv'
<1>1. PICK q, s : Turn(o, q, s) /\ Same(request[o], q, Fields \ {"before"})  BY PlainTurn DEF Plain
<1>2. PICK r : r = request[o]  OBVIOUS
<1>3. Does(o, "item") /\ UNCHANGED invoices  BY DEF AddItem
<1>4. Conducts(r) /\ Formed(r) /\ r.agenda # <<>> /\ Head(r.agenda) = "item"  BY <1>2, <1>3, WorkingLemma
<1>5. /\ DOMAIN runs' = DOMAIN runs
      /\ \A k \in DOMAIN runs : /\ runs'[k].source = runs[k].source /\ runs'[k].status = runs[k].status
                                /\ runs[k].errors > 0 => runs'[k].errors > 0
      /\ r.outcome = "skipped_error" /\ r.run # 0 => runs'[r.run].errors > 0
  <2>1. runs \in Seq(RunRows)  BY DEF BaseInv, RunsInv
  <2>2. CASE r.run = 0  BY <1>2, <2>2 DEF AddItem
  <2>3. CASE r.run # 0
    <3>1. r.run \in DOMAIN runs  BY <1>4, <2>3 DEF Conducts
    <3>2. PICK d \in {0, 1} : d = IF r.outcome = "imported" THEN 1 ELSE 0  OBVIOUS
    <3>3. PICK e \in {0, 1} : e = IF r.outcome = "skipped_error" THEN 1 ELSE 0  OBVIOUS
    <3>4. PICK old \in RunRows : old = runs[r.run]  BY <2>1, <3>1
    <3>5. PICK i : i = old.imported + d  OBVIOUS
    <3>6. PICK n \in Nat : n = old.errors + e /\ (old.errors > 0 => n > 0) /\ (e = 1 => n > 0)
      <4>1. old.errors \in Nat  BY <3>4 DEF RunRows
      <4> QED  BY <4>1
    <3>7. PICK row : row = [old EXCEPT !.imported = i, !.errors = n]  OBVIOUS
    <3>8. runs' = [runs EXCEPT ![r.run] = row]
      BY <1>2, <2>3, <3>1, <3>2, <3>3, <3>4, <3>5, <3>6, <3>7 DEF AddItem
    <3>9. row.source = old.source /\ row.status = old.status /\ row.errors = n  BY <3>4, <3>7 DEF RunRows
    <3>10. r.outcome = "skipped_error" => e = 1  BY <3>3
    <3> QED  BY <2>1, <3>1, <3>4, <3>6, <3>8, <3>9, <3>10
  <2> QED  BY <2>2, <2>3
<1>6. FilesStay /\ RunsStay  BY <1>3, <1>5, SameFiles DEF RunsStay
<1>7. Carries(s)'
  <2>1. Carries(r)  BY <1>2 DEF MailInv
  <2>2. Formed(q) /\ GoesOn(q, s)  BY <1>1 DEF Turn
  <2>3. Same(r, q, {"agenda", "run", "messages", "message", "outcome"})  BY <1>1, <1>2 DEF Same, Fields
  <2>4. Head(r.agenda) # "insert" /\ (r.outcome = "skipped_error" /\ r.run # 0 => runs'[r.run].errors > 0)
    BY <1>4, <1>5
  <2> QED  BY <1>4, <1>6, <2>1, <2>2, <2>3, <2>4, CarriesOn
<1>8. \A k \in DOMAIN runs' : Finishes(k)' => k \in DOMAIN runs /\ Finishes(k)  BY <1>5 DEF Finishes
<1> QED  BY <1>1, <1>6, <1>7, <1>8, MailStep DEF Turn

\* What a request has read, and what it writes to its invoice, are no message of a run.
LEMMA SeeingMail ==
  ASSUME BaseInv, MailInv, NEW o \in Operators,
         \/ SaveInvoice(o) \/ ApplyLocal(o) \/ SaveOverride(o) \/ Flag(o) \/ Evaluate(o) \/ AskForCorrection(o)
         \/ ReadInvoice(o) \/ Settle(o) \/ Insert(o)
  PROVE  MailInv'
<1>1. PICK r : r = request[o]  OBVIOUS
<1>2. \E q, s : Turn(o, q, s) /\ Same(r, q, Fields \ {"seen", "matches", "type", "approval", "change", "row"})
  <2>1. CASE SaveInvoice(o)  BY <1>1, <2>1, SaveTurn DEF Same
  <2>2. CASE ApplyLocal(o)  BY <1>1, <2>2, LocalTurn DEF Same
  <2>3. CASE SaveOverride(o)  BY <1>1, <2>3, OverrideTurn DEF Same
  <2>4. CASE Flag(o)  BY <1>1, <2>4, FlagTurn DEF Same
  <2>5. CASE Evaluate(o)  BY <1>1, <2>5, EvaluateTurn DEF Same
  <2>6. CASE AskForCorrection(o)  BY <1>1, <2>6, AskTurn DEF Same
  <2>7. CASE Settle(o)
    <3>1. PICK q, s : \E k \in OverridesOf(r.approval) : Settling(o, r, k, q, s)  BY <1>1, <2>7, SettleTurn
    <3> QED  BY <3>1 DEF Settling, Same
  <2>8. CASE Insert(o)  BY <1>1, <2>8, InsertTurn DEF Same
  <2>9. CASE ReadInvoice(o)  BY <1>1, <2>9, ReadTurn DEF Same
  <2> QED  BY <2>1, <2>2, <2>3, <2>4, <2>5, <2>6, <2>7, <2>8, <2>9
<1>3. PICK q, s : Turn(o, q, s) /\ Same(r, q, Fields \ {"seen", "matches", "type", "approval", "change", "row"})
  BY <1>2
<1>4. Same(request[o], q, {"agenda", "run", "messages", "message", "outcome"})  BY <1>1, <1>3 DEF Same, Fields
<1>5. UNCHANGED runs
  BY DEF SaveInvoice, ApplyLocal, SaveOverride, Flag, Evaluate, AskForCorrection, ReadInvoice, Settle, Insert,
         importing
<1>6. CASE Insert(o)
  <2>1. PICK row \in Rows : /\ DOMAIN invoices' = DOMAIN invoices \cup {Len(invoices) + 1}
                           /\ invoices'[Len(invoices) + 1] = row /\ row.file = r.message
                           /\ \A j \in DOMAIN invoices : invoices'[j] = invoices[j]
    BY <1>1, <1>6, InsertRow
  <2>2. FilesStay  BY <2>1 DEF FilesStay
  <2>3. \E i \in DOMAIN invoices' : invoices'[i].file = request[o].message  BY <1>1, <2>1
  <2>4. Does(o, "insert")  BY <1>6 DEF Insert
  <2> QED  BY <1>3, <1>4, <1>5, <2>2, <2>3, <2>4, MailTurn
<1>7. CASE ~Insert(o)
  <2>1. PICK x \in Steps \ {"insert", "item"} : Does(o, x)
    BY <1>7 DEF SaveInvoice, ApplyLocal, SaveOverride, Flag, Evaluate, AskForCorrection, ReadInvoice, Settle,
               Steps
  <2>2. FilesStay
    <3>1. CASE SaveInvoice(o) \/ ApplyLocal(o) \/ Flag(o)  BY <3>1, WritingFiles
    <3>2. CASE SaveOverride(o) \/ Evaluate(o) \/ AskForCorrection(o) \/ ReadInvoice(o) \/ Settle(o)
      BY <3>2, SameFiles DEF SaveOverride, Evaluate, AskForCorrection, ReadInvoice, Settle
    <3> QED  BY <1>7, <3>1, <3>2
  <2> QED  BY <1>3, <1>4, <1>5, <2>1, <2>2, MailTurn
<1> QED  BY <1>6, <1>7

LEMMA LookUpMail ==
  ASSUME BaseInv, MailInv, NEW o \in Operators, LookUp(o)
  PROVE  MailInv'
<1>1. PICK r : r = request[o]  OBVIOUS
<1>2. Does(o, "look_up") /\ UNCHANGED <<invoices, runs>>  BY DEF LookUp, importing
<1>3. /\ r.agenda # <<>> /\ Head(r.agenda) = "look_up" /\ Conducts(r) /\ DOMAIN r = Fields /\ Formed(r)
      /\ "look_up" \in Left(r)
  BY <1>1, <1>2, WorkingLemma
<1>4. Left(r) = {"look_up"}  BY <1>3, HeadLemma DEF Alone
<1>5. PICK m : m = Head(r.messages)  OBVIOUS
<1>6. PICK rest : rest = Tail(r.messages)  OBVIOUS
<1>7. r.messages \in Seq(Messages) /\ r.messages # <<>> /\ r.run \in DOMAIN runs
  BY <1>3 DEF Conducts
<1>8. m \in Messages /\ Range(r.messages) = {m} \cup Range(rest)
  <2>1. /\ m \in Messages /\ 1 \in DOMAIN r.messages /\ m = r.messages[1]
        /\ \A n \in DOMAIN r.messages : n # 1 => n - 1 \in DOMAIN rest /\ rest[n - 1] = r.messages[n]
        /\ \A n \in DOMAIN rest : n + 1 \in DOMAIN r.messages /\ rest[n] = r.messages[n + 1]
    BY <1>5, <1>6, <1>7
  <2> QED  BY <2>1 DEF Range
<1>9. PICK a : a = IF Imported(m) = {} THEN Starting(m) ELSE <<"item">>  OBVIOUS
<1>10. PICK u : u = IF Imported(m) = {} THEN "imported" ELSE "skipped_existing"  OBVIOUS
<1>11. PICK t : t = [r EXCEPT !.messages = rest]  OBVIOUS
<1>12. PICK s : s = [t EXCEPT !.message = m, !.agenda = a, !.outcome = u]  OBVIOUS
<1>13. Becomes(o, s)
  <2>1. CASE Imported(m) = {}
    BY <1>1, <1>5, <1>6, <1>9, <1>10, <1>11, <1>12, <2>1 DEF LookUp, Becomes, Import
  <2>2. CASE Imported(m) # {}
    BY <1>1, <1>5, <1>6, <1>9, <1>10, <1>11, <1>12, <2>2 DEF LookUp, Becomes
  <2> QED  BY <2>1, <2>2
<1>14. s.run = r.run /\ s.messages = rest /\ s.message = m /\ s.agenda = a
  BY <1>3, <1>11, <1>12 DEF Fields
<1>15. FilesStay /\ RunsStay  BY <1>2, SameFiles, SameRuns
<1>16. Carries(s)'
  <2> SUFFICES ASSUME r.run # 0, runs[r.run].source = "EMAIL"
               PROVE  /\ "candidate" \notin Left(s)
                      /\ \A n \in Range(Mailbox) : Accounted(s, n)'
                      /\ \A n \in Range(rest) : Paper[n].source = "EMAIL"
    BY <1>2, <1>14 DEF Carries, Left
  <2>1. /\ \A n \in Range(Mailbox) : Accounted(r, n)
        /\ \A n \in Range(r.messages) : Paper[n].source = "EMAIL"
    BY <1>1 DEF MailInv, Carries
  <2>2. Paper[m].source = "EMAIL"  BY <1>8, <2>1
  <2>3. a = IF Imported(m) = {} THEN Creation ELSE <<"item">>  BY <1>9, <2>2 DEF Starting
  <2>4. Left(s) = Range(a)  BY <1>14 DEF Left
  <2>5. "candidate" \notin Left(s)
    <3>1. "candidate" \notin Range(Creation)  BY CreationOrdered
    <3>2. "candidate" \notin Range(<<"item">>)  BY RangeSingle
    <3> QED  BY <2>3, <2>4, <3>1, <3>2
  <2>6. Accounted(s, m)'
    <3>1. CASE Imported(m) = {}
      <4>1. "insert" \in Left(s)
        <5>1. a = Creation  BY <2>3, <3>1
        <5> QED  BY <2>4, <5>1, CreationOrdered
      <4> QED  BY <1>14, <4>1 DEF Accounted, Left
    <3>2. CASE Imported(m) # {}
      <4>1. PICK i \in DOMAIN invoices : invoices[i].external = m  BY <3>2 DEF Imported
      <4>2. invoices[i].file = m  BY <2>2, <4>1 DEF BaseInv, RowsInv
      <4> QED  BY <1>2, <4>2 DEF Accounted
    <3> QED  BY <3>1, <3>2
  <2>7. ASSUME NEW n \in Range(Mailbox), n # m PROVE Accounted(s, n)'
    <3>1. \/ n \in Range(rest) \/ (\E i \in DOMAIN invoices : invoices[i].file = n) \/ runs[r.run].errors > 0
      BY <1>4, <1>8, <2>1, <2>7 DEF Accounted
    <3> QED  BY <1>2, <1>14, <3>1 DEF Accounted
  <2>8. \A n \in Range(rest) : Paper[n].source = "EMAIL"  BY <1>8, <2>1
  <2> QED  BY <2>5, <2>6, <2>7, <2>8
<1>17. \A k \in DOMAIN runs' : Finishes(k)' => k \in DOMAIN runs /\ Finishes(k)  BY <1>2 DEF Finishes
<1> QED  BY <1>13, <1>15, <1>16, <1>17, MailStep

\* A request that goes on with its message, and with its run.
LEMMA MailChange ==
  ASSUME BaseInv, MailInv, NEW o \in Operators, NEW r, r = request[o], NEW s, Becomes(o, s), UNCHANGED <<invoices, runs>>,
         Same(r, s, {"run", "messages", "message"}), Conducts(r), Carries(r) => "candidate" \notin Left(s) \/ "candidate" \in Left(r),
         \/ Left(r) \cap {"insert", "item"} = {}
         \/ "insert" \in Left(s)
         \/ "item" \in Left(s) /\ s.outcome = "skipped_error"
         \/ s.outcome = r.outcome /\ (Left(r) \cap {"insert", "item"} = Left(s) \cap {"insert", "item"})
  PROVE  MailInv'
<1>1. FilesStay /\ RunsStay  BY SameFiles, SameRuns
<1>2. s.run = r.run /\ s.messages = r.messages /\ s.message = r.message  BY DEF Same
<1>3. Carries(r)  BY DEF MailInv
<1>4. Carries(s)'
  <2> SUFFICES ASSUME r.run # 0, runs[r.run].source = "EMAIL"
               PROVE  /\ "candidate" \notin Left(s)
                      /\ \A n \in Range(Mailbox) : Accounted(s, n)'
                      /\ \A n \in Range(r.messages) : Paper[n].source = "EMAIL"
    BY <1>2 DEF Carries, Left
  <2>1. ASSUME NEW n, Accounted(r, n) PROVE Accounted(s, n)'
    <3>1. CASE n \in Range(r.messages) \/ (\E i \in DOMAIN invoices : invoices[i].file = n) \/ runs[r.run].errors > 0
      BY <1>2, <3>1 DEF Accounted
    <3>2. CASE n = r.message /\ ("insert" \in Left(r) \/ ("item" \in Left(r) /\ r.outcome = "skipped_error"))
      BY <1>2, <3>2 DEF Accounted, Left
    <3> QED  BY <2>1, <3>1, <3>2 DEF Accounted
  <2>2. "candidate" \notin Left(s)  BY <1>3 DEF Carries
  <2> QED  BY <1>3, <2>1, <2>2 DEF Carries
<1>5. \A k \in DOMAIN runs' : Finishes(k)' => k \in DOMAIN runs /\ Finishes(k)  BY DEF Finishes
<1> QED  BY <1>1, <1>4, <1>5, MailStep

LEMMA SeekContractorMail ==
  ASSUME BaseInv, MailInv, NEW o \in Operators, SeekContractor(o)
  PROVE  MailInv'
<1>1. PICK r : r = request[o]  OBVIOUS
<1>2. Does(o, "seek_contractor") /\ UNCHANGED <<invoices, runs>>  BY DEF SeekContractor, importing
<1>3. /\ r.agenda # <<>> /\ Head(r.agenda) = "seek_contractor" /\ Conducts(r) /\ DOMAIN r = Fields /\ Formed(r)
  BY <1>1, <1>2, WorkingLemma
<1>4. PICK t : t = Tail(r.agenda)  OBVIOUS
<1>5. Ordered(t) /\ t # <<>> /\ Head(t) = "create_contractor" /\ Left(r) = {"seek_contractor"} \cup Range(t)
  BY <1>3, <1>4, AheadLemma DEF Formed, Left
<1>6. Range(t) = {"create_contractor"} \cup Range(Tail(t))  BY <1>5, AheadLemma
<1>7. PICK a : a = IF Nip(r) \in DOMAIN contractors THEN Tail(t) ELSE t  OBVIOUS
<1>8. PICK s : s = [r EXCEPT !.agenda = a]  OBVIOUS
<1>9. Becomes(o, s)  BY <1>1, <1>4, <1>7, <1>8 DEF SeekContractor, Becomes
<1>10. s.agenda = a /\ \A f \in Fields \ {"agenda"} : s[f] = r[f]  BY <1>3, <1>8 DEF Fields
<1>11. Left(s) = Range(a)  BY <1>10 DEF Left
<1>12. \A x \in {"insert", "item", "candidate"} : x \in Left(s) <=> x \in Left(r)
  <2>1. CASE a = t  BY <1>5, <1>11, <2>1
  <2>2. CASE a = Tail(t)  BY <1>5, <1>6, <1>11, <2>2
  <2> QED  BY <1>7, <2>1, <2>2
<1>13. Same(r, s, {"run", "messages", "message"}) /\ s.outcome = r.outcome  BY <1>10 DEF Same, Fields
<1>14. Left(r) \cap {"insert", "item"} = Left(s) \cap {"insert", "item"}  BY <1>12
<1>15. Carries(r) => "candidate" \notin Left(s) \/ "candidate" \in Left(r)  BY <1>12
<1> QED  BY <1>1, <1>2, <1>3, <1>9, <1>13, <1>14, <1>15, MailChange

LEMMA FindCandidateMail ==
  ASSUME BaseInv, MailInv, NEW o \in Operators, FindCandidate(o)
  PROVE  MailInv'
<1>1. PICK r : r = request[o]  OBVIOUS
<1>2. Does(o, "candidate") /\ UNCHANGED <<invoices, runs>>  BY DEF FindCandidate, importing
<1>3. /\ r.agenda # <<>> /\ Head(r.agenda) = "candidate" /\ Conducts(r) /\ DOMAIN r = Fields /\ Formed(r)
      /\ "candidate" \in Left(r)
  BY <1>1, <1>2, WorkingLemma
<1>4. Left(r) = {"candidate"}  BY <1>3, HeadLemma DEF Alone
<1>5. \E s : Becomes(o, s) /\ Same(r, s, {"run", "messages", "message"})
  <2>1. CASE Candidates(r.message) = {}
    <3>1. PICK s : s = [r EXCEPT !.agenda = Creation]  OBVIOUS
    <3>2. Becomes(o, s)  BY <1>1, <2>1, <3>1 DEF FindCandidate, Becomes
    <3>3. Same(r, s, {"run", "messages", "message"})  BY <1>3, <3>1 DEF Same, Fields
    <3> QED  BY <3>2, <3>3
  <2>2. CASE Candidates(r.message) # {}
    <3>1. PICK i : i = Ranked(Candidates(r.message))  OBVIOUS
    <3>2. PICK s : s = [r EXCEPT !.agenda = Overruling, !.row = i, !.seen = invoices[i], !.before = invoices[i].contractor]
      OBVIOUS
    <3>3. Becomes(o, s)  BY <1>1, <2>2, <3>1, <3>2 DEF FindCandidate, Becomes
    <3>4. Same(r, s, {"run", "messages", "message"})  BY <1>3, <3>2 DEF Same, Fields
    <3> QED  BY <3>3, <3>4
  <2> QED  BY <2>1, <2>2
<1>6. PICK s : Becomes(o, s) /\ Same(r, s, {"run", "messages", "message"})  BY <1>5
<1>7. Left(r) \cap {"insert", "item"} = {}  BY <1>4
<1>8. Carries(r) => "candidate" \notin Left(s) \/ "candidate" \in Left(r)  BY <1>4
<1> QED  BY <1>1, <1>2, <1>3, <1>6, <1>7, <1>8, MailChange

LEMMA InsertRefusedMail ==
  ASSUME BaseInv, MailInv, NEW o \in Operators, InsertRefused(o)
  PROVE  MailInv'
<1>1. PICK r : r = request[o]  OBVIOUS
<1>2. Does(o, "insert") /\ UNCHANGED <<invoices, runs>>  BY DEF InsertRefused, importing
<1>3. Conducts(r) /\ DOMAIN r = Fields  BY <1>1, <1>2, WorkingLemma
<1>4. PICK s : s = [r EXCEPT !.agenda = <<"item">>, !.outcome = "skipped_error"]  OBVIOUS
<1>5. Becomes(o, s)  BY <1>1, <1>4 DEF InsertRefused, Becomes
<1>6. s.agenda = <<"item">> /\ s.outcome = "skipped_error" /\ \A f \in Fields \ {"agenda", "outcome"} : s[f] = r[f]
  BY <1>3, <1>4 DEF Fields
<1>7. Left(s) = {"item"}  BY <1>6, RangeSingle DEF Left
<1>8. Same(r, s, {"run", "messages", "message"})  BY <1>6 DEF Same, Fields
<1>9. "candidate" \notin Left(s) /\ "item" \in Left(s)  BY <1>7
<1> QED  BY <1>1, <1>2, <1>3, <1>5, <1>6, <1>8, <1>9, MailChange

-----------------------------------------------------------------------------
(* The ends of a run, and requests without one *)

LEMMA IdleMail ==
  ASSUME BaseInv, MailInv, NEW o \in Operators,
         Die(o) \/ ContractorExists(o) \/ NothingToSettle(o) \/ ApplyStatus(o)
  PROVE  MailInv'
<1>1. Becomes(o, Idle)  BY DEF Die, ContractorExists, NothingToSettle, ApplyStatus, EndHalfWay, Becomes
<1>2. UNCHANGED runs  BY DEF Die, ContractorExists, NothingToSettle, ApplyStatus, importing
<1>3. FilesStay
  <2>1. CASE ApplyStatus(o)  BY <2>1, WritingFiles
  <2>2. CASE Die(o) \/ ContractorExists(o) \/ NothingToSettle(o)
    BY <2>2, SameFiles DEF Die, ContractorExists, NothingToSettle
  <2> QED  BY <2>1, <2>2
<1>4. Idle.run = 0  BY IdleLemma
<1> QED  BY <1>1, <1>2, <1>3, <1>4, MailIdle

\* A run ends: without an error, with every message of its mailbox in an invoice.
LEMMA EndRunMail ==
  ASSUME BaseInv, MailInv, NEW o \in Operators, NEW k, k = request[o].run, k \in DOMAIN runs, Becomes(o, Idle),
         UNCHANGED invoices, NEW st, runs' = [runs EXCEPT ![k].status = st],
         st \in {"completed", "no_new_documents"} /\ runs[k].source = "EMAIL" =>
           \A m \in Range(Mailbox) : \E i \in DOMAIN invoices : invoices[i].file = m
  PROVE  MailInv'
<1>1. runs \in Seq(RunRows)  BY DEF BaseInv, RunsInv
<1>2. PICK old \in RunRows : old = runs[k]  BY <1>1
<1>3. PICK row : row = [old EXCEPT !.status = st]  OBVIOUS
<1>4. row.status = st /\ row.source = old.source /\ row.errors = old.errors  BY <1>2, <1>3 DEF RunRows
<1>5. DOMAIN runs' = DOMAIN runs /\ runs'[k] = row /\ \A l \in DOMAIN runs : l # k => runs'[l] = runs[l]
  BY <1>1, <1>2, <1>3
<1>6. RunsStay  BY <1>2, <1>4, <1>5 DEF RunsStay
<1>7. FilesStay  BY SameFiles
<1>8. Carries(Idle)'
  <2>1. PICK s : s = Idle  OBVIOUS
  <2>2. s.run = 0  BY <2>1, IdleLemma
  <2>3. Carries(s)'  BY <2>2 DEF Carries
  <2>4. s = Idle'  BY <2>1 DEF Idle
  <2> QED  BY <2>3, <2>4
<1>9. \A l \in DOMAIN runs' : Finishes(l)' /\ runs'[l].source = "EMAIL" =>
           \/ l \in DOMAIN runs /\ Finishes(l)
           \/ \A m \in Range(Mailbox) : \E i \in DOMAIN invoices : invoices[i].file = m
  BY <1>2, <1>4, <1>5 DEF Finishes
<1> QED  BY <1>6, <1>7, <1>8, <1>9, MailStep

LEMMA FinalizeMail ==
  ASSUME BaseInv, MailInv, NEW o \in Operators, Finalize(o)
  PROVE  MailInv'
<1>1. PICK r : r = request[o]  OBVIOUS
<1>2. Does(o, "finalize") /\ Becomes(o, Idle) /\ UNCHANGED invoices  BY DEF Finalize, Becomes
<1>3. /\ r.agenda # <<>> /\ Head(r.agenda) = "finalize" /\ Conducts(r) /\ Formed(r) /\ "finalize" \in Left(r)
  BY <1>1, <1>2, WorkingLemma
<1>4. Left(r) = {"finalize"}  BY <1>3, HeadLemma DEF Alone
<1>5. r.run # 0 /\ r.run \in DOMAIN runs /\ r.messages = <<>>  BY <1>3 DEF Conducts
<1>6. PICK st : st = Finished(runs[r.run])  OBVIOUS
<1>7. runs' = [runs EXCEPT ![r.run].status = st]  BY <1>1, <1>6 DEF Finalize
<1>8. ASSUME st \in {"completed", "no_new_documents"}, runs[r.run].source = "EMAIL", NEW m \in Range(Mailbox)
      PROVE  \E i \in DOMAIN invoices : invoices[i].file = m
  <2>1. Accounted(r, m)  BY <1>1, <1>5, <1>8 DEF MailInv, Carries
  <2>2. ~(runs[r.run].errors > 0)
    <3>1. runs[r.run] \in RunRows  BY <1>5 DEF BaseInv, RunsInv
    <3>2. runs[r.run].errors \in Nat /\ runs[r.run].imported \in Nat  BY ONLY <3>1 DEF RunRows
    <3>3. runs[r.run].errors > 0 => st = "completed_with_issues"  BY <1>6, <3>2 DEF Finished
    <3> QED  BY <1>8, <3>3
  <2>3. m \notin Range(r.messages)  BY <1>5 DEF Range
  <2> QED  BY <1>4, <2>1, <2>2, <2>3 DEF Accounted
<1> QED  BY <1>1, <1>2, <1>5, <1>7, <1>8, EndRunMail

LEMMA FetchFailsMail ==
  ASSUME BaseInv, MailInv, NEW o \in Operators, FetchFails(o)
  PROVE  MailInv'
<1>1. PICK r : r = request[o]  OBVIOUS
<1>2. Does(o, "fetch") /\ Becomes(o, Idle) /\ UNCHANGED invoices  BY DEF FetchFails, Becomes
<1>3. Conducts(r) /\ "fetch" \in Left(r)  BY <1>1, <1>2, WorkingLemma
<1>4. r.run \in DOMAIN runs  BY <1>3 DEF Conducts
<1>5. runs' = [runs EXCEPT ![r.run].status = "failed"]  BY <1>1 DEF FetchFails
<1> QED  BY <1>1, <1>2, <1>4, <1>5, EndRunMail

\* A run that starts, with all its messages still to come.
LEMMA CheckMailBase ==
  ASSUME BaseInv, MailInv, NEW o \in Operators, NEW source \in {"EMAIL", "KSEF"}, NEW inbox \in Seq(Messages),
         Becomes(o, [Idle EXCEPT !.agenda = <<"fetch">>, !.messages = inbox, !.run = Len(runs) + 1]),
         runs' = Append(runs, StartRun(source)), UNCHANGED invoices,
         source = "EMAIL" => inbox = Mailbox
  PROVE  MailInv'
<1>1. runs \in Seq(RunRows)  BY DEF BaseInv, RunsInv
<1>2. PICK row : row = StartRun(source)  OBVIOUS
<1>3. row.source = source /\ row.status = "running"  BY <1>2 DEF StartRun
<1>4. PICK k : k = Len(runs) + 1  OBVIOUS
<1>5. DOMAIN runs' = DOMAIN runs \cup {k} /\ runs'[k] = row /\ k \notin DOMAIN runs
      /\ \A l \in DOMAIN runs : runs'[l] = runs[l]
  BY <1>1, <1>2, <1>4
<1>6. PICK s : s = [Idle EXCEPT !.agenda = <<"fetch">>, !.messages = inbox, !.run = k]  OBVIOUS
<1>7. Becomes(o, s)  BY <1>4, <1>6
<1>8. s.agenda = <<"fetch">> /\ s.messages = inbox /\ s.run = k  BY <1>6 DEF Idle
<1>9. Left(s) = {"fetch"}  BY <1>8, RangeSingle DEF Left
<1>10. Carries(s)'
  <2>1. CASE source = "KSEF"  BY <1>3, <1>5, <1>8, <2>1 DEF Carries
  <2>2. CASE source = "EMAIL"
    <3>1. \A m \in Range(Mailbox) : Paper[m].source = "EMAIL"  BY InvoicesAssumption
    <3>2. \A m \in Range(Mailbox) : Accounted(s, m)'  BY <1>8, <2>2 DEF Accounted
    <3> QED  BY <1>8, <1>9, <2>2, <3>1, <3>2 DEF Carries, Left
  <2> QED  BY <2>1, <2>2
<1>11. RunsStay  BY <1>5 DEF RunsStay
<1>12. FilesStay  BY SameFiles
<1>13. \A l \in DOMAIN runs' : Finishes(l)' => l \in DOMAIN runs /\ Finishes(l)  BY <1>3, <1>5 DEF Finishes
<1> QED  BY <1>7, <1>10, <1>11, <1>12, <1>13, MailStep

LEMMA BeginningMail ==
  ASSUME BaseInv, MailInv, NEW o \in Operators,
         CheckMail(o) \/ CheckMailByCycle(o) \/ CheckKsef(o) \/ Upload(o) \/ UpdateInvoice(o) \/ DecideRequest(o)
  PROVE  MailInv'
<1>1. {Mailbox, KsefInbox} \subseteq Seq(Messages)  BY InvoicesAssumption
<1>2. CASE CheckMail(o) \/ CheckMailByCycle(o)
  <2>1. /\ Becomes(o, [Idle EXCEPT !.agenda = <<"fetch">>, !.messages = Mailbox, !.run = Len(runs) + 1])
        /\ runs' = Append(runs, StartRun("EMAIL")) /\ UNCHANGED invoices
    BY <1>2 DEF CheckMail, CheckMailByCycle, Begin, Becomes
  <2> QED  BY <1>1, <2>1, CheckMailBase
<1>3. CASE CheckKsef(o)
  <2>1. /\ Becomes(o, [Idle EXCEPT !.agenda = <<"fetch">>, !.messages = KsefInbox, !.run = Len(runs) + 1])
        /\ runs' = Append(runs, StartRun("KSEF")) /\ UNCHANGED invoices
    BY <1>3 DEF CheckKsef, Begin, Becomes, StartKsefRun
  <2> QED  BY <1>1, <2>1, CheckMailBase
<1>4. CASE Upload(o)
  <2>1. PICK m \in Messages : Begin(o, Import(Idle, m))  BY <1>4 DEF Upload
  <2>2. PICK s : s = [Idle EXCEPT !.message = m, !.agenda = Starting(m), !.outcome = "imported"]  OBVIOUS
  <2>3. Becomes(o, s)  BY <2>1, <2>2 DEF Begin, Import, Becomes
  <2>4. s.run = 0  BY <2>2 DEF Idle
  <2>5. FilesStay /\ UNCHANGED runs  BY <1>4, SameFiles DEF Upload, importing
  <2> QED  BY <2>3, <2>4, <2>5, MailIdle
<1>5. CASE UpdateInvoice(o)
  <2>1. PICK i \in DOMAIN invoices, c \in Changes, may \in BOOLEAN :
          Begin(o, [Idle EXCEPT !.row = i, !.change = c, !.before = invoices[i].contractor,
                                !.agenda = IF invoices[i].authority = "KSEF" THEN Correcting(may) ELSE Editing(c[1])])
    BY <1>5 DEF UpdateInvoice, Approves
  <2>2. PICK a : a = IF invoices[i].authority = "KSEF" THEN Correcting(may) ELSE Editing(c[1])  OBVIOUS
  <2>3. PICK s : s = [Idle EXCEPT !.row = i, !.change = c, !.before = invoices[i].contractor, !.agenda = a]  OBVIOUS
  <2>4. Becomes(o, s)  BY <2>1, <2>2, <2>3 DEF Begin, Becomes
  <2>5. s.run = 0  BY <2>3 DEF Idle
  <2>6. FilesStay /\ UNCHANGED runs  BY <1>5, SameFiles DEF UpdateInvoice, importing
  <2> QED  BY <2>4, <2>5, <2>6, MailIdle
<1>6. CASE DecideRequest(o)
  <2>1. PICK a \in DOMAIN approvals, d \in {"approved", "rejected", "cancelled"} :
          Begin(o, [Idle EXCEPT !.agenda = Deciding(a, d), !.approval = a, !.decision = d, !.row = approvals[a].invoice])
    BY <1>6 DEF DecideRequest
  <2>2. PICK s : s = [Idle EXCEPT !.agenda = Deciding(a, d), !.approval = a, !.decision = d, !.row = approvals[a].invoice]
    OBVIOUS
  <2>3. Becomes(o, s)  BY <2>1, <2>2 DEF Begin, Becomes
  <2>4. s.run = 0  BY <2>2 DEF Idle
  <2>5. FilesStay /\ UNCHANGED runs  BY <1>6, SameFiles DEF DecideRequest, importing
  <2> QED  BY <2>3, <2>4, <2>5, MailIdle
<1> QED  BY <1>2, <1>3, <1>4, <1>5, <1>6

\* A request of one transaction.
LEMMA AtOnceMail ==
  ASSUME BaseInv, MailInv, FilesStay, UNCHANGED <<runs, request>>
  PROVE  MailInv'
<1>1. RunsStay  BY SameRuns
<1>2. ASSUME NEW p \in Operators PROVE Carries(request[p])'
  <2>1. PICK r : r = request[p]  OBVIOUS
  <2>2. Carries(r) /\ r.run \in {0} \cup DOMAIN runs  BY <2>1 DEF MailInv, BaseInv, RunsInv, Conducts
  <2>3. Carries(r)'  BY <1>1, <2>2, CarriesStays
  <2>4. r = request'[p]  BY <2>1
  <2> QED  BY <2>3, <2>4
<1>3. NothingLeftBehind'  BY DEF MailInv, NothingLeftBehind, Finishes, FilesStay
<1> QED  BY <1>2, <1>3 DEF MailInv

LEMMA MailNext ==
  ASSUME BaseInv, MailInv, [Next]_vars
  PROVE  MailInv'
<1>1. CASE UNCHANGED vars
  <2>1. UNCHANGED <<invoices, runs, request>>  BY <1>1 DEF vars, importing
  <2> QED  BY <2>1, SameFiles, AtOnceMail
<1>2. ASSUME NEW o \in Operators, Importing(o) PROVE MailInv'
  <2>1. CASE Fetch(o)
    <3>1. ~AddItem(o)  BY <2>1 DEF Fetch, AddItem, Does
    <3> QED  BY <2>1, <3>1, PlainMail DEF Plain
  <2> QED  BY <1>2, <2>1, BeginningMail, FetchFailsMail, LookUpMail, AddItemMail, FinalizeMail DEF Importing
<1>3. ASSUME NEW o \in Operators, Creating(o) PROVE MailInv'
  <2>1. CASE CreateContractor(o) \/ RefreshStats(o) \/ Sync(o) \/ ApplyAuthority(o)
    <3>1. ~AddItem(o)  BY <2>1 DEF CreateContractor, RefreshStats, Sync, ApplyAuthority, AddItem, Does
    <3> QED  BY <2>1, <3>1, PlainMail DEF Plain
  <2> QED
    BY <1>3, <2>1, FindCandidateMail, SeekContractorMail, IdleMail, SeeingMail, InsertRefusedMail DEF Creating
<1>4. ASSUME NEW o \in Operators, Changing(o) PROVE MailInv'
  <2>1. CASE Rehash(o) \/ ApproveDirectly(o)
    <3>1. ~AddItem(o)  BY <2>1 DEF Rehash, ApproveDirectly, AddItem, Does
    <3> QED  BY <2>1, <3>1, PlainMail DEF Plain
  <2> QED  BY <1>4, <2>1, BeginningMail, SeeingMail DEF Changing
<1>5. ASSUME NEW o \in Operators, DecidingOn(o) PROVE MailInv'
  <2>1. CASE Decide(o)
    <3>1. ~AddItem(o)  BY <2>1 DEF Decide, AddItem, Does
    <3> QED  BY <2>1, <3>1, PlainMail DEF Plain
  <2>2. CASE MarkForVerification(o) \/ ConfirmDuplicate(o) \/ MarkCorrect(o)
    <3>1. UNCHANGED <<runs, request>>
      BY <2>2 DEF MarkForVerification, ConfirmDuplicate, MarkCorrect, Decides, importing
    <3> QED  BY <2>2, <3>1, MarkingFiles, AtOnceMail
  <2>3. CASE CreateRequest(o)
    <3>1. UNCHANGED <<invoices, runs, request>>  BY <2>3 DEF CreateRequest, importing
    <3> QED  BY <3>1, SameFiles, AtOnceMail
  <2> QED  BY <1>5, <2>1, <2>2, <2>3, BeginningMail, IdleMail, SeeingMail DEF DecidingOn
<1>6. ASSUME NEW o \in Operators, Die(o) PROVE MailInv'  BY <1>6, IdleMail
<1> QED  BY <1>1, <1>2, <1>3, <1>4, <1>5, <1>6 DEF Next

\* A finished e-mail import has left nothing behind, whoever else was at work (invoice_service.py,
\* check_email_inbox): each message it listed is in an invoice, or its error is counted.
THEOREM NothingIsLeftBehind == Spec => []NothingLeftBehind
<1>1. Init => MailInv
  <2> SUFFICES ASSUME Init PROVE MailInv
    OBVIOUS
  <2>1. \A p \in Operators : request[p].run = 0  BY IdleLemma DEF Init
  <2>2. NothingLeftBehind  BY DEF Init, NothingLeftBehind
  <2> QED  BY <2>1, <2>2 DEF MailInv, Carries
<1>2. MailInv => NothingLeftBehind  BY DEF MailInv
<1>3. BaseInv /\ MailInv /\ [Next]_vars => MailInv'  BY MailNext
<1> QED  BY <1>1, <1>2, <1>3, RequestsKnow, PTL DEF Spec

-----------------------------------------------------------------------------
(* An approved correction stays in force *)

Others(o) == \A p \in Operators \ {o} : ~Working(p)

\* What an invoice must keep for the corrections of its data to stay in force.
Tells(row, old) == /\ row.local = old.local /\ row.authority = old.authority
                   /\ \A f \in KsefFields : row[f] = old[f]
Beside ==
  /\ UNCHANGED correcting /\ DOMAIN invoices \subseteq DOMAIN invoices'
  /\ \A i \in DOMAIN invoices : Tells(invoices'[i], invoices[i])

LEMMA TellsItself == \A row : Tells(row, row)
BY DEF Tells

LEMMA RowsBeside ==
  ASSUME UNCHANGED <<invoices, correcting>>
  PROVE  Beside
BY TellsItself DEF Beside, correcting

LEMMA NothingLeft == ASSUME NEW r, r.agenda = <<>> PROVE Left(r) = {}
BY NothingOrdered DEF Left

\* A request that has nothing to do with corrections.
Apart(r) == Left(r) \cap {"authority", "local", "settle", "save"} = {}

LEMMA ApartLemma ==
  ASSUME NEW r, Apart(r)
  PROVE  OneAtATime(r)' /\ OneAtATime(r) /\ \A k : ~AwaitedBy(r, k)
BY DEF OneAtATime, Apart, Sees, Settles, Approved, Applies, AwaitedBy, Left

Pendings == \A a \in DOMAIN approvals : approvals[a].status = "pending" =>
              \A k \in OverridesOf(a) : overrides[k].status = "pending"

LEMMA LoneLemma ==
  ASSUME CorrectionsInv, Orderly, NEW o \in Operators, Working(o)
  PROVE  Others(o)
BY DEF CorrectionsInv, Others, Lone

LEMMA CorrectionsStep ==
  ASSUME BaseInv, NEW o \in Operators, NEW s, Becomes(o, s),
         Orderly' => /\ Others(o) /\ OneAtATime(s)' /\ Pendings'
                     /\ \A k \in DOMAIN overrides' : overrides'[k].status = "approved" => InForce(k)' \/ AwaitedBy(s, k)'
  PROVE  CorrectionsInv'
<1> SUFFICES ASSUME Orderly'
             PROVE  /\ Lone' /\ \A p \in Operators : OneAtATime(request[p])'
                    /\ \A k \in DOMAIN overrides' : overrides'[k].status = "approved" =>
                         InForce(k)' \/ \E p \in Operators : AwaitedBy(request[p], k)'
                    /\ Pendings'
  BY DEF CorrectionsInv, Pendings
<1>1. DOMAIN request' = Operators /\ request'[o] = s /\ \A p \in Operators : p # o => request'[p] = request[p]
  BY BecomesLemma DEF BaseInv
<1>2. \A p \in Operators : p # o => request'[p].agenda = <<>>  BY <1>1 DEF Others, Working
<1>3. Lone'  BY <1>2 DEF Lone, Working
<1>4. ASSUME NEW p \in Operators, p # o PROVE OneAtATime(request[p])'
  <2>1. PICK r : r = request'[p]  OBVIOUS
  <2>2. Apart(r)  BY <1>2, <1>4, <2>1, NothingLeft DEF Apart
  <2>3. OneAtATime(r)'  BY <2>2, ApartLemma
  <2> QED  BY <2>1, <2>3
<1>5. OneAtATime(request[o])'  BY <1>1
<1>6. ASSUME NEW k \in DOMAIN overrides', overrides'[k].status = "approved"
      PROVE  InForce(k)' \/ \E p \in Operators : AwaitedBy(request[p], k)'
  <2>1. AwaitedBy(s, k)' => AwaitedBy(request[o], k)'  BY <1>1
  <2> QED  BY <1>6, <2>1
<1> QED  BY <1>3, <1>4, <1>5, <1>6

LEMMA ForceBeside ==
  ASSUME BaseInv, Beside, NEW k \in DOMAIN overrides, InForce(k)
  PROVE  InForce(k)'
<1>1. overrides[k] \in OverrideRows /\ overrides[k].invoice \in DOMAIN invoices  BY DEF BaseInv, PapersInv
<1>2. PICK i \in DOMAIN invoices : i = overrides[k].invoice  BY <1>1
<1>3. PICK f \in KsefFields : f = overrides[k].field  BY <1>1 DEF OverrideRows
<1>4. UNCHANGED overrides /\ Tells(invoices'[i], invoices[i])  BY DEF Beside, correcting
<1> QED  BY <1>2, <1>3, <1>4 DEF InForce, Tells

LEMMA PendingsBeside == Pendings /\ UNCHANGED correcting => Pendings'
BY DEF Pendings, correcting, OverridesOf

\* A transaction that changes no correction and no corrected data.
LEMMA BesideStep ==
  ASSUME BaseInv, CorrectionsInv, NEW o \in Operators, NEW s, Becomes(o, s), Beside,
         Orderly' => /\ Orderly /\ Others(o) /\ OneAtATime(s)'
                     /\ \A k \in DOMAIN overrides : AwaitedBy(request[o], k) => AwaitedBy(s, k)'
  PROVE  CorrectionsInv'
<1>1. ASSUME Orderly' PROVE Pendings'
  BY <1>1, PendingsBeside DEF Beside, CorrectionsInv, Pendings
<1>2. ASSUME Orderly', NEW k \in DOMAIN overrides', overrides'[k].status = "approved"
      PROVE  InForce(k)' \/ AwaitedBy(s, k)'
  <2>1. k \in DOMAIN overrides /\ overrides[k].status = "approved"  BY <1>2 DEF Beside, correcting
  <2>2. InForce(k) \/ \E p \in Operators : AwaitedBy(request[p], k)  BY <1>2, <2>1 DEF CorrectionsInv
  <2>3. CASE InForce(k)  BY <2>1, <2>3, ForceBeside
  <2>4. ASSUME NEW p \in Operators, AwaitedBy(request[p], k) PROVE AwaitedBy(s, k)'
    <3>1. PICK r : r = request[p]  OBVIOUS
    <3>2. ~Apart(r)  BY <2>4, <3>1, ApartLemma
    <3>3. r.agenda # <<>>  BY <3>2, NothingLeft DEF Apart
    <3>4. p = o  BY <1>2, <3>1, <3>3 DEF Others, Working
    <3> QED  BY <1>2, <2>1, <2>4, <3>4
  <2> QED  BY <2>2, <2>3, <2>4
<1> QED  BY <1>1, <1>2, CorrectionsStep


-----------------------------------------------------------------------------
(* What a request keeps of what it knows *)

\* The request r, after one step more, is s: the steps that decide corrections are not it.
About == {"row", "change", "approval", "decision"}
Follows(r, s) == /\ Left(s) \subseteq Left(r) /\ Same(r, s, About)
                 /\ (Left(r) \ Left(s)) \cap {"settle", "decide", "approve_directly"} = {}

LEMMA NotInserting ==
  ASSUME NEW r, Formed(r), Left(r) \cap {"authority", "local", "save"} # {}
  PROVE  "insert" \notin Left(r)
<1> SUFFICES ASSUME "insert" \in Left(r) PROVE FALSE
  OBVIOUS
<1>1. Ordered(r.agenda)  BY DEF Formed
<1>2. PICK m \in DOMAIN r.agenda : r.agenda[m] = "insert"  BY DEF Left, Range
<1>3. PICK n \in DOMAIN r.agenda : r.agenda[n] \in {"authority", "local", "save"}  BY DEF Left, Range
<1>4. m \in Nat /\ n \in Nat /\ m # n  BY <1>1, <1>2, <1>3 DEF Ordered
<1>5. <<r.agenda[n], "insert">> \in Nevers  BY <1>3 DEF Nevers, Firsts, RowSteps
<1>6. <<"insert", r.agenda[n]>> \in Nevers  BY <1>3 DEF Nevers, Steps
<1>7. CASE m < n  BY <1>1, <1>2, <1>3, <1>6, <1>7 DEF Ordered
<1>8. CASE n < m  BY <1>1, <1>2, <1>3, <1>5, <1>8 DEF Ordered
<1> QED  BY <1>4, <1>7, <1>8

LEMMA KnownRow ==
  ASSUME NEW r, Aware(r), Left(r) \cap {"authority", "local", "save"} # {}
  PROVE  r.row \in DOMAIN invoices
<1>1. "insert" \notin Left(r)  BY NotInserting DEF Aware
<1> QED  BY <1>1 DEF Aware, KnowsRow, RowSteps

LEMMA SettlesOn ==
  ASSUME NEW r, NEW s, Follows(r, s), Settles(r), UNCHANGED correcting
  PROVE  Settles(s)'
<1> SUFFICES ASSUME "settle" \in Left(s)
             PROVE  /\ \A k \in OverridesOf(s.approval)' : overrides'[k].status = "pending"
                    /\ "decide" \notin Left(s) => approvals'[s.approval].status # "pending"
  BY DEF Settles, Left
<1>1. /\ "settle" \in Left(r) /\ s.approval = r.approval /\ ("decide" \notin Left(s) => "decide" \notin Left(r))
  BY DEF Follows, Same, About
<1> QED  BY <1>1 DEF Settles, OverridesOf, correcting

LEMMA ApprovedOn ==
  ASSUME NEW r, NEW s, Follows(r, s), Approved(r), UNCHANGED overrides
  PROVE  Approved(s)'
<1> SUFFICES ASSUME Applies(s)
             PROVE  \E k \in DOMAIN overrides :
                      /\ overrides[k].invoice = s.row /\ overrides[k].field = s.change[1]
                      /\ overrides[k].value = s.change[2] /\ overrides[k].status = "approved"
  BY DEF Approved, Applies, Left
<1>1. Applies(r) /\ s.row = r.row /\ s.change = r.change  BY DEF Follows, Applies, Same, About
<1> QED  BY <1>1 DEF Approved

\* The request has seen its invoice as it is now, or knew it before and still does.
Watches(r, s) ==
  \/ s.seen.local = invoices'[s.row].local
  \/ s.seen = r.seen /\ Left(r) \cap {"evaluate", "read"} \subseteq Left(s)

LEMMA SeesOn ==
  ASSUME NEW r, Aware(r), NEW s, Follows(r, s), Sees(r), Watches(r, s),
         \A i \in DOMAIN invoices : invoices'[i].local = invoices[i].local
  PROVE  Sees(s)'
<1> SUFFICES ASSUME "authority" \in Left(s) \/ ("local" \in Left(s) /\ Left(s) \cap {"read", "evaluate"} = {}),
                    s.seen = r.seen, Left(r) \cap {"evaluate", "read"} \subseteq Left(s)
             PROVE  s.seen.local = invoices'[s.row].local
  BY DEF Sees, Left, Watches
<1>1. "authority" \in Left(r) \/ ("local" \in Left(r) /\ Left(r) \cap {"read", "evaluate"} = {})  BY DEF Follows
<1>2. s.row = r.row  BY DEF Follows, Same, About
<1>3. r.row \in DOMAIN invoices  BY <1>1, KnownRow
<1>4. r.seen.local = invoices[r.row].local  BY <1>1 DEF Sees
<1> QED  BY <1>2, <1>3, <1>4

LEMMA SavesOn ==
  ASSUME NEW r, Aware(r), NEW s, Follows(r, s), "save" \in Left(r) => invoices[r.row].authority # "KSEF",
         \A i \in DOMAIN invoices : invoices'[i].authority = invoices[i].authority
  PROVE  "save" \in Left(s) => invoices'[s.row].authority # "KSEF"
<1> SUFFICES ASSUME "save" \in Left(s) PROVE invoices'[s.row].authority # "KSEF"
  OBVIOUS
<1>1. "save" \in Left(r) /\ s.row = r.row  BY DEF Follows, Same, About
<1>2. r.row \in DOMAIN invoices  BY <1>1, KnownRow
<1> QED  BY <1>1, <1>2

LEMMA OneAtATimeDef ==
  ASSUME NEW s, Sees(s)', Settles(s)', Approved(s)', "save" \in Left(s) => invoices'[s.row].authority # "KSEF"
  PROVE  OneAtATime(s)'
BY DEF OneAtATime, Left

LEMMA OneAtATimeOn ==
  ASSUME NEW r, Aware(r), OneAtATime(r), NEW s, Follows(r, s), Watches(r, s), Beside
  PROVE  OneAtATime(s)'
<1>1. UNCHANGED correcting /\ UNCHANGED overrides  BY DEF Beside, correcting
<1>2. /\ \A i \in DOMAIN invoices : invoices'[i].local = invoices[i].local
      /\ \A i \in DOMAIN invoices : invoices'[i].authority = invoices[i].authority
  BY DEF Beside, Tells
<1>3. Sees(r) /\ Settles(r) /\ Approved(r) /\ ("save" \in Left(r) => invoices[r.row].authority # "KSEF")
  BY DEF OneAtATime
<1>4. Sees(s)'  BY <1>2, <1>3, SeesOn
<1>5. Settles(s)'  BY <1>1, <1>3, SettlesOn
<1>6. Approved(s)'  BY <1>1, <1>3, ApprovedOn
<1>7. "save" \in Left(s) => invoices'[s.row].authority # "KSEF"  BY <1>2, <1>3, SavesOn
<1> QED  BY <1>4, <1>5, <1>6, <1>7, OneAtATimeDef

LEMMA AwaitsOn ==
  ASSUME NEW r, NEW s, Follows(r, s), "local" \in Left(r) => "local" \in Left(s), UNCHANGED correcting,
         NEW k, AwaitedBy(r, k)
  PROVE  AwaitedBy(s, k)'
<1>1. s.row = r.row /\ s.change = r.change  BY DEF Follows, Same, About
<1>2. Applies(r) /\ r.row = overrides[k].invoice /\ r.change[1] = overrides[k].field  BY DEF AwaitedBy
<1>3. Applies(s)  BY <1>2 DEF Applies, Follows
<1> QED  BY <1>1, <1>2, <1>3 DEF AwaitedBy, Applies, Left, correcting

-----------------------------------------------------------------------------
(* Transactions beside the corrections *)

LEMMA TurnFollows ==
  ASSUME NEW o \in Operators, NEW x, Does(o, x), NEW r, r = request[o], NEW q, NEW s, Turn(o, q, s),
         Same(r, q, About)
  PROVE  \/ Resting(s) /\ Apart(s) /\ Left(r) = {x}
         \/ /\ Left(s) = Left(r) \ {x} /\ Same(r, s, About) /\ s.seen = q.seen /\ s.row = r.row
            /\ s.approval = r.approval /\ s.change = r.change /\ s.decision = r.decision
<1>1. GoesOn(q, s) /\ q.agenda = r.agenda /\ Head(r.agenda) = x  BY DEF Turn, Does
<1>2. Left(q) = Left(r)  BY <1>1 DEF Left
<1>3. CASE Resting(s) /\ s = Onward(q) /\ Left(q) = {Head(q.agenda)}  BY <1>1, <1>2, <1>3 DEF Resting, Apart
<1>4. CASE /\ s.agenda = Tail(q.agenda) /\ s.agenda # <<>> /\ Formed(s) /\ Same(q, s, Fields \ {"agenda"})
           /\ Left(s) = Left(q) \ {Head(q.agenda)}
  <2>1. Same(q, s, About) /\ s.seen = q.seen  BY <1>4 DEF Same, About, Fields
  <2>2. Same(r, s, About)  BY <2>1 DEF Same
  <2> QED  BY <1>1, <1>2, <1>4, <2>1, <2>2 DEF Same, About
<1> QED  BY <1>1, <1>3, <1>4 DEF GoesOn

LEMMA BesideTurn ==
  ASSUME BaseInv, CorrectionsInv, NEW o \in Operators, NEW x, Does(o, x), NEW r, r = request[o],
         NEW q, NEW s, Turn(o, q, s), Same(r, q, About), UNCHANGED history, Beside,
         x \notin {"settle", "decide", "approve_directly", "local"},
         (q.seen = r.seen /\ x \notin {"evaluate", "read"}) \/ q.seen.local = invoices'[r.row].local
  PROVE  CorrectionsInv'
<1>1. ASSUME Orderly'
      PROVE  /\ Orderly /\ Others(o) /\ OneAtATime(s)'
             /\ \A k \in DOMAIN overrides : AwaitedBy(r, k) => AwaitedBy(s, k)'
  <2>1. Orderly  BY <1>1 DEF Orderly, history
  <2>2. Others(o)  BY <2>1, LoneLemma DEF Does
  <2>3. OneAtATime(r) /\ Aware(r)  BY <2>1 DEF CorrectionsInv, BaseInv, AwareInv
  <2>4. CASE Resting(s) /\ Apart(s) /\ Left(r) = {x}
    <3>1. OneAtATime(s)'  BY <2>4, ApartLemma
    <3>2. \A k : ~AwaitedBy(r, k)  BY <2>4 DEF AwaitedBy, Applies
    <3> QED  BY <2>1, <2>2, <3>1, <3>2
  <2>5. CASE Left(s) = Left(r) \ {x} /\ Same(r, s, About) /\ s.seen = q.seen /\ s.row = r.row
    <3>1. Follows(r, s) /\ Watches(r, s)  BY <2>5 DEF Follows, Watches
    <3>2. OneAtATime(s)'  BY <2>3, <3>1, OneAtATimeOn
    <3>3. "local" \in Left(r) => "local" \in Left(s)  BY <2>5
    <3>4. UNCHANGED correcting  BY DEF Beside
    <3>5. ASSUME NEW k \in DOMAIN overrides, AwaitedBy(r, k) PROVE AwaitedBy(s, k)'
      BY <3>1, <3>3, <3>4, <3>5, AwaitsOn
    <3> QED  BY <2>1, <2>2, <3>2, <3>5
  <2> QED  BY <2>4, <2>5, TurnFollows
<1>2. Becomes(o, s)  BY DEF Turn
<1> QED  BY <1>1, <1>2, BesideStep

LEMMA PlainCorrections ==
  ASSUME BaseInv, CorrectionsInv, NEW o \in Operators,
         Fetch(o) \/ AddItem(o) \/ CreateContractor(o) \/ RefreshStats(o) \/ Sync(o) \/ Rehash(o)
  PROVE  CorrectionsInv'
<1>1. PICK r : r = request[o]  OBVIOUS
<1>2. Plain(o)  BY DEF Plain
<1>3. PICK q, s : Turn(o, q, s) /\ Same(r, q, Fields \ {"before"})  BY <1>1, <1>2, PlainTurn
<1>4. Same(r, q, About) /\ q.seen = r.seen  BY <1>3 DEF Same, About, Fields
<1>5. UNCHANGED <<correcting, history>>
  BY DEF Fetch, AddItem, CreateContractor, RefreshStats, Sync, Rehash, Done
<1>6. PICK x \in {"fetch", "item", "create_contractor", "stats", "sync", "rehash"} : Does(o, x)
  BY DEF Fetch, AddItem, CreateContractor, RefreshStats, Sync, Rehash
<1>7. Beside
  <2>1. CASE Rehash(o)
    <3>1. PICK row : Writes(r.row, row) /\ IsRehashed(row, invoices[r.row])  BY <1>1, <2>1, RehashWrites
    <3>2. Does(o, "rehash")  BY <2>1 DEF Rehash
    <3>3. r.row \in DOMAIN invoices  BY <1>1, <3>2, WorkingLemma DEF RowSteps
    <3>4. Tells(row, invoices[r.row])  BY <3>1 DEF IsRehashed, RowFields, Tells, KsefFields
    <3> QED  BY <1>5, <3>1, <3>3, <3>4, WritesLemma, TellsItself DEF Beside
  <2>2. CASE ~Rehash(o)
    <3>1. UNCHANGED invoices  BY <2>2 DEF Fetch, AddItem, CreateContractor, RefreshStats, Sync
    <3> QED  BY <1>5, <3>1, RowsBeside
  <2> QED  BY <2>1, <2>2
<1> QED  BY <1>1, <1>3, <1>4, <1>5, <1>6, <1>7, BesideTurn

LEMMA EvaluateCorrections ==
  ASSUME BaseInv, CorrectionsInv, NEW o \in Operators, Evaluate(o)
  PROVE  CorrectionsInv'
<1>1. PICK r : r = request[o]  OBVIOUS
<1>2. PICK q, s : Turn(o, q, s) /\ Same(r, q, Fields \ {"seen", "matches", "type"}) /\ q.seen = invoices[r.row]
  BY <1>1, EvaluateTurn
<1>3. Same(r, q, About)  BY <1>2 DEF Same, About, Fields
<1>4. UNCHANGED <<invoices, correcting, history>> /\ Does(o, "evaluate")  BY DEF Evaluate, Done
<1>5. Beside  BY <1>4, RowsBeside
<1>6. q.seen.local = invoices'[r.row].local  BY <1>2, <1>4
<1> QED  BY <1>1, <1>2, <1>3, <1>4, <1>5, <1>6, BesideTurn

LEMMA ReadCorrections ==
  ASSUME BaseInv, CorrectionsInv, NEW o \in Operators, ReadInvoice(o)
  PROVE  CorrectionsInv'
<1>1. PICK r : r = request[o]  OBVIOUS
<1>2. PICK q, s : Turn(o, q, s) /\ Same(r, q, Fields \ {"seen"}) /\ q.seen = invoices'[r.row]
  BY <1>1, ReadTurn
<1>3. Same(r, q, About)  BY <1>2 DEF Same, About, Fields
<1>4. UNCHANGED <<invoices, correcting, history>> /\ Does(o, "read")  BY DEF ReadInvoice, Done
<1>5. Beside  BY <1>4, RowsBeside
<1>6. q.seen.local = invoices'[r.row].local  BY <1>2
<1> QED  BY <1>1, <1>2, <1>3, <1>4, <1>5, <1>6, BesideTurn

LEMMA FlagCorrections ==
  ASSUME BaseInv, CorrectionsInv, NEW o \in Operators, Flag(o)
  PROVE  CorrectionsInv'
<1>1. PICK r : r = request[o]  OBVIOUS
<1>2. PICK q, s : /\ Turn(o, q, s) /\ Same(r, q, Fields \ {"seen", "matches", "type"})
                  /\ q.seen = invoices'[r.row]
  BY <1>1, FlagTurn
<1>3. Same(r, q, About)  BY <1>2 DEF Same, About, Fields
<1>4. UNCHANGED <<correcting, history>> /\ Does(o, "flag")  BY DEF Flag, Done
<1>5. PICK row : Writes(r.row, row) /\ IsChecked(row, invoices[r.row], r.type)  BY <1>1, FlagWrites
<1>6. r.row \in DOMAIN invoices  BY <1>1, <1>4, WorkingLemma DEF RowSteps
<1>7. Tells(row, invoices[r.row])  BY <1>5 DEF IsChecked, RowFields, Tells, KsefFields
<1>8. Beside  BY <1>4, <1>5, <1>6, <1>7, WritesLemma, TellsItself DEF Beside
<1>9. q.seen.local = invoices'[r.row].local  BY <1>2
<1> QED  BY <1>1, <1>2, <1>3, <1>4, <1>8, <1>9, BesideTurn

-----------------------------------------------------------------------------
(* Requests that wait for no correction *)

LEMMA ApartStep ==
  ASSUME BaseInv, CorrectionsInv, NEW o \in Operators, NEW s, Becomes(o, s), OneAtATime(s)', Beside,
         Orderly' => Orderly /\ Others(o), "local" \notin Left(request[o])
  PROVE  CorrectionsInv'
<1>1. \A k : ~AwaitedBy(request[o], k)  BY DEF AwaitedBy, Applies
<1> QED  BY <1>1, BesideStep

LEMMA WorkingApart ==
  ASSUME CorrectionsInv, NEW o \in Operators, NEW x, Does(o, x), mixed' = mixed, died' = died
  PROVE  Orderly' => Orderly /\ Others(o)
<1>1. Orderly' => Orderly  BY DEF Orderly
<1> QED  BY <1>1, LoneLemma DEF Does

LEMMA BeginApart ==
  ASSUME NEW o \in Operators, NEW s, Begin(o, s)
  PROVE  (Orderly' => Orderly /\ Others(o)) /\ Becomes(o, s) /\ Left(request[o]) = {}
<1>1. Left(request[o]) = {}  BY NothingLeft DEF Begin, Working
<1> QED  BY <1>1 DEF Begin, Orderly, Others, Becomes

\* A request that knows no invoice yet, or has just read the one it is to overrule.
NewAgendas == {Creation, <<"candidate">>, <<"item">>, <<"fetch">>, <<>>}
Fresh(s) == s.agenda \in NewAgendas \/ (s.agenda = Overruling /\ s.seen = invoices[s.row])

LEMMA FreshLemma ==
  ASSUME NEW s, Fresh(s), UNCHANGED invoices
  PROVE  OneAtATime(s)' /\ ("flag" \in Left(s) => "evaluate" \in Left(s))
<1>1. CASE s.agenda = Creation
  <2>1. Left(s) = {"seek_contractor", "create_contractor", "insert", "stats", "evaluate", "flag", "sync", "item"}
    BY <1>1, CreationOrdered DEF Left
  <2> QED  BY <2>1, ApartLemma DEF Apart
<1>2. ASSUME NEW x \in {"candidate", "item", "fetch"}, s.agenda = <<x>>
      PROVE  OneAtATime(s)' /\ ("flag" \in Left(s) => "evaluate" \in Left(s))
  <2>1. Left(s) = {x}  BY <1>2, RangeSingle DEF Left
  <2> QED  BY <2>1, ApartLemma DEF Apart
<1>3. CASE s.agenda = <<>>
  <2>1. Left(s) = {}  BY <1>3, NothingLeft
  <2> QED  BY <2>1, ApartLemma DEF Apart
<1>4. CASE s.agenda = Overruling /\ s.seen = invoices[s.row]
  <2>1. Left(s) = {"seek_contractor", "create_contractor", "authority", "evaluate", "flag", "stats", "item"}
    BY <1>4, OverrulingOrdered DEF Left
  <2>2. s.seen.local = invoices'[s.row].local  BY <1>4
  <2>3. Sees(s)'  BY <2>2 DEF Sees, Left
  <2>4. Settles(s)' /\ Approved(s)'  BY <2>1 DEF Settles, Approved, Applies, Left
  <2>5. OneAtATime(s)'  BY <2>1, <2>3, <2>4, OneAtATimeDef
  <2> QED  BY <2>1, <2>5
<1> QED  BY <1>1, <1>2, <1>3, <1>4 DEF Fresh, NewAgendas

LEMMA BeginningFresh ==
  ASSUME NEW o \in Operators, CheckMail(o) \/ CheckMailByCycle(o) \/ CheckKsef(o) \/ Upload(o)
  PROVE  \E s : Begin(o, s) /\ Fresh(s) /\ s.agenda \in NewAgendas /\ s.change = NoValue /\ UNCHANGED <<invoices, relations, correcting>>
<1>1. UNCHANGED <<invoices, relations, correcting>>
  BY DEF CheckMail, CheckMailByCycle, CheckKsef, Upload, ledger
<1>2. ASSUME NEW inbox, NEW s, s = [Idle EXCEPT !.agenda = <<"fetch">>, !.messages = inbox, !.run = Len(runs) + 1]
      PROVE  Fresh(s) /\ s.agenda \in NewAgendas /\ s.change = NoValue
  <2>1. s.agenda = <<"fetch">> /\ s.change = NoValue  BY <1>2 DEF Idle
  <2> QED  BY <2>1 DEF Fresh, NewAgendas
<1>3. ASSUME NEW inbox, Begin(o, [Idle EXCEPT !.agenda = <<"fetch">>, !.messages = inbox, !.run = Len(runs) + 1])
      PROVE  \E s : Begin(o, s) /\ Fresh(s) /\ s.agenda \in NewAgendas /\ s.change = NoValue
  <2>1. PICK s : s = [Idle EXCEPT !.agenda = <<"fetch">>, !.messages = inbox, !.run = Len(runs) + 1]  OBVIOUS
  <2> QED  BY <1>2, <1>3, <2>1
<1>4. CASE CheckMail(o) \/ CheckMailByCycle(o)  BY <1>1, <1>3, <1>4 DEF CheckMail, CheckMailByCycle
<1>5. CASE CheckKsef(o)  BY <1>1, <1>3, <1>5 DEF CheckKsef
<1>6. CASE Upload(o)
  <2>1. PICK m \in Messages : Begin(o, Import(Idle, m))  BY <1>6 DEF Upload
  <2>2. PICK s : s = [Idle EXCEPT !.message = m, !.agenda = Starting(m), !.outcome = "imported"]  OBVIOUS
  <2>3. s.agenda = Starting(m) /\ s.change = NoValue  BY <2>2 DEF Idle
  <2>4. Fresh(s) /\ s.agenda \in NewAgendas  BY <2>3 DEF Fresh, NewAgendas, Starting
  <2>5. Begin(o, s)  BY <2>1, <2>2 DEF Import
  <2> QED  BY <1>1, <2>3, <2>4, <2>5
<1> QED  BY <1>4, <1>5, <1>6

LEMMA SeekingFresh ==
  ASSUME BaseInv, NEW o \in Operators, NEW r, r = request[o], LookUp(o) \/ FindCandidate(o) \/ InsertRefused(o)
  PROVE  /\ \E s : Becomes(o, s) /\ Fresh(s) /\ s.change = r.change /\ (s.agenda = Overruling => s.row # 0)
         /\ UNCHANGED <<invoices, relations, correcting, history>> /\ r.row = 0 /\ "local" \notin Left(r)
<1>1. UNCHANGED <<invoices, relations, correcting, history>>
  BY DEF LookUp, FindCandidate, InsertRefused, ledger
<1>2. PICK x \in {"look_up", "candidate", "insert"} : Does(o, x)
  BY DEF LookUp, FindCandidate, InsertRefused
<1>3. /\ r.agenda # <<>> /\ Head(r.agenda) = x /\ DOMAIN r = Fields /\ Formed(r) /\ Aware(r) /\ x \in Left(r)
  BY <1>2, WorkingLemma
<1>4. r.row = 0  BY <1>3 DEF Aware, KnowsRow
<1>5. "local" \notin Left(r)  BY <1>3, HeadLemma DEF Alone
<1>6. ASSUME NEW s, s.agenda \in NewAgendas PROVE Fresh(s) /\ s.agenda # Overruling
  <2>1. Range(s.agenda) # Range(Overruling)
    BY <1>6, CreationOrdered, OverrulingOrdered, RangeSingle, NothingOrdered DEF NewAgendas
  <2> QED  BY <1>6, <2>1 DEF Fresh
<1>7. CASE LookUp(o)
  <2>1. PICK m : m = Head(r.messages)  OBVIOUS
  <2>2. PICK t : t = [r EXCEPT !.messages = Tail(@)]  OBVIOUS
  <2>3. DOMAIN t = Fields /\ t.change = r.change  BY <1>3, <2>2 DEF Fields
  <2>4. CASE Imported(m) = {}
    <3>1. PICK s : s = [t EXCEPT !.message = m, !.agenda = Starting(m), !.outcome = "imported"]  OBVIOUS
    <3>2. Becomes(o, s)  BY <1>7, <2>1, <2>2, <2>4, <3>1 DEF LookUp, Becomes, Import
    <3>3. s.agenda = Starting(m) /\ s.change = r.change  BY <2>3, <3>1 DEF Fields
    <3>4. s.agenda \in NewAgendas  BY <3>3 DEF NewAgendas, Starting
    <3> QED  BY <1>1, <1>4, <1>5, <1>6, <3>2, <3>3, <3>4
  <2>5. CASE Imported(m) # {}
    <3>1. PICK s : s = [t EXCEPT !.message = m, !.agenda = <<"item">>, !.outcome = "skipped_existing"]  OBVIOUS
    <3>2. Becomes(o, s)  BY <1>7, <2>1, <2>2, <2>5, <3>1 DEF LookUp, Becomes
    <3>3. s.agenda = <<"item">> /\ s.change = r.change  BY <2>3, <3>1 DEF Fields
    <3>4. s.agenda \in NewAgendas  BY <3>3 DEF NewAgendas
    <3> QED  BY <1>1, <1>4, <1>5, <1>6, <3>2, <3>3, <3>4
  <2> QED  BY <2>4, <2>5
<1>8. CASE FindCandidate(o)
  <2>1. CASE Candidates(r.message) = {}
    <3>1. PICK s : s = [r EXCEPT !.agenda = Creation]  OBVIOUS
    <3>2. Becomes(o, s)  BY <1>8, <2>1, <3>1 DEF FindCandidate, Becomes
    <3>3. s.agenda = Creation /\ s.change = r.change  BY <1>3, <3>1 DEF Fields
    <3>4. s.agenda \in NewAgendas  BY <3>3 DEF NewAgendas
    <3> QED  BY <1>1, <1>4, <1>5, <1>6, <3>2, <3>3, <3>4
  <2>2. CASE Candidates(r.message) # {}
    <3>1. PICK i : i = Ranked(Candidates(r.message))  OBVIOUS
    <3>2. PICK s : s = [r EXCEPT !.agenda = Overruling, !.row = i, !.seen = invoices[i], !.before = invoices[i].contractor]
      OBVIOUS
    <3>3. Becomes(o, s)  BY <1>8, <2>2, <3>1, <3>2 DEF FindCandidate, Becomes
    <3>4. s.agenda = Overruling /\ s.seen = invoices[i] /\ s.row = i /\ s.change = r.change  BY <1>3, <3>2 DEF Fields
    <3>5. Fresh(s)  BY <3>4 DEF Fresh
    <3>6. i # 0
      <4>1. Candidates(r.message) \subseteq DOMAIN invoices  BY DEF Candidates, SameKsef, SameNumber
      <4> QED  BY <2>2, <3>1, <4>1, RankedLemma DEF BaseInv, RowsInv
    <3> QED  BY <1>1, <1>4, <1>5, <3>3, <3>4, <3>5, <3>6
  <2> QED  BY <2>1, <2>2
<1>9. CASE InsertRefused(o)
  <2>1. PICK s : s = [r EXCEPT !.agenda = <<"item">>, !.outcome = "skipped_error"]  OBVIOUS
  <2>2. Becomes(o, s)  BY <1>9, <2>1 DEF InsertRefused, Becomes
  <2>3. s.agenda = <<"item">> /\ s.change = r.change  BY <1>3, <2>1 DEF Fields
  <2>4. s.agenda \in NewAgendas  BY <2>3 DEF NewAgendas
  <2> QED  BY <1>1, <1>4, <1>5, <1>6, <2>2, <2>3, <2>4
<1> QED  BY <1>7, <1>8, <1>9

LEMMA FreshCorrections ==
  ASSUME BaseInv, CorrectionsInv, NEW o \in Operators,
         \/ CheckMail(o) \/ CheckMailByCycle(o) \/ CheckKsef(o) \/ Upload(o)
         \/ LookUp(o) \/ FindCandidate(o) \/ InsertRefused(o)
  PROVE  CorrectionsInv'
<1>1. CASE CheckMail(o) \/ CheckMailByCycle(o) \/ CheckKsef(o) \/ Upload(o)
  <2>1. PICK s : Begin(o, s) /\ Fresh(s) /\ UNCHANGED <<invoices, relations, correcting>>
    BY <1>1, BeginningFresh
  <2>2. Beside /\ OneAtATime(s)'  BY <2>1, RowsBeside, FreshLemma
  <2>3. (Orderly' => Orderly /\ Others(o)) /\ Becomes(o, s) /\ Left(request[o]) = {}  BY <2>1, BeginApart
  <2> QED  BY <2>2, <2>3, ApartStep
<1>2. CASE LookUp(o) \/ FindCandidate(o) \/ InsertRefused(o)
  <2>1. PICK s : Becomes(o, s) /\ Fresh(s)  BY <1>2, SeekingFresh
  <2>2. UNCHANGED <<invoices, relations, correcting, history>> /\ "local" \notin Left(request[o])  BY <1>2, SeekingFresh
  <2>3. Beside /\ OneAtATime(s)'  BY <2>1, <2>2, RowsBeside, FreshLemma
  <2>4. \E x : Does(o, x)  BY <1>2 DEF LookUp, FindCandidate, InsertRefused
  <2>5. mixed' = mixed /\ died' = died  BY <2>2 DEF history
  <2>6. Orderly' => Orderly /\ Others(o)  BY <2>4, <2>5, WorkingApart
  <2> QED  BY <2>1, <2>2, <2>3, <2>6, ApartStep
<1> QED  BY <1>1, <1>2

LEMMA SeekGoes ==
  ASSUME BaseInv, NEW o \in Operators, NEW r, r = request[o], SeekContractor(o)
  PROVE  /\ \E s : /\ Becomes(o, s) /\ Left(s) \subseteq Left(r) /\ Same(r, s, Fields \ {"agenda"})
                   /\ Left(r) \ Left(s) \subseteq {"seek_contractor", "create_contractor"}
                   /\ "create_contractor" \in Left(s) \/ Nip(r) \in DOMAIN contractors
         /\ Does(o, "seek_contractor") /\ UNCHANGED <<invoices, relations, correcting, history>>
<1>1. Does(o, "seek_contractor") /\ UNCHANGED <<invoices, relations, correcting, history>>
  BY DEF SeekContractor, ledger
<1>2. r.agenda # <<>> /\ Head(r.agenda) = "seek_contractor" /\ DOMAIN r = Fields /\ Formed(r)
  BY <1>1, WorkingLemma
<1>3. PICK t : t = Tail(r.agenda)  OBVIOUS
<1>4. Ordered(t) /\ t # <<>> /\ Head(t) = "create_contractor" /\ Left(r) = {"seek_contractor"} \cup Range(t)
  BY <1>2, <1>3, AheadLemma DEF Formed, Left
<1>5. Range(t) = {"create_contractor"} \cup Range(Tail(t))  BY <1>4, AheadLemma
<1>6. PICK a : a = IF Nip(r) \in DOMAIN contractors THEN Tail(t) ELSE t  OBVIOUS
<1>7. PICK s : s = [r EXCEPT !.agenda = a]  OBVIOUS
<1>8. Becomes(o, s)  BY <1>3, <1>6, <1>7 DEF SeekContractor, Becomes
<1>9. s.agenda = a /\ \A f \in Fields \ {"agenda"} : s[f] = r[f]  BY <1>2, <1>7 DEF Fields
<1>10. Left(s) = Range(a)  BY <1>9 DEF Left
<1>11. /\ Left(s) \subseteq Left(r) /\ Left(r) \ Left(s) \subseteq {"seek_contractor", "create_contractor"}
       /\ "create_contractor" \in Left(s) \/ Nip(r) \in DOMAIN contractors
  <2>1. CASE a = t  BY <1>4, <1>5, <1>10, <2>1
  <2>2. CASE a = Tail(t) /\ Nip(r) \in DOMAIN contractors  BY <1>4, <1>5, <1>10, <2>2
  <2> QED  BY <1>6, <2>1, <2>2
<1> QED  BY <1>1, <1>8, <1>9, <1>11 DEF Same

LEMMA SeekCorrections ==
  ASSUME BaseInv, CorrectionsInv, NEW o \in Operators, SeekContractor(o)
  PROVE  CorrectionsInv'
<1>1. PICK r : r = request[o]  OBVIOUS
<1>2. PICK s : /\ Becomes(o, s) /\ Left(s) \subseteq Left(r) /\ Same(r, s, Fields \ {"agenda"})
               /\ Left(r) \ Left(s) \subseteq {"seek_contractor", "create_contractor"}
  BY <1>1, SeekGoes
<1>3. Does(o, "seek_contractor") /\ UNCHANGED <<invoices, relations, correcting, history>>  BY SeekGoes
<1>4. Beside  BY <1>3, RowsBeside
<1>5. Follows(r, s) /\ Watches(r, s)
  <2>1. Same(r, s, About) /\ s.seen = r.seen  BY <1>2 DEF Same, About, Fields
  <2> QED  BY <1>2, <2>1 DEF Follows, Watches
<1>6. "local" \in Left(r) => "local" \in Left(s)  BY <1>2
<1>7. Orderly' => Orderly /\ Others(o)
  <2>1. mixed' = mixed /\ died' = died  BY <1>3 DEF history
  <2> QED  BY <1>3, <2>1, WorkingApart
<1>8. ASSUME Orderly'
      PROVE  OneAtATime(s)' /\ \A k \in DOMAIN overrides : AwaitedBy(r, k) => AwaitedBy(s, k)'
  <2>1. OneAtATime(r) /\ Aware(r)  BY <1>1, <1>7, <1>8 DEF CorrectionsInv, BaseInv, AwareInv
  <2>2. OneAtATime(s)'  BY <1>4, <1>5, <2>1, OneAtATimeOn
  <2>3. ASSUME NEW k \in DOMAIN overrides, AwaitedBy(r, k) PROVE AwaitedBy(s, k)'
    BY <1>3, <1>5, <1>6, <2>3, AwaitsOn
  <2> QED  BY <2>2, <2>3
<1> QED  BY <1>1, <1>2, <1>4, <1>7, <1>8, BesideStep

\* Transactions after which the request is over.
LEMMA EndCorrections ==
  ASSUME BaseInv, CorrectionsInv, NEW o \in Operators,
         \/ FetchFails(o) \/ Finalize(o) \/ ApplyStatus(o)
         \/ Die(o) \/ ContractorExists(o) \/ NothingToSettle(o)
  PROVE  CorrectionsInv'
<1>1. CASE Die(o) \/ ContractorExists(o) \/ NothingToSettle(o)
  <2>1. died' = TRUE  BY <1>1 DEF Die, ContractorExists, NothingToSettle, EndHalfWay
  <2> QED  BY <2>1 DEF CorrectionsInv, Orderly
<1>2. CASE FetchFails(o) \/ Finalize(o) \/ ApplyStatus(o)
  <2>1. PICK r : r = request[o]  OBVIOUS
  <2>2. PICK x \in {"fetch", "finalize", "status"} : Does(o, x)  BY <1>2 DEF FetchFails, Finalize, ApplyStatus
  <2>3. Becomes(o, Idle) /\ mixed' = mixed /\ died' = died /\ UNCHANGED correcting
    BY <1>2 DEF FetchFails, Finalize, ApplyStatus, Becomes, history
  <2>4. Orderly' => Orderly /\ Others(o)  BY <2>2, <2>3, WorkingApart
  <2>5. Beside
    <3>1. CASE FetchFails(o) \/ Finalize(o)
      <4>1. UNCHANGED invoices  BY <3>1 DEF FetchFails, Finalize
      <4> QED  BY <2>3, <4>1, RowsBeside
    <3>2. CASE ApplyStatus(o)
      <4>1. PICK row : Writes(r.row, row) /\ \A f \in RowFields \ {"status"} : row[f] = invoices[r.row][f]
        BY <2>1, <3>2, StatusWrites
      <4>2. Does(o, "status")  BY <3>2 DEF ApplyStatus
      <4>3. r.row \in DOMAIN invoices  BY <2>1, <4>2, WorkingLemma DEF RowSteps
      <4>4. Tells(row, invoices[r.row])  BY <4>1 DEF RowFields, Tells, KsefFields
      <4> QED  BY <2>3, <4>1, <4>3, <4>4, WritesLemma, TellsItself DEF Beside
    <3> QED  BY <1>2, <3>1, <3>2
  <2>6. "local" \notin Left(r)
    <3>1. r.agenda # <<>> /\ Head(r.agenda) = x /\ Formed(r)  BY <2>1, <2>2, WorkingLemma
    <3>2. x = "status" => "local" \notin Left(r)
      <4>1. <<"status", "local">> \in Nevers  BY DEF Nevers, Steps
      <4>2. Left(r) = {x} \cup Range(Tail(r.agenda))  BY <3>1, AheadLemma DEF Formed, Left
      <4>3. x = "status" => "local" \notin Range(Tail(r.agenda))  BY <3>1, <4>1, AheadLemma DEF Formed
      <4> QED  BY <4>2, <4>3
    <3>3. x # "status" => Left(r) = {x}  BY <3>1, HeadLemma DEF Alone
    <3> QED  BY <3>2, <3>3
  <2>7. PICK s : s = Idle  OBVIOUS
  <2>8. OneAtATime(s)'  BY <2>7, IdleLemma, ApartLemma DEF Apart
  <2>9. Becomes(o, s)  BY <2>3, <2>7
  <2> QED  BY <2>1, <2>4, <2>5, <2>6, <2>8, <2>9, ApartStep
<1> QED  BY <1>1, <1>2

LEMMA InsertCorrections ==
  ASSUME BaseInv, CorrectionsInv, NEW o \in Operators, Insert(o)
  PROVE  CorrectionsInv'
<1>1. PICK r : r = request[o]  OBVIOUS
<1>2. PICK q, s : Turn(o, q, s)  BY <1>1, InsertTurn
<1>3. Does(o, "insert") /\ UNCHANGED correcting /\ mixed' = mixed /\ died' = died  BY DEF Insert, Done, history
<1>4. r.agenda # <<>> /\ Head(r.agenda) = "insert" /\ Formed(r)  BY <1>1, <1>3, WorkingLemma
<1>5. Left(r) \subseteq {"insert", "stats", "evaluate", "flag", "sync", "item"}  BY <1>4, HeadLemma
<1>6. Left(q) = Left(r)  BY <1>1, <1>2 DEF Turn, Left
<1>7. Left(s) \subseteq Left(q) \cup {"finalize", "look_up"}  BY <1>2 DEF Turn, GoesOn, Resting
<1>8. Apart(s)  BY <1>5, <1>6, <1>7 DEF Apart
<1>9. OneAtATime(s)'  BY <1>8, ApartLemma
<1>10. Beside
  <2>1. PICK row \in Rows : /\ DOMAIN invoices' = DOMAIN invoices \cup {Len(invoices) + 1}
                            /\ \A j \in DOMAIN invoices : invoices'[j] = invoices[j]
    BY <1>1, InsertRow
  <2> QED  BY <1>3, <2>1, TellsItself DEF Beside
<1>11. Orderly' => Orderly /\ Others(o)  BY <1>3, WorkingApart
<1>12. "local" \notin Left(request[o]) /\ Becomes(o, s)  BY <1>1, <1>2, <1>5 DEF Turn
<1> QED  BY <1>9, <1>10, <1>11, <1>12, ApartStep

-----------------------------------------------------------------------------
(* Decisions, and requests that start *)

\* A request of one transaction.
LEMMA AtOnceCorrections ==
  ASSUME BaseInv, CorrectionsInv, UNCHANGED <<request, overrides>>,
         DOMAIN invoices \subseteq DOMAIN invoices', \A i \in DOMAIN invoices : Tells(invoices'[i], invoices[i]),
         Orderly' => Orderly /\ Quiet /\ Pendings'
  PROVE  CorrectionsInv'
<1> SUFFICES ASSUME Orderly'
             PROVE  /\ Lone' /\ \A p \in Operators : OneAtATime(request[p])'
                    /\ \A k \in DOMAIN overrides' : overrides'[k].status = "approved" =>
                         InForce(k)' \/ \E p \in Operators : AwaitedBy(request[p], k)'
                    /\ Pendings'
  BY DEF CorrectionsInv, Pendings
<1>1. \A p \in Operators : ~Working(p)  BY DEF Quiet
<1>2. Lone'  BY <1>1 DEF Lone, Working
<1>3. ASSUME NEW p \in Operators PROVE OneAtATime(request[p])' /\ \A k : ~AwaitedBy(request[p], k)
  <2>1. PICK r : r = request[p]  OBVIOUS
  <2>2. Apart(r)  BY <1>1, <2>1, NothingLeft DEF Working, Apart
  <2>3. OneAtATime(r)' /\ \A k : ~AwaitedBy(r, k)  BY <2>2, ApartLemma
  <2>4. r = request'[p]  BY <2>1
  <2> QED  BY <2>1, <2>3, <2>4
<1>4. ASSUME NEW k \in DOMAIN overrides', overrides'[k].status = "approved" PROVE InForce(k)'
  <2>1. k \in DOMAIN overrides /\ overrides[k].status = "approved"  BY <1>4
  <2>2. InForce(k)  BY <1>3, <2>1 DEF CorrectionsInv
  <2>3. overrides[k] \in OverrideRows /\ overrides[k].invoice \in DOMAIN invoices  BY <2>1 DEF BaseInv, PapersInv
  <2>4. PICK i \in DOMAIN invoices : i = overrides[k].invoice  BY <2>3
  <2>5. PICK f \in KsefFields : f = overrides[k].field  BY <2>3 DEF OverrideRows
  <2>6. Tells(invoices'[i], invoices[i])  OBVIOUS
  <2> QED  BY <2>2, <2>4, <2>5, <2>6 DEF InForce, Tells
<1> QED  BY <1>2, <1>3, <1>4

LEMMA MarkingWrites ==
  ASSUME BaseInv, NEW o \in Operators, MarkForVerification(o) \/ ConfirmDuplicate(o) \/ MarkCorrect(o)
  PROVE  /\ \E i \in DOMAIN invoices : \E row :
              /\ Writes(i, row) /\ row \in Rows /\ Decides(o, i)
              /\ \A f \in RowFields \ {"status", "duplicate", "reason"} : row[f] = invoices[i][f]
              /\ relations' \in {relations, {x \in relations : x[1] # i}}
         /\ UNCHANGED correcting
<1>1. UNCHANGED correcting  BY DEF MarkForVerification, ConfirmDuplicate, MarkCorrect
<1>2. PICK i \in DOMAIN invoices, st \in Statuses, d \in Kinds :
        /\ MarkRow(i, st, d) /\ Decides(o, i)
        /\ relations' \in {relations, {x \in relations : x[1] # i}}
  <2>1. CASE MarkForVerification(o)
    <3>1. PICK i \in DOMAIN invoices : MarkRow(i, "weryfikacja", invoices[i].duplicate) /\ Decides(o, i)
      BY <2>1 DEF MarkForVerification
    <3>2. invoices[i] \in Rows  BY DEF BaseInv, RowsInv
    <3>3. invoices[i].duplicate \in Kinds  BY <3>2 DEF Rows, Kinds
    <3>4. relations' = relations  BY <2>1 DEF MarkForVerification, ledger
    <3> QED  BY <3>1, <3>3, <3>4 DEF Statuses
  <2>2. CASE ConfirmDuplicate(o)
    <3>1. PICK i \in DOMAIN invoices : MarkRow(i, "pewny_duplikat", "pewny") /\ Decides(o, i)
      BY <2>2 DEF ConfirmDuplicate
    <3>2. relations' = relations  BY <2>2 DEF ConfirmDuplicate, ledger
    <3> QED  BY <3>1, <3>2 DEF Statuses, Kinds
  <2>3. CASE MarkCorrect(o)
    <3>1. PICK i \in DOMAIN invoices : /\ MarkRow(i, "poprawna", "brak") /\ Decides(o, i)
                                       /\ relations' = {x \in relations : x[1] # i}
      BY <2>3 DEF MarkCorrect
    <3> QED  BY <3>1 DEF Statuses, Kinds
  <2> QED  BY <2>1, <2>2, <2>3
<1>3. PICK row : /\ Writes(i, row) /\ row \in Rows
                 /\ \A f \in RowFields \ {"status", "duplicate", "reason"} : row[f] = invoices[i][f]
  BY <1>2, MarkWrites
<1> QED  BY <1>1, <1>2, <1>3

LEMMA MarkingCorrections ==
  ASSUME BaseInv, CorrectionsInv, NEW o \in Operators, MarkForVerification(o) \/ ConfirmDuplicate(o) \/ MarkCorrect(o)
  PROVE  CorrectionsInv'
<1>1. PICK i \in DOMAIN invoices : \E row :
        /\ Writes(i, row) /\ Decides(o, i)
        /\ \A f \in RowFields \ {"status", "duplicate", "reason"} : row[f] = invoices[i][f]
  BY MarkingWrites
<1>2. UNCHANGED correcting  BY MarkingWrites
<1>3. PICK row : /\ Writes(i, row) /\ Decides(o, i)
                 /\ \A f \in RowFields \ {"status", "duplicate", "reason"} : row[f] = invoices[i][f]
  BY <1>1
<1>4. Tells(row, invoices[i])  BY <1>3 DEF RowFields, Tells, KsefFields
<1>5. DOMAIN invoices \subseteq DOMAIN invoices' /\ \A j \in DOMAIN invoices : Tells(invoices'[j], invoices[j])
  BY <1>4, <1>3, WritesLemma, TellsItself
<1>6. UNCHANGED <<request, overrides>>  BY <1>2, <1>3 DEF Decides, correcting
<1>7. Orderly' => Orderly /\ Quiet  BY <1>3 DEF Decides, Orderly, Quiet
<1>8. Orderly' => Pendings'  BY <1>2, <1>7, PendingsBeside DEF CorrectionsInv, Pendings
<1> QED  BY <1>5, <1>6, <1>7, <1>8, AtOnceCorrections

\* A new approval request has no corrections yet.
LEMMA NewPending ==
  ASSUME BaseInv, Pendings, NEW i \in DOMAIN invoices, NEW kind \in {"status", "ksef"},
         approvals' = NewApproval(i, kind), UNCHANGED <<invoices, overrides>>
  PROVE  Pendings'
<1>1. /\ DOMAIN approvals' = DOMAIN approvals \cup {Len(approvals) + 1}
      /\ \A a \in DOMAIN approvals : approvals'[a] = approvals[a]
  BY ApprovalAdded
<1>2. ASSUME NEW k \in DOMAIN overrides PROVE overrides[k].approval # Len(approvals) + 1
  <2>1. overrides[k].approval \in 0..Len(approvals) /\ Len(approvals) \in Nat  BY DEF BaseInv, PapersInv
  <2> QED  BY <2>1
<1> QED  BY <1>1, <1>2 DEF Pendings, OverridesOf

LEMMA CreateRequestCorrections ==
  ASSUME BaseInv, CorrectionsInv, NEW o \in Operators, CreateRequest(o)
  PROVE  CorrectionsInv'
<1>1. PICK i \in DOMAIN invoices : approvals' = NewApproval(i, "status")  BY DEF CreateRequest
<1>2. UNCHANGED <<invoices, overrides, request>>  BY DEF CreateRequest
<1>3. Orderly' => Orderly /\ Quiet
  <2>1. died' = died /\ mixed' = (mixed \/ \E p \in Operators : Working(p))  BY DEF CreateRequest
  <2> QED  BY <2>1 DEF Orderly, Quiet
<1>4. Orderly' => Pendings'  BY <1>1, <1>2, <1>3, NewPending DEF CorrectionsInv, Pendings
<1> QED  BY <1>2, <1>3, <1>4, TellsItself, AtOnceCorrections

\* A new edit seeks the contractor it names before it saves it.
SeeksFirst(s) ==
  /\ Left(s) \cap {"look_up", "candidate", "insert", "authority"} = {}
  /\ "save" \in Left(s) => "seek_contractor" \in Left(s) \/ s.change[1] # "supplier"

LEMMA UpdateInvoiceGoes ==
  ASSUME NEW o \in Operators, UpdateInvoice(o)
  PROVE  /\ \E s : /\ Begin(o, s) /\ ("flag" \in Left(s) => "evaluate" \in Left(s)) /\ OneAtATime(s)' /\ SeeksFirst(s)
         /\ UNCHANGED <<invoices, relations, correcting>>
<1>1. PICK i \in DOMAIN invoices, c \in Changes, may \in BOOLEAN :
        Begin(o, [Idle EXCEPT !.row = i, !.change = c, !.before = invoices[i].contractor,
                             !.agenda = IF invoices[i].authority = "KSEF" THEN Correcting(may) ELSE Editing(c[1])])
  BY DEF UpdateInvoice, Approves
<1>2. UNCHANGED <<invoices, relations, correcting>>  BY DEF UpdateInvoice, ledger
<1>3. PICK a : a = IF invoices[i].authority = "KSEF" THEN Correcting(may) ELSE Editing(c[1])  OBVIOUS
<1>4. PICK s : s = [Idle EXCEPT !.row = i, !.change = c, !.before = invoices[i].contractor, !.agenda = a]
  OBVIOUS
<1>5. Begin(o, s)  BY <1>1, <1>3, <1>4
<1>6. s.agenda = a /\ s.row = i /\ s.change = c  BY <1>4 DEF Idle
<1>7. Left(s) = Range(a)  BY <1>6 DEF Left
<1>8. CASE invoices[i].authority = "KSEF" /\ may
  <2>1. Left(s) = {"evaluate", "flag", "stats", "approve_directly", "local", "sync"}
    BY <1>3, <1>7, <1>8, CorrectingOrdered
  <2>2. OneAtATime(s)'  BY <2>1 DEF OneAtATime, Sees, Settles, Approved, Applies, Left
  <2>3. SeeksFirst(s)  BY <2>1 DEF SeeksFirst
  <2> QED  BY <1>2, <1>5, <2>1, <2>2, <2>3
<1>9. CASE invoices[i].authority = "KSEF" /\ ~may
  <2>1. Left(s) = {"evaluate", "flag", "stats", "ask", "override", "sync"}
    BY <1>3, <1>7, <1>9, AskingOrdered
  <2>2. OneAtATime(s)'  BY <2>1, ApartLemma DEF Apart
  <2>3. SeeksFirst(s)  BY <2>1 DEF SeeksFirst
  <2> QED  BY <1>2, <1>5, <2>1, <2>2, <2>3
<1>10. CASE invoices[i].authority # "KSEF"
  <2>1. /\ Left(s) \subseteq {"seek_contractor", "create_contractor", "save", "rehash", "evaluate", "flag", "stats", "sync"}
        /\ "evaluate" \in Left(s) /\ (c[1] = "supplier" => "seek_contractor" \in Left(s))
    <3>1. a = Editing(c[1])  BY <1>3, <1>10
    <3>2. CASE c[1] = "supplier"  BY <1>7, <3>1, <3>2, EditingSupplierOrdered
    <3>3. CASE c[1] # "supplier"  BY <1>7, <3>1, <3>3, EditingOrdered
    <3> QED  BY <3>2, <3>3
  <2>2. OneAtATime(s)'
    <3>1. Sees(s)' /\ Settles(s)' /\ Approved(s)'  BY <2>1 DEF Sees, Settles, Approved, Applies, Left
    <3>2. invoices'[s.row].authority # "KSEF"  BY <1>2, <1>6, <1>10
    <3> QED  BY <3>1, <3>2, OneAtATimeDef
  <2>3. SeeksFirst(s)  BY <1>6, <2>1 DEF SeeksFirst
  <2> QED  BY <1>2, <1>5, <2>1, <2>2, <2>3
<1> QED  BY <1>8, <1>9, <1>10

LEMMA UpdateInvoiceCorrections ==
  ASSUME BaseInv, CorrectionsInv, NEW o \in Operators, UpdateInvoice(o)
  PROVE  CorrectionsInv'
<1>1. PICK s : Begin(o, s) /\ OneAtATime(s)'  BY UpdateInvoiceGoes
<1>2. UNCHANGED <<invoices, correcting>>  BY UpdateInvoiceGoes
<1>3. (Orderly' => Orderly /\ Others(o)) /\ Becomes(o, s) /\ Left(request[o]) = {}  BY <1>1, BeginApart
<1> QED  BY <1>1, <1>2, <1>3, RowsBeside, ApartStep

\* A request to decide is begun while its corrections wait for the decision.
LEMMA DecideRequestCorrections ==
  ASSUME BaseInv, CorrectionsInv, NEW o \in Operators, DecideRequest(o)
  PROVE  CorrectionsInv'
<1>1. PICK a \in DOMAIN approvals, d \in {"approved", "rejected", "cancelled"}, may \in BOOLEAN :
        /\ Begin(o, [Idle EXCEPT !.agenda = Deciding(a, d), !.approval = a, !.decision = d, !.row = approvals[a].invoice])
        /\ CanDecide(a, may)
  BY DEF DecideRequest, Approves
<1>2. UNCHANGED <<invoices, correcting>>  BY DEF DecideRequest
<1>3. PICK x : x = Deciding(a, d)  OBVIOUS
<1>4. PICK s : s = [Idle EXCEPT !.agenda = x, !.approval = a, !.decision = d, !.row = approvals[a].invoice]  OBVIOUS
<1>5. Begin(o, s)  BY <1>1, <1>3, <1>4
<1>6. s.agenda = x /\ s.approval = a /\ Left(s) = Range(x)  BY <1>4 DEF Idle, Left
<1>7. /\ "decide" \in Left(s) /\ Left(s) \subseteq {"decide", "read", "settle", "local", "status"}
      /\ "local" \in Left(s) => {"read", "settle"} \subseteq Left(s)
  BY <1>3, <1>6, DecidingOrdered
<1>8. (Orderly' => Orderly /\ Others(o)) /\ Becomes(o, s) /\ Left(request[o]) = {}  BY <1>5, BeginApart
<1>9. ASSUME Orderly' PROVE OneAtATime(s)'
  <2>1. Sees(s)' /\ Approved(s)'  BY <1>7 DEF Sees, Approved, Applies, Left
  <2>2. \A k \in OverridesOf(a) : overrides[k].status = "pending"
    BY <1>1, <1>8, <1>9 DEF CorrectionsInv, CanDecide
  <2>3. Settles(s)'  BY <1>2, <1>6, <1>7, <2>2 DEF Settles, OverridesOf, Left, correcting
  <2> QED  BY <1>7, <2>1, <2>3, OneAtATimeDef
<1>10. \A k : ~AwaitedBy(request[o], k)  BY <1>8 DEF AwaitedBy, Applies
<1>11. Beside  BY <1>2, RowsBeside
<1> QED  BY <1>8, <1>9, <1>10, <1>11, BesideStep

-----------------------------------------------------------------------------
(* Transactions that write corrected data *)

\* What a request knows while requests come one at a time, and what else is approved.
LEMMA TurnFacts ==
  ASSUME BaseInv, CorrectionsInv, NEW o \in Operators, NEW x, Does(o, x), NEW r, r = request[o],
         mixed' = mixed, died' = died, Orderly'
  PROVE  /\ Orderly /\ Others(o) /\ OneAtATime(r) /\ Aware(r) /\ Pendings
         /\ \A k \in DOMAIN overrides : overrides[k].status = "approved" => InForce(k) \/ AwaitedBy(r, k)
<1>1. Orderly /\ Others(o)  BY WorkingApart
<1>2. OneAtATime(r) /\ Aware(r) /\ Pendings  BY <1>1 DEF CorrectionsInv, BaseInv, AwareInv, Pendings
<1>3. ASSUME NEW k \in DOMAIN overrides, overrides[k].status = "approved" PROVE InForce(k) \/ AwaitedBy(r, k)
  <2>1. InForce(k) \/ \E p \in Operators : AwaitedBy(request[p], k)  BY <1>1, <1>3 DEF CorrectionsInv
  <2>2. ASSUME NEW p \in Operators, AwaitedBy(request[p], k) PROVE AwaitedBy(r, k)
    <3>1. PICK t : t = request[p]  OBVIOUS
    <3>2. ~Apart(t)  BY <2>2, <3>1, ApartLemma
    <3>3. t.agenda # <<>>  BY <3>2, NothingLeft DEF Apart
    <3>4. p = o  BY <1>1, <3>1, <3>3 DEF Others, Working
    <3> QED  BY <2>2, <3>4
  <2> QED  BY <2>1, <2>2
<1> QED  BY <1>1, <1>2, <1>3

\* A correction stays in force where the invoice's data are written.
LEMMA ForceWritten ==
  ASSUME BaseInv, NEW i \in DOMAIN invoices, NEW row, Writes(i, row), UNCHANGED overrides,
         NEW k \in DOMAIN overrides, InForce(k),
         NEW f, f = overrides[k].field,
         overrides[k].invoice = i => row[f] = row.local[f] /\ row.local[f] = invoices[i].local[f]
  PROVE  InForce(k)'
<1>1. PICK j \in DOMAIN invoices : j = overrides[k].invoice  BY DEF BaseInv, PapersInv
<1>2. invoices'[j][f] = invoices'[j].local[f] /\ invoices'[j].local[f] = invoices[j].local[f]
  BY <1>1, WritesLemma DEF InForce
<1> QED  BY <1>1, <1>2 DEF InForce

\* A local value in force is one that an edit gave.
LEMMA ForceGiven ==
  ASSUME BaseInv, NEW k \in DOMAIN overrides, InForce(k), NEW i, NEW f, i = overrides[k].invoice, f = overrides[k].field
  PROVE  f \in KsefFields /\ invoices[i].local[f] \in Given /\ invoices[i].local[f] # NoValue
<1>1. \A l \in DOMAIN overrides : overrides[l] \in OverrideRows  BY DEF BaseInv, PapersInv
<1>2. \A l \in DOMAIN overrides : overrides[l].value \in Given /\ overrides[l].field \in KsefFields
  BY <1>1 DEF OverrideRows
<1>3. PICK l \in DOMAIN overrides : overrides[l].value = invoices[i].local[f]  BY DEF InForce
<1> QED  BY <1>2, <1>3, InvoicesAssumption

LEMMA AuthorityCorrections ==
  ASSUME BaseInv, CorrectionsInv, NEW o \in Operators, ApplyAuthority(o)
  PROVE  CorrectionsInv'
<1>1. PICK r : r = request[o]  OBVIOUS
<1>2. PICK q, s : Turn(o, q, s) /\ Same(r, q, Fields \ {"before"})  BY <1>1, PlainTurn DEF Plain
<1>3. Does(o, "authority") /\ UNCHANGED correcting /\ mixed' = mixed /\ died' = died
  BY DEF ApplyAuthority, Done, history
<1>4. PICK row : Writes(r.row, row) /\ IsOverruled(row, invoices[r.row], r.seen, r.message)  BY <1>1, AuthorityWrites
<1>5. /\ r.row \in DOMAIN invoices /\ r.agenda # <<>> /\ Head(r.agenda) = "authority" /\ Formed(r)
      /\ "authority" \in Left(r)
  BY <1>1, <1>3, WorkingLemma DEF RowSteps
<1>6. Left(r) \cap {"local", "save"} = {}  BY <1>5, HeadLemma
<1>7. Same(r, q, About)  BY <1>2 DEF Same, About, Fields
<1>8. SUFFICES ASSUME Orderly'
               PROVE  /\ Others(o) /\ OneAtATime(s)' /\ Pendings'
                      /\ \A k \in DOMAIN overrides' : overrides'[k].status = "approved" => InForce(k)'
  <2>1. Becomes(o, s)  BY <1>2 DEF Turn
  <2> QED  BY <1>8, <2>1, CorrectionsStep
<1>9. /\ Orderly /\ Others(o) /\ OneAtATime(r) /\ Aware(r) /\ Pendings
      /\ \A k \in DOMAIN overrides : overrides[k].status = "approved" => InForce(k) \/ AwaitedBy(r, k)
  BY <1>1, <1>3, <1>8, TurnFacts
<1>10. Pendings'  BY <1>3, <1>9, PendingsBeside
<1>11. OneAtATime(s)'
  <2>1. CASE Resting(s) /\ Apart(s)  BY <2>1, ApartLemma
  <2>2. CASE Left(s) = Left(r) \ {"authority"} /\ Same(r, s, About)
    <3>1. Follows(r, s)  BY <2>2 DEF Follows
    <3>2. Settles(s)'  BY <1>3, <1>9, <3>1, SettlesOn DEF OneAtATime
    <3>3. Sees(s)' /\ Approved(s)'  BY <1>6, <2>2 DEF Sees, Approved, Applies, Left
    <3>4. "save" \notin Left(s)  BY <1>6, <2>2
    <3> QED  BY <3>2, <3>3, <3>4, OneAtATimeDef
  <2> QED  BY <1>1, <1>2, <1>3, <1>7, <2>1, <2>2, TurnFollows
<1>12. r.seen.local = invoices[r.row].local  BY <1>5, <1>9 DEF OneAtATime, Sees
<1>13. ASSUME NEW k \in DOMAIN overrides', overrides'[k].status = "approved" PROVE InForce(k)'
  <2>1. k \in DOMAIN overrides /\ overrides[k].status = "approved" /\ UNCHANGED overrides
    BY <1>3, <1>13 DEF correcting
  <2>2. ~AwaitedBy(r, k)  BY <1>6 DEF AwaitedBy, Applies
  <2>3. InForce(k)  BY <1>9, <2>1, <2>2
  <2>4. PICK f : f = overrides[k].field  OBVIOUS
  <2>5. overrides[k].invoice = r.row => row[f] = row.local[f] /\ row.local[f] = invoices[r.row].local[f]
    <3> SUFFICES ASSUME overrides[k].invoice = r.row
                 PROVE  row[f] = row.local[f] /\ row.local[f] = invoices[r.row].local[f]
      OBVIOUS
    <3>1. f \in KsefFields /\ invoices[r.row].local[f] # NoValue  BY <2>1, <2>3, <2>4, ForceGiven
    <3>2. row[f] = Authoritative(r.seen, r.message)[f] /\ row.local = r.seen.local  BY <1>4, <3>1 DEF IsOverruled
    <3>3. Authoritative(r.seen, r.message)[f] = r.seen.local[f]  BY <1>12, <3>1 DEF Authoritative
    <3> QED  BY <1>12, <3>2, <3>3
  <2> QED  BY <1>4, <1>5, <2>1, <2>3, <2>4, <2>5, ForceWritten
<1> QED  BY <1>9, <1>10, <1>11, <1>13

LEMMA SaveCorrections ==
  ASSUME BaseInv, CorrectionsInv, NEW o \in Operators, SaveInvoice(o)
  PROVE  CorrectionsInv'
<1>1. PICK r : r = request[o]  OBVIOUS
<1>2. PICK q, s : /\ Turn(o, q, s) /\ Same(r, q, Fields \ {"seen"})
                  /\ q.seen = invoices'[r.row]  BY <1>1, SaveTurn
<1>3. Does(o, "save") /\ UNCHANGED correcting /\ mixed' = mixed /\ died' = died
  BY DEF SaveInvoice, Done, history
<1>4. PICK row : Writes(r.row, row)  BY <1>1, SaveWrites
<1>5. r.row \in DOMAIN invoices /\ "save" \in Left(r)  BY <1>1, <1>3, WorkingLemma DEF RowSteps
<1>6. Same(r, q, About)  BY <1>2 DEF Same, About, Fields
<1>7. SUFFICES ASSUME Orderly'
               PROVE  /\ Others(o) /\ OneAtATime(s)' /\ Pendings'
                      /\ \A k \in DOMAIN overrides' : overrides'[k].status = "approved" => InForce(k)' \/ AwaitedBy(s, k)'
  <2>1. Becomes(o, s)  BY <1>2 DEF Turn
  <2> QED  BY <1>7, <2>1, CorrectionsStep
<1>8. /\ Orderly /\ Others(o) /\ OneAtATime(r) /\ Aware(r) /\ Pendings
      /\ \A k \in DOMAIN overrides : overrides[k].status = "approved" => InForce(k) \/ AwaitedBy(r, k)
  BY <1>1, <1>3, <1>7, TurnFacts
<1>9. Pendings'  BY <1>3, <1>8, PendingsBeside
<1>10. \A k \in DOMAIN overrides : overrides[k].invoice # r.row
  <2>1. invoices[r.row].authority # "KSEF"  BY <1>5, <1>8 DEF OneAtATime
  <2> QED  BY <2>1 DEF BaseInv, PapersInv
<1>11. OneAtATime(s)'
  <2>1. CASE Resting(s) /\ Apart(s)  BY <2>1, ApartLemma
  <2>2. CASE Left(s) = Left(r) \ {"save"} /\ Same(r, s, About) /\ s.seen = q.seen /\ s.row = r.row
    <3>1. Follows(r, s)  BY <2>2 DEF Follows
    <3>2. Settles(s)'  BY <1>3, <1>8, <3>1, SettlesOn DEF OneAtATime
    <3>3. Approved(s)'  BY <1>3, <1>8, <3>1, ApprovedOn DEF OneAtATime, correcting
    <3>4. Sees(s)'  BY <1>2, <2>2 DEF Sees, Left
    <3>5. "save" \notin Left(s)  BY <2>2
    <3> QED  BY <3>2, <3>3, <3>4, <3>5, OneAtATimeDef
  <2> QED  BY <1>1, <1>2, <1>3, <1>6, <2>1, <2>2, TurnFollows
<1>12. ASSUME NEW k \in DOMAIN overrides', overrides'[k].status = "approved" PROVE InForce(k)'
  <2>1. k \in DOMAIN overrides /\ overrides[k].status = "approved" /\ UNCHANGED overrides
    BY <1>3, <1>12 DEF correcting
  <2>2. ~AwaitedBy(r, k)  BY <1>10, <2>1 DEF AwaitedBy
  <2>3. InForce(k)  BY <1>8, <2>1, <2>2
  <2>4. PICK f : f = overrides[k].field  OBVIOUS
  <2>5. overrides[k].invoice # r.row  BY <1>10, <2>1
  <2> QED  BY <1>4, <1>5, <2>1, <2>3, <2>4, <2>5, ForceWritten
<1> QED  BY <1>8, <1>9, <1>11, <1>12

LEMMA LocalCorrections ==
  ASSUME BaseInv, CorrectionsInv, NEW o \in Operators, ApplyLocal(o)
  PROVE  CorrectionsInv'
<1>1. PICK r : r = request[o]  OBVIOUS
<1>2. PICK q, s : /\ Turn(o, q, s) /\ Same(r, q, Fields \ {"seen"})
                  /\ q.seen = invoices'[r.row]  BY <1>1, LocalTurn
<1>3. Does(o, "local") /\ UNCHANGED correcting /\ mixed' = mixed /\ died' = died
  BY DEF ApplyLocal, Done, history
<1>4. PICK row : Writes(r.row, row) /\ IsCorrected(row, invoices[r.row], r.seen, r.change)  BY <1>1, LocalWrites
<1>5. /\ r.row \in DOMAIN invoices /\ "local" \in Left(r) /\ r.agenda # <<>> /\ Head(r.agenda) = "local" /\ Formed(r)
  BY <1>1, <1>3, WorkingLemma DEF RowSteps
<1>6. Left(r) \cap {"settle", "evaluate", "approve_directly", "read"} = {}  BY <1>5, HeadLemma
<1>7. Same(r, q, About)  BY <1>2 DEF Same, About, Fields
<1>8. SUFFICES ASSUME Orderly'
               PROVE  /\ Others(o) /\ OneAtATime(s)' /\ Pendings'
                      /\ \A k \in DOMAIN overrides' : overrides'[k].status = "approved" => InForce(k)'
  <2>1. Becomes(o, s)  BY <1>2 DEF Turn
  <2> QED  BY <1>8, <2>1, CorrectionsStep
<1>9. /\ Orderly /\ Others(o) /\ OneAtATime(r) /\ Aware(r) /\ Pendings
      /\ \A k \in DOMAIN overrides : overrides[k].status = "approved" => InForce(k) \/ AwaitedBy(r, k)
  BY <1>1, <1>3, <1>8, TurnFacts
<1>10. Pendings'  BY <1>3, <1>9, PendingsBeside
<1>11. r.seen.local = invoices[r.row].local /\ Applies(r)  BY <1>5, <1>6, <1>9 DEF OneAtATime, Sees, Applies
<1>12. PICK c \in KsefFields \X Given : c = r.change  BY <1>5, <1>6, <1>9 DEF Aware, KnowsChange
<1>13. c[1] \in KsefFields  BY <1>12
<1>14. PICK old \in Rows : old = invoices[r.row]  BY <1>5 DEF BaseInv, RowsInv
<1>15. /\ row[c[1]] = c[2] /\ row.local[c[1]] = c[2] /\ row.authority = old.authority
       /\ \A g \in KsefFields \ {c[1]} : row[g] = old[g] /\ row.local[g] = old.local[g]
  <2>1. /\ row[c[1]] = c[2] /\ row.local = [old.local EXCEPT ![c[1]] = c[2]]
        /\ \A g \in RowFields \ {c[1], "local", "hash"} : row[g] = old[g]
    BY <1>4, <1>11, <1>12, <1>14 DEF IsCorrected
  <2>2. old.local \in [KsefFields -> Values]  BY DEF Rows
  <2>3. row.local[c[1]] = c[2] /\ \A g \in KsefFields \ {c[1]} : row.local[g] = old.local[g]
    BY <1>13, <2>1, <2>2
  <2> QED  BY <1>13, <2>1, <2>3 DEF KsefFields, RowFields
<1>16. PICK l \in DOMAIN overrides : overrides[l].invoice = r.row /\ overrides[l].field = c[1] /\ overrides[l].value = c[2]
                                     /\ overrides[l].status = "approved"
  BY <1>9, <1>11, <1>12 DEF OneAtATime, Approved
<1>17. OneAtATime(s)'
  <2>1. CASE Resting(s) /\ Apart(s)  BY <2>1, ApartLemma
  <2>2. CASE Left(s) = Left(r) \ {"local"} /\ Same(r, s, About) /\ s.seen = q.seen /\ s.row = r.row
    <3>1. Follows(r, s)  BY <2>2 DEF Follows
    <3>2. Settles(s)'  BY <1>3, <1>9, <3>1, SettlesOn DEF OneAtATime
    <3>3. Approved(s)'  BY <2>2 DEF Approved, Applies, Left
    <3>4. Sees(s)'  BY <1>2, <2>2 DEF Sees, Left
    <3>5. invoices'[r.row].authority = invoices[r.row].authority  BY <1>4, <1>5, <1>14, <1>15, WritesLemma
    <3>6. "save" \in Left(s) => invoices'[s.row].authority # "KSEF"  BY <1>9, <2>2, <3>5 DEF OneAtATime
    <3> QED  BY <3>2, <3>3, <3>4, <3>6, OneAtATimeDef
  <2> QED  BY <1>1, <1>2, <1>3, <1>7, <2>1, <2>2, TurnFollows
<1>18. ASSUME NEW k \in DOMAIN overrides', overrides'[k].status = "approved" PROVE InForce(k)'
  <2>1. k \in DOMAIN overrides /\ overrides[k].status = "approved" /\ UNCHANGED overrides
    BY <1>3, <1>18 DEF correcting
  <2>2. CASE overrides[k].invoice = r.row /\ overrides[k].field = c[1]
    <3>1. invoices'[r.row] = row  BY <1>4, <1>5, WritesLemma
    <3> QED  BY <1>15, <1>16, <2>1, <2>2, <3>1 DEF InForce
  <2>3. CASE ~(overrides[k].invoice = r.row /\ overrides[k].field = c[1])
    <3>1. ~AwaitedBy(r, k)  BY <1>12, <2>3 DEF AwaitedBy
    <3>2. InForce(k)  BY <1>9, <2>1, <3>1
    <3>3. PICK f : f = overrides[k].field  OBVIOUS
    <3>4. overrides[k].invoice = r.row => row[f] = row.local[f] /\ row.local[f] = invoices[r.row].local[f]
      <4> SUFFICES ASSUME overrides[k].invoice = r.row
                   PROVE  row[f] = row.local[f] /\ row.local[f] = invoices[r.row].local[f]
        OBVIOUS
      <4>1. f \in KsefFields \ {c[1]}  BY <2>1, <2>3, <3>2, <3>3, ForceGiven
      <4>2. old[f] = old.local[f]  BY <1>14, <3>2, <3>3 DEF InForce
      <4> QED  BY <1>14, <1>15, <4>1, <4>2
    <3> QED  BY <1>4, <1>5, <2>1, <3>2, <3>3, <3>4, ForceWritten
  <2> QED  BY <2>2, <2>3
<1> QED  BY <1>9, <1>10, <1>17, <1>18

-----------------------------------------------------------------------------
(* Transactions that change corrections *)

LEMMA TurnGoes ==
  ASSUME NEW o \in Operators, NEW x, Does(o, x), NEW r, r = request[o], NEW q, NEW s, Turn(o, q, s)
  PROVE  \/ Resting(s) /\ Apart(s) /\ Left(r) = {x}
         \/ Left(s) = Left(r) \ {x} /\ Same(q, s, Fields \ {"agenda"})
<1>1. GoesOn(q, s) /\ q.agenda = r.agenda /\ Head(r.agenda) = x  BY DEF Turn, Does
<1>2. Left(q) = Left(r)  BY <1>1 DEF Left
<1>3. CASE Resting(s) /\ s = Onward(q) /\ Left(q) = {Head(q.agenda)}  BY <1>1, <1>2, <1>3 DEF Resting, Apart
<1>4. CASE Same(q, s, Fields \ {"agenda"}) /\ Left(s) = Left(q) \ {Head(q.agenda)}  BY <1>1, <1>2, <1>4
<1> QED  BY <1>1, <1>3, <1>4 DEF GoesOn

LEMMA ForceGrows ==
  ASSUME UNCHANGED invoices, DOMAIN overrides \subseteq DOMAIN overrides',
         \A k \in DOMAIN overrides : overrides'[k] = overrides[k],
         NEW k \in DOMAIN overrides, InForce(k)
  PROVE  InForce(k)'
BY DEF InForce

\* A request knows its corrections after a step that leaves the invoices alone.
LEMMA CorrectingOn ==
  ASSUME NEW r, NEW s, Left(s) \subseteq Left(r), s.row = r.row, OneAtATime(r), UNCHANGED invoices,
         s.seen = invoices[r.row] \/ (s.seen = r.seen /\ "read" \notin Left(r) \ Left(s) /\ "evaluate" \notin Left(r) \ Left(s)),
         Settles(s)', Approved(s)'
  PROVE  OneAtATime(s)'
<1>1. Sees(r) /\ ("save" \in Left(r) => invoices[r.row].authority # "KSEF")  BY DEF OneAtATime
<1>2. Sees(s)'  BY <1>1 DEF Sees, Left
<1>3. "save" \in Left(s) => invoices'[s.row].authority # "KSEF"  BY <1>1
<1> QED  BY <1>2, <1>3, OneAtATimeDef

LEMMA ApproveDirectlyCorrections ==
  ASSUME BaseInv, CorrectionsInv, NEW o \in Operators, ApproveDirectly(o)
  PROVE  CorrectionsInv'
<1>1. PICK r : r = request[o]  OBVIOUS
<1>2. PICK q, s : Turn(o, q, s) /\ Same(r, q, Fields \ {"before"})  BY <1>1, PlainTurn DEF Plain
<1>3. Does(o, "approve_directly") /\ UNCHANGED <<invoices, approvals>> /\ mixed' = mixed /\ died' = died
  BY DEF ApproveDirectly, Done, history
<1>4. /\ r.agenda # <<>> /\ Head(r.agenda) = "approve_directly" /\ Formed(r) /\ Aware(r)
      /\ "approve_directly" \in Left(r)
  BY <1>1, <1>3, WorkingLemma
<1>5. "local" \in Left(r) /\ "settle" \notin Left(r)  BY <1>4, HeadLemma
<1>6. /\ Left(s) = Left(r) \ {"approve_directly"} /\ s.row = r.row /\ s.change = r.change /\ s.seen = r.seen
  <2>1. Left(s) = Left(r) \ {"approve_directly"} /\ Same(q, s, Fields \ {"agenda"})
    BY <1>1, <1>2, <1>3, <1>5, TurnGoes
  <2> QED  BY <1>2, <2>1 DEF Same, Fields
<1>7. PICK x : x = [invoice |-> r.row, approval |-> 0, field |-> r.change[1], value |-> r.change[2], status |-> "approved"]
  OBVIOUS
<1>8. PICK n : n = Len(overrides) + 1  OBVIOUS
<1>9. /\ DOMAIN overrides' = DOMAIN overrides \cup {n} /\ overrides'[n] = x
      /\ \A k \in DOMAIN overrides : overrides'[k] = overrides[k]
  <2>1. 0 \in 0..Len(approvals)  BY DEF BaseInv, PapersInv
  <2>2. overrides' = Append(overrides, x)  BY <1>1, <1>7 DEF ApproveDirectly, InsertOverride
  <2> QED  BY <1>3, <1>4, <1>7, <1>8, <2>1, <2>2, SavedOverride
<1>10. SUFFICES ASSUME Orderly'
                PROVE  /\ Others(o) /\ OneAtATime(s)' /\ Pendings'
                       /\ \A k \in DOMAIN overrides' : overrides'[k].status = "approved" => InForce(k)' \/ AwaitedBy(s, k)'
  <2>1. Becomes(o, s)  BY <1>2 DEF Turn
  <2> QED  BY <1>10, <2>1, CorrectionsStep
<1>11. /\ Orderly /\ Others(o) /\ OneAtATime(r) /\ Pendings
       /\ \A k \in DOMAIN overrides : overrides[k].status = "approved" => InForce(k) \/ AwaitedBy(r, k)
  BY <1>1, <1>3, <1>10, TurnFacts
<1>12. Pendings'
  <2>1. x.approval = 0 /\ 0 \notin DOMAIN approvals  BY <1>7 DEF BaseInv, PapersInv
  <2> QED  BY <1>3, <1>9, <1>11, <2>1 DEF Pendings, OverridesOf
<1>13. OneAtATime(s)'
  <2>1. Settles(s)'  BY <1>5, <1>6 DEF Settles, Left
  <2>2. x.invoice = s.row /\ x.field = s.change[1] /\ x.value = s.change[2] /\ x.status = "approved"
    BY <1>6, <1>7
  <2>3. Approved(s)'  BY <1>9, <2>2 DEF Approved
  <2> QED  BY <1>3, <1>5, <1>6, <1>11, <2>1, <2>3, CorrectingOn
<1>14. ASSUME NEW k \in DOMAIN overrides', overrides'[k].status = "approved" PROVE InForce(k)' \/ AwaitedBy(s, k)'
  <2>1. CASE k = n
    <3>1. Applies(s)  BY <1>5, <1>6 DEF Applies
    <3>2. x.invoice = s.row /\ x.field = s.change[1]  BY <1>6, <1>7
    <3> QED  BY <1>9, <2>1, <3>1, <3>2 DEF AwaitedBy, Applies, Left
  <2>2. CASE k \in DOMAIN overrides
    <3>1. ~AwaitedBy(r, k)  BY <1>4 DEF AwaitedBy, Applies
    <3>2. InForce(k)  BY <1>9, <1>11, <1>14, <2>2, <3>1
    <3> QED  BY <1>3, <1>9, <2>2, <3>2, ForceGrows
  <2> QED  BY <1>9, <2>1, <2>2
<1> QED  BY <1>11, <1>12, <1>13, <1>14

LEMMA AskCorrections ==
  ASSUME BaseInv, CorrectionsInv, NEW o \in Operators, AskForCorrection(o)
  PROVE  CorrectionsInv'
<1>1. PICK r : r = request[o]  OBVIOUS
<1>2. PICK q, s : Turn(o, q, s) /\ Same(r, q, Fields \ {"approval"})  BY <1>1, AskTurn
<1>3. /\ Does(o, "ask") /\ UNCHANGED <<invoices, overrides>> /\ mixed' = mixed /\ died' = died
      /\ approvals' = NewApproval(r.row, "ksef")
  BY <1>1 DEF AskForCorrection, Done, history
<1>4. r.agenda # <<>> /\ Head(r.agenda) = "ask" /\ Formed(r) /\ r.row \in DOMAIN invoices
  BY <1>1, <1>3, WorkingLemma DEF RowSteps
<1>5. "settle" \notin Left(r)  BY <1>4, HeadLemma
<1>6. SUFFICES ASSUME Orderly'
               PROVE  /\ Others(o) /\ OneAtATime(s)' /\ Pendings'
                      /\ \A k \in DOMAIN overrides' : overrides'[k].status = "approved" => InForce(k)' \/ AwaitedBy(s, k)'
  <2>1. Becomes(o, s)  BY <1>2 DEF Turn
  <2> QED  BY <1>6, <2>1, CorrectionsStep
<1>7. /\ Orderly /\ Others(o) /\ OneAtATime(r) /\ Pendings
      /\ \A k \in DOMAIN overrides : overrides[k].status = "approved" => InForce(k) \/ AwaitedBy(r, k)
  BY <1>1, <1>3, <1>6, TurnFacts
<1>8. Pendings'  BY <1>3, <1>4, <1>7, NewPending
<1>9. CASE Resting(s) /\ Apart(s) /\ Left(r) = {"ask"}
  <2>1. OneAtATime(s)'  BY <1>9, ApartLemma
  <2>2. \A k : ~AwaitedBy(r, k)  BY <1>9 DEF AwaitedBy, Applies
  <2> QED  BY <1>3, <1>7, <1>8, <2>1, <2>2, ForceGrows
<1>10. CASE Left(s) = Left(r) \ {"ask"} /\ Same(q, s, Fields \ {"agenda"})
  <2>1. s.row = r.row /\ s.change = r.change /\ s.seen = r.seen  BY <1>2, <1>10 DEF Same, Fields
  <2>2. Applies(s) <=> Applies(r)  BY <1>10 DEF Applies
  <2>3. Settles(s)'  BY <1>5, <1>10 DEF Settles, Left
  <2>4. Approved(s)'  BY <1>3, <1>7, <2>1, <2>2 DEF OneAtATime, Approved, Applies, Left
  <2>5. OneAtATime(s)'  BY <1>3, <1>5, <1>7, <1>10, <2>1, <2>3, <2>4, CorrectingOn
  <2>6. ASSUME NEW k \in DOMAIN overrides, AwaitedBy(r, k) PROVE AwaitedBy(s, k)'
    BY <1>3, <2>1, <2>2, <2>6 DEF AwaitedBy, Applies, Left
  <2> QED  BY <1>3, <1>7, <1>8, <2>5, <2>6, ForceGrows
<1> QED  BY <1>1, <1>2, <1>3, <1>9, <1>10, TurnGoes

LEMMA SaveOverrideCorrections ==
  ASSUME BaseInv, CorrectionsInv, NEW o \in Operators, SaveOverride(o)
  PROVE  CorrectionsInv'
<1>1. PICK r : r = request[o]  OBVIOUS
<1>2. PICK q, s : Turn(o, q, s) /\ Same(r, q, Fields \ {"seen"}) /\ q.seen = invoices'[r.row]
  BY <1>1, OverrideTurn
<1>3. Does(o, "override") /\ UNCHANGED <<invoices, approvals>> /\ mixed' = mixed /\ died' = died
  BY DEF SaveOverride, Done, history
<1>4. r.agenda # <<>> /\ Head(r.agenda) = "override" /\ Formed(r) /\ Aware(r) /\ "override" \in Left(r)
  BY <1>1, <1>3, WorkingLemma
<1>5. r.approval \in DOMAIN approvals /\ approvals[r.approval].invoice = r.row
  <2>1. "ask" \notin Left(r)  BY <1>4, HeadLemma
  <2> QED  BY <1>4, <2>1 DEF Aware, KnowsApproval
<1>6. PICK x : x = [invoice |-> r.row, approval |-> r.approval, field |-> r.change[1], value |-> r.change[2], status |-> "pending"]
  OBVIOUS
<1>7. PICK n : n = Len(overrides) + 1  OBVIOUS
<1>8. /\ DOMAIN overrides' = DOMAIN overrides \cup {n} /\ overrides'[n] = x
      /\ \A k \in DOMAIN overrides : overrides'[k] = overrides[k]
  <2>1. PICK a \in 0..Len(approvals) : a = r.approval  BY <1>5 DEF BaseInv, PapersInv
  <2>2. a # 0 => approvals[a].invoice = r.row  BY <1>5, <2>1
  <2>3. x = [invoice |-> r.row, approval |-> a, field |-> r.change[1], value |-> r.change[2], status |-> "pending"]
    BY <1>6, <2>1
  <2>4. overrides' = Append(overrides, x)  BY <1>1, <1>6 DEF SaveOverride, InsertOverride
  <2> QED  BY <1>3, <1>4, <1>7, <2>2, <2>3, <2>4, SavedOverride
<1>9. x.status = "pending"  BY <1>6
<1>10. SUFFICES ASSUME Orderly'
                PROVE  /\ Others(o) /\ OneAtATime(s)' /\ Pendings'
                       /\ \A k \in DOMAIN overrides' : overrides'[k].status = "approved" => InForce(k)' \/ AwaitedBy(s, k)'
  <2>1. Becomes(o, s)  BY <1>2 DEF Turn
  <2> QED  BY <1>10, <2>1, CorrectionsStep
<1>11. /\ Orderly /\ Others(o) /\ OneAtATime(r) /\ Pendings
       /\ \A k \in DOMAIN overrides : overrides[k].status = "approved" => InForce(k) \/ AwaitedBy(r, k)
  BY <1>1, <1>3, <1>10, TurnFacts
<1>12. Pendings'  BY <1>3, <1>8, <1>9, <1>11 DEF Pendings, OverridesOf
<1>13. ASSUME NEW k \in DOMAIN overrides', overrides'[k].status = "approved"
       PROVE  k \in DOMAIN overrides /\ overrides[k].status = "approved"
  BY <1>8, <1>9, <1>13
<1>14. CASE Resting(s) /\ Apart(s) /\ Left(r) = {"override"}
  <2>1. OneAtATime(s)'  BY <1>14, ApartLemma
  <2>2. \A k : ~AwaitedBy(r, k)  BY <1>14 DEF AwaitedBy, Applies
  <2> QED  BY <1>3, <1>8, <1>11, <1>12, <1>13, <2>1, <2>2, ForceGrows
<1>15. CASE Left(s) = Left(r) \ {"override"} /\ Same(q, s, Fields \ {"agenda"})
  <2>1. /\ s.row = r.row /\ s.change = r.change /\ s.approval = r.approval /\ s.seen = invoices[r.row]
    BY <1>2, <1>3, <1>15 DEF Same, Fields
  <2>2. Applies(s) <=> Applies(r)  BY <1>15 DEF Applies
  <2>3. Settles(s)'  BY <1>3, <1>8, <1>9, <1>11, <1>15, <2>1 DEF OneAtATime, Settles, OverridesOf, Left
  <2>4. Approved(s)'  BY <1>8, <1>11, <2>1, <2>2 DEF OneAtATime, Approved, Applies, Left
  <2>5. OneAtATime(s)'  BY <1>3, <1>11, <1>15, <2>1, <2>3, <2>4, CorrectingOn
  <2>6. ASSUME NEW k \in DOMAIN overrides, AwaitedBy(r, k) PROVE AwaitedBy(s, k)'
    BY <1>8, <2>1, <2>2, <2>6 DEF AwaitedBy, Applies, Left
  <2> QED  BY <1>3, <1>8, <1>11, <1>12, <1>13, <2>5, <2>6, ForceGrows
<1> QED  BY <1>1, <1>2, <1>3, <1>14, <1>15, TurnGoes

LEMMA DecideCorrections ==
  ASSUME BaseInv, CorrectionsInv, NEW o \in Operators, Decide(o)
  PROVE  CorrectionsInv'
<1>1. PICK r : r = request[o]  OBVIOUS
<1>2. PICK q, s : Turn(o, q, s) /\ Same(r, q, Fields \ {"before"})  BY <1>1, PlainTurn DEF Plain
<1>3. /\ Does(o, "decide") /\ UNCHANGED <<invoices, overrides>> /\ mixed' = mixed /\ died' = died
      /\ approvals' = [approvals EXCEPT ![r.approval].status = r.decision]
  BY <1>1 DEF Decide, Done, history
<1>4. r.agenda # <<>> /\ Head(r.agenda) = "decide" /\ Formed(r) /\ Aware(r) /\ "decide" \in Left(r)
  BY <1>1, <1>3, WorkingLemma
<1>5. r.approval \in DOMAIN approvals /\ r.decision # "pending"  BY <1>4 DEF Aware, KnowsApproval
<1>6. /\ DOMAIN approvals' = DOMAIN approvals /\ approvals'[r.approval].status # "pending"
      /\ \A a \in DOMAIN approvals : a # r.approval => approvals'[a] = approvals[a]
  <2>1. PICK x \in ApprovalRows : x = approvals[r.approval]  BY <1>5 DEF BaseInv, PapersInv
  <2>2. PICK y : y = [x EXCEPT !.status = r.decision]  OBVIOUS
  <2>3. y.status = r.decision  BY <2>2 DEF ApprovalRows
  <2>4. approvals' = [approvals EXCEPT ![r.approval] = y]  BY <1>3, <2>1, <2>2
  <2> QED  BY <1>5, <2>3, <2>4
<1>7. SUFFICES ASSUME Orderly'
               PROVE  /\ Others(o) /\ OneAtATime(s)' /\ Pendings'
                      /\ \A k \in DOMAIN overrides' : overrides'[k].status = "approved" => InForce(k)' \/ AwaitedBy(s, k)'
  <2>1. Becomes(o, s)  BY <1>2 DEF Turn
  <2> QED  BY <1>7, <2>1, CorrectionsStep
<1>8. /\ Orderly /\ Others(o) /\ OneAtATime(r) /\ Pendings
      /\ \A k \in DOMAIN overrides : overrides[k].status = "approved" => InForce(k) \/ AwaitedBy(r, k)
  BY <1>1, <1>3, <1>7, TurnFacts
<1>9. Pendings'  BY <1>3, <1>6, <1>8 DEF Pendings, OverridesOf
<1>10. CASE Resting(s) /\ Apart(s) /\ Left(r) = {"decide"}
  <2>1. OneAtATime(s)'  BY <1>10, ApartLemma
  <2>2. \A k : ~AwaitedBy(r, k)  BY <1>10 DEF AwaitedBy, Applies
  <2>3. ASSUME NEW k \in DOMAIN overrides, overrides[k].status = "approved" PROVE InForce(k)'
    <3>1. InForce(k)  BY <1>8, <2>2, <2>3
    <3> QED  BY <1>3, <3>1, ForceGrows
  <2> QED  BY <1>3, <1>8, <1>9, <2>1, <2>3
<1>11. CASE Left(s) = Left(r) \ {"decide"} /\ Same(q, s, Fields \ {"agenda"})
  <2>1. s.row = r.row /\ s.change = r.change /\ s.approval = r.approval /\ s.seen = r.seen
    BY <1>2, <1>11 DEF Same, Fields
  <2>2. Applies(s) <=> Applies(r)  BY <1>11 DEF Applies
  <2>3. Settles(s)'  BY <1>3, <1>6, <1>8, <1>11, <2>1 DEF OneAtATime, Settles, OverridesOf, Left
  <2>4. Approved(s)'  BY <1>3, <1>8, <2>1, <2>2 DEF OneAtATime, Approved, Applies, Left
  <2>5. OneAtATime(s)'  BY <1>3, <1>8, <1>11, <2>1, <2>3, <2>4, CorrectingOn
  <2>6. ASSUME NEW k \in DOMAIN overrides, AwaitedBy(r, k) PROVE AwaitedBy(s, k)'
    BY <1>3, <2>1, <2>2, <2>6 DEF AwaitedBy, Applies, Left
  <2> QED  BY <1>3, <1>8, <1>9, <2>5, <2>6, ForceGrows
<1>12. \/ Resting(s) /\ Apart(s) /\ Left(r) = {"decide"}
       \/ Left(s) = Left(r) \ {"decide"} /\ Same(q, s, Fields \ {"agenda"})
  BY <1>1, <1>2, <1>3, TurnGoes
<1> QED  BY <1>10, <1>11, <1>12

\* The correction a decision settles waits for its request to put it in force, if it is approved.
LEMMA SettleCorrections ==
  ASSUME BaseInv, CorrectionsInv, NEW o \in Operators, Settle(o)
  PROVE  CorrectionsInv'
<1>1. PICK r : r = request[o]  OBVIOUS
<1>2. PICK q, s : \E k \in OverridesOf(r.approval) : Settling(o, r, k, q, s)  BY <1>1, SettleTurn
<1>3. PICK k \in OverridesOf(r.approval) :
           /\ Turn(o, q, s) /\ Same(r, q, Fields \ {"change"})
           /\ q.change = <<overrides[k].field, overrides[k].value>>
           /\ overrides' = [overrides EXCEPT ![k].status = r.decision]
  BY <1>2 DEF Settling
<1>4. Does(o, "settle") /\ UNCHANGED <<invoices, approvals>> /\ mixed' = mixed /\ died' = died
  BY DEF Settle, Done, history
<1>5. r.agenda # <<>> /\ Head(r.agenda) = "settle" /\ Formed(r) /\ Aware(r) /\ "settle" \in Left(r)
  BY <1>1, <1>4, WorkingLemma
<1>6. Left(r) \cap {"approve_directly", "decide"} = {}  BY <1>5, HeadLemma
<1>7. /\ r.approval \in DOMAIN approvals /\ approvals[r.approval].invoice = r.row
      /\ r.decision = (IF "local" \in Left(r) THEN "approved" ELSE "rejected")
  BY <1>5 DEF Aware, KnowsApproval
<1>8. k \in DOMAIN overrides /\ overrides[k].approval = r.approval  BY DEF OverridesOf
<1>9. overrides[k].invoice = r.row
  <2>1. r.approval # 0  BY <1>7 DEF BaseInv, PapersInv
  <2> QED  BY <1>7, <1>8, <2>1 DEF BaseInv, PapersInv
<1>10. /\ DOMAIN overrides' = DOMAIN overrides /\ overrides'[k].status = r.decision
       /\ overrides'[k].invoice = r.row /\ overrides'[k].approval = r.approval
       /\ overrides'[k].field = q.change[1] /\ overrides'[k].value = q.change[2]
       /\ \A l \in DOMAIN overrides : l # k => overrides'[l] = overrides[l]
  <2>1. PICK x \in OverrideRows : x = overrides[k]  BY <1>8 DEF BaseInv, PapersInv
  <2>2. PICK y : y = [x EXCEPT !.status = r.decision]  OBVIOUS
  <2>3. /\ y.status = r.decision /\ y.invoice = x.invoice /\ y.approval = x.approval
        /\ y.field = x.field /\ y.value = x.value
    BY <2>2 DEF OverrideRows
  <2>4. overrides' = [overrides EXCEPT ![k] = y]  BY <1>3, <2>1, <2>2
  <2>5. q.change[1] = x.field /\ q.change[2] = x.value  BY <1>3, <2>1
  <2> QED  BY <1>8, <1>9, <2>1, <2>3, <2>4, <2>5
<1>11. SUFFICES ASSUME Orderly'
                PROVE  /\ Others(o) /\ OneAtATime(s)' /\ Pendings'
                       /\ \A l \in DOMAIN overrides' : overrides'[l].status = "approved" => InForce(l)' \/ AwaitedBy(s, l)'
  <2>1. Becomes(o, s)  BY <1>3 DEF Turn
  <2> QED  BY <1>11, <2>1, CorrectionsStep
<1>12. /\ Orderly /\ Others(o) /\ OneAtATime(r) /\ Pendings
       /\ \A l \in DOMAIN overrides : overrides[l].status = "approved" => InForce(l) \/ AwaitedBy(r, l)
  BY <1>1, <1>4, <1>11, TurnFacts
<1>13. overrides[k].status = "pending" /\ approvals[r.approval].status # "pending"
  BY <1>5, <1>6, <1>12 DEF OneAtATime, Settles
<1>14. Pendings'  BY <1>4, <1>8, <1>10, <1>12, <1>13 DEF Pendings, OverridesOf
<1>15. ASSUME NEW l \in DOMAIN overrides, l # k, overrides'[l].status = "approved" PROVE InForce(l)'
  <2>1. overrides'[l] = overrides[l] /\ ~AwaitedBy(r, l)  BY <1>5, <1>10, <1>15 DEF AwaitedBy, Applies
  <2>2. InForce(l)  BY <1>12, <1>15, <2>1
  <2>3. \A w \in DOMAIN overrides : overrides[w].status = "approved" => overrides'[w] = overrides[w]
    BY <1>10, <1>13
  <2> QED  BY <1>4, <1>10, <2>1, <2>2, <2>3 DEF InForce
<1>16. CASE Resting(s) /\ Apart(s) /\ Left(r) = {"settle"}
  <2>1. OneAtATime(s)'  BY <1>16, ApartLemma
  <2>2. overrides'[k].status # "approved"  BY <1>7, <1>10, <1>16
  <2> QED  BY <1>10, <1>12, <1>14, <1>15, <2>1, <2>2
<1>17. CASE Left(s) = Left(r) \ {"settle"} /\ Same(q, s, Fields \ {"agenda"})
  <2>1. s.row = r.row /\ s.change = q.change /\ s.seen = r.seen  BY <1>3, <1>17 DEF Same, Fields
  <2>2. Applies(s) => overrides'[k].status = "approved"  BY <1>7, <1>10, <1>17 DEF Applies
  <2>3. Settles(s)'  BY <1>17 DEF Settles, Left
  <2>4. Approved(s)'
    <3> SUFFICES ASSUME Applies(s) PROVE Approved(s)'
      BY DEF Approved, Applies, Left
    <3> QED  BY <1>8, <1>10, <2>1, <2>2 DEF Approved
  <2>5. OneAtATime(s)'  BY <1>4, <1>12, <1>17, <2>1, <2>3, <2>4, CorrectingOn
  <2>6. overrides'[k].status = "approved" => AwaitedBy(s, k)'
    <3> SUFFICES ASSUME overrides'[k].status = "approved" PROVE AwaitedBy(s, k)'
      OBVIOUS
    <3>1. "local" \in Left(r)  BY <1>7, <1>10
    <3>2. Applies(s)  BY <1>6, <1>17, <3>1 DEF Applies
    <3> QED  BY <1>10, <2>1, <3>2 DEF AwaitedBy, Applies, Left
  <2> QED  BY <1>10, <1>12, <1>14, <1>15, <2>5, <2>6
<1>18. Does(o, "settle") /\ Turn(o, q, s)  BY <1>3, <1>4
<1>19. \/ Resting(s) /\ Apart(s) /\ Left(r) = {"settle"}
       \/ Left(s) = Left(r) \ {"settle"} /\ Same(q, s, Fields \ {"agenda"})
  BY <1>1, <1>18, TurnGoes
<1> QED  BY <1>16, <1>17, <1>19

LEMMA CorrectionsNext ==
  ASSUME BaseInv, CorrectionsInv, Next
  PROVE  CorrectionsInv'
<1>1. PICK o \in Operators : Importing(o) \/ Creating(o) \/ Changing(o) \/ DecidingOn(o) \/ Die(o)  BY DEF Next
<1>2. CASE Importing(o)
  BY <1>2, FreshCorrections, EndCorrections, PlainCorrections DEF Importing
<1>3. CASE Creating(o)
  BY <1>3, FreshCorrections, EndCorrections, PlainCorrections, SeekCorrections, InsertCorrections,
     AuthorityCorrections, EvaluateCorrections, FlagCorrections
     DEF Creating
<1>4. CASE Changing(o)
  BY <1>4, UpdateInvoiceCorrections, SaveCorrections, PlainCorrections, ApproveDirectlyCorrections,
     LocalCorrections, AskCorrections, SaveOverrideCorrections
     DEF Changing
<1>5. CASE DecidingOn(o)
  BY <1>5, MarkingCorrections, CreateRequestCorrections, DecideRequestCorrections, DecideCorrections,
     EndCorrections, ReadCorrections, SettleCorrections
     DEF DecidingOn
<1> QED  BY <1>1, <1>2, <1>3, <1>4, <1>5, EndCorrections

LEMMA CorrectionsStill ==
  ASSUME CorrectionsInv, UNCHANGED vars
  PROVE  CorrectionsInv'
<1>1. UNCHANGED <<invoices, approvals, overrides, request, mixed, died>>  BY DEF vars
<1>2. \A r : OneAtATime(r) => OneAtATime(r)'
  BY <1>1 DEF OneAtATime, Sees, Settles, Approved, Applies, OverridesOf, Left
<1>3. \A r, k : AwaitedBy(r, k) => AwaitedBy(r, k)'  BY <1>1 DEF AwaitedBy, Applies, Left
<1>4. \A k : InForce(k) => InForce(k)'  BY <1>1 DEF InForce
<1> QED  BY <1>1, <1>2, <1>3, <1>4 DEF CorrectionsInv, Orderly, Lone, Working, OverridesOf

LEMMA CorrectionsStart == Init => CorrectionsInv
<1> SUFFICES ASSUME Init PROVE CorrectionsInv
  OBVIOUS
<1>1. request = [o \in Operators |-> Idle] /\ overrides = <<>> /\ approvals = <<>>  BY DEF Init
<1>2. \A o \in Operators : request[o] = Idle  BY <1>1
<1>3. Lone  BY <1>2, IdleLemma DEF Lone, Working
<1>4. \A o \in Operators : OneAtATime(request[o])  BY <1>2, IdleLemma, ApartLemma DEF Apart
<1> QED  BY <1>1, <1>3, <1>4 DEF CorrectionsInv

LEMMA CorrectionsLemma == CorrectionsInv => CorrectionsInForce
<1> SUFFICES ASSUME CorrectionsInv, Orderly, Quiet, NEW k \in DOMAIN overrides, overrides[k].status = "approved"
             PROVE  InForce(k)
  BY DEF CorrectionsInForce, InForce
<1>1. ASSUME NEW p \in Operators PROVE ~AwaitedBy(request[p], k)
  <2>1. PICK r : r = request[p]  OBVIOUS
  <2>2. Apart(r)  BY <2>1, NothingLeft DEF Quiet, Working, Apart
  <2> QED  BY <2>1, <2>2, ApartLemma
<1> QED  BY <1>1 DEF CorrectionsInv

\* Every approved correction of KSeF data is in force once the requests are over, as long as they
\* come one at a time: after any number of further KSeF checks, edits and decisions.
THEOREM CorrectionsStayInForce == Spec => []CorrectionsInForce
<1>1. Init => CorrectionsInv  BY CorrectionsStart
<1>2. BaseInv /\ CorrectionsInv /\ [Next]_vars => CorrectionsInv'
  BY CorrectionsNext, CorrectionsStill
<1>3. CorrectionsInv => CorrectionsInForce  BY CorrectionsLemma
<1> QED  BY <1>1, <1>2, <1>3, RequestsKnow, PTL DEF Spec

-----------------------------------------------------------------------------
(* Of two invoices with one number, one is known to be a duplicate *)

\* Two invoices one of which is a duplicate, as far as the code still looks.
Alike(i, j) == i # j /\ Twins(i, j) /\ {i, j} \cap handled = {} /\ ~Corrected(i) /\ ~Corrected(j)
Known(r, i, j) == WillFlag(r, i, j) \/ WillFlag(r, j, i)

\* What tells invoices apart, and whether one is a duplicate.
Looks(row, old) == /\ row.local = old.local /\ row.duplicate = old.duplicate
                   /\ \A f \in KsefFields : row[f] = old[f]

LEMMA LooksItself == \A row : Looks(row, row)
BY DEF Looks

LEMMA AlikeBefore ==
  ASSUME NEW i, NEW j, Alike(i, j)', handled \subseteq handled',
         invoices'[i].local = invoices[i].local, \A f \in KsefFields : invoices'[i][f] = invoices[i][f],
         invoices'[j].local = invoices[j].local, \A f \in KsefFields : invoices'[j][f] = invoices[j][f]
  PROVE  Alike(i, j)
<1>1. /\ invoices'[i].local = invoices[i].local /\ invoices'[j].local = invoices[j].local
      /\ invoices'[i].ksef = invoices[i].ksef /\ invoices'[j].ksef = invoices[j].ksef
      /\ invoices'[i].number = invoices[i].number /\ invoices'[j].number = invoices[j].number
      /\ invoices'[i].supplier = invoices[i].supplier /\ invoices'[j].supplier = invoices[j].supplier
  BY DEF KsefFields
<1>2. Twins(i, j)' => Twins(i, j)  BY <1>1 DEF Twins
<1>3. (~Corrected(i)' => ~Corrected(i)) /\ (~Corrected(j)' => ~Corrected(j))  BY <1>1 DEF Corrected
<1> QED  BY <1>2, <1>3 DEF Alike

LEMMA FlagsStay ==
  ASSUME NEW i, NEW j, Flags(i, j), invoices'[i].duplicate = invoices[i].duplicate,
         \A x \in relations : x[1] = i => x \in relations', DOMAIN invoices \subseteq DOMAIN invoices'
  PROVE  Flags(i, j)'
BY DEF Flags

\* The request of o is now s, and no other has changed.
TurnsTo(o, s) == request'[o] = s /\ \A p \in Operators : p # o => request'[p] = request[p]

LEMMA TwinsStep ==
  ASSUME NEW o \in Operators, NEW s, TurnsTo(o, s),
         Orderly' => /\ Others(o) /\ Compares(s)'
                     /\ \A i, j \in DOMAIN invoices' : Alike(i, j)' => Flags(i, j)' \/ Flags(j, i)' \/ Known(s, i, j)
  PROVE  TwinsInv'
<1> SUFFICES ASSUME Orderly'
             PROVE  /\ \A p \in Operators : Compares(request[p])'
                    /\ \A i, j \in DOMAIN invoices' : Alike(i, j)' =>
                         \/ Flags(i, j)' \/ Flags(j, i)'
                         \/ \E p \in Operators : WillFlag(request'[p], i, j) \/ WillFlag(request'[p], j, i)
  BY DEF TwinsInv, Alike, WillFlag, Flagging, Left
<1>1. request'[o] = s /\ \A p \in Operators : p # o => request'[p] = request[p]  BY DEF TurnsTo
<1>2. ASSUME NEW p \in Operators PROVE Compares(request[p])'
  <2>1. CASE p = o  BY <1>1, <2>1
  <2>2. CASE p # o
    <3>1. PICK r : r = request'[p]  OBVIOUS
    <3>2. r.agenda = <<>>  BY <1>1, <2>2, <3>1 DEF Others, Working
    <3>3. Left(r) = {}  BY <3>2, NothingLeft
    <3>4. Compares(r)'  BY <3>3 DEF Compares, Flagging, Left
    <3> QED  BY <3>1, <3>4
  <2> QED  BY <2>1, <2>2
<1>3. ASSUME NEW i \in DOMAIN invoices', NEW j \in DOMAIN invoices', Alike(i, j)'
      PROVE  \/ Flags(i, j)' \/ Flags(j, i)'
             \/ \E p \in Operators : WillFlag(request'[p], i, j) \/ WillFlag(request'[p], j, i)
  <2>1. Flags(i, j)' \/ Flags(j, i)' \/ Known(s, i, j)  BY <1>3
  <2>2. Known(s, i, j) => WillFlag(request'[o], i, j) \/ WillFlag(request'[o], j, i)  BY <1>1 DEF Known
  <2> QED  BY <2>1, <2>2
<1> QED  BY <1>2, <1>3

\* What requests one at a time know of two invoices alike.
LEMMA TwinsFacts ==
  ASSUME TwinsInv, Orderly, NEW o \in Operators, Others(o), NEW r, r = request[o]
  PROVE  /\ Compares(r)
         /\ \A i, j \in DOMAIN invoices : Alike(i, j) => Flags(i, j) \/ Flags(j, i) \/ Known(r, i, j)
<1>1. Compares(r)  BY DEF TwinsInv
<1>2. ASSUME NEW i \in DOMAIN invoices, NEW j \in DOMAIN invoices, Alike(i, j)
      PROVE  Flags(i, j) \/ Flags(j, i) \/ Known(r, i, j)
  <2>1. \/ Flags(i, j) \/ Flags(j, i)
        \/ \E p \in Operators : WillFlag(request[p], i, j) \/ WillFlag(request[p], j, i)
    BY <1>2 DEF TwinsInv, Alike
  <2>2. ASSUME NEW p \in Operators, Known(request[p], i, j) PROVE Known(r, i, j)
    <3>1. PICK t : t = request[p]  OBVIOUS
    <3>2. Left(t) # {}  BY <2>2, <3>1 DEF Known, WillFlag, Flagging
    <3>3. t.agenda # <<>>  BY <3>2, NothingLeft
    <3>4. p = o  BY <3>1, <3>3 DEF Others, Working
    <3> QED  BY <2>2, <3>4
  <2> QED  BY <2>1, <2>2 DEF Known
<1> QED  BY <1>1, <1>2

\* A transaction of a request that changes the row i at most, and the relations of it.
Spares(i) ==
  /\ DOMAIN invoices \subseteq DOMAIN invoices' /\ DOMAIN invoices' \subseteq DOMAIN invoices \cup {i}
  /\ \A a \in DOMAIN invoices : a # i => Looks(invoices'[a], invoices[a])
  /\ \A x \in relations : x[1] # i => x \in relations'
  /\ handled \subseteq handled'

LEMMA AroundStep ==
  ASSUME BaseInv, TwinsInv, NEW o \in Operators, NEW r, r = request[o], NEW s, TurnsTo(o, s), NEW i, Spares(i),
         Orderly' => Orderly /\ Others(o),
         Orderly' =>
           /\ Compares(s)' /\ \A a, b \in DOMAIN invoices : a # i /\ WillFlag(r, a, b) => WillFlag(s, a, b)
           /\ \A b \in DOMAIN invoices' : b # i /\ i \in DOMAIN invoices' /\ Alike(i, b)' =>
                Flags(i, b)' \/ Flags(b, i)' \/ Known(s, i, b)
  PROVE  TwinsInv'
<1> SUFFICES ASSUME Orderly'
             PROVE  \A a, b \in DOMAIN invoices' : Alike(a, b)' => Flags(a, b)' \/ Flags(b, a)' \/ Known(s, a, b)
  BY TwinsStep
<1>1. ASSUME NEW a \in DOMAIN invoices', NEW b \in DOMAIN invoices', Alike(a, b)', a # i, b # i
      PROVE  Flags(a, b)' \/ Flags(b, a)' \/ Known(s, a, b)
  <2>1. a \in DOMAIN invoices /\ b \in DOMAIN invoices  BY <1>1 DEF Spares
  <2>2. Looks(invoices'[a], invoices[a]) /\ Looks(invoices'[b], invoices[b])  BY <1>1, <2>1 DEF Spares
  <2>3. Alike(a, b)
    <3>1. handled \subseteq handled'  BY DEF Spares
    <3>2. invoices'[a].local = invoices[a].local /\ \A f \in KsefFields : invoices'[a][f] = invoices[a][f]
      BY <2>2 DEF Looks
    <3>3. invoices'[b].local = invoices[b].local /\ \A f \in KsefFields : invoices'[b][f] = invoices[b][f]
      BY <2>2 DEF Looks
    <3> QED  BY <1>1, <3>1, <3>2, <3>3, AlikeBefore
  <2>4. Flags(a, b) \/ Flags(b, a) \/ Known(r, a, b)  BY <2>1, <2>3, TwinsFacts
  <2>5. (Flags(a, b) => Flags(a, b)') /\ (Flags(b, a) => Flags(b, a)')
    <3>1. /\ \A x \in relations : x[1] = a => x \in relations'
          /\ \A x \in relations : x[1] = b => x \in relations'
          /\ DOMAIN invoices \subseteq DOMAIN invoices'
      BY <1>1 DEF Spares
    <3> QED  BY <2>2, <3>1, FlagsStay DEF Looks
  <2>6. Known(r, a, b) => Known(s, a, b)  BY <1>1, <2>1 DEF Known
  <2> QED  BY <2>4, <2>5, <2>6
<1>2. ASSUME NEW b \in DOMAIN invoices', i \in DOMAIN invoices', Alike(i, b)'
      PROVE  Flags(i, b)' \/ Flags(b, i)' \/ Known(s, i, b)
  <2>1. b # i  BY <1>2 DEF Alike
  <2> QED  BY <1>2, <2>1
<1>3. ASSUME NEW b \in DOMAIN invoices', i \in DOMAIN invoices', Alike(b, i)'
      PROVE  Flags(i, b)' \/ Flags(b, i)' \/ Known(s, b, i)
  <2>1. Alike(i, b)'  BY <1>3 DEF Alike, Twins
  <2>2. Known(s, i, b) => Known(s, b, i)  BY DEF Known
  <2> QED  BY <1>2, <1>3, <2>1, <2>2
<1> QED  BY <1>1, <1>2, <1>3

-----------------------------------------------------------------------------
(* Transactions beside the duplicate checks *)

Checks == {"evaluate", "flag"}

LEMMA ZeroIsNoRow == BaseInv => 0 \notin DOMAIN invoices
BY DEF BaseInv, RowsInv

LEMMA SparesAll ==
  ASSUME UNCHANGED <<invoices, relations>>, handled \subseteq handled'
  PROVE  \A i : Spares(i)
BY LooksItself DEF Spares

\* The request has as much to check as before.
Remains(r, s) == Left(s) \cap Checks = Left(r) \cap Checks /\ Same(r, s, {"row", "type", "matches"})

LEMMA RemainsOn ==
  ASSUME NEW r, NEW s,
         \/ Remains(r, s)
         \/ Left(r) \cap Checks = {} /\ ("flag" \in Left(s) => "evaluate" \in Left(s))
  PROVE  /\ \A a, b : WillFlag(r, a, b) => WillFlag(s, a, b)
         /\ UNCHANGED relations /\ DOMAIN invoices \subseteq DOMAIN invoices' /\ Compares(r) => Compares(s)'
<1>1. CASE Left(r) \cap Checks = {} /\ ("flag" \in Left(s) => "evaluate" \in Left(s))
  BY <1>1 DEF Checks, WillFlag, Compares, Flagging, Left
<1>2. CASE Remains(r, s)
  <2>1. /\ s.row = r.row /\ s.type = r.type /\ s.matches = r.matches
        /\ ("evaluate" \in Left(s) <=> "evaluate" \in Left(r)) /\ ("flag" \in Left(s) <=> "flag" \in Left(r))
    BY <1>2 DEF Remains, Same, Checks
  <2>2. \A a, b : WillFlag(r, a, b) => WillFlag(s, a, b)  BY <2>1 DEF WillFlag, Flagging
  <2>3. ASSUME UNCHANGED relations, DOMAIN invoices \subseteq DOMAIN invoices', Compares(r) PROVE Compares(s)'
    <3> SUFFICES ASSUME Flagging(s)
                 PROVE  /\ s.matches \subseteq DOMAIN invoices' /\ \A x \in relations' : x[1] # s.row
                        /\ s.type = "brak" => s.matches = {}
                        /\ s.type = "pewny" => s.matches # {}
      BY DEF Compares, Flagging, Left
    <3>1. Flagging(r)  BY <2>1 DEF Flagging
    <3> QED  BY <2>1, <2>3, <3>1 DEF Compares
  <2> QED  BY <2>2, <2>3
<1> QED  BY <1>1, <1>2

LEMMA TurnRemains ==
  ASSUME NEW o \in Operators, NEW x, Does(o, x), NEW r, r = request[o], NEW q, NEW s, Turn(o, q, s),
         x \notin Checks, Same(r, q, {"row", "type", "matches"})
  PROVE  \/ Remains(r, s)
         \/ Left(r) \cap Checks = {} /\ ("flag" \in Left(s) => "evaluate" \in Left(s))
<1>1. CASE Resting(s) /\ Apart(s) /\ Left(r) = {x}
  <2>1. GoesOn(q, s) /\ "flag" \notin Left(s)  BY <1>1 DEF Turn, Resting
  <2> QED  BY <1>1, <2>1
<1>2. CASE Left(s) = Left(r) \ {x} /\ Same(q, s, Fields \ {"agenda"})
  <2>1. Same(r, s, {"row", "type", "matches"})  BY <1>2 DEF Same, Fields
  <2> QED  BY <1>2, <2>1 DEF Remains
<1> QED  BY <1>1, <1>2, TurnGoes

LEMMA BecomesTurns ==
  ASSUME BaseInv, NEW o \in Operators, NEW s, Becomes(o, s)
  PROVE  TurnsTo(o, s)
BY BecomesLemma DEF BaseInv, TurnsTo

\* A transaction that changes nothing duplicates are told by.
LEMMA AsideStep ==
  ASSUME BaseInv, TwinsInv, NEW o \in Operators, NEW r, r = request[o], NEW s, Becomes(o, s), Spares(0),
         UNCHANGED relations, DOMAIN invoices' = DOMAIN invoices,
         Orderly' => Orderly /\ Others(o),
         \/ Remains(r, s)
         \/ Left(r) \cap Checks = {} /\ ("flag" \in Left(s) => "evaluate" \in Left(s))
  PROVE  TwinsInv'
<1>1. PICK i : i = 0  OBVIOUS
<1>2. Spares(i) /\ i \notin DOMAIN invoices'  BY <1>1, ZeroIsNoRow
<1>3. Orderly' => Compares(s)' /\ \A a, b \in DOMAIN invoices : a # i /\ WillFlag(r, a, b) => WillFlag(s, a, b)
  BY TwinsFacts, RemainsOn
<1> QED  BY <1>2, <1>3, BecomesTurns, AroundStep

\* A request that has nothing to check becomes one that knows no matches yet.
LEMMA AnewStep ==
  ASSUME BaseInv, TwinsInv, NEW o \in Operators, NEW r, r = request[o], NEW s, Becomes(o, s),
         UNCHANGED <<invoices, relations>>, handled \subseteq handled', Orderly' => Orderly /\ Others(o),
         "flag" \in Left(s) => "evaluate" \in Left(s), r.row = 0 \/ Left(r) \cap Checks = {}
  PROVE  TwinsInv'
<1>1. PICK i : i = 0  OBVIOUS
<1>2. Spares(i) /\ i \notin DOMAIN invoices'  BY <1>1, ZeroIsNoRow, SparesAll
<1>3. Compares(s)'  BY DEF Compares, Flagging, Left
<1>4. \A a, b \in DOMAIN invoices : ~WillFlag(r, a, b)  BY ZeroIsNoRow DEF WillFlag, Flagging, Checks
<1> QED  BY <1>2, <1>3, <1>4, BecomesTurns, AroundStep

LEMMA FreshTwins ==
  ASSUME BaseInv, TwinsInv, CorrectionsInv, NEW o \in Operators,
         \/ CheckMail(o) \/ CheckMailByCycle(o) \/ CheckKsef(o) \/ Upload(o)
         \/ LookUp(o) \/ FindCandidate(o) \/ InsertRefused(o)
  PROVE  TwinsInv'
<1>1. PICK r : r = request[o]  OBVIOUS
<1>2. CASE CheckMail(o) \/ CheckMailByCycle(o) \/ CheckKsef(o) \/ Upload(o)
  <2>1. PICK s : Begin(o, s) /\ Fresh(s) /\ UNCHANGED <<invoices, relations, correcting>>
    BY <1>2, BeginningFresh
  <2>2. "flag" \in Left(s) => "evaluate" \in Left(s)  BY <2>1, FreshLemma
  <2>3. (Orderly' => Orderly /\ Others(o)) /\ Becomes(o, s) /\ Left(r) = {}  BY <1>1, <2>1, BeginApart
  <2>4. handled \subseteq handled'  BY <2>1 DEF Begin
  <2> QED  BY <1>1, <2>1, <2>2, <2>3, <2>4, AnewStep
<1>3. CASE LookUp(o) \/ FindCandidate(o) \/ InsertRefused(o)
  <2>1. PICK s : Becomes(o, s) /\ Fresh(s)  BY <1>3, SeekingFresh
  <2>2. UNCHANGED <<invoices, relations, correcting, history>> /\ r.row = 0  BY <1>1, <1>3, SeekingFresh
  <2>3. "flag" \in Left(s) => "evaluate" \in Left(s)  BY <2>1, <2>2, FreshLemma
  <2>4. \E x : Does(o, x)  BY <1>3 DEF LookUp, FindCandidate, InsertRefused
  <2>5. mixed' = mixed /\ died' = died /\ handled' = handled  BY <2>2 DEF history
  <2>6. Orderly' => Orderly /\ Others(o)  BY <2>4, <2>5, WorkingApart
  <2> QED  BY <1>1, <2>1, <2>2, <2>3, <2>5, <2>6, AnewStep
<1> QED  BY <1>2, <1>3

LEMMA BeginningTwins ==
  ASSUME BaseInv, TwinsInv, NEW o \in Operators, UpdateInvoice(o) \/ DecideRequest(o)
  PROVE  TwinsInv'
<1>1. PICK r : r = request[o]  OBVIOUS
<1>2. PICK s : Begin(o, s) /\ ("flag" \in Left(s) => "evaluate" \in Left(s))
  <2>1. CASE UpdateInvoice(o)  BY <2>1, UpdateInvoiceGoes
  <2>2. CASE DecideRequest(o)
    <3>1. PICK a \in DOMAIN approvals, d \in {"approved", "rejected", "cancelled"} :
            Begin(o, [Idle EXCEPT !.agenda = Deciding(a, d), !.approval = a, !.decision = d, !.row = approvals[a].invoice])
      BY <2>2 DEF DecideRequest
    <3>2. PICK x : x = Deciding(a, d)  OBVIOUS
    <3>3. PICK s : s = [Idle EXCEPT !.agenda = x, !.approval = a, !.decision = d, !.row = approvals[a].invoice]  OBVIOUS
    <3>4. s.agenda = x /\ Left(s) = Range(x)  BY <3>3 DEF Idle, Left
    <3>5. Left(s) \subseteq {"decide", "read", "settle", "local", "status"}  BY <3>2, <3>4, DecidingOrdered
    <3> QED  BY <3>1, <3>2, <3>3, <3>5
  <2> QED  BY <2>1, <2>2
<1>3. UNCHANGED <<invoices, relations>>  BY DEF UpdateInvoice, DecideRequest, ledger
<1>4. (Orderly' => Orderly /\ Others(o)) /\ Becomes(o, s) /\ Left(r) = {}  BY <1>1, <1>2, BeginApart
<1>5. handled \subseteq handled'  BY <1>2 DEF Begin
<1> QED  BY <1>1, <1>2, <1>3, <1>4, <1>5, AnewStep

LEMMA EndTwins ==
  ASSUME BaseInv, TwinsInv, CorrectionsInv, NEW o \in Operators,
         \/ FetchFails(o) \/ Finalize(o) \/ ApplyStatus(o)
         \/ Die(o) \/ ContractorExists(o) \/ NothingToSettle(o)
  PROVE  TwinsInv'
<1>1. CASE Die(o) \/ ContractorExists(o) \/ NothingToSettle(o)
  <2>1. died' = TRUE  BY <1>1 DEF Die, ContractorExists, NothingToSettle, EndHalfWay
  <2> QED  BY <2>1 DEF TwinsInv, Orderly
<1>2. CASE FetchFails(o) \/ Finalize(o) \/ ApplyStatus(o)
  <2>1. PICK r : r = request[o]  OBVIOUS
  <2>2. PICK x \in {"fetch", "finalize", "status"} : Does(o, x)  BY <1>2 DEF FetchFails, Finalize, ApplyStatus
  <2>3. Becomes(o, Idle) /\ mixed' = mixed /\ died' = died /\ UNCHANGED relations /\ handled \subseteq handled'
    BY <1>2 DEF FetchFails, Finalize, ApplyStatus, Becomes, history, ledger
  <2>4. Orderly' => Orderly /\ Others(o)  BY <2>2, <2>3, WorkingApart
  <2>5. Left(r) \cap Checks = {}
    <3>1. r.agenda # <<>> /\ Head(r.agenda) = x /\ Formed(r)  BY <2>1, <2>2, WorkingLemma
    <3>2. x = "status" => Left(r) \cap Checks = {}
      <4>1. <<"status", "flag">> \in Nevers /\ <<"status", "evaluate">> \in Nevers  BY DEF Nevers, Steps
      <4>2. Left(r) = {x} \cup Range(Tail(r.agenda))  BY <3>1, AheadLemma DEF Formed, Left
      <4>3. x = "status" => "flag" \notin Range(Tail(r.agenda)) /\ "evaluate" \notin Range(Tail(r.agenda))
        BY <3>1, <4>1, AheadLemma DEF Formed
      <4> QED  BY <4>2, <4>3 DEF Checks
    <3>3. x # "status" => Left(r) = {x}  BY <3>1, HeadLemma DEF Alone
    <3> QED  BY <3>2, <3>3 DEF Checks
  <2>6. PICK s : s = Idle  OBVIOUS
  <2>7. "flag" \notin Left(s)  BY <2>6, IdleLemma
  <2>8. Becomes(o, s)  BY <2>3, <2>6
  <2>9. CASE FetchFails(o) \/ Finalize(o)
    <3>1. UNCHANGED invoices  BY <2>9 DEF FetchFails, Finalize
    <3> QED  BY <2>1, <2>3, <2>4, <2>5, <2>7, <2>8, <3>1, AnewStep
  <2>10. CASE ApplyStatus(o)
    <3>1. PICK row : Writes(r.row, row) /\ \A f \in RowFields \ {"status"} : row[f] = invoices[r.row][f]
      BY <2>1, <2>10, StatusWrites
    <3>2. Does(o, "status")  BY <2>10 DEF ApplyStatus
    <3>3. r.row \in DOMAIN invoices  BY <2>1, <3>2, WorkingLemma DEF RowSteps
    <3>4. Looks(row, invoices[r.row])  BY <3>1 DEF RowFields, Looks, KsefFields
    <3>5. /\ DOMAIN invoices' = DOMAIN invoices /\ invoices'[r.row] = row
          /\ \A j \in DOMAIN invoices : j # r.row => invoices'[j] = invoices[j]
      BY <3>1, <3>3, WritesLemma
    <3>6. Spares(0)  BY <2>3, <3>4, <3>5, LooksItself DEF Spares
    <3> QED  BY <2>1, <2>3, <2>4, <2>5, <2>7, <2>8, <3>5, <3>6, AsideStep
  <2> QED  BY <1>2, <2>9, <2>10
<1> QED  BY <1>1, <1>2

\* A request of one transaction.
LEMMA AtOnceTwins ==
  ASSUME BaseInv, TwinsInv, NEW o \in Operators, UNCHANGED request, Orderly' => Orderly /\ Quiet,
         NEW i, Spares(i), i \in DOMAIN invoices => i \in handled', DOMAIN invoices' = DOMAIN invoices
  PROVE  TwinsInv'
<1>1. PICK r : r = request[o]  OBVIOUS
<1>2. TurnsTo(o, r)  BY <1>1 DEF TurnsTo
<1>3. ASSUME Orderly' PROVE Others(o) /\ Compares(r)'
  <2>1. \A p \in Operators : ~Working(p)  BY <1>3 DEF Quiet
  <2>2. Left(r) = {}  BY <1>1, <2>1, NothingLeft DEF Working
  <2> QED  BY <2>1, <2>2 DEF Others, Compares, Flagging, Left
<1>4. \A b : i \in DOMAIN invoices' => ~Alike(i, b)'  BY DEF Alike
<1> QED  BY <1>1, <1>2, <1>3, <1>4, AroundStep

LEMMA DecidingTwins ==
  ASSUME BaseInv, TwinsInv, NEW o \in Operators,
         MarkForVerification(o) \/ ConfirmDuplicate(o) \/ MarkCorrect(o) \/ CreateRequest(o)
  PROVE  TwinsInv'
<1>1. CASE CreateRequest(o)
  <2>1. died' = died /\ mixed' = (mixed \/ \E p \in Operators : Working(p))  BY <1>1 DEF CreateRequest
  <2>2. Orderly' => Orderly /\ Quiet  BY <2>1 DEF Orderly, Quiet
  <2>3. UNCHANGED <<invoices, relations, request>> /\ handled' = handled  BY <1>1 DEF CreateRequest, ledger
  <2>4. PICK i : i = 0  OBVIOUS
  <2>5. Spares(i) /\ i \notin DOMAIN invoices  BY <2>3, <2>4, SparesAll, ZeroIsNoRow
  <2> QED  BY <2>2, <2>3, <2>5, AtOnceTwins
<1>2. CASE ~CreateRequest(o)
  <2>1. PICK i \in DOMAIN invoices : \E row :
          /\ Writes(i, row) /\ Decides(o, i) /\ relations' \in {relations, {x \in relations : x[1] # i}}
    BY <1>2, MarkingWrites
  <2>2. PICK row : /\ Writes(i, row) /\ Decides(o, i)
                   /\ relations' \in {relations, {x \in relations : x[1] # i}}
    BY <2>1
  <2>3. DOMAIN invoices' = DOMAIN invoices /\ \A j \in DOMAIN invoices : j # i => invoices'[j] = invoices[j]
    BY <2>2, WritesLemma
  <2>4. handled' = handled \cup {i} /\ UNCHANGED request  BY <2>2 DEF Decides
  <2>5. Orderly' => Orderly /\ Quiet  BY <2>2 DEF Decides, Orderly, Quiet
  <2>6. Spares(i)  BY <2>2, <2>3, <2>4, LooksItself DEF Spares
  <2> QED  BY <2>3, <2>4, <2>5, <2>6, AtOnceTwins
<1> QED  BY <1>1, <1>2

LEMMA SeekTwins ==
  ASSUME BaseInv, TwinsInv, CorrectionsInv, NEW o \in Operators, SeekContractor(o)
  PROVE  TwinsInv'
<1>1. PICK r : r = request[o]  OBVIOUS
<1>2. PICK s : /\ Becomes(o, s) /\ Left(s) \subseteq Left(r) /\ Same(r, s, Fields \ {"agenda"})
               /\ Left(r) \ Left(s) \subseteq {"seek_contractor", "create_contractor"}
  BY <1>1, SeekGoes
<1>3. Does(o, "seek_contractor") /\ UNCHANGED <<invoices, relations, correcting, history>>  BY SeekGoes
<1>4. mixed' = mixed /\ died' = died /\ handled' = handled  BY <1>3 DEF history
<1>5. Spares(0)  BY <1>3, <1>4, SparesAll
<1>6. Remains(r, s)  BY <1>2 DEF Remains, Same, Fields, Checks
<1>7. Orderly' => Orderly /\ Others(o)  BY <1>3, <1>4, WorkingApart
<1> QED  BY <1>1, <1>2, <1>3, <1>5, <1>6, <1>7, AsideStep

\* A transaction after which the request knows as much of its invoice and its matches as before.
Asides == {"fetch", "item", "create_contractor", "stats", "sync", "rehash", "approve_directly", "ask",
           "override", "decide", "read", "settle"}

LEMMA AsideTurn ==
  ASSUME BaseInv, NEW o \in Operators, NEW r, r = request[o],
         \/ Fetch(o) \/ AddItem(o) \/ CreateContractor(o) \/ RefreshStats(o) \/ Sync(o) \/ Rehash(o)
         \/ ApproveDirectly(o) \/ AskForCorrection(o) \/ SaveOverride(o) \/ Decide(o)
         \/ ReadInvoice(o) \/ Settle(o)
  PROVE  /\ \E q, s : Turn(o, q, s) /\ Same(r, q, {"row", "type", "matches"})
         /\ \E x \in Asides : Does(o, x)
         /\ UNCHANGED relations /\ handled' = handled /\ mixed' = mixed /\ died' = died
<1>1. \E q, s : Turn(o, q, s) /\ Same(r, q, {"row", "type", "matches"})
  <2>1. CASE Plain(o)
    <3>1. PICK q, s : Turn(o, q, s) /\ Same(r, q, Fields \ {"before"})  BY <2>1, PlainTurn
    <3> QED  BY <3>1 DEF Same, Fields
  <2>2. CASE AskForCorrection(o)
    <3>1. PICK q, s : Turn(o, q, s) /\ Same(r, q, Fields \ {"approval"})  BY <2>2, AskTurn
    <3> QED  BY <3>1 DEF Same, Fields
  <2>3. CASE SaveOverride(o)
    <3>1. PICK q, s : Turn(o, q, s) /\ Same(r, q, Fields \ {"seen"})  BY <2>3, OverrideTurn
    <3> QED  BY <3>1 DEF Same, Fields
  <2>4. CASE Settle(o)
    <3>1. PICK q, s : \E k \in OverridesOf(r.approval) : Settling(o, r, k, q, s)  BY <2>4, SettleTurn
    <3>2. Turn(o, q, s) /\ Same(r, q, Fields \ {"change"})  BY <3>1 DEF Settling
    <3> QED  BY <3>2 DEF Same, Fields
  <2>5. CASE ReadInvoice(o)
    <3>1. PICK q, s : Turn(o, q, s) /\ Same(r, q, Fields \ {"seen"})  BY <2>5, ReadTurn
    <3> QED  BY <3>1 DEF Same, Fields
  <2> QED  BY <2>1, <2>2, <2>3, <2>4, <2>5 DEF Plain
<1>2. \E x \in Asides : Does(o, x)
  BY DEF Fetch, AddItem, CreateContractor, RefreshStats, Sync, Rehash, ApproveDirectly, AskForCorrection,
         SaveOverride, Decide, ReadInvoice, Settle, Asides
<1>3. UNCHANGED relations /\ UNCHANGED history
  BY DEF Fetch, AddItem, CreateContractor, RefreshStats, Sync, Rehash, ApproveDirectly, AskForCorrection,
         SaveOverride, Decide, ReadInvoice, Settle, ledger, Done
<1> QED  BY <1>1, <1>2, <1>3 DEF history

LEMMA AsideTwins ==
  ASSUME BaseInv, TwinsInv, CorrectionsInv, NEW o \in Operators,
         \/ Fetch(o) \/ AddItem(o) \/ CreateContractor(o) \/ RefreshStats(o) \/ Sync(o) \/ Rehash(o)
         \/ ApproveDirectly(o) \/ AskForCorrection(o) \/ SaveOverride(o) \/ Decide(o)
         \/ ReadInvoice(o) \/ Settle(o)
  PROVE  TwinsInv'
<1>1. PICK r : r = request[o]  OBVIOUS
<1>2. PICK q, s : Turn(o, q, s) /\ Same(r, q, {"row", "type", "matches"})  BY <1>1, AsideTurn
<1>3. PICK x \in Asides : Does(o, x)  BY <1>1, AsideTurn
<1>4. UNCHANGED relations /\ handled' = handled /\ mixed' = mixed /\ died' = died  BY <1>1, AsideTurn
<1>5. \/ Remains(r, s)
      \/ Left(r) \cap Checks = {} /\ ("flag" \in Left(s) => "evaluate" \in Left(s))
  <2>1. x \notin Checks  BY DEF Asides, Checks
  <2> QED  BY <1>1, <1>2, <1>3, <2>1, TurnRemains
<1>6. Orderly' => Orderly /\ Others(o)  BY <1>3, <1>4, WorkingApart
<1>7. Becomes(o, s)  BY <1>2 DEF Turn
<1>8. Spares(0) /\ DOMAIN invoices' = DOMAIN invoices
  <2>1. CASE Rehash(o)
    <3>1. PICK row : Writes(r.row, row) /\ IsRehashed(row, invoices[r.row])  BY <1>1, <2>1, RehashWrites
    <3>2. Does(o, "rehash")  BY <2>1 DEF Rehash
    <3>3. r.row \in DOMAIN invoices  BY <1>1, <3>2, WorkingLemma DEF RowSteps
    <3>4. Looks(row, invoices[r.row])  BY <3>1 DEF IsRehashed, RowFields, Looks, KsefFields
    <3>5. /\ DOMAIN invoices' = DOMAIN invoices /\ invoices'[r.row] = row
          /\ \A j \in DOMAIN invoices : j # r.row => invoices'[j] = invoices[j]
      BY <3>1, <3>3, WritesLemma
    <3> QED  BY <1>4, <3>4, <3>5, LooksItself DEF Spares
  <2>2. CASE ~Rehash(o)
    <3>1. UNCHANGED invoices
      BY <2>2 DEF Fetch, AddItem, CreateContractor, RefreshStats, Sync, ApproveDirectly, AskForCorrection,
                  SaveOverride, Decide, ReadInvoice, Settle
    <3> QED  BY <1>4, <3>1, SparesAll
  <2> QED  BY <2>1, <2>2
<1> QED  BY <1>1, <1>4, <1>5, <1>6, <1>7, <1>8, AsideStep

\* A transaction that writes the data of the request's invoice and checks it after that.
LEMMA CheckedAfter ==
  ASSUME BaseInv, TwinsInv, NEW o \in Operators, NEW r, r = request[o], NEW s, Becomes(o, s), Spares(s.row),
         Orderly' => Orderly /\ Others(o), "evaluate" \in Left(s), r.row \in {0, s.row}
  PROVE  TwinsInv'
<1>1. PICK i : i = s.row  OBVIOUS
<1>2. Compares(s)'  BY DEF Compares, Flagging, Left
<1>3. \A b : Known(s, i, b)  BY <1>1 DEF Known, WillFlag
<1>4. \A a, b \in DOMAIN invoices : a # i => ~WillFlag(r, a, b)  BY <1>1, ZeroIsNoRow DEF WillFlag
<1>5. Spares(i)  BY <1>1
<1> QED  BY <1>2, <1>3, <1>4, <1>5, BecomesTurns, AroundStep

LEMMA CheckedTurn ==
  ASSUME BaseInv, NEW o \in Operators, NEW x, Does(o, x), x # "evaluate", NEW r, r = request[o], "evaluate" \in Left(r),
         NEW q, NEW s, Turn(o, q, s)
  PROVE  "evaluate" \in Left(s) /\ s.row = q.row /\ Becomes(o, s)
<1>1. Left(s) = Left(r) \ {x} /\ Same(q, s, Fields \ {"agenda"})  BY TurnGoes
<1> QED  BY <1>1 DEF Same, Fields, Turn

LEMMA InsertTwins ==
  ASSUME BaseInv, TwinsInv, CorrectionsInv, NEW o \in Operators, Insert(o)
  PROVE  TwinsInv'
<1>1. PICK r : r = request[o]  OBVIOUS
<1>2. PICK n : n = Len(invoices) + 1  OBVIOUS
<1>3. PICK q, s : Turn(o, q, s) /\ q.row = n  BY <1>1, <1>2, InsertTurn
<1>4. Does(o, "insert") /\ UNCHANGED relations /\ handled' = handled /\ mixed' = mixed /\ died' = died
  BY DEF Insert, Done, history, ledger
<1>5. r.agenda # <<>> /\ Head(r.agenda) = "insert" /\ Formed(r) /\ Aware(r) /\ "insert" \in Left(r)
  BY <1>1, <1>4, WorkingLemma
<1>6. "evaluate" \in Left(r)  BY <1>5, HeadLemma
<1>7. "evaluate" \in Left(s) /\ s.row = n /\ Becomes(o, s)  BY <1>1, <1>3, <1>4, <1>6, CheckedTurn
<1>8. r.row = 0  BY <1>5 DEF Aware, KnowsRow
<1>9. /\ DOMAIN invoices' = DOMAIN invoices \cup {n}
      /\ \A j \in DOMAIN invoices : invoices'[j] = invoices[j]
  BY <1>1, <1>2, InsertRow
<1>10. Spares(s.row)  BY <1>4, <1>7, <1>9, LooksItself DEF Spares
<1>11. Orderly' => Orderly /\ Others(o)  BY <1>4, WorkingApart
<1> QED  BY <1>1, <1>7, <1>8, <1>10, <1>11, CheckedAfter

LEMMA WritingTwins ==
  ASSUME BaseInv, TwinsInv, CorrectionsInv, NEW o \in Operators, ApplyAuthority(o) \/ SaveInvoice(o)
  PROVE  TwinsInv'
<1>1. PICK r : r = request[o]  OBVIOUS
<1>2. PICK x \in {"authority", "save"} : Does(o, x)  BY DEF ApplyAuthority, SaveInvoice
<1>3. UNCHANGED relations /\ handled' = handled /\ mixed' = mixed /\ died' = died
  BY DEF ApplyAuthority, SaveInvoice, Done, history, ledger
<1>4. /\ r.agenda # <<>> /\ Head(r.agenda) = x /\ Formed(r) /\ r.row \in DOMAIN invoices
  BY <1>1, <1>2, WorkingLemma DEF RowSteps
<1>5. "evaluate" \in Left(r)  BY <1>4, HeadLemma
<1>6. PICK q, s : Turn(o, q, s) /\ q.row = r.row
  <2>1. CASE ApplyAuthority(o)
    <3>1. PICK q, s : Turn(o, q, s) /\ Same(r, q, Fields \ {"before"})  BY <1>1, <2>1, PlainTurn DEF Plain
    <3> QED  BY <3>1 DEF Same, Fields
  <2>2. CASE SaveInvoice(o)
    <3>1. PICK q, s : Turn(o, q, s) /\ Same(r, q, Fields \ {"seen"})  BY <1>1, <2>2, SaveTurn
    <3> QED  BY <3>1 DEF Same, Fields
  <2> QED  BY <2>1, <2>2
<1>7. "evaluate" \in Left(s) /\ s.row = r.row /\ Becomes(o, s)
  <2>1. "evaluate" \in Left(s) /\ s.row = q.row /\ Becomes(o, s)  BY <1>1, <1>2, <1>5, <1>6, CheckedTurn
  <2> QED  BY <1>6, <2>1
<1>8. PICK row : Writes(r.row, row)  BY <1>1, AuthorityWrites, SaveWrites
<1>9. /\ DOMAIN invoices' = DOMAIN invoices
      /\ \A j \in DOMAIN invoices : j # r.row => invoices'[j] = invoices[j]
  BY <1>4, <1>8, WritesLemma
<1>10. Spares(s.row)  BY <1>3, <1>7, <1>9, LooksItself DEF Spares
<1>11. Orderly' => Orderly /\ Others(o)  BY <1>2, <1>3, WorkingApart
<1> QED  BY <1>1, <1>7, <1>10, <1>11, CheckedAfter

\* The correction an operator makes ends the search for duplicates of the invoice.
LEMMA LocalTwins ==
  ASSUME BaseInv, TwinsInv, CorrectionsInv, NEW o \in Operators, ApplyLocal(o)
  PROVE  TwinsInv'
<1>1. PICK r : r = request[o]  OBVIOUS
<1>2. PICK i : i = r.row  OBVIOUS
<1>3. PICK q, s : Turn(o, q, s) /\ Same(r, q, Fields \ {"seen"})  BY <1>1, LocalTurn
<1>4. Does(o, "local") /\ UNCHANGED relations /\ handled' = handled /\ mixed' = mixed /\ died' = died
  BY DEF ApplyLocal, Done, history, ledger
<1>5. PICK row : Writes(i, row) /\ IsCorrected(row, invoices[i], r.seen, r.change)  BY <1>1, <1>2, LocalWrites
<1>6. /\ i \in DOMAIN invoices /\ "local" \in Left(r) /\ r.agenda # <<>> /\ Head(r.agenda) = "local" /\ Formed(r)
      /\ Aware(r)
  BY <1>1, <1>2, <1>4, WorkingLemma DEF RowSteps
<1>7. /\ DOMAIN invoices' = DOMAIN invoices /\ invoices'[i] = row
      /\ \A j \in DOMAIN invoices : j # i => invoices'[j] = invoices[j]
  BY <1>5, <1>6, WritesLemma
<1>8. Spares(i)  BY <1>4, <1>7, LooksItself DEF Spares
<1>9. \/ Remains(r, s)
      \/ Left(r) \cap Checks = {} /\ ("flag" \in Left(s) => "evaluate" \in Left(s))
  <2>1. Same(r, q, {"row", "type", "matches"})  BY <1>3 DEF Same, Fields
  <2> QED  BY <1>1, <1>3, <1>4, <2>1, TurnRemains DEF Checks
<1>10. \A b : ~Alike(i, b)'
  <2>1. "settle" \notin Left(r)  BY <1>6, HeadLemma
  <2>2. PICK c \in KsefFields \X Given : c = r.change  BY <1>6, <2>1 DEF Aware, KnowsChange
  <2>3. c[1] \in KsefFields /\ c[2] # NoValue  BY InvoicesAssumption
  <2>4. Left(r) \cap {"evaluate", "read"} = {}  BY <1>6, HeadLemma
  <2>5. PICK seen \in Rows : seen = r.seen  BY <1>6, <2>1, <2>4 DEF Aware, HasSeen
  <2>6. seen.local \in [KsefFields -> Values]  BY DEF Rows
  <2>7. row.local = [seen.local EXCEPT ![c[1]] = c[2]]  BY <1>5, <2>2, <2>5 DEF IsCorrected
  <2>8. row.local[c[1]] = c[2]  BY <2>3, <2>6, <2>7
  <2>9. Corrected(i)'  BY <1>7, <2>3, <2>8 DEF Corrected
  <2> QED  BY <2>9 DEF Alike
<1>11. Orderly' => Orderly /\ Others(o)  BY <1>4, WorkingApart
<1>12. ASSUME Orderly' PROVE Compares(s)' /\ \A a, b \in DOMAIN invoices : WillFlag(r, a, b) => WillFlag(s, a, b)
  <2>1. Compares(r)  BY <1>1, <1>11, <1>12, TwinsFacts
  <2>2. DOMAIN invoices \subseteq DOMAIN invoices'  BY <1>7
  <2> QED  BY <1>4, <1>9, <2>1, <2>2, RemainsOn
<1>13. TurnsTo(o, s)  BY <1>3, BecomesTurns DEF Turn
<1> QED  BY <1>1, <1>8, <1>10, <1>11, <1>12, <1>13, AroundStep

\* The check finds every invoice alike, or one with the same KSeF number.
LEMMA FindsAlike ==
  ASSUME NEW i \in DOMAIN invoices, NEW q, Finds(q, i)
  PROVE  /\ \A j \in DOMAIN invoices : Alike(i, j) => q.type = "pewny" \/ j \in q.matches
         /\ q.matches \subseteq DOMAIN invoices
         /\ q.type = "brak" => q.matches = {}
         /\ q.type = "pewny" => q.matches # {}
<1>1. ExactOf(i) \subseteq DOMAIN invoices /\ SuspectedOf(i) \subseteq DOMAIN invoices
  BY DEF ExactOf, SuspectedOf, SameKsef, SameNumber
<1>2. ASSUME NEW j \in DOMAIN invoices, Alike(i, j) PROVE j \in ExactOf(i) \/ j \in SuspectedOf(i)
  BY <1>2 DEF Alike, Twins, ExactOf, SuspectedOf, SameKsef, SameNumber
<1> QED  BY <1>1, <1>2 DEF Finds

LEMMA EvaluateTwins ==
  ASSUME BaseInv, TwinsInv, CorrectionsInv, NEW o \in Operators, Evaluate(o)
  PROVE  TwinsInv'
<1>1. PICK r : r = request[o]  OBVIOUS
<1>2. PICK i : i = r.row  OBVIOUS
<1>3. PICK q, s : Turn(o, q, s) /\ Same(r, q, Fields \ {"seen", "matches", "type"}) /\ Finds(q, i)
  BY <1>1, <1>2, EvaluateTurn
<1>4. /\ Does(o, "evaluate") /\ UNCHANGED invoices /\ handled' = handled /\ mixed' = mixed /\ died' = died
      /\ relations' = {x \in relations : x[1] # i}
  BY <1>1, <1>2 DEF Evaluate, Done, history
<1>5. /\ i \in DOMAIN invoices /\ r.agenda # <<>> /\ Head(r.agenda) = "evaluate" /\ Formed(r)
  BY <1>1, <1>2, <1>4, WorkingLemma DEF RowSteps
<1>6. "flag" \in Left(r)  BY <1>5, HeadLemma
<1>7. Left(s) = Left(r) \ {"evaluate"} /\ Same(q, s, Fields \ {"agenda"})
  <2>1. \/ Resting(s) /\ Apart(s) /\ Left(r) = {"evaluate"}
        \/ Left(s) = Left(r) \ {"evaluate"} /\ Same(q, s, Fields \ {"agenda"})
    BY <1>1, <1>3, <1>4, TurnGoes
  <2> QED  BY <1>6, <2>1
<1>8. s.row = i /\ s.type = q.type /\ s.matches = q.matches /\ Flagging(s)
  BY <1>2, <1>3, <1>6, <1>7 DEF Same, Fields, Flagging
<1>9. Spares(i)  BY <1>4, LooksItself DEF Spares
<1>10. Compares(s)'
  <2>1. /\ q.matches \subseteq DOMAIN invoices
        /\ q.type = "brak" => q.matches = {}
        /\ q.type = "pewny" => q.matches # {}
    BY <1>3, <1>5, FindsAlike
  <2> QED  BY <1>4, <1>8, <2>1 DEF Compares, Flagging, Left
<1>11. ASSUME NEW b \in DOMAIN invoices', Alike(i, b)' PROVE Known(s, i, b)
  <2>1. Alike(i, b)  BY <1>4, <1>11 DEF Alike, Twins, Corrected
  <2>2. q.type = "pewny" \/ b \in q.matches  BY <1>3, <1>4, <1>5, <2>1, FindsAlike
  <2> QED  BY <1>8, <2>2 DEF Known, WillFlag
<1>12. Orderly' => Orderly /\ Others(o)  BY <1>4, WorkingApart
<1>13. \A a, b \in DOMAIN invoices : a # i => ~WillFlag(r, a, b)  BY <1>2 DEF WillFlag
<1>14. TurnsTo(o, s)  BY <1>3, BecomesTurns DEF Turn
<1> QED  BY <1>1, <1>9, <1>10, <1>11, <1>12, <1>13, <1>14, AroundStep

LEMMA FlagTwins ==
  ASSUME BaseInv, TwinsInv, CorrectionsInv, NEW o \in Operators, Flag(o)
  PROVE  TwinsInv'
<1>1. PICK r : r = request[o]  OBVIOUS
<1>2. PICK i, ty, ms : i = r.row /\ ty = r.type /\ ms = r.matches  OBVIOUS
<1>3. PICK q, s : Turn(o, q, s)  BY <1>1, FlagTurn
<1>4. /\ Does(o, "flag") /\ handled' = handled /\ mixed' = mixed /\ died' = died
      /\ relations' = relations \cup {<<i, j, ty>> : j \in ms}
  BY <1>1, <1>2 DEF Flag, Done, history
<1>5. PICK row : Writes(i, row) /\ IsChecked(row, invoices[i], ty)  BY <1>1, <1>2, FlagWrites
<1>6. /\ i \in DOMAIN invoices /\ r.agenda # <<>> /\ Head(r.agenda) = "flag" /\ Formed(r) /\ "flag" \in Left(r)
      /\ ty \in Kinds
  BY <1>1, <1>2, <1>4, WorkingLemma DEF RowSteps
<1>7. Flagging(r)
  <2>1. "evaluate" \notin Left(r)  BY <1>6, HeadLemma
  <2> QED  BY <1>6, <2>1 DEF Flagging
<1>8. /\ DOMAIN invoices' = DOMAIN invoices /\ invoices'[i] = row
      /\ \A j \in DOMAIN invoices : j # i => invoices'[j] = invoices[j]
  BY <1>5, <1>6, WritesLemma
<1>9. row.duplicate = ty /\ row.local = invoices[i].local /\ \A f \in KsefFields : row[f] = invoices[i][f]
  BY <1>5 DEF IsChecked, RowFields, KsefFields
<1>10. Spares(i)  BY <1>4, <1>8, LooksItself DEF Spares
<1>11. "flag" \notin Left(s)
  <2>1. CASE Resting(s)  BY <2>1 DEF Resting
  <2>2. CASE Left(s) = Left(r) \ {"flag"}  BY <2>2
  <2> QED  BY <1>1, <1>3, <1>4, <2>1, <2>2, TurnGoes
<1>12. Compares(s)'  BY <1>11 DEF Compares, Flagging, Left
<1>13. Orderly' => Orderly /\ Others(o)  BY <1>4, WorkingApart
<1>14. ASSUME Orderly', NEW b \in DOMAIN invoices', b # i, Alike(i, b)' PROVE Flags(i, b)' \/ Flags(b, i)'
  <2>1. b \in DOMAIN invoices /\ invoices'[b] = invoices[b]  BY <1>8, <1>14
  <2>2. Alike(i, b)
    <3>1. handled \subseteq handled'  BY <1>4
    <3>2. invoices'[i].local = invoices[i].local /\ \A f \in KsefFields : invoices'[i][f] = invoices[i][f]
      BY <1>8, <1>9
    <3>3. invoices'[b].local = invoices[b].local /\ \A f \in KsefFields : invoices'[b][f] = invoices[b][f]
      BY <2>1
    <3> QED  BY <1>14, <3>1, <3>2, <3>3, AlikeBefore
  <2>3. Compares(r) /\ (Flags(i, b) \/ Flags(b, i) \/ Known(r, i, b))
    BY <1>1, <1>6, <1>13, <1>14, <2>1, <2>2, TwinsFacts
  <2>4. /\ ms \subseteq DOMAIN invoices /\ \A x \in relations : x[1] # i
        /\ ty = "brak" => ms = {}
        /\ ty = "pewny" => ms # {}
    BY <1>2, <1>7, <2>3 DEF Compares
  <2>5. ~Flags(i, b)  BY <2>4 DEF Flags
  <2>6. CASE Flags(b, i)
    <3>1. \A x \in relations : x[1] = b => x \in relations'  BY <1>4
    <3>2. invoices'[b].duplicate = invoices[b].duplicate /\ DOMAIN invoices \subseteq DOMAIN invoices'
      BY <1>8, <2>1
    <3> QED  BY <2>6, <3>1, <3>2, FlagsStay
  <2>7. CASE Known(r, i, b)
    <3>1. ty = "pewny" \/ b \in ms  BY <1>2, <1>7, <1>14, <2>7 DEF Known, WillFlag, Flagging
    <3>2. invoices'[i].duplicate = ty  BY <1>8, <1>9
    <3>3. CASE ty = "pewny"
      <4>1. PICK j \in ms : j \in DOMAIN invoices'  BY <1>8, <2>4, <3>3
      <4>2. <<i, j, "pewny">> \in relations'  BY <1>4, <3>3, <4>1
      <4> QED  BY <3>2, <3>3, <4>1, <4>2 DEF Flags
    <3>4. CASE b \in ms
      <4>1. ty # "brak" /\ ty \in {"pewny", "podejrzenie"}  BY <1>6, <2>4, <3>4 DEF Kinds
      <4>2. <<i, b, ty>> \in relations'  BY <1>4, <3>4
      <4> QED  BY <3>2, <4>1, <4>2 DEF Flags
    <3> QED  BY <3>1, <3>3, <3>4
  <2> QED  BY <2>3, <2>5, <2>6, <2>7
<1>15. \A a, b \in DOMAIN invoices : a # i => ~WillFlag(r, a, b)  BY <1>2 DEF WillFlag
<1>16. TurnsTo(o, s)  BY <1>3, BecomesTurns DEF Turn
<1> QED  BY <1>1, <1>10, <1>12, <1>13, <1>14, <1>15, <1>16, AroundStep

LEMMA TwinsNext ==
  ASSUME BaseInv, CorrectionsInv, TwinsInv, Next
  PROVE  TwinsInv'
<1>1. PICK o \in Operators : Importing(o) \/ Creating(o) \/ Changing(o) \/ DecidingOn(o) \/ Die(o)  BY DEF Next
<1>2. CASE Importing(o)
  BY <1>2, FreshTwins, EndTwins, AsideTwins DEF Importing
<1>3. CASE Creating(o)
  BY <1>3, FreshTwins, EndTwins, AsideTwins, SeekTwins, InsertTwins, WritingTwins, EvaluateTwins, FlagTwins
     DEF Creating
<1>4. CASE Changing(o)
  BY <1>4, BeginningTwins, WritingTwins, AsideTwins, LocalTwins DEF Changing
<1>5. CASE DecidingOn(o)
  BY <1>5, DecidingTwins, BeginningTwins, AsideTwins, EndTwins DEF DecidingOn
<1> QED  BY <1>1, <1>2, <1>3, <1>4, <1>5, EndTwins

LEMMA TwinsStill ==
  ASSUME TwinsInv, UNCHANGED vars
  PROVE  TwinsInv'
<1>1. UNCHANGED <<invoices, relations, request, handled, mixed, died>>  BY DEF vars
<1>2. \A r : Compares(r) => Compares(r)'  BY <1>1 DEF Compares, Flagging, Left
<1>3. \A i, j : (Flags(i, j) => Flags(i, j)') /\ (Alike(i, j)' => Alike(i, j))
  BY <1>1 DEF Flags, Alike, Twins, Corrected
<1> QED  BY <1>1, <1>2, <1>3 DEF TwinsInv, Orderly, Alike, WillFlag, Flagging, Left

LEMMA TwinsStart == Init => TwinsInv
<1> SUFFICES ASSUME Init PROVE TwinsInv
  OBVIOUS
<1>1. invoices = <<FirstInvoice>> /\ request = [o \in Operators |-> Idle]  BY DEF Init
<1>2. DOMAIN invoices = {1}  BY <1>1
<1>3. \A o \in Operators : request[o] = Idle  BY <1>1
<1>4. \A o \in Operators : Compares(request[o])  BY <1>3, IdleLemma DEF Compares, Flagging
<1> QED  BY <1>2, <1>4 DEF TwinsInv

LEMMA TwinsLemma == TwinsInv => TwinsAreFlagged
<1> SUFFICES ASSUME TwinsInv, Orderly, Quiet, NEW i \in DOMAIN invoices, NEW j \in DOMAIN invoices, Alike(i, j)
             PROVE  Flags(i, j) \/ Flags(j, i)
  BY DEF TwinsAreFlagged, Alike
<1>1. ASSUME NEW p \in Operators PROVE ~Known(request[p], i, j)
  <2>1. PICK r : r = request[p]  OBVIOUS
  <2>2. Left(r) = {}  BY <2>1, NothingLeft DEF Quiet, Working
  <2> QED  BY <2>1, <2>2 DEF Known, WillFlag, Flagging
<1> QED  BY <1>1 DEF TwinsInv, Alike, Known

\* As long as requests come one at a time, every pair of invoices with one KSeF number, or one
\* number of one supplier, ends with one of the two known to be a duplicate.
THEOREM TwinsEndFlagged == Spec => []TwinsAreFlagged
<1>1. Init => CorrectionsInv /\ TwinsInv  BY CorrectionsStart, TwinsStart
<1>2. BaseInv /\ CorrectionsInv /\ TwinsInv /\ [Next]_vars => CorrectionsInv' /\ TwinsInv'
  BY CorrectionsNext, CorrectionsStill, TwinsNext, TwinsStill
<1>3. TwinsInv => TwinsAreFlagged  BY TwinsLemma
<1> QED  BY <1>1, <1>2, <1>3, RequestsKnow, PTL DEF Spec

-----------------------------------------------------------------------------
(* Rows of the tables, and what refers to them *)

\* What a request relies on in tables others write to; none of it is ever taken away.
Refers(r) == Seeks(r) /\ HasContractor(r) /\ HasFound(r)
More == DOMAIN contractors \subseteq DOMAIN contractors' /\ DOMAIN invoices \subseteq DOMAIN invoices'

LEMMA RefersStays ==
  ASSUME NEW r, Refers(r), More
  PROVE  Refers(r)'
BY DEF Refers, Seeks, HasContractor, HasFound, More, Flagging, Left, Authoritative

LEMMA RefersStep ==
  ASSUME BaseInv, KnowingInv, More, NEW o \in Operators, NEW s, Becomes(o, s), Refers(s)'
  PROVE  KnowingInv'
<1>1. request'[o] = s /\ \A p \in Operators : p # o => request'[p] = request[p]  BY BecomesLemma DEF BaseInv
<1>2. ASSUME NEW p \in Operators, p # o PROVE Refers(request[p])'
  <2>1. PICK r : r = request[p]  OBVIOUS
  <2>2. Refers(r)'  BY <2>1, RefersStays DEF KnowingInv, Refers
  <2>3. r = request'[p]  BY <1>1, <1>2, <2>1
  <2> QED  BY <2>2, <2>3
<1>3. Refers(request[o])'  BY <1>1
<1> QED  BY <1>2, <1>3 DEF KnowingInv, Refers

\* A request that has none of these steps left relies on nothing.
LEMMA RefersToNothing ==
  ASSUME NEW s, Left(s) \cap (Firsts \cup {"look_up", "candidate", "flag"}) = {}
  PROVE  Refers(s)'
BY DEF Refers, Seeks, HasContractor, HasFound, Flagging, Firsts, Left

LEMMA RestingRefers ==
  ASSUME NEW q, NEW s, Resting(s), s = Onward(q)
  PROVE  Refers(s)'
<1>1. s.change = NoValue  BY DEF Onward, Idle
<1> QED  BY <1>1 DEF Resting, Refers, Seeks, HasContractor, HasFound, Flagging, Left

\* A step about a row comes after the contractor is settled.
LEMMA LaterRefers ==
  ASSUME BaseInv, NEW o \in Operators, NEW x \in RowSteps, Does(o, x), NEW q, NEW s, Turn(o, q, s), HasFound(s)'
  PROVE  Refers(s)'
<1>1. PICK r : r = request[o]  OBVIOUS
<1>2. r.agenda # <<>> /\ Head(r.agenda) = x /\ Formed(r)  BY <1>1, WorkingLemma
<1>3. Left(r) \cap Firsts \subseteq {x}  BY <1>2, HeadLemma
<1>4. Left(r) \cap {"look_up", "candidate"} = {}
  <2>1. \A y \in Alone : y \in Left(r) => r.agenda = <<y>>  BY <1>2 DEF Formed, Ordered, Left
  <2>2. \A y \in Alone : r.agenda = <<y>> => x = y  BY <1>2, RangeSingle
  <2> QED  BY <2>1, <2>2 DEF Alone, RowSteps
<1>5. CASE s = Onward(q) /\ Resting(s)  BY <1>5, RestingRefers
<1>6. CASE Left(s) = Left(q) \ {Head(q.agenda)}
  <2>1. Left(s) = Left(r) \ {x}  BY <1>1, <1>2, <1>6 DEF Turn, Left
  <2>2. Left(s) \cap (Firsts \cup {"look_up", "candidate"}) = {}  BY <1>3, <1>4, <2>1
  <2>3. Seeks(s)' /\ HasContractor(s)'  BY <2>2 DEF Seeks, HasContractor, Firsts, Left
  <2> QED  BY <2>3 DEF Refers
<1> QED  BY <1>5, <1>6 DEF Turn, GoesOn

\* A transaction from which the request learns nothing that matters here.
LEMMA SameRefers ==
  ASSUME NEW o \in Operators, NEW r, r = request[o], Refers(r), NEW x, Does(o, x), NEW q, NEW s, Turn(o, q, s), More,
         x \notin {"seek_contractor", "create_contractor", "evaluate"},
         Same(r, q, {"row", "message", "seen", "change", "matches"})
  PROVE  Refers(s)'
<1>1. CASE s = Onward(q) /\ Resting(s)  BY <1>1, RestingRefers
<1>2. CASE Same(q, s, Fields \ {"agenda"}) /\ Left(s) = Left(q) \ {Head(q.agenda)}
  <2>1. Left(s) = Left(r) \ {x}  BY <1>2 DEF Turn, Left, Does
  <2>2. /\ s.row = r.row /\ s.message = r.message /\ s.seen = r.seen /\ s.change = r.change /\ s.matches = r.matches
    BY <1>2 DEF Same, Fields
  <2>3. Seeks(s)  BY <2>1, <2>2 DEF Refers, Seeks
  <2>4. HasContractor(s)  BY <2>1, <2>2 DEF Refers, HasContractor
  <2>5. HasFound(s)  BY <2>1, <2>2 DEF Refers, HasFound, Flagging
  <2> QED  BY <2>3, <2>4, <2>5, RefersStays DEF Refers
<1> QED  BY <1>1, <1>2 DEF Turn, GoesOn

\* A transaction that leaves the request's row and matches as they are.
LEMMA SameFound ==
  ASSUME NEW o \in Operators, NEW r, r = request[o], HasFound(r), NEW x, Does(o, x), NEW q, NEW s, Turn(o, q, s), More,
         x # "evaluate", Same(r, q, {"row", "matches"})
  PROVE  HasFound(s)'
<1>1. CASE s = Onward(q) /\ Resting(s)  BY <1>1, RestingRefers DEF Refers
<1>2. CASE Same(q, s, Fields \ {"agenda"}) /\ Left(s) = Left(q) \ {Head(q.agenda)}
  <2>1. Left(s) = Left(r) \ {x}  BY <1>2 DEF Turn, Left, Does
  <2>2. s.row = r.row /\ s.matches = r.matches  BY <1>2 DEF Same, Fields
  <2> QED  BY <2>1, <2>2 DEF HasFound, Flagging, Left, More
<1> QED  BY <1>1, <1>2 DEF Turn, GoesOn

\* The contractor a request seeks is the one it is to write.
LEMMA NipLemma ==
  ASSUME NEW r, Aware(r), Seeks(r)
  PROVE  /\ "insert" \in Left(r) => Nip(r) = Paper[r.message].supplier
         /\ "authority" \in Left(r) => Nip(r) = Authoritative(r.seen, r.message)["supplier"]
         /\ "save" \in Left(r) => Nip(r) = r.change[2]
<1>1. "insert" \in Left(r) => r.row = 0 /\ r.change = NoValue  BY DEF Aware, KnowsRow, Seeks
<1>2. "authority" \in Left(r) => r.row # 0 /\ r.change = NoValue  BY DEF Seeks
<1>3. "save" \in Left(r) => r.change # NoValue  BY InvoicesAssumption DEF Aware, KnowsChange
<1> QED  BY <1>1, <1>2, <1>3 DEF Nip

LEMMA FreshRefers ==
  ASSUME NEW s, s.agenda \in NewAgendas \/ (s.agenda = Overruling /\ s.row # 0), s.change = NoValue
  PROVE  Refers(s)'
<1>1. CASE s.agenda = Creation
  <2>1. Left(s) = {"seek_contractor", "create_contractor", "insert", "stats", "evaluate", "flag", "sync", "item"}
    BY <1>1, CreationOrdered DEF Left
  <2> QED  BY <2>1 DEF Refers, Seeks, HasContractor, HasFound, Flagging, Left
<1>2. CASE s.agenda = Overruling /\ s.row # 0
  <2>1. Left(s) = {"seek_contractor", "create_contractor", "authority", "evaluate", "flag", "stats", "item"}
    BY <1>2, OverrulingOrdered DEF Left
  <2> QED  BY <1>2, <2>1 DEF Refers, Seeks, HasContractor, HasFound, Flagging, Left
<1>3. CASE s.agenda \in NewAgendas \ {Creation}
  <2>1. Left(s) \subseteq {"candidate", "item", "fetch"}
    BY <1>3, RangeSingle, NothingOrdered DEF NewAgendas, Left
  <2> QED  BY <2>1 DEF Refers, Seeks, HasContractor, HasFound, Flagging, Left
<1> QED  BY <1>1, <1>2, <1>3

-----------------------------------------------------------------------------
(* Requests rely on what stays *)

Acts(o) == Importing(o) \/ Creating(o) \/ Changing(o) \/ DecidingOn(o) \/ Die(o)

LEMMA ContractorsGrow ==
  ASSUME NEW o \in Operators, Acts(o)
  PROVE  DOMAIN contractors \subseteq DOMAIN contractors'
<1>1. CASE CreateContractor(o)  BY <1>1 DEF CreateContractor
<1>2. CASE RefreshStats(o)  BY <1>2 DEF RefreshStats
<1>3. CASE UNCHANGED contractors  BY <1>3
<1>4. CASE Importing(o)
  <2>1. UNCHANGED contractors
    BY <1>4 DEF Importing, CheckMail, CheckMailByCycle, CheckKsef, Upload, FetchFails, Fetch, LookUp, AddItem, Finalize, ledger
  <2> QED  BY <1>3, <2>1
<1>5. CASE Creating(o)
  <2>1. CreateContractor(o) \/ RefreshStats(o) \/ UNCHANGED contractors
    BY <1>5 DEF Creating, FindCandidate, SeekContractor, ContractorExists, Insert, InsertRefused, ApplyAuthority,
                Evaluate, Flag, Sync, ledger
  <2> QED  BY <1>1, <1>2, <1>3, <2>1
<1>6. CASE Changing(o)
  <2>1. UNCHANGED contractors
    BY <1>6 DEF Changing, UpdateInvoice, SaveInvoice, Rehash, ApproveDirectly, ApplyLocal, AskForCorrection, SaveOverride, ledger
  <2> QED  BY <1>3, <2>1
<1>7. CASE DecidingOn(o)
  <2>1. UNCHANGED contractors
    BY <1>7 DEF DecidingOn, MarkForVerification, ConfirmDuplicate, MarkCorrect, CreateRequest, DecideRequest, Decide,
                ApplyStatus, ReadInvoice, Settle, NothingToSettle, ledger
  <2> QED  BY <1>3, <2>1
<1>8. CASE Die(o)
  <2>1. UNCHANGED contractors  BY <1>8 DEF Die, ledger
  <2> QED  BY <1>3, <2>1
<1> QED  BY <1>4, <1>5, <1>6, <1>7, <1>8 DEF Acts

\* The invoices keep their contractors.
Steady == DOMAIN invoices' = DOMAIN invoices /\ \A i \in DOMAIN invoices : invoices'[i].contractor = invoices[i].contractor

LEMMA SteadyRow ==
  ASSUME BaseInv, NEW i \in DOMAIN invoices, NEW row, Writes(i, row), row.contractor = invoices[i].contractor
  PROVE  Steady
BY WritesLemma DEF Steady

LEMMA ActsSteady ==
  ASSUME BaseInv, NEW o \in Operators, Acts(o), ~Insert(o), ~ApplyAuthority(o), ~SaveInvoice(o)
  PROVE  Steady
<1>1. CASE UNCHANGED invoices  BY <1>1 DEF Steady
<1>2. PICK r : r = request[o]  OBVIOUS
<1>3. ASSUME NEW x \in RowSteps, Does(o, x) PROVE r.row \in DOMAIN invoices  BY <1>2, <1>3, WorkingLemma
<1>4. CASE Flag(o)
  <2>1. PICK row : Writes(r.row, row) /\ IsChecked(row, invoices[r.row], r.type)  BY <1>2, <1>4, FlagWrites
  <2>2. row.contractor = invoices[r.row].contractor  BY <2>1 DEF IsChecked, RowFields
  <2>3. r.row \in DOMAIN invoices  BY <1>3, <1>4 DEF Flag, RowSteps
  <2> QED  BY <2>1, <2>2, <2>3, SteadyRow
<1>5. CASE Rehash(o)
  <2>1. PICK row : Writes(r.row, row) /\ IsRehashed(row, invoices[r.row])  BY <1>2, <1>5, RehashWrites
  <2>2. row.contractor = invoices[r.row].contractor  BY <2>1 DEF IsRehashed, RowFields
  <2>3. r.row \in DOMAIN invoices  BY <1>3, <1>5 DEF Rehash, RowSteps
  <2> QED  BY <2>1, <2>2, <2>3, SteadyRow
<1>6. CASE ApplyLocal(o)
  <2>1. PICK row : Writes(r.row, row) /\ IsCorrected(row, invoices[r.row], r.seen, r.change)  BY <1>2, <1>6, LocalWrites
  <2>2. Does(o, "local")  BY <1>6 DEF ApplyLocal
  <2>3. r.row \in DOMAIN invoices  BY <1>3, <2>2 DEF RowSteps
  <2>4. r.change[1] # "contractor"
    <3>1. Aware(r) /\ "local" \in Left(r) /\ r.agenda # <<>> /\ Head(r.agenda) = "local" /\ Formed(r)
      BY <1>2, <2>2, WorkingLemma
    <3>2. "settle" \notin Left(r)  BY <3>1, HeadLemma
    <3> QED  BY <3>1, <3>2 DEF Aware, KnowsChange, KsefFields
  <2>5. row.contractor = invoices[r.row].contractor  BY <2>1, <2>4 DEF IsCorrected, RowFields
  <2> QED  BY <2>1, <2>3, <2>5, SteadyRow
<1>7. CASE ApplyStatus(o)
  <2>1. PICK row : Writes(r.row, row) /\ \A f \in RowFields \ {"status"} : row[f] = invoices[r.row][f]
    BY <1>2, <1>7, StatusWrites
  <2>2. row.contractor = invoices[r.row].contractor  BY <2>1 DEF RowFields
  <2>3. r.row \in DOMAIN invoices  BY <1>3, <1>7 DEF ApplyStatus, RowSteps
  <2> QED  BY <2>1, <2>2, <2>3, SteadyRow
<1>8. CASE MarkForVerification(o) \/ ConfirmDuplicate(o) \/ MarkCorrect(o)
  <2>1. PICK i \in DOMAIN invoices : \E row : Writes(i, row) /\ \A f \in RowFields \ {"status", "duplicate", "reason"} :
                                                                   row[f] = invoices[i][f]
    BY <1>8, MarkingWrites
  <2>2. PICK row : Writes(i, row) /\ \A f \in RowFields \ {"status", "duplicate", "reason"} : row[f] = invoices[i][f]
    BY <2>1
  <2>3. row.contractor = invoices[i].contractor  BY <2>2 DEF RowFields
  <2> QED  BY <2>2, <2>3, SteadyRow
<1>9. CASE Importing(o)
  <2>1. UNCHANGED invoices
    BY <1>9 DEF Importing, CheckMail, CheckMailByCycle, CheckKsef, Upload, FetchFails, Fetch, LookUp, AddItem, Finalize
  <2> QED  BY <1>1, <2>1
<1>10. CASE Creating(o)
  <2>1. Flag(o) \/ UNCHANGED invoices
    BY <1>10 DEF Creating, FindCandidate, SeekContractor, CreateContractor, ContractorExists, InsertRefused,
                 RefreshStats, Evaluate, Sync
  <2> QED  BY <1>1, <1>4, <2>1
<1>11. CASE Changing(o)
  <2>1. Rehash(o) \/ ApplyLocal(o) \/ UNCHANGED invoices
    BY <1>11 DEF Changing, UpdateInvoice, ApproveDirectly, AskForCorrection, SaveOverride
  <2> QED  BY <1>1, <1>5, <1>6, <2>1
<1>12. CASE DecidingOn(o)
  <2>1. \/ MarkForVerification(o) \/ ConfirmDuplicate(o) \/ MarkCorrect(o) \/ ApplyStatus(o)
        \/ UNCHANGED invoices
    BY <1>12 DEF DecidingOn, CreateRequest, DecideRequest, Decide, ReadInvoice, Settle, NothingToSettle
  <2> QED  BY <1>1, <1>7, <1>8, <2>1
<1>13. CASE Die(o)
  <2>1. UNCHANGED invoices  BY <1>13 DEF Die
  <2> QED  BY <1>1, <2>1
<1> QED  BY <1>9, <1>10, <1>11, <1>12, <1>13 DEF Acts

\* The row a transaction adds, and the two it rewrites, have a contractor that is stored.
LEMMA InsertedRow ==
  ASSUME BaseInv, NEW o \in Operators, NEW r, r = request[o], Insert(o)
  PROVE  /\ DOMAIN invoices' = DOMAIN invoices \cup {Len(invoices) + 1}
         /\ invoices'[Len(invoices) + 1].contractor = Paper[r.message].supplier
         /\ \A i \in DOMAIN invoices : invoices'[i] = invoices[i]
<1>1. Does(o, "insert")  BY DEF Insert
<1>2. Aware(r) /\ "insert" \in Left(r)  BY <1>1, WorkingLemma
<1>3. r.message \in Messages  BY <1>2 DEF Aware, KnowsMessage
<1>4. PICK n : n = NewInvoice(r.message)  OBVIOUS
<1>5. PICK row : row = [n EXCEPT !.hash = Hash(n)]  OBVIOUS
<1>6. n \in Rows /\ row \in Rows /\ Traced(row)  BY <1>3, <1>4, <1>5, NewRow
<1>7. n.contractor = Paper[r.message].supplier  BY <1>4 DEF NewInvoice
<1>8. row.contractor = n.contractor  BY <1>5, <1>6 DEF Rows
<1>9. invoices' = Append(invoices, row)  BY <1>4, <1>5 DEF Insert
<1> QED  BY <1>6, <1>7, <1>8, <1>9, RowAdded DEF BaseInv

LEMMA RowsGrow ==
  ASSUME BaseInv, NEW o \in Operators, Acts(o)
  PROVE  DOMAIN invoices \subseteq DOMAIN invoices' /\ (~Insert(o) => DOMAIN invoices' = DOMAIN invoices)
<1>1. CASE Insert(o)  BY <1>1, InsertedRow
<1>2. PICK r : r = request[o]  OBVIOUS
<1>3. CASE ApplyAuthority(o)
  <2>1. PICK row : Writes(r.row, row)  BY <1>2, <1>3, AuthorityWrites
  <2> QED  BY <2>1 DEF Writes
<1>4. CASE SaveInvoice(o)
  <2>1. PICK row : Writes(r.row, row)  BY <1>2, <1>4, SaveWrites
  <2> QED  BY <2>1 DEF Writes
<1>5. CASE ~Insert(o) /\ ~ApplyAuthority(o) /\ ~SaveInvoice(o)  BY <1>5, ActsSteady DEF Steady
<1> QED  BY <1>1, <1>3, <1>4, <1>5

LEMMA ActsMore ==
  ASSUME BaseInv, NEW o \in Operators, Acts(o)
  PROVE  More
BY ContractorsGrow, RowsGrow DEF More

LEMMA EndRefers ==
  ASSUME NEW o \in Operators,
         \/ FetchFails(o) \/ Finalize(o) \/ ApplyStatus(o)
         \/ Die(o) \/ ContractorExists(o) \/ NothingToSettle(o)
  PROVE  \E s : Becomes(o, s) /\ Refers(s)'
<1>1. PICK s : s = Idle  OBVIOUS
<1>2. Becomes(o, s)
  BY <1>1 DEF FetchFails, Finalize, ApplyStatus, Die, ContractorExists, NothingToSettle, EndHalfWay, Becomes
<1>3. Refers(s)'  BY <1>1, IdleLemma, RefersToNothing
<1> QED  BY <1>2, <1>3

LEMMA BeginningRefers ==
  ASSUME NEW o \in Operators,
         \/ CheckMail(o) \/ CheckMailByCycle(o) \/ CheckKsef(o) \/ Upload(o)
         \/ UpdateInvoice(o) \/ DecideRequest(o)
  PROVE  \E s : Becomes(o, s) /\ Refers(s)'
<1>1. CASE CheckMail(o) \/ CheckMailByCycle(o) \/ CheckKsef(o) \/ Upload(o)
  <2>1. PICK s : Begin(o, s) /\ s.agenda \in NewAgendas /\ s.change = NoValue  BY <1>1, BeginningFresh
  <2> QED  BY <2>1, FreshRefers DEF Begin, Becomes
<1>2. CASE UpdateInvoice(o)
  <2>1. PICK s : Begin(o, s) /\ ("flag" \in Left(s) => "evaluate" \in Left(s)) /\ SeeksFirst(s)
    BY <1>2, UpdateInvoiceGoes
  <2>2. Refers(s)'  BY <2>1 DEF SeeksFirst, Refers, Seeks, HasContractor, HasFound, Flagging, Left
  <2> QED  BY <2>1, <2>2 DEF Begin, Becomes
<1>3. CASE DecideRequest(o)
  <2>1. PICK a \in DOMAIN approvals, d \in {"approved", "rejected", "cancelled"} :
          Begin(o, [Idle EXCEPT !.agenda = Deciding(a, d), !.approval = a, !.decision = d, !.row = approvals[a].invoice])
    BY <1>3 DEF DecideRequest
  <2>2. PICK x : x = Deciding(a, d)  OBVIOUS
  <2>3. PICK s : s = [Idle EXCEPT !.agenda = x, !.approval = a, !.decision = d, !.row = approvals[a].invoice]  OBVIOUS
  <2>4. s.agenda = x /\ Left(s) = Range(x)  BY <2>3 DEF Idle, Left
  <2>5. Left(s) \subseteq {"decide", "read", "settle", "local", "status"}  BY <2>2, <2>4, DecidingOrdered
  <2>6. Refers(s)'  BY <2>5, RefersToNothing DEF Firsts
  <2> QED  BY <2>1, <2>2, <2>3, <2>6 DEF Begin, Becomes
<1> QED  BY <1>1, <1>2, <1>3

LEMMA SeekingRefers ==
  ASSUME BaseInv, KnowingInv, NEW o \in Operators, LookUp(o) \/ FindCandidate(o) \/ InsertRefused(o)
  PROVE  \E s : Becomes(o, s) /\ Refers(s)'
<1>1. PICK r : r = request[o]  OBVIOUS
<1>2. PICK s : Becomes(o, s) /\ Fresh(s) /\ s.change = r.change /\ (s.agenda = Overruling => s.row # 0)
  BY <1>1, SeekingFresh
<1>3. r.change = NoValue
  <2>1. PICK x \in {"look_up", "candidate", "insert"} : Does(o, x)  BY DEF LookUp, FindCandidate, InsertRefused
  <2>2. x \in Left(r)  BY <1>1, <2>1, WorkingLemma
  <2>3. Seeks(r)  BY <1>1 DEF KnowingInv
  <2> QED  BY <2>1, <2>2, <2>3 DEF Seeks
<1>4. s.agenda \in NewAgendas \/ (s.agenda = Overruling /\ s.row # 0)  BY <1>2 DEF Fresh
<1>5. Refers(s)'  BY <1>2, <1>3, <1>4, FreshRefers
<1> QED  BY <1>2, <1>5

LEMMA SeekRefers ==
  ASSUME BaseInv, KnowingInv, NEW o \in Operators, SeekContractor(o)
  PROVE  \E s : Becomes(o, s) /\ Refers(s)'
<1>1. PICK r : r = request[o]  OBVIOUS
<1>2. PICK s : /\ Becomes(o, s) /\ Left(s) \subseteq Left(r) /\ Same(r, s, Fields \ {"agenda"})
               /\ Left(r) \ Left(s) \subseteq {"seek_contractor", "create_contractor"}
               /\ "create_contractor" \in Left(s) \/ Nip(r) \in DOMAIN contractors
  BY <1>1, SeekGoes
<1>3. Refers(r) /\ Aware(r)  BY <1>1 DEF KnowingInv, Refers, BaseInv, AwareInv
<1>4. /\ s.row = r.row /\ s.message = r.message /\ s.seen = r.seen /\ s.change = r.change /\ s.matches = r.matches
  BY <1>2 DEF Same, Fields
<1>5. \A x \in {"look_up", "candidate", "insert", "authority", "save", "flag", "evaluate"} : x \in Left(s) <=> x \in Left(r)
  BY <1>2
<1>6. Seeks(s) /\ HasFound(s)  BY <1>3, <1>4, <1>5 DEF Refers, Seeks, HasFound, Flagging
<1>7. HasContractor(s)
  <2>1. CASE Nip(r) \in DOMAIN contractors
    BY <1>3, <1>4, <1>5, <2>1, NipLemma DEF HasContractor, Refers
  <2>2. CASE "create_contractor" \in Left(s)  BY <2>2 DEF HasContractor
  <2> QED  BY <1>2, <2>1, <2>2
<1>8. More
  <2>1. Acts(o)  BY DEF Acts, Creating
  <2> QED  BY <2>1, ActsMore
<1> QED  BY <1>2, <1>6, <1>7, <1>8, RefersStays DEF Refers

LEMMA CreateRefers ==
  ASSUME BaseInv, KnowingInv, NEW o \in Operators, CreateContractor(o)
  PROVE  \E s : Becomes(o, s) /\ Refers(s)'
<1>1. PICK r : r = request[o]  OBVIOUS
<1>2. PICK q, s : Turn(o, q, s) /\ Same(r, q, Fields \ {"before"})  BY <1>1, PlainTurn DEF Plain
<1>3. Does(o, "create_contractor")  BY DEF CreateContractor
<1>4. Refers(r) /\ Aware(r) /\ r.agenda # <<>> /\ Head(r.agenda) = "create_contractor"
  BY <1>1, <1>3, WorkingLemma DEF KnowingInv, Refers
<1>5. More
  <2>1. Acts(o)  BY DEF Acts, Creating
  <2> QED  BY <2>1, ActsMore
<1>6. Nip(r) \in DOMAIN contractors'  BY <1>1 DEF CreateContractor
<1>7. Becomes(o, s)  BY <1>2 DEF Turn
<1>8. CASE s = Onward(q) /\ Resting(s)  BY <1>7, <1>8, RestingRefers
<1>9. CASE Same(q, s, Fields \ {"agenda"}) /\ Left(s) = Left(q) \ {Head(q.agenda)}
  <2>1. Left(s) = Left(r) \ {"create_contractor"}  BY <1>1, <1>2, <1>4, <1>9 DEF Turn, Left
  <2>2. /\ s.row = r.row /\ s.message = r.message /\ s.seen = r.seen /\ s.change = r.change /\ s.matches = r.matches
    BY <1>2, <1>9 DEF Same, Fields
  <2>3. Seeks(s) /\ HasFound(s)  BY <1>4, <2>1, <2>2 DEF Refers, Seeks, HasFound, Flagging
  <2>4. Seeks(s)' /\ HasFound(s)'  BY <1>5, <2>3 DEF Seeks, HasFound, Flagging, Left, More
  <2>5. /\ "insert" \in Left(s) => Paper[s.message].supplier \in DOMAIN contractors'
        /\ "authority" \in Left(s) => Authoritative(s.seen, s.message)["supplier"] \in DOMAIN contractors'
        /\ "save" \in Left(s) => s.change[2] \in DOMAIN contractors'
    BY <1>4, <1>6, <2>1, <2>2, NipLemma DEF Refers
  <2>6. HasContractor(s)'  BY <2>5 DEF HasContractor, Left, Authoritative
  <2> QED  BY <1>7, <2>4, <2>6 DEF Refers
<1> QED  BY <1>2, <1>8, <1>9 DEF Turn, GoesOn

LEMMA InsertRefers ==
  ASSUME BaseInv, NEW o \in Operators, Insert(o)
  PROVE  \E s : Becomes(o, s) /\ Refers(s)'
<1>1. PICK r : r = request[o]  OBVIOUS
<1>2. PICK q, s : Turn(o, q, s)  BY <1>1, InsertTurn
<1>3. Does(o, "insert")  BY DEF Insert
<1>4. r.agenda # <<>> /\ Head(r.agenda) = "insert" /\ Formed(r)  BY <1>1, <1>3, WorkingLemma
<1>5. Left(r) \subseteq {"insert", "stats", "evaluate", "flag", "sync", "item"} /\ "evaluate" \in Left(r)
  BY <1>4, HeadLemma
<1>6. Becomes(o, s)  BY <1>2 DEF Turn
<1>7. CASE s = Onward(q) /\ Resting(s)  BY <1>6, <1>7, RestingRefers
<1>8. CASE Left(s) = Left(q) \ {Head(q.agenda)}
  <2>1. Left(s) = Left(r) \ {"insert"}  BY <1>1, <1>2, <1>4, <1>8 DEF Turn, Left
  <2>2. Refers(s)'  BY <1>5, <2>1 DEF Refers, Seeks, HasContractor, HasFound, Flagging, Left
  <2> QED  BY <1>6, <2>2
<1> QED  BY <1>2, <1>7, <1>8 DEF Turn, GoesOn

LEMMA PlainRefers ==
  ASSUME BaseInv, KnowingInv, NEW o \in Operators, Plain(o), ~CreateContractor(o)
  PROVE  \E s : Becomes(o, s) /\ Refers(s)'
<1>1. PICK r : r = request[o]  OBVIOUS
<1>2. PICK q, s : Turn(o, q, s) /\ Same(r, q, Fields \ {"before"})  BY <1>1, PlainTurn
<1>3. Same(r, q, {"row", "message", "seen", "change", "matches"})  BY <1>2 DEF Same, Fields
<1>4. PICK x : Does(o, x) /\ x \notin {"seek_contractor", "create_contractor", "evaluate"}
  BY DEF Plain, Fetch, AddItem, RefreshStats, Sync, Rehash, ApproveDirectly, ApplyAuthority, Decide
<1>5. Refers(r)  BY <1>1 DEF KnowingInv, Refers
<1>6. More
  <2>1. Acts(o)  BY DEF Plain, Acts, Importing, Creating, Changing, DecidingOn
  <2> QED  BY <2>1, ActsMore
<1>7. Refers(s)'  BY <1>1, <1>2, <1>3, <1>4, <1>5, <1>6, SameRefers
<1> QED  BY <1>2, <1>7 DEF Turn

LEMMA LearningRefers ==
  ASSUME BaseInv, KnowingInv, NEW o \in Operators,
         \/ SaveInvoice(o) \/ ApplyLocal(o) \/ SaveOverride(o) \/ AskForCorrection(o)
         \/ ReadInvoice(o) \/ Settle(o) \/ Flag(o) \/ Evaluate(o)
  PROVE  \E s : Becomes(o, s) /\ Refers(s)'
<1>1. PICK r : r = request[o]  OBVIOUS
<1>2. PICK x \in RowSteps : Does(o, x) /\ (x \in {"evaluate", "flag"} => Evaluate(o) \/ Flag(o)) /\ (Flag(o) => x = "flag")
                            /\ (Evaluate(o) => x = "evaluate")
  BY DEF SaveInvoice, ApplyLocal, SaveOverride, AskForCorrection, ReadInvoice, Settle, Flag, Evaluate,
         RowSteps, Does
<1>3. HasFound(r)  BY <1>1 DEF KnowingInv
<1>4. More
  <2>1. Acts(o)  BY DEF Acts, Creating, Changing, DecidingOn
  <2> QED  BY <2>1, ActsMore
<1>5. ASSUME NEW q, NEW s, Turn(o, q, s), HasFound(s)' PROVE \E t : Becomes(o, t) /\ Refers(t)'
  <2>1. Refers(s)'  BY <1>2, <1>5, LaterRefers
  <2> QED  BY <1>5, <2>1 DEF Turn
<1>6. ASSUME NEW q, NEW s, Turn(o, q, s), Same(r, q, {"row", "matches"}), x # "evaluate"
      PROVE  \E t : Becomes(o, t) /\ Refers(t)'
  <2>1. HasFound(s)'  BY <1>1, <1>2, <1>3, <1>4, <1>6, SameFound
  <2> QED  BY <1>5, <1>6, <2>1
<1>7. CASE SaveInvoice(o)
  <2>1. PICK q, s : Turn(o, q, s) /\ Same(r, q, Fields \ {"seen"})  BY <1>1, <1>7, SaveTurn
  <2>2. Same(r, q, {"row", "matches"})  BY <2>1 DEF Same, Fields
  <2>3. x # "evaluate"  BY <1>2, <1>7 DEF SaveInvoice, Does
  <2> QED  BY <1>6, <2>1, <2>2, <2>3
<1>8. CASE ApplyLocal(o)
  <2>1. PICK q, s : Turn(o, q, s) /\ Same(r, q, Fields \ {"seen"})  BY <1>1, <1>8, LocalTurn
  <2>2. Same(r, q, {"row", "matches"})  BY <2>1 DEF Same, Fields
  <2>3. x # "evaluate"  BY <1>2, <1>8 DEF ApplyLocal, Does
  <2> QED  BY <1>6, <2>1, <2>2, <2>3
<1>9. CASE SaveOverride(o)
  <2>1. PICK q, s : Turn(o, q, s) /\ Same(r, q, Fields \ {"seen"})  BY <1>1, <1>9, OverrideTurn
  <2>2. Same(r, q, {"row", "matches"})  BY <2>1 DEF Same, Fields
  <2>3. x # "evaluate"  BY <1>2, <1>9 DEF SaveOverride, Does
  <2> QED  BY <1>6, <2>1, <2>2, <2>3
<1>10. CASE AskForCorrection(o)
  <2>1. PICK q, s : Turn(o, q, s) /\ Same(r, q, Fields \ {"approval"})  BY <1>1, <1>10, AskTurn
  <2>2. Same(r, q, {"row", "matches"})  BY <2>1 DEF Same, Fields
  <2>3. x # "evaluate"  BY <1>2, <1>10 DEF AskForCorrection, Does
  <2> QED  BY <1>6, <2>1, <2>2, <2>3
<1>11. CASE Settle(o)
  <2>1. PICK q, s : \E k \in OverridesOf(r.approval) : Settling(o, r, k, q, s)  BY <1>1, <1>11, SettleTurn
  <2>2. Turn(o, q, s) /\ Same(r, q, Fields \ {"change"})  BY <2>1 DEF Settling
  <2>3. Same(r, q, {"row", "matches"})  BY <2>2 DEF Same, Fields
  <2>4. x # "evaluate"  BY <1>2, <1>11 DEF Settle, Does
  <2> QED  BY <1>6, <2>2, <2>3, <2>4
<1>12. CASE Flag(o)
  <2>1. PICK q, s : Turn(o, q, s)  BY <1>1, <1>12, FlagTurn
  <2>2. "flag" \notin Left(s)
    <3>1. Resting(s) \/ Left(s) = Left(q) \ {Head(q.agenda)}  BY <2>1 DEF Turn, GoesOn
    <3>2. Head(q.agenda) = "flag"  BY <1>2, <1>12, <2>1 DEF Turn, Does
    <3> QED  BY <3>1, <3>2 DEF Resting
  <2>3. HasFound(s)'  BY <2>2 DEF HasFound, Flagging, Left
  <2> QED  BY <1>5, <2>1, <2>3
<1>13. CASE Evaluate(o)
  <2>1. PICK q, s : Turn(o, q, s) /\ Same(r, q, Fields \ {"seen", "matches", "type"}) /\ Finds(q, r.row)
    BY <1>1, <1>13, EvaluateTurn
  <2>2. q.row = r.row  BY <2>1 DEF Same, Fields
  <2>3. q.matches \subseteq DOMAIN invoices \ {r.row}
    BY <2>1 DEF Finds, ExactOf, SuspectedOf, SameKsef, SameNumber
  <2>4. HasFound(s)'
    <3>1. CASE Resting(s)  BY <3>1 DEF Resting, HasFound, Flagging, Left
    <3>2. CASE Same(q, s, Fields \ {"agenda"})
      <4>1. s.row = q.row /\ s.matches = q.matches  BY <3>2 DEF Same, Fields
      <4> QED  BY <1>4, <2>2, <2>3, <4>1 DEF HasFound, More
    <3> QED  BY <2>1, <3>1, <3>2 DEF Turn, GoesOn
  <2> QED  BY <1>5, <2>1, <2>4
<1>14. CASE ReadInvoice(o)
  <2>1. PICK q, s : Turn(o, q, s) /\ Same(r, q, Fields \ {"seen"})  BY <1>1, <1>14, ReadTurn
  <2>2. Same(r, q, {"row", "matches"})  BY <2>1 DEF Same, Fields
  <2>3. x # "evaluate"  BY <1>2, <1>14 DEF ReadInvoice, Does
  <2> QED  BY <1>6, <2>1, <2>2, <2>3
<1> QED  BY <1>7, <1>8, <1>9, <1>10, <1>11, <1>12, <1>13, <1>14

LEMMA KnowingNext ==
  ASSUME BaseInv, KnowingInv, NEW o \in Operators, Acts(o)
  PROVE  KnowingInv'
<1>1. More  BY ActsMore
<1>2. ASSUME \E s : Becomes(o, s) /\ Refers(s)' PROVE KnowingInv'
  BY <1>1, <1>2, RefersStep
<1>3. ASSUME UNCHANGED request PROVE KnowingInv'
  <2>1. PICK s : s = request[o]  OBVIOUS
  <2>2. ASSUME NEW p \in Operators PROVE Refers(request[p])'
    <3>1. PICK r : r = request[p]  OBVIOUS
    <3>2. Refers(r)'  BY <1>1, <3>1, RefersStays DEF KnowingInv, Refers
    <3> QED  BY <1>3, <3>1, <3>2
  <2> QED  BY <2>2 DEF KnowingInv, Refers
<1>4. ASSUME Plain(o), ~CreateContractor(o) PROVE KnowingInv'  BY <1>2, <1>4, PlainRefers
<1>5. ASSUME NEW x \in Steps \ {"create_contractor"}, Does(o, x) PROVE ~CreateContractor(o)
  BY <1>5 DEF CreateContractor, Does
<1>6. CASE Importing(o)
  <2>1. CASE CheckMail(o) \/ CheckMailByCycle(o) \/ CheckKsef(o) \/ Upload(o)  BY <1>2, <2>1, BeginningRefers
  <2>2. CASE FetchFails(o) \/ Finalize(o)  BY <1>2, <2>2, EndRefers
  <2>3. CASE LookUp(o)  BY <1>2, <2>3, SeekingRefers
  <2>4. CASE Fetch(o) \/ AddItem(o)
    <3>1. Does(o, "fetch") \/ Does(o, "item")  BY <2>4 DEF Fetch, AddItem
    <3> QED  BY <1>4, <1>5, <2>4, <3>1 DEF Plain, Steps
  <2> QED  BY <1>6, <2>1, <2>2, <2>3, <2>4 DEF Importing
<1>7. CASE Creating(o)
  <2>1. CASE FindCandidate(o) \/ InsertRefused(o)  BY <1>2, <2>1, SeekingRefers
  <2>2. CASE SeekContractor(o)  BY <1>2, <2>2, SeekRefers
  <2>3. CASE CreateContractor(o)  BY <1>2, <2>3, CreateRefers
  <2>4. CASE ContractorExists(o)  BY <1>2, <2>4, EndRefers
  <2>5. CASE Insert(o)  BY <1>2, <2>5, InsertRefers
  <2>6. CASE ApplyAuthority(o) \/ RefreshStats(o) \/ Sync(o)
    <3>1. Does(o, "authority") \/ Does(o, "stats") \/ Does(o, "sync")  BY <2>6 DEF ApplyAuthority, RefreshStats, Sync
    <3> QED  BY <1>4, <1>5, <2>6, <3>1 DEF Plain, Steps
  <2>7. CASE Evaluate(o) \/ Flag(o)  BY <1>2, <2>7, LearningRefers
  <2> QED  BY <1>7, <2>1, <2>2, <2>3, <2>4, <2>5, <2>6, <2>7 DEF Creating
<1>8. CASE Changing(o)
  <2>1. CASE UpdateInvoice(o)  BY <1>2, <2>1, BeginningRefers
  <2>2. CASE Rehash(o) \/ ApproveDirectly(o)
    <3>1. Does(o, "rehash") \/ Does(o, "approve_directly")  BY <2>2 DEF Rehash, ApproveDirectly
    <3> QED  BY <1>4, <1>5, <2>2, <3>1 DEF Plain, Steps
  <2>3. CASE SaveInvoice(o) \/ ApplyLocal(o) \/ AskForCorrection(o) \/ SaveOverride(o)
    BY <1>2, <2>3, LearningRefers
  <2> QED  BY <1>8, <2>1, <2>2, <2>3 DEF Changing
<1>9. CASE DecidingOn(o)
  <2>1. CASE MarkForVerification(o) \/ ConfirmDuplicate(o) \/ MarkCorrect(o) \/ CreateRequest(o)
    <3>1. UNCHANGED request
      BY <2>1 DEF MarkForVerification, ConfirmDuplicate, MarkCorrect, CreateRequest, Decides
    <3> QED  BY <1>3, <3>1
  <2>2. CASE DecideRequest(o)  BY <1>2, <2>2, BeginningRefers
  <2>3. CASE Decide(o)
    <3>1. Does(o, "decide")  BY <2>3 DEF Decide
    <3> QED  BY <1>4, <1>5, <2>3, <3>1 DEF Plain, Steps
  <2>4. CASE ApplyStatus(o) \/ NothingToSettle(o)  BY <1>2, <2>4, EndRefers
  <2>5. CASE ReadInvoice(o) \/ Settle(o)  BY <1>2, <2>5, LearningRefers
  <2> QED  BY <1>9, <2>1, <2>2, <2>3, <2>4, <2>5 DEF DecidingOn
<1>10. CASE Die(o)  BY <1>2, <1>10, EndRefers
<1> QED  BY <1>6, <1>7, <1>8, <1>9, <1>10 DEF Acts

-----------------------------------------------------------------------------
(* What the tables refer to *)

\* Every invoice has a contractor that is stored.
Linked == \A i \in DOMAIN invoices : invoices[i].contractor \in DOMAIN contractors

LEMMA LinkedRow ==
  ASSUME BaseInv, Linked, DOMAIN contractors \subseteq DOMAIN contractors', NEW i \in DOMAIN invoices, NEW row, Writes(i, row),
         row.contractor \in DOMAIN contractors
  PROVE  Linked'
BY WritesLemma DEF Linked

LEMMA LinkedNext ==
  ASSUME BaseInv, KnowingInv, Linked, NEW o \in Operators, Acts(o)
  PROVE  Linked'
<1>1. DOMAIN contractors \subseteq DOMAIN contractors'  BY ContractorsGrow
<1>2. PICK r : r = request[o]  OBVIOUS
<1>3. Aware(r) /\ Formed(r) /\ HasContractor(r)  BY <1>2 DEF BaseInv, AwareInv, KnowingInv, Aware
<1>4. ASSUME NEW x \in {"insert", "authority", "save"}, Does(o, x)
      PROVE  x \in Left(r) /\ Left(r) \cap {"seek_contractor", "create_contractor"} = {}
  <2>1. x \in Left(r) /\ r.agenda # <<>> /\ Head(r.agenda) = x  BY <1>2, <1>4, WorkingLemma
  <2>2. CASE x = "insert"
    <3>1. Left(r) \subseteq {"insert", "stats", "evaluate", "flag", "sync", "item"}  BY <1>3, <2>1, <2>2, HeadLemma
    <3> QED  BY <2>1, <3>1
  <2>3. CASE x \in RowSteps
    <3>1. Left(r) \cap Firsts \subseteq {x}  BY <1>3, <2>1, <2>3, HeadLemma
    <3> QED  BY <1>4, <2>1, <3>1 DEF Firsts
  <2> QED  BY <1>4, <2>2, <2>3 DEF RowSteps
<1>5. CASE Insert(o)
  <2>1. Paper[r.message].supplier \in DOMAIN contractors
    <3>1. Does(o, "insert")  BY <1>5 DEF Insert
    <3> QED  BY <1>3, <1>4, <3>1 DEF HasContractor
  <2>2. /\ DOMAIN invoices' = DOMAIN invoices \cup {Len(invoices) + 1}
        /\ invoices'[Len(invoices) + 1].contractor = Paper[r.message].supplier
        /\ \A i \in DOMAIN invoices : invoices'[i] = invoices[i]
    BY <1>2, <1>5, InsertedRow
  <2> QED  BY <1>1, <2>1, <2>2 DEF Linked
<1>6. CASE ApplyAuthority(o)
  <2>1. PICK row : Writes(r.row, row) /\ IsOverruled(row, invoices[r.row], r.seen, r.message)
    BY <1>2, <1>6, AuthorityWrites
  <2>2. row.contractor \in DOMAIN contractors
    BY <1>3, <1>4, <1>6, <2>1 DEF ApplyAuthority, HasContractor, IsOverruled
  <2>3. r.row \in DOMAIN invoices  BY <1>2, <1>6, WorkingLemma DEF ApplyAuthority, RowSteps
  <2> QED  BY <1>1, <2>1, <2>2, <2>3, LinkedRow
<1>7. CASE SaveInvoice(o)
  <2>1. PICK row : Writes(r.row, row) /\ IsEdited(row, invoices[r.row], r.change)
    BY <1>2, <1>7, SaveWrites
  <2>2. r.row \in DOMAIN invoices  BY <1>2, <1>7, WorkingLemma DEF SaveInvoice, RowSteps
  <2>3. row.contractor \in DOMAIN contractors
    BY <1>3, <1>4, <1>7, <2>1, <2>2 DEF SaveInvoice, HasContractor, IsEdited, Linked
  <2> QED  BY <1>1, <2>1, <2>2, <2>3, LinkedRow
<1>8. CASE ~Insert(o) /\ ~ApplyAuthority(o) /\ ~SaveInvoice(o)
  <2>1. Steady  BY <1>8, ActsSteady
  <2> QED  BY <1>1, <2>1 DEF Steady, Linked
<1> QED  BY <1>5, <1>6, <1>7, <1>8

\* Two different invoices are related.
Related == \A x \in relations : x[1] \in DOMAIN invoices /\ x[2] \in DOMAIN invoices /\ x[1] # x[2]

LEMMA RelatedNext ==
  ASSUME BaseInv, KnowingInv, Related, NEW o \in Operators, Acts(o)
  PROVE  Related'
<1>1. DOMAIN invoices \subseteq DOMAIN invoices'  BY RowsGrow
<1>2. CASE relations' \subseteq relations  BY <1>1, <1>2 DEF Related
<1>3. CASE Flag(o)
  <2>1. PICK r : r = request[o]  OBVIOUS
  <2>2. "flag" \in Left(r) /\ r.agenda # <<>> /\ Head(r.agenda) = "flag" /\ Formed(r) /\ r.row \in DOMAIN invoices
    BY <1>3, <2>1, WorkingLemma DEF Flag, RowSteps
  <2>3. "evaluate" \notin Left(r)  BY <2>2, HeadLemma
  <2>4. r.matches \subseteq DOMAIN invoices \ {r.row}  BY <2>1, <2>2, <2>3 DEF KnowingInv, HasFound, Flagging
  <2>5. relations' = relations \cup {<<r.row, j, r.type>> : j \in r.matches}  BY <1>3, <2>1 DEF Flag
  <2> QED  BY <1>1, <2>2, <2>4, <2>5 DEF Related
<1>4. CASE Importing(o)
  <2>1. UNCHANGED relations
    BY <1>4 DEF Importing, CheckMail, CheckMailByCycle, CheckKsef, Upload, FetchFails, Fetch, LookUp, AddItem, Finalize, ledger
  <2> QED  BY <1>2, <2>1
<1>5. CASE Creating(o)
  <2>1. Flag(o) \/ relations' \subseteq relations
    BY <1>5 DEF Creating, FindCandidate, SeekContractor, CreateContractor, ContractorExists, Insert, InsertRefused,
                ApplyAuthority, RefreshStats, Evaluate, Sync, ledger
  <2> QED  BY <1>2, <1>3, <2>1
<1>6. CASE Changing(o)
  <2>1. UNCHANGED relations
    BY <1>6 DEF Changing, UpdateInvoice, SaveInvoice, Rehash, ApproveDirectly, ApplyLocal, AskForCorrection, SaveOverride, ledger
  <2> QED  BY <1>2, <2>1
<1>7. CASE DecidingOn(o)
  <2>1. relations' \subseteq relations
    BY <1>7 DEF DecidingOn, MarkForVerification, ConfirmDuplicate, MarkCorrect, CreateRequest, DecideRequest, Decide,
                ApplyStatus, ReadInvoice, Settle, NothingToSettle, ledger
  <2> QED  BY <1>2, <2>1
<1>8. CASE Die(o)
  <2>1. UNCHANGED relations  BY <1>8 DEF Die, ledger
  <2> QED  BY <1>2, <2>1
<1> QED  BY <1>4, <1>5, <1>6, <1>7, <1>8 DEF Acts

\* The desk has a place for the exceptions of every invoice.
OnDesk ==
  /\ intake \in Seq(IntakeRows)
  /\ exceptions \in Seq([Codes -> ItemStatuses]) /\ DOMAIN exceptions = DOMAIN invoices

LEMMA SavedItem ==
  ASSUME intake \in Seq(IntakeRows), NEW i \in Nat, NEW row
  PROVE  SaveItem(i, row) \in Seq(IntakeRows)
<1>1. PICK st : st = DocumentStatus(row)  OBVIOUS
<1>2. st \in ItemStatuses \ {"none"}  BY <1>1 DEF DocumentStatus, ItemStatuses
<1>3. CASE ItemOf(i) = {}
  <2>1. PICK item \in IntakeRows : item = [invoice |-> i, status |-> st]  BY <1>2 DEF IntakeRows
  <2>2. SaveItem(i, row) = Append(intake, item)  BY <1>1, <1>3, <2>1 DEF SaveItem
  <2> QED  BY <2>2
<1>4. CASE ItemOf(i) # {}
  <2>1. PICK t : t = [k \in DOMAIN intake |-> IF k \in ItemOf(i) THEN [intake[k] EXCEPT !.status = st] ELSE intake[k]]
    OBVIOUS
  <2>2. SaveItem(i, row) = t  BY <1>1, <1>4, <2>1 DEF SaveItem
  <2>3. \A k \in DOMAIN intake : intake[k] \in IntakeRows  OBVIOUS
  <2>4. ASSUME NEW k \in DOMAIN intake PROVE t[k] \in IntakeRows
    <3>1. PICK item \in IntakeRows : item = intake[k]  BY <2>3
    <3>2. [item EXCEPT !.status = st] \in IntakeRows  BY <1>2 DEF IntakeRows
    <3> QED  BY <2>1, <3>1, <3>2
  <2>5. DOMAIN t = 1..Len(intake)  BY <2>1
  <2>6. \E n \in Nat : t \in [1..n -> IntakeRows]
    <3>1. PICK n \in Nat : n = Len(intake)  OBVIOUS
    <3>2. t = [k \in DOMAIN t |-> t[k]]  BY <2>1
    <3>3. DOMAIN t = 1..n /\ DOMAIN intake = 1..n  BY <2>5, <3>1
    <3> QED  BY ONLY <2>4, <3>1, <3>2, <3>3
  <2> QED  BY <2>2, <2>6
<1> QED  BY <1>3, <1>4

LEMMA SyncedExceptions ==
  ASSUME exceptions \in Seq([Codes -> ItemStatuses]), NEW i \in DOMAIN exceptions, NEW row
  PROVE  /\ SyncExceptions(i, row) \in Seq([Codes -> ItemStatuses])
         /\ DOMAIN SyncExceptions(i, row) = DOMAIN exceptions
<1>1. PICK codes : codes = [c \in Codes |->
         IF c \in ActiveCodes(row) THEN IF exceptions[i][c] = "none" THEN "nowe" ELSE "w_toku"
         ELSE IF exceptions[i][c] = "none" THEN "none" ELSE "zakonczone"]
  OBVIOUS
<1>2. codes \in [Codes -> ItemStatuses]  BY <1>1 DEF ItemStatuses
<1>3. SyncExceptions(i, row) = [exceptions EXCEPT ![i] = codes]  BY <1>1 DEF SyncExceptions
<1> QED  BY <1>2, <1>3

LEMMA DeskNext ==
  ASSUME BaseInv, OnDesk, NEW o \in Operators, Acts(o)
  PROVE  OnDesk'
<1>1. PICK r : r = request[o]  OBVIOUS
<1>2. ~Insert(o) => DOMAIN invoices' = DOMAIN invoices  BY RowsGrow
<1>3. CASE UNCHANGED desk /\ ~Insert(o)  BY <1>2, <1>3 DEF OnDesk, desk
<1>4. CASE Insert(o)
  <2>1. DOMAIN invoices' = DOMAIN invoices \cup {Len(invoices) + 1}  BY <1>1, <1>4, InsertedRow
  <2>2. PICK none \in [Codes -> ItemStatuses] : none = [c \in Codes |-> "none"]  BY DEF ItemStatuses
  <2>3. exceptions' = Append(exceptions, none) /\ UNCHANGED intake  BY <1>4, <2>2 DEF Insert
  <2>4. invoices \in Seq(Rows)  BY DEF BaseInv, RowsInv
  <2>5. Len(exceptions) = Len(invoices)  BY <2>4 DEF OnDesk
  <2>6. exceptions' \in Seq([Codes -> ItemStatuses]) /\ DOMAIN exceptions' = DOMAIN exceptions \cup {Len(exceptions) + 1}
    BY <2>3 DEF OnDesk
  <2> QED  BY <2>1, <2>3, <2>5, <2>6 DEF OnDesk
<1>5. CASE Sync(o)
  <2>1. r.row \in DOMAIN invoices  BY <1>1, <1>5, WorkingLemma DEF Sync, RowSteps
  <2>2. PICK row : intake' = SaveItem(r.row, row) /\ exceptions' = SyncExceptions(r.row, row)  BY <1>1, <1>5 DEF Sync
  <2>3. r.row \in Nat  BY <2>1 DEF BaseInv, RowsInv
  <2>4. intake' \in Seq(IntakeRows)  BY <2>2, <2>3, SavedItem DEF OnDesk
  <2>5. exceptions' \in Seq([Codes -> ItemStatuses]) /\ DOMAIN exceptions' = DOMAIN exceptions
    BY <2>1, <2>2, SyncedExceptions DEF OnDesk
  <2>6. ~Insert(o)
    <3>1. Does(o, "sync")  BY <1>5 DEF Sync
    <3> QED  BY <3>1 DEF Insert, Does
  <2> QED  BY <1>2, <2>4, <2>5, <2>6 DEF OnDesk
<1>6. CASE Importing(o)
  <2>1. UNCHANGED desk /\ UNCHANGED invoices
    BY <1>6 DEF Importing, CheckMail, CheckMailByCycle, CheckKsef, Upload, FetchFails, Fetch, LookUp, AddItem, Finalize
  <2> QED  BY <2>1 DEF OnDesk, desk
<1>7. CASE Creating(o)
  <2>1. Insert(o) \/ Sync(o) \/ UNCHANGED desk
    BY <1>7 DEF Creating, FindCandidate, SeekContractor, CreateContractor, ContractorExists, InsertRefused,
                ApplyAuthority, RefreshStats, Evaluate, Flag
  <2> QED  BY <1>3, <1>4, <1>5, <2>1
<1>8. ASSUME UNCHANGED desk, DOMAIN invoices' = DOMAIN invoices PROVE OnDesk'  BY <1>8 DEF OnDesk, desk
<1>9. CASE Changing(o)
  <2>1. UNCHANGED desk
    BY <1>9 DEF Changing, UpdateInvoice, SaveInvoice, Rehash, ApproveDirectly, ApplyLocal, AskForCorrection, SaveOverride
  <2> QED  BY <1>3, <1>4, <2>1
<1>10. CASE DecidingOn(o)
  <2>1. UNCHANGED desk
    BY <1>10 DEF DecidingOn, MarkForVerification, ConfirmDuplicate, MarkCorrect, CreateRequest, DecideRequest, Decide,
                 ApplyStatus, ReadInvoice, Settle, NothingToSettle
  <2> QED  BY <1>3, <1>4, <2>1
<1>11. CASE Die(o)
  <2>1. UNCHANGED desk  BY <1>11 DEF Die
  <2> QED  BY <1>3, <1>4, <2>1
<1> QED  BY <1>6, <1>7, <1>9, <1>10, <1>11 DEF Acts

\* One request holds the mail cycle, and what has been decided is an invoice.
Held == cycle \in Operators \cup {NoOne} /\ handled \subseteq DOMAIN invoices

LEMMA HeldNext ==
  ASSUME BaseInv, Held, NEW o \in Operators, Acts(o)
  PROVE  Held'
<1>1. DOMAIN invoices \subseteq DOMAIN invoices'  BY RowsGrow
<1>2. cycle' \in {cycle, o, NoOne}
  <2>1. CASE Importing(o)
    BY <2>1 DEF Importing, CheckMail, CheckMailByCycle, RunEmailCycle, CheckKsef, Upload, FetchFails, Fetch, LookUp, AddItem,
                Finalize, importing
  <2>2. CASE Creating(o)
    BY <2>2 DEF Creating, FindCandidate, SeekContractor, CreateContractor, ContractorExists, EndHalfWay, Insert, InsertRefused,
                ApplyAuthority, RefreshStats, Evaluate, Flag, Sync, importing
  <2>3. CASE Changing(o)
    BY <2>3 DEF Changing, UpdateInvoice, SaveInvoice, Rehash, ApproveDirectly, ApplyLocal, AskForCorrection, SaveOverride, importing
  <2>4. CASE DecidingOn(o)
    BY <2>4 DEF DecidingOn, MarkForVerification, ConfirmDuplicate, MarkCorrect, CreateRequest, DecideRequest, Decide,
                ApplyStatus, ReadInvoice, Settle, NothingToSettle, EndHalfWay, importing
  <2>5. CASE Die(o)  BY <2>5 DEF Die, EndHalfWay
  <2> QED  BY <2>1, <2>2, <2>3, <2>4, <2>5 DEF Acts
<1>3. handled' \subseteq handled \cup DOMAIN invoices
  <2>1. CASE Importing(o)
    BY <2>1 DEF Importing, CheckMail, CheckMailByCycle, CheckKsef, Upload, FetchFails, Fetch, LookUp, AddItem, Finalize,
                Begin, Done, history
  <2>2. CASE Creating(o)
    BY <2>2 DEF Creating, FindCandidate, SeekContractor, CreateContractor, ContractorExists, EndHalfWay, Insert, InsertRefused,
                ApplyAuthority, RefreshStats, Evaluate, Flag, Sync, Done, history
  <2>3. CASE Changing(o)
    BY <2>3 DEF Changing, UpdateInvoice, SaveInvoice, Rehash, ApproveDirectly, ApplyLocal, AskForCorrection, SaveOverride,
                Begin, Done, history
  <2>4. CASE ApplyStatus(o)
    <3>1. request[o].row \in DOMAIN invoices  BY <2>4, WorkingLemma DEF ApplyStatus, RowSteps
    <3>2. handled' = handled \cup {request[o].row}  BY <2>4 DEF ApplyStatus
    <3> QED  BY <3>1, <3>2
  <2>5. CASE DecidingOn(o) /\ ~ApplyStatus(o)
    BY <2>5 DEF DecidingOn, MarkForVerification, ConfirmDuplicate, MarkCorrect, CreateRequest, DecideRequest, Decide, Decides,
                ReadInvoice, Settle, NothingToSettle, EndHalfWay, Begin, Done, history
  <2>6. CASE Die(o)  BY <2>6 DEF Die, EndHalfWay
  <2> QED  BY <2>1, <2>2, <2>3, <2>4, <2>5, <2>6 DEF Acts
<1> QED  BY <1>1, <1>2, <1>3 DEF Held

-----------------------------------------------------------------------------
(* The tables *)

LEMMA LinksNext ==
  ASSUME BaseInv, KnowingInv, LinksInv, Next
  PROVE  KnowingInv' /\ LinksInv'
<1>1. PICK o \in Operators : Acts(o)  BY DEF Next, Acts
<1>2. Linked' /\ Related' /\ OnDesk' /\ Held'
  BY <1>1, LinkedNext, RelatedNext, DeskNext, HeldNext DEF LinksInv, Linked, Related, OnDesk, Held
<1>3. KnowingInv'  BY <1>1, KnowingNext
<1> QED  BY <1>2, <1>3 DEF LinksInv, Linked, Related, OnDesk, Held

LEMMA LinksStill ==
  ASSUME KnowingInv, LinksInv, UNCHANGED vars
  PROVE  KnowingInv' /\ LinksInv'
<1>1. UNCHANGED <<invoices, contractors, relations, intake, exceptions, cycle, request, handled>>  BY DEF vars
<1>2. More  BY <1>1 DEF More
<1>3. ASSUME NEW p \in Operators PROVE Refers(request[p])'
  <2>1. PICK r : r = request[p]  OBVIOUS
  <2>2. Refers(r)'  BY <1>2, <2>1, RefersStays DEF KnowingInv, Refers
  <2> QED  BY <1>1, <2>1, <2>2
<1>4. KnowingInv'  BY <1>3 DEF KnowingInv, Refers
<1>5. LinksInv'  BY <1>1 DEF LinksInv
<1> QED  BY <1>4, <1>5

LEMMA LinksStart == Init => KnowingInv /\ LinksInv
<1> SUFFICES ASSUME Init PROVE KnowingInv /\ LinksInv
  OBVIOUS
<1>1. ASSUME NEW p \in Operators PROVE Seeks(request[p]) /\ HasContractor(request[p]) /\ HasFound(request[p])
  <2>1. request[p] = Idle  BY DEF Init
  <2> QED  BY <2>1, IdleLemma DEF Seeks, HasContractor, HasFound, Flagging
<1>2. DOMAIN invoices = {1} /\ invoices[1].contractor \in DOMAIN contractors  BY DEF Init
<1>3. intake \in Seq(IntakeRows)
  <2>1. PICK item \in IntakeRows : item = [invoice |-> 1, status |-> "nowe"]  BY DEF IntakeRows, ItemStatuses
  <2>2. intake = <<item>>  BY <2>1 DEF Init
  <2> QED  BY <2>2
<1>4. exceptions \in Seq([Codes -> ItemStatuses]) /\ DOMAIN exceptions = {1}
  <2>1. PICK none \in [Codes -> ItemStatuses] : none = [c \in Codes |-> "none"]  BY DEF ItemStatuses
  <2>2. exceptions = <<none>>  BY <2>1 DEF Init
  <2> QED  BY <2>2
<1>5. relations = {} /\ cycle = NoOne /\ handled = {}  BY DEF Init
<1> QED  BY <1>1, <1>2, <1>3, <1>4, <1>5 DEF KnowingInv, LinksInv

LEMMA LinksLemma ==
  ASSUME BaseInv, LinksInv
  PROVE  TypeOK
<1>1. \A i \in DOMAIN invoices : invoices[i] \in Rows  BY DEF BaseInv, RowsInv
<1>2. \A k \in DOMAIN intake : intake[k] \in IntakeRows  BY DEF LinksInv
<1>3. /\ \A a \in DOMAIN approvals : approvals[a] \in ApprovalRows
      /\ \A k \in DOMAIN overrides : overrides[k] \in OverrideRows
      /\ \A k \in DOMAIN runs : runs[k] \in RunRows
  BY DEF BaseInv, PapersInv, RunsInv
<1>4. \A k \in DOMAIN overrides : overrides[k].approval \in {0} \cup DOMAIN approvals
  <2>1. DOMAIN approvals = 1..Len(approvals) /\ Len(approvals) \in Nat  BY DEF BaseInv, PapersInv
  <2> QED  BY <2>1 DEF BaseInv, PapersInv
<1> QED  BY <1>1, <1>2, <1>3, <1>4 DEF TypeOK, LinksInv

\* Rows keep the shape of their tables and refer to rows that exist, whoever writes in between:
\* an invoice to its contractor, a duplicate to another invoice, a correction to its approval.
THEOREM InvoicesTypeCorrect == Spec => []TypeOK
<1>1. Init => KnowingInv /\ LinksInv  BY LinksStart
<1>2. BaseInv /\ KnowingInv /\ LinksInv /\ [Next]_vars => KnowingInv' /\ LinksInv'
  BY LinksNext, LinksStill
<1>3. BaseInv /\ LinksInv => TypeOK  BY LinksLemma
<1> QED  BY <1>1, <1>2, <1>3, RequestsKnow, PTL DEF Spec

================================================================================
