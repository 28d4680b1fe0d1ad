-------------------------- MODULE OrganizationsProofs --------------------------
(***************************************************************************)
(* Theorems about the two components that keep organizations apart: Access, *)
(* for any organizations, payloads, devices, bounds and any finite set of   *)
(* logins, and InvoiceHandoff, for any clerks, invoices and organizations.  *)
(***************************************************************************)
EXTENDS Access, InvoiceHandoff, FiniteSetTheorems, SequenceTheorems, WellFoundedInduction, NaturalsInduction, TLAPS

-----------------------------------------------------------------------------
(* Types.                                                                    *)

\* What an administrator's request holds; the payload is of the kind its step reads.
EditStates ==
  [pc : EditPcs, actor : Orgs \cup {NoOrg}, form : Forms \cup OrgForms \cup {Keep}, row : AccountRows,
   had : SUBSET Capabilities, give : SUBSET Capabilities, sweep : Nat, org : Orgs \cup {NoOrg}]

AccountPcs == {"caps", "sweep", "validate"}
OrgPcs     == {"channel", "orgUpdate", "modules"}

FormFits(e) ==
  /\ e.pc \in AccountPcs => e.form \in Forms
  /\ e.pc \in OrgPcs => e.form \in OrgForms /\ e.org \in Orgs
  /\ e.pc = "modules" => e.form.modules # Keep

EditInv == edit \in [Admins -> EditStates] /\ \A a \in Admins : FormFits(edit[a])

RowInv ==
  /\ account \in AccountRows /\ membership \in Memberships /\ caps \subseteq Capabilities
  /\ orgs \in [Orgs -> OrgRows]
  /\ edits \in 0..MaxEdits /\ begun \in 0..MaxRequests /\ sweeps \in Nat

LoginInv == login \in [Logins -> LoginStates] /\ sessions \subseteq Sessions

TypeInv == RowInv /\ EditInv /\ LoginInv

LEMMA ResolvedLemma ==
  ASSUME NEW role, NEW f, NEW upload, NEW existing \in SUBSET Capabilities
  PROVE  Resolved(role, f, upload, existing) \in SUBSET Capabilities
BY DEF Resolved, DefaultCaps, Capabilities

LEMMA FormLemma ==
  ASSUME NEW f \in Forms
  PROVE  /\ f.role \in Roles \cup {Keep} /\ f.org \in Orgs \cup {NoOrg, Keep}
         /\ f.active \in BOOLEAN \cup {Keep} /\ f.password \in BOOLEAN
BY AccessAssumption DEF AccountForms

LEMMA OrgFormLemma ==
  ASSUME NEW f \in OrgForms
  PROVE  /\ f.active \in BOOLEAN \cup {Keep} /\ f.modules \in BOOLEAN \cup {Keep}
         /\ f.channel \in Channels \cup {NoChannel, Keep}
BY AccessAssumption DEF OrganizationForms

LEMMA IdleLemma ==
  /\ IdleEdit \in EditStates /\ FormFits(IdleEdit)
  /\ NoAccount \in AccountRows /\ NoMembership \in Memberships /\ IdleLogin \in LoginStates
<1>1. NoAccount \in AccountRows
  BY DEF NoAccount, AccountRows
<1>2. NoMembership \in Memberships
  BY DEF NoMembership, Memberships
<1>3. IdleLogin \in LoginStates
  BY DEF IdleLogin, LoginStates
<1>4. IdleEdit \in EditStates
  BY <1>1 DEF IdleEdit, EditStates, EditPcs
<1>5. FormFits(IdleEdit)
  BY DEF IdleEdit, FormFits, AccountPcs, OrgPcs
<1>6. QED
  BY <1>1, <1>2, <1>3, <1>4, <1>5

\* A request that goes on with a record of its type keeps the requests typed.
LEMMA EditFrame ==
  ASSUME EditInv, NEW a \in Admins, NEW e \in EditStates, FormFits(e),
         edit' = [edit EXCEPT ![a] = e]
  PROVE  EditInv'
<1>1. edit' \in [Admins -> EditStates]
  BY DEF EditInv
<1>2. ASSUME NEW b \in Admins
      PROVE  FormFits(edit'[b])
  BY <1>2 DEF EditInv
<1>3. QED
  BY <1>1, <1>2 DEF EditInv, FormFits

LEMMA AccessTypeInit == Init => TypeInv
<1> SUFFICES ASSUME Init PROVE TypeInv
  OBVIOUS
<1>1. orgs \in [Orgs -> OrgRows] /\ EditInv /\ LoginInv
  BY IdleLemma DEF Init, OrgRows, EditInv, LoginInv
<1>2. edits \in 0..MaxEdits /\ begun \in 0..MaxRequests /\ sweeps \in Nat
  BY AccessAssumption DEF Init
<1>3. CASE account = NoAccount /\ caps = {} /\ membership = NoMembership
  <2>1. account \in AccountRows /\ membership \in Memberships /\ caps \subseteq Capabilities
    BY <1>3, IdleLemma
  <2>2. QED
    BY <1>1, <1>2, <2>1 DEF TypeInv, RowInv
<1>4. ASSUME NEW o \in Orgs,
             account = [role |-> "operator", org |-> o, active |-> TRUE, upload |-> TRUE, since |-> 0],
             caps = Capabilities \ {"manage"},
             membership = [org |-> o, role |-> "operator", active |-> TRUE]
      PROVE  TypeInv
  <2>1. account \in AccountRows /\ membership \in Memberships
    BY <1>4 DEF AccountRows, Memberships, Roles
  <2>2. caps \subseteq Capabilities
    BY <1>4
  <2>3. QED
    BY <1>1, <1>2, <2>1, <2>2 DEF TypeInv, RowInv
<1>5. QED
  BY <1>3, <1>4 DEF Init

-----------------------------------------------------------------------------
(* One lemma per action: it keeps the types.                                 *)

LEMMA EditFields ==
  ASSUME NEW e \in EditStates
  PROVE  /\ e.pc \in EditPcs /\ e.actor \in Orgs \cup {NoOrg} /\ e.row \in AccountRows
         /\ e.had \in SUBSET Capabilities /\ e.give \in SUBSET Capabilities
         /\ e.sweep \in Nat /\ e.org \in Orgs \cup {NoOrg}
BY DEF EditStates

LEMMA RowFields ==
  ASSUME NEW r \in AccountRows
  PROVE  r.role \in Roles \cup {NoRole} /\ r.org \in Orgs \cup {NoOrg} /\ r.active \in BOOLEAN
         /\ r.upload \in BOOLEAN /\ r.since \in Nat
BY DEF AccountRows

\* A request moves to another step and keeps what it holds.
LEMMA PcLemma ==
  ASSUME NEW e \in EditStates, FormFits(e), NEW pc \in EditPcs,
         pc \in {e.pc, "idle", "insert", "sync", "grant", "dead"}
           \/ (pc \in AccountPcs /\ e.pc \in AccountPcs)
           \/ (pc = "orgUpdate" /\ e.pc \in OrgPcs)
  PROVE  [e EXCEPT !.pc = pc] \in EditStates /\ FormFits([e EXCEPT !.pc = pc])
<1>1. [e EXCEPT !.pc = pc] \in EditStates
  BY DEF EditStates
<1>2. /\ [e EXCEPT !.pc = pc].pc = pc /\ [e EXCEPT !.pc = pc].form = e.form
      /\ [e EXCEPT !.pc = pc].org = e.org
  BY DEF EditStates
<1>3. FormFits([e EXCEPT !.pc = pc])
  BY <1>2 DEF FormFits, AccountPcs, OrgPcs
<1>4. QED
  BY <1>1, <1>3

LEMMA BegunLemma ==
  ASSUME RowInv, NEW a \in Admins, Begun(a)
  PROVE  edits' \in 0..MaxEdits /\ begun' \in 0..MaxRequests
BY AccessAssumption DEF Begun, RowInv

LEMMA CheckNewTypes == ASSUME TypeInv, NEW a \in Admins, CheckNew(a) PROVE TypeInv'
<1>1. PICK actor \in Orgs \cup {NoOrg}, f \in Forms :
        LET role == Given(f.role, "operator")
            org  == NormalizedOrg(actor, Given(f.org, NoOrg))
            give == Resolved(role, f, Given(f.upload, role # "guest"), {})
        IN edit' = [edit EXCEPT ![a] = [IdleEdit EXCEPT
             !.pc = "insert", !.actor = actor, !.give = give,
             !.row = [role |-> role, org |-> org, active |-> Given(f.active, TRUE),
                      upload |-> "upload" \in give, since |-> sweeps]]]
  BY DEF CheckNew
<1> DEFINE role == Given(f.role, "operator")
           org  == NormalizedOrg(actor, Given(f.org, NoOrg))
           give == Resolved(role, f, Given(f.upload, role # "guest"), {})
           active == Given(f.active, TRUE)
           row == [role |-> role, org |-> org, active |-> active, upload |-> "upload" \in give, since |-> sweeps]
           e == [IdleEdit EXCEPT !.pc = "insert", !.actor = actor, !.give = give, !.row = row]
<1>2. role \in Roles /\ org \in Orgs \cup {NoOrg} /\ active \in BOOLEAN
  BY FormLemma, AccessAssumption DEF Given, NormalizedOrg, Roles
<1>3. give \in SUBSET Capabilities
  BY ResolvedLemma
<1>4. edit' = [edit EXCEPT ![a] = e]
  BY <1>1
<1> HIDE DEF role, org, give, active
<1>5. row \in AccountRows
  BY <1>2 DEF AccountRows, TypeInv, RowInv
<1> HIDE DEF row
<1>6. e \in EditStates /\ e.pc = "insert"
  BY <1>3, <1>5, IdleLemma DEF EditStates, EditPcs
<1>7. FormFits(e)
  BY <1>6 DEF FormFits, AccountPcs, OrgPcs
<1> HIDE DEF e
<1>8. EditInv'
  BY <1>4, <1>6, <1>7, EditFrame DEF TypeInv
<1>9. QED
  BY <1>8, BegunLemma DEF CheckNew, TypeInv, RowInv, LoginInv

LEMMA InsertTypes == ASSUME TypeInv, NEW a \in Admins, Insert(a) PROVE TypeInv'
<1> DEFINE e == edit[a]
           next == [IdleEdit EXCEPT !.pc = "sync", !.give = e.give]
<1>1. e \in EditStates /\ FormFits(e)
  BY DEF TypeInv, EditInv
<1>2. e.row \in AccountRows /\ e.give \in SUBSET Capabilities
  BY <1>1, EditFields
<1>3. CASE account.role = NoRole
  <2>1. edit' = [edit EXCEPT ![a] = next] /\ account' = e.row
    BY <1>3 DEF Insert
  <2>2. next \in EditStates /\ next.pc = "sync"
    BY <1>2, IdleLemma DEF EditStates, EditPcs
  <2>3. FormFits(next)
    BY <2>2 DEF FormFits, AccountPcs, OrgPcs
  <2> HIDE DEF next, e
  <2>4. EditInv'
    BY <2>1, <2>2, <2>3, EditFrame DEF TypeInv
  <2>5. QED
    BY <1>2, <2>1, <2>4 DEF Insert, TypeInv, RowInv, LoginInv
<1>4. CASE account.role # NoRole
  <2>1. edit' = [edit EXCEPT ![a] = IdleEdit] /\ account' = account
    BY <1>4 DEF Insert
  <2>2. EditInv'
    BY <2>1, IdleLemma, EditFrame DEF TypeInv
  <2>3. QED
    BY <2>1, <2>2 DEF Insert, TypeInv, RowInv, LoginInv
<1>5. QED
  BY <1>3, <1>4

LEMMA ReadAccountTypes == ASSUME TypeInv, NEW a \in Admins, ReadAccount(a) PROVE TypeInv'
<1>1. PICK actor \in Orgs \cup {NoOrg}, f \in Forms :
        edit' = [edit EXCEPT ![a] = [IdleEdit EXCEPT !.pc = "caps", !.actor = actor, !.form = f, !.row = account]]
  BY DEF ReadAccount
<1> DEFINE e == [IdleEdit EXCEPT !.pc = "caps", !.actor = actor, !.form = f, !.row = account]
<1>2. account \in AccountRows
  BY DEF TypeInv, RowInv
<1>3. e \in EditStates /\ e.pc = "caps" /\ e.form = f
  BY <1>2, IdleLemma DEF EditStates, EditPcs
<1>4. FormFits(e)
  BY <1>3 DEF FormFits, AccountPcs, OrgPcs
<1> HIDE DEF e
<1>5. EditInv'
  BY <1>1, <1>3, <1>4, EditFrame DEF TypeInv, e
<1>6. QED
  BY <1>5, BegunLemma DEF ReadAccount, TypeInv, RowInv, LoginInv

LEMMA ReadCapsTypes == ASSUME TypeInv, NEW a \in Admins, ReadCaps(a) PROVE TypeInv'
<1> DEFINE e == edit[a]
           pc == IF e.form.password THEN "sweep" ELSE "validate"
           next == [e EXCEPT !.had = caps, !.pc = pc]
<1>1. e \in EditStates /\ FormFits(e) /\ e.pc = "caps"
  BY DEF TypeInv, EditInv, ReadCaps
<1>2. caps \in SUBSET Capabilities
  BY DEF TypeInv, RowInv
<1>3. edit' = [edit EXCEPT ![a] = IdleEdit] \/ edit' = [edit EXCEPT ![a] = next]
  BY DEF ReadCaps
<1>4. next \in EditStates /\ next.pc = pc /\ next.form = e.form
  BY <1>1, <1>2 DEF EditStates, EditPcs
<1>5. FormFits(next)
  BY <1>1, <1>4 DEF FormFits, AccountPcs, OrgPcs
<1> HIDE DEF next
<1>6. EditInv'
  BY <1>3, <1>4, <1>5, IdleLemma, EditFrame DEF TypeInv
<1>7. QED
  BY <1>6 DEF ReadCaps, TypeInv, RowInv, LoginInv

LEMMA EndSessionsTypes == ASSUME TypeInv, NEW a \in Admins, EndSessions(a) PROVE TypeInv'
<1> DEFINE e == edit[a]
           next == [e EXCEPT !.pc = "validate", !.sweep = sweeps + 1]
<1>1. e \in EditStates /\ FormFits(e) /\ e.pc = "sweep" /\ sweeps + 1 \in Nat
  BY DEF TypeInv, EditInv, RowInv, EndSessions
<1>2. edit' = [edit EXCEPT ![a] = next]
  BY <1>1 DEF EndSessions, TypeInv, EditInv, EditStates
<1>3. next \in EditStates /\ next.pc = "validate" /\ next.form = e.form
  BY <1>1 DEF EditStates, EditPcs
<1>4. FormFits(next)
  BY <1>1, <1>3 DEF FormFits, AccountPcs, OrgPcs
<1> HIDE DEF next
<1>5. EditInv'
  BY <1>2, <1>3, <1>4, EditFrame DEF TypeInv
<1>6. QED
  BY <1>1, <1>5 DEF EndSessions, TypeInv, RowInv, LoginInv

\* The columns an UPDATE computes are of their types.
LEMMA NextColumns ==
  ASSUME NEW e \in EditStates, e.form \in Forms
  PROVE  /\ NextOrg(e) \in Orgs \cup {NoOrg} /\ NextCaps(e) \in SUBSET Capabilities
         /\ \A role \in Roles \cup {NoRole} : Given(e.form.role, role) \in Roles \cup {NoRole}
         /\ \A active \in BOOLEAN : Given(e.form.active, active) \in BOOLEAN
<1>1. e.row.org \in Orgs \cup {NoOrg} /\ e.actor \in Orgs \cup {NoOrg} /\ e.had \in SUBSET Capabilities
  BY EditFields, RowFields
<1>2. NextCaps(e) \in SUBSET Capabilities
  BY <1>1, ResolvedLemma DEF NextCaps
<1>3. NextOrg(e) \in Orgs \cup {NoOrg}
  BY <1>1, FormLemma DEF NextOrg, NormalizedOrg
<1>4. QED
  BY <1>2, <1>3, FormLemma DEF Given

LEMMA UpdateAccountTypes == ASSUME TypeInv, NEW a \in Admins, UpdateAccount(a) PROVE TypeInv'
<1>1. PICK e : e = edit[a]
  OBVIOUS
<1>2. e \in EditStates /\ FormFits(e) /\ e.pc = "validate"
  BY <1>1 DEF TypeInv, EditInv, UpdateAccount
<1>3. e.form \in Forms /\ e.sweep \in Nat
  BY <1>2, EditFields DEF FormFits, AccountPcs
<1>4. CASE RoleAllowed(e.actor, NextRole(e), NextOrg(e))
  <2> DEFINE next == [IdleEdit EXCEPT !.pc = "sync", !.give = NextCaps(e)]
             role == Given(e.form.role, account.role)
             active == Given(e.form.active, account.active)
             org == IF e.form.org = Keep THEN account.org ELSE NextOrg(e)
             upload == "upload" \in NextCaps(e)
             since == IF e.form.password THEN e.sweep ELSE account.since
  <2>1. /\ edit' = [edit EXCEPT ![a] = next]
        /\ account' = [account EXCEPT !.role = role, !.active = active, !.org = org,
                                      !.upload = upload, !.since = since]
    BY <1>1, <1>4 DEF UpdateAccount, TypeInv, RowInv, AccountRows
  <2>2. account \in AccountRows
    BY DEF TypeInv, RowInv
  <2>3. role \in Roles \cup {NoRole} /\ org \in Orgs \cup {NoOrg} /\ active \in BOOLEAN
        /\ upload \in BOOLEAN /\ since \in Nat
    BY <1>2, <1>3, <2>2, RowFields, NextColumns
  <2> HIDE DEF role, active, org, upload, since
  <2>4. account' \in AccountRows
    BY <2>1, <2>2, <2>3 DEF AccountRows
  <2>5. next \in EditStates /\ next.pc = "sync"
    BY <1>2, <1>3, NextColumns, IdleLemma DEF EditStates, EditPcs
  <2>6. FormFits(next)
    BY <2>5 DEF FormFits, AccountPcs, OrgPcs
  <2> HIDE DEF next
  <2>7. EditInv'
    BY <2>1, <2>5, <2>6, EditFrame DEF TypeInv
  <2>8. QED
    BY <2>4, <2>7 DEF UpdateAccount, TypeInv, RowInv, LoginInv
<1>5. CASE ~RoleAllowed(e.actor, NextRole(e), NextOrg(e))
  <2>1. edit' = [edit EXCEPT ![a] = IdleEdit] /\ account' = account
    BY <1>1, <1>5 DEF UpdateAccount
  <2>2. EditInv'
    BY <2>1, IdleLemma, EditFrame DEF TypeInv
  <2>3. QED
    BY <2>1, <2>2 DEF UpdateAccount, TypeInv, RowInv, LoginInv
<1>6. QED
  BY <1>4, <1>5

LEMMA SyncMembershipTypes == ASSUME TypeInv, NEW a \in Admins, SyncMembership(a) PROVE TypeInv'
<1> DEFINE e == edit[a]
           next == [e EXCEPT !.pc = "grant"]
<1>1. e \in EditStates /\ FormFits(e)
  BY DEF TypeInv, EditInv
<1>2. edit' = [edit EXCEPT ![a] = next]
  BY DEF SyncMembership
<1>3. next \in EditStates /\ FormFits(next)
  BY <1>1, PcLemma DEF EditPcs
<1> HIDE DEF next
<1>4. EditInv'
  BY <1>2, <1>3, EditFrame DEF TypeInv
<1>5. membership' \in Memberships
  BY IdleLemma, RowFields DEF SyncMembership, MembershipOf, Memberships, TypeInv, RowInv
<1>6. QED
  BY <1>4, <1>5 DEF SyncMembership, TypeInv, RowInv, LoginInv

LEMMA ReplaceCapsTypes == ASSUME TypeInv, NEW a \in Admins, ReplaceCaps(a) PROVE TypeInv'
<1>1. edit' = [edit EXCEPT ![a] = IdleEdit]
  BY DEF ReplaceCaps
<1>2. EditInv'
  BY <1>1, IdleLemma, EditFrame DEF TypeInv
<1>3. edit[a].give \in SUBSET Capabilities
  BY EditFields DEF TypeInv, EditInv
<1>4. QED
  BY <1>2, <1>3 DEF ReplaceCaps, TypeInv, RowInv, LoginInv

LEMMA ReadOrgTypes == ASSUME TypeInv, NEW a \in Admins, ReadOrg(a) PROVE TypeInv'
<1>1. PICK actor \in Orgs \cup {NoOrg}, o \in Orgs, f \in OrgForms :
        edit' = [edit EXCEPT ![a] = [IdleEdit EXCEPT !.actor = actor, !.form = f, !.org = o,
            !.pc = IF Given(f.channel, orgs[o].channel) \in {orgs[o].channel, NoChannel}
                   THEN "orgUpdate" ELSE "channel"]]
  BY DEF ReadOrg
<1>2. PICK pc \in {"orgUpdate", "channel"} :
        edit' = [edit EXCEPT ![a] = [IdleEdit EXCEPT !.actor = actor, !.form = f, !.org = o, !.pc = pc]]
  BY <1>1
<1> DEFINE e == [IdleEdit EXCEPT !.actor = actor, !.form = f, !.org = o, !.pc = pc]
<1>3. e \in EditStates /\ e.pc = pc /\ e.form = f /\ e.org = o
  BY IdleLemma DEF EditStates, EditPcs
<1>4. FormFits(e)
  BY <1>3 DEF FormFits, AccountPcs, OrgPcs
<1> HIDE DEF e
<1>5. EditInv'
  BY <1>2, <1>3, <1>4, EditFrame DEF TypeInv, e
<1>6. QED
  BY <1>5, BegunLemma DEF ReadOrg, TypeInv, RowInv, LoginInv

LEMMA CheckChannelTypes == ASSUME TypeInv, NEW a \in Admins, CheckChannel(a) PROVE TypeInv'
<1> DEFINE next == [edit[a] EXCEPT !.pc = "orgUpdate"]
<1>1. edit[a] \in EditStates /\ FormFits(edit[a]) /\ edit[a].pc = "channel"
  BY DEF TypeInv, EditInv, CheckChannel
<1>2. edit' = [edit EXCEPT ![a] = IdleEdit] \/ edit' = [edit EXCEPT ![a] = next]
  BY DEF CheckChannel
<1>3. next \in EditStates /\ FormFits(next)
  BY <1>1, PcLemma DEF EditPcs, OrgPcs
<1> HIDE DEF next
<1>4. EditInv'
  BY <1>2, <1>3, IdleLemma, EditFrame DEF TypeInv
<1>5. QED
  BY <1>4 DEF CheckChannel, TypeInv, RowInv, LoginInv

LEMMA UpdateOrgTypes == ASSUME TypeInv, NEW a \in Admins, UpdateOrg(a) PROVE TypeInv'
<1>1. PICK e : e = edit[a]
  OBVIOUS
<1> DEFINE next == [e EXCEPT !.pc = "modules"]
<1>2. e \in EditStates /\ FormFits(e) /\ e.pc = "orgUpdate"
  BY <1>1 DEF TypeInv, EditInv, UpdateOrg
<1>3. e.form \in OrgForms /\ e.org \in Orgs
  BY <1>2 DEF FormFits, OrgPcs
<1>4. orgs' \in [Orgs -> OrgRows]
  <2> DEFINE row == orgs[e.org]
             active == Given(e.form.active, row.active)
             channel == Given(e.form.channel, row.channel)
  <2>1. row \in OrgRows
    BY <1>3 DEF TypeInv, RowInv
  <2>2. active \in BOOLEAN /\ channel \in Channels \cup {NoChannel}
    BY <1>3, <2>1, OrgFormLemma DEF Given, OrgRows
  <2>3. [row EXCEPT !.active = active, !.channel = channel] \in OrgRows
    BY <2>1, <2>2 DEF OrgRows
  <2>4. orgs' = [orgs EXCEPT ![e.org] = [row EXCEPT !.active = active, !.channel = channel]]
    BY <1>1, <1>3, <2>1 DEF UpdateOrg, TypeInv, RowInv, OrgRows
  <2>5. QED
    BY <2>3, <2>4 DEF TypeInv, RowInv
<1>5. CASE e.form.modules # Keep /\ e.actor = NoOrg
  <2>1. edit' = [edit EXCEPT ![a] = next]
    BY <1>1, <1>5 DEF UpdateOrg
  <2>2. next \in EditStates /\ next.pc = "modules" /\ next.form = e.form /\ next.org = e.org
    BY <1>2 DEF EditStates, EditPcs
  <2>3. FormFits(next)
    BY <1>3, <1>5, <2>2 DEF FormFits, AccountPcs, OrgPcs
  <2> HIDE DEF next
  <2>4. QED
    BY <1>4, <2>1, <2>2, <2>3, EditFrame DEF UpdateOrg, TypeInv, RowInv, LoginInv
<1>6. CASE ~(e.form.modules # Keep /\ e.actor = NoOrg)
  <2>1. edit' = [edit EXCEPT ![a] = IdleEdit]
    BY <1>1, <1>6 DEF UpdateOrg
  <2>2. EditInv'
    BY <2>1, IdleLemma, EditFrame DEF TypeInv
  <2>3. QED
    BY <1>4, <2>2 DEF UpdateOrg, TypeInv, RowInv, LoginInv
<1>7. QED
  BY <1>5, <1>6

LEMMA ReplaceModulesTypes == ASSUME TypeInv, NEW a \in Admins, ReplaceModules(a) PROVE TypeInv'
<1>1. PICK e : e = edit[a]
  OBVIOUS
<1>2. e.form \in OrgForms /\ e.org \in Orgs /\ e.form.modules # Keep
  BY <1>1 DEF TypeInv, EditInv, FormFits, OrgPcs, ReplaceModules
<1>3. e.form.modules \in BOOLEAN
  BY <1>2, OrgFormLemma
<1>4. edit' = [edit EXCEPT ![a] = IdleEdit] /\ orgs' = [orgs EXCEPT ![e.org].modules = e.form.modules]
  BY <1>1 DEF ReplaceModules
<1>5. orgs' \in [Orgs -> OrgRows]
  BY <1>2, <1>3, <1>4 DEF TypeInv, RowInv, OrgRows
<1>6. EditInv'
  BY <1>4, IdleLemma, EditFrame DEF TypeInv
<1>7. QED
  BY <1>5, <1>6 DEF ReplaceModules, TypeInv, RowInv, LoginInv

LEMMA DieTypes == ASSUME TypeInv, NEW a \in Admins, Die(a) PROVE TypeInv'
<1> DEFINE next == [IdleEdit EXCEPT !.pc = "dead"]
<1>1. edit' = [edit EXCEPT ![a] = next]
  BY DEF Die
<1>2. next \in EditStates /\ FormFits(next)
  BY IdleLemma, PcLemma DEF EditPcs
<1> HIDE DEF next
<1>3. EditInv'
  BY <1>1, <1>2, EditFrame DEF TypeInv
<1>4. QED
  BY <1>3 DEF Die, TypeInv, RowInv, LoginInv

\* A nonempty set of naturals has a least element.
LEMMA Least ==
  ASSUME NEW T \in SUBSET Nat, T # {}
  PROVE  \E x \in T : \A y \in T : x <= y
<1> DEFINE R == {p \in Nat \X Nat : p[1] < p[2]}
<1>1. IsWellFoundedOn(R, Nat)
  BY NatLessThanWellFounded DEF OpToRel
<1>2. PICK x \in T : \A y \in T : <<y, x>> \notin R
  <2> HIDE DEF R
  <2> QED BY <1>1, WFMin
<1>3. ASSUME NEW y \in T
      PROVE  x <= y
  <2>1. <<y, x>> \notin R /\ <<y, x>> \in Nat \X Nat
    BY <1>2
  <2>2. ~(y < x)
    BY <2>1
  <2>3. QED
    BY <2>2
<1>4. QED
  BY <1>2, <1>3

\* The token of a new session
LeastToken == CHOOSE t \in FreeTokens : \A u \in FreeTokens : t <= u

LEMMA TokenLemma ==
  ASSUME FreeTokens # {}
  PROVE  LeastToken \in FreeTokens /\ LeastToken \in 1..MaxSessions
<1>1. FreeTokens \in SUBSET Nat /\ FreeTokens \subseteq 1..MaxSessions
  BY AccessAssumption DEF FreeTokens
<1>2. \E t \in FreeTokens : \A u \in FreeTokens : t <= u
  BY <1>1, Least
<1>3. QED
  BY <1>1, <1>2 DEF LeastToken

LEMMA LoginTypes == ASSUME TypeInv, NEW l \in Logins, LoginStep(l) PROVE TypeInv'
<1> USE DEF TypeInv
<1>1. login[l] \in LoginStates /\ login[l].device \in Devices \cup {NoDevice}
  BY DEF LoginInv, LoginStates
<1>2. CASE ReadLogin(l)
  <2>1. PICK d \in Devices \cup {NoDevice} : login' = [login EXCEPT ![l] = [pc |-> "expired", device |-> d]]
    BY <1>2 DEF ReadLogin
  <2>2. LoginInv'
    BY <1>2, <2>1 DEF ReadLogin, LoginInv, LoginStates
  <2>3. begun' \in 0..MaxRequests
    BY <1>2, AccessAssumption DEF ReadLogin, RowInv
  <2>4. QED
    BY <1>2, <2>2, <2>3 DEF ReadLogin, RowInv, EditInv
<1>3. CASE DeleteExpired(l)
  <2>1. PICK pc \in {"count", "device"} : login' = [login EXCEPT ![l].pc = pc]
    BY <1>3 DEF DeleteExpired
  <2>2. LoginInv'
    BY <1>1, <1>3, <2>1 DEF DeleteExpired, LoginInv, LoginStates, LiveSessions
  <2>3. QED
    BY <1>3, <2>2 DEF DeleteExpired, RowInv, EditInv
<1>4. CASE DeleteDevice(l)
  <2>1. LoginInv'
    BY <1>1, <1>4 DEF DeleteDevice, LoginInv, LoginStates
  <2>2. QED
    BY <1>4, <2>1 DEF DeleteDevice, RowInv, EditInv
<1>5. CASE CountDevices(l)
  <2>1. login' = [login EXCEPT ![l] = IdleLogin] \/ login' = [login EXCEPT ![l].pc = "create"]
    BY <1>5 DEF CountDevices
  <2>2. LoginInv'
    BY <1>1, <1>5, <2>1, IdleLemma DEF CountDevices, LoginInv, LoginStates
  <2>3. QED
    BY <1>5, <2>2 DEF CountDevices, RowInv, EditInv
<1>6. CASE CreateSession(l)
  <2> DEFINE new == [token |-> LeastToken, device |-> login[l].device, live |-> TRUE, sweeps |-> sweeps]
  <2>1. sessions' = sessions \cup {new} /\ login' = [login EXCEPT ![l] = IdleLogin]
    BY <1>6 DEF CreateSession, LeastToken
  <2>2. new \in Sessions
    BY <1>1, <1>6, TokenLemma DEF CreateSession, Sessions, RowInv
  <2>3. LoginInv'
    BY <2>1, <2>2, IdleLemma DEF LoginInv
  <2>4. QED
    BY <1>6, <2>3 DEF CreateSession, RowInv, EditInv
<1>7. QED
  BY <1>2, <1>3, <1>4, <1>5, <1>6 DEF LoginStep

LEMMA SessionTypes == ASSUME TypeInv, NEW s \in sessions, Logout(s) \/ Expire(s) PROVE TypeInv'
<1>1. s \in Sessions /\ [s EXCEPT !.live = FALSE] \in Sessions
  BY DEF TypeInv, LoginInv, Sessions
<1>2. sessions' \subseteq Sessions
  BY <1>1 DEF Logout, Expire, TypeInv, LoginInv
<1>3. QED
  BY <1>2 DEF Logout, Expire, TypeInv, RowInv, EditInv, LoginInv

LEMMA EditTypes == ASSUME TypeInv, NEW a \in Admins, EditStep(a) PROVE TypeInv'
BY CheckNewTypes, InsertTypes, ReadAccountTypes, ReadCapsTypes, EndSessionsTypes, UpdateAccountTypes,
   SyncMembershipTypes, ReplaceCapsTypes, ReadOrgTypes, CheckChannelTypes, UpdateOrgTypes,
   ReplaceModulesTypes, DieTypes
   DEF EditStep

LEMMA TypeNext == ASSUME TypeInv, [Next]_vars PROVE TypeInv'
<1>1. CASE UNCHANGED vars
  BY <1>1 DEF vars, TypeInv, RowInv, EditInv, LoginInv
<1>2. CASE Next
  BY <1>2, LoginTypes, EditTypes, SessionTypes DEF Next
<1>3. QED
  BY <1>1, <1>2

THEOREM AccessTypeInductive == Spec => []TypeInv
<1>1. Init => TypeInv
  BY AccessTypeInit
<1>2. TypeInv /\ [Next]_vars => TypeInv'
  BY TypeNext
<1>3. QED
  BY <1>1, <1>2, PTL DEF Spec

\* Every table and request of the account holds values of its type.
THEOREM AccessTypeCorrect == Spec => []TypeOK
<1>1. TypeInv => TypeOK
  BY DEF TypeInv, RowInv, EditInv, LoginInv, TypeOK, EditStates
<1>2. QED
  BY <1>1, AccessTypeInductive, PTL

-----------------------------------------------------------------------------
(* The membership mirrors the account.                                       *)

LEMMA MirrorInit == Init => MembershipMirrorsAccount
<1> SUFFICES ASSUME Init PROVE membership = MembershipOf(account)
  BY DEF MembershipMirrorsAccount
<1>1. CASE account = NoAccount /\ membership = NoMembership
  BY <1>1 DEF MembershipOf, NoAccount
<1>2. ASSUME NEW o \in Orgs,
             account = [role |-> "operator", org |-> o, active |-> TRUE, upload |-> TRUE, since |-> 0],
             membership = [org |-> o, role |-> "operator", active |-> TRUE]
      PROVE  membership = MembershipOf(account)
  <2>1. account.org = o /\ account.role = "operator" /\ account.active = TRUE
    BY <1>2
  <2>2. QED
    BY <1>2, <2>1, AccessAssumption DEF MembershipOf
<1>3. QED
  BY <1>1, <1>2 DEF Init

\* Neither changes, and no request leaves the steps between which they differ.
LEMMA MirrorFrame ==
  ASSUME TypeInv, MembershipMirrorsAccount, NEW a \in Admins, UNCHANGED <<account, membership>>,
         edit[a].pc \notin {"sync", "dead"}, NEW e, edit' = [edit EXCEPT ![a] = e]
  PROVE  MembershipMirrorsAccount'
BY DEF MembershipMirrorsAccount, MembershipOf, TypeInv, EditInv

LEMMA MirrorNext == ASSUME TypeInv, MembershipMirrorsAccount, [Next]_vars PROVE MembershipMirrorsAccount'
<1>1. CASE UNCHANGED <<account, membership, edit>>
  BY <1>1 DEF MembershipMirrorsAccount, MembershipOf
<1>2. ASSUME NEW a \in Admins, EditStep(a)
      PROVE  MembershipMirrorsAccount'
  <2>1. \A e : edit' = [edit EXCEPT ![a] = e] => edit'[a] = e
    BY DEF TypeInv, EditInv
  <2>2. CASE SyncMembership(a)
    BY <2>2 DEF SyncMembership, MembershipMirrorsAccount, MembershipOf
  <2>3. CASE Die(a)
    <3>1. edit'[a].pc = "dead"
      BY <2>1, <2>3 DEF Die, IdleEdit
    <3>2. QED
      BY <3>1 DEF MembershipMirrorsAccount
  <2>4. CASE Insert(a)
    <3>1. CASE account.role = NoRole
      <4>1. edit'[a].pc = "sync"
        BY <2>1, <2>4, <3>1 DEF Insert, IdleEdit
      <4>2. QED
        BY <4>1 DEF MembershipMirrorsAccount
    <3>2. CASE account.role # NoRole
      BY <2>4, <3>2, MirrorFrame DEF Insert
    <3>3. QED
      BY <3>1, <3>2
  <2>5. CASE UpdateAccount(a)
    <3>1. CASE RoleAllowed(edit[a].actor, NextRole(edit[a]), NextOrg(edit[a]))
      <4>1. edit'[a].pc = "sync"
        BY <2>1, <2>5, <3>1 DEF UpdateAccount, IdleEdit
      <4>2. QED
        BY <4>1 DEF MembershipMirrorsAccount
    <3>2. CASE ~RoleAllowed(edit[a].actor, NextRole(edit[a]), NextOrg(edit[a]))
      BY <2>5, <3>2, MirrorFrame DEF UpdateAccount
    <3>3. QED
      BY <3>1, <3>2
  <2>6. CASE CheckNew(a) \/ ReadAccount(a) \/ ReadOrg(a)
    BY <2>6, MirrorFrame DEF CheckNew, ReadAccount, ReadOrg, Begun
  <2>7. CASE ReadCaps(a) \/ ReplaceCaps(a) \/ CheckChannel(a) \/ UpdateOrg(a) \/ ReplaceModules(a)
    BY <2>7, MirrorFrame DEF ReadCaps, ReplaceCaps, CheckChannel, UpdateOrg, ReplaceModules
  <2>8. CASE EndSessions(a)
    <3>1. edit' = [edit EXCEPT ![a] = edit'[a]]
      BY <2>8 DEF EndSessions, TypeInv, EditInv
    <3>2. QED
      BY <2>8, <3>1, MirrorFrame DEF EndSessions
  <2>9. QED
    BY <1>2, <2>2, <2>3, <2>4, <2>5, <2>6, <2>7, <2>8 DEF EditStep
<1>3. CASE \E l \in Logins : LoginStep(l)
  BY <1>1, <1>3 DEF LoginStep, ReadLogin, DeleteExpired, DeleteDevice, CountDevices, CreateSession
<1>4. CASE \E s \in sessions : Logout(s) \/ Expire(s)
  BY <1>1, <1>4 DEF Logout, Expire
<1>5. QED
  BY <1>1, <1>2, <1>3, <1>4 DEF Next, vars

\* Between requests the membership is the account's organization, role and
\* activity, in whatever order overlapping edits stored and copied them.
THEOREM MembershipMirrors == Spec => []MembershipMirrorsAccount
<1>1. TypeInv /\ MembershipMirrorsAccount /\ [Next]_vars => MembershipMirrorsAccount'
  BY MirrorNext
<1>2. QED
  BY <1>1, MirrorInit, AccessTypeInductive, PTL DEF Spec

-----------------------------------------------------------------------------
(* A password change ends the sessions opened before it.                     *)

\* No session was opened before the last sweep, and no request and no account
\* knows of a later one.
Past(e, n) == e.sweep \in 0..n /\ e.row.since \in 0..n

SweepInv ==
  /\ \A s \in sessions : s.sweeps = sweeps
  /\ account.since \in 0..sweeps
  /\ \A a \in Admins : Past(edit[a], sweeps)

LEMMA PastIdle == ASSUME NEW n \in Nat PROVE Past(IdleEdit, n)
BY DEF Past, IdleEdit, NoAccount

LEMMA SweepInit == Init => SweepInv
<1> SUFFICES ASSUME Init PROVE SweepInv
  OBVIOUS
<1>1. account.since = 0
  BY DEF Init, NoAccount
<1>2. QED
  BY <1>1, PastIdle DEF Init, SweepInv

\* A request that goes on with numbers of past sweeps
LEMMA SweepFrame ==
  ASSUME TypeInv, SweepInv, NEW a \in Admins, NEW e, edit' = [edit EXCEPT ![a] = e],
         Past(e, sweeps), account'.since \in 0..sweeps, UNCHANGED <<sessions, sweeps>>
  PROVE  SweepInv'
<1>1. ASSUME NEW b \in Admins
      PROVE  Past(edit'[b], sweeps)
  BY <1>1 DEF TypeInv, EditInv, SweepInv
<1>2. QED
  BY <1>1 DEF SweepInv, Past

\* What a request that begins holds, and one that goes on
LEMMA PastBegun ==
  ASSUME NEW n \in Nat, NEW pc, NEW actor, NEW form, NEW give, NEW org, NEW row, row.since \in 0..n
  PROVE  /\ Past([IdleEdit EXCEPT !.pc = pc, !.actor = actor, !.give = give, !.row = row], n)
         /\ Past([IdleEdit EXCEPT !.pc = pc, !.actor = actor, !.form = form, !.row = row], n)
         /\ Past([IdleEdit EXCEPT !.actor = actor, !.form = form, !.org = org, !.pc = pc], n)
         /\ Past([IdleEdit EXCEPT !.pc = pc, !.give = give], n)
         /\ Past([IdleEdit EXCEPT !.pc = pc], n)
BY DEF Past, IdleEdit, NoAccount

LEMMA PastGoesOn ==
  ASSUME NEW n, NEW e \in EditStates, Past(e, n), NEW pc, NEW had
  PROVE  Past([e EXCEPT !.pc = pc], n) /\ Past([e EXCEPT !.had = had, !.pc = pc], n)
BY DEF Past, EditStates

LEMMA SweepEdit == ASSUME TypeInv, SweepInv, NEW a \in Admins, EditStep(a) PROVE SweepInv'
<1> DEFINE e == edit[a]
<1>1. e \in EditStates /\ Past(e, sweeps) /\ sweeps \in Nat /\ account \in AccountRows
  BY DEF TypeInv, EditInv, RowInv, SweepInv
<1>2. account.since \in 0..sweeps
  BY DEF SweepInv
<1>3. CASE EndSessions(a)
  <2> DEFINE next == [e EXCEPT !.pc = "validate", !.sweep = sweeps + 1]
  <2>1. edit' = [edit EXCEPT ![a] = next]
    BY <1>1, <1>3 DEF EndSessions, TypeInv, EditInv, EditStates
  <2>2. next.sweep = sweeps + 1 /\ next.row = e.row
    BY <1>1 DEF EditStates
  <2>3. Past(next, sweeps + 1)
    BY <1>1, <2>2 DEF Past
  <2> HIDE DEF next
  <2>4. ASSUME NEW b \in Admins
        PROVE  Past(edit'[b], sweeps + 1)
    <3>1. Past(edit[b], sweeps + 1)
      BY <1>1 DEF SweepInv, Past
    <3>2. QED
      BY <2>1, <2>3, <3>1 DEF TypeInv, EditInv
  <2>5. sweeps' = sweeps + 1 /\ sessions' = {} /\ account' = account
    BY <1>3 DEF EndSessions
  <2>6. account'.since \in 0..sweeps'
    BY <1>1, <1>2, <2>5
  <2>7. QED
    BY <2>4, <2>5, <2>6 DEF SweepInv, Past
<1>4. CASE CheckNew(a)
  <2>1. PICK actor \in Orgs \cup {NoOrg}, f \in Forms :
          LET role == Given(f.role, "operator")
              org  == NormalizedOrg(actor, Given(f.org, NoOrg))
              give == Resolved(role, f, Given(f.upload, role # "guest"), {})
          IN edit' = [edit EXCEPT ![a] = [IdleEdit EXCEPT
               !.pc = "insert", !.actor = actor, !.give = give,
               !.row = [role |-> role, org |-> org, active |-> Given(f.active, TRUE),
                        upload |-> "upload" \in give, since |-> sweeps]]]
    BY <1>4 DEF CheckNew
  <2> DEFINE role == Given(f.role, "operator")
             org  == NormalizedOrg(actor, Given(f.org, NoOrg))
             give == Resolved(role, f, Given(f.upload, role # "guest"), {})
             row  == [role |-> role, org |-> org, active |-> Given(f.active, TRUE),
                      upload |-> "upload" \in give, since |-> sweeps]
             next == [IdleEdit EXCEPT !.pc = "insert", !.actor = actor, !.give = give, !.row = row]
  <2>2. edit' = [edit EXCEPT ![a] = next] /\ row.since = sweeps
    BY <2>1
  <2>3. row.since \in 0..sweeps
    BY <1>1, <2>2
  <2> HIDE DEF row, give
  <2>4. Past(next, sweeps)
    BY <1>1, <2>3, PastBegun
  <2> HIDE DEF next
  <2>5. account'.since \in 0..sweeps /\ UNCHANGED <<sessions, sweeps>>
    BY <1>2, <1>4 DEF CheckNew
  <2>6. QED
    BY <2>2, <2>4, <2>5, SweepFrame
<1>5. CASE ReadAccount(a)
  <2>1. PICK actor \in Orgs \cup {NoOrg}, f \in Forms :
          edit' = [edit EXCEPT ![a] = [IdleEdit EXCEPT !.pc = "caps", !.actor = actor, !.form = f, !.row = account]]
    BY <1>5 DEF ReadAccount
  <2>2. Past([IdleEdit EXCEPT !.pc = "caps", !.actor = actor, !.form = f, !.row = account], sweeps)
    BY <1>1, <1>2, PastBegun
  <2>3. account'.since \in 0..sweeps /\ UNCHANGED <<sessions, sweeps>>
    BY <1>2, <1>5 DEF ReadAccount
  <2>4. QED
    BY <2>1, <2>2, <2>3, SweepFrame
<1>6. CASE ReadOrg(a)
  <2>1. PICK actor \in Orgs \cup {NoOrg}, o \in Orgs, f \in OrgForms :
        edit' = [edit EXCEPT ![a] = [IdleEdit EXCEPT !.actor = actor, !.form = f, !.org = o,
            !.pc = IF Given(f.channel, orgs[o].channel) \in {orgs[o].channel, NoChannel}
                   THEN "orgUpdate" ELSE "channel"]]
    BY <1>6 DEF ReadOrg
  <2>2. PICK pc \in {"orgUpdate", "channel"} :
        edit' = [edit EXCEPT ![a] = [IdleEdit EXCEPT !.actor = actor, !.form = f, !.org = o, !.pc = pc]]
    BY <2>1
  <2>3. Past([IdleEdit EXCEPT !.actor = actor, !.form = f, !.org = o, !.pc = pc], sweeps)
    BY <1>1, <1>2, PastBegun
  <2>4. account'.since \in 0..sweeps /\ UNCHANGED <<sessions, sweeps>>
    BY <1>2, <1>6 DEF ReadOrg
  <2>5. QED
    BY <2>2, <2>3, <2>4, SweepFrame
<1>7. CASE edit' = [edit EXCEPT ![a] = IdleEdit] /\ UNCHANGED <<account, sessions, sweeps>>
  BY <1>1, <1>2, <1>7, PastIdle, SweepFrame
<1>8. CASE Insert(a) /\ account.role = NoRole
  <2>1. edit' = [edit EXCEPT ![a] = [IdleEdit EXCEPT !.pc = "sync", !.give = e.give]] /\ account' = e.row
    BY <1>8 DEF Insert
  <2>2. Past([IdleEdit EXCEPT !.pc = "sync", !.give = e.give], sweeps)
    BY <1>1, <1>2, PastBegun
  <2>3. account'.since \in 0..sweeps /\ UNCHANGED <<sessions, sweeps>>
    BY <1>1, <1>8, <2>1 DEF Insert, Past
  <2>4. QED
    BY <2>1, <2>2, <2>3, SweepFrame
<1>9. CASE UpdateAccount(a) /\ RoleAllowed(e.actor, NextRole(e), NextOrg(e))
  <2>1. edit' = [edit EXCEPT ![a] = [IdleEdit EXCEPT !.pc = "sync", !.give = NextCaps(e)]]
    BY <1>9 DEF UpdateAccount
  <2>2. Past([IdleEdit EXCEPT !.pc = "sync", !.give = NextCaps(e)], sweeps)
    BY <1>1, <1>2, PastBegun
  <2>3. account'.since = IF e.form.password THEN e.sweep ELSE account.since
    BY <1>1, <1>9 DEF UpdateAccount, AccountRows
  <2>4. account'.since \in 0..sweeps /\ UNCHANGED <<sessions, sweeps>>
    BY <1>1, <1>2, <1>9, <2>3 DEF UpdateAccount, Past
  <2>5. QED
    BY <2>1, <2>2, <2>4, SweepFrame
<1>10. CASE \E pc \in EditPcs, had \in {caps} : \* the request goes on
              /\ \/ edit' = [edit EXCEPT ![a] = [e EXCEPT !.pc = pc]]
                 \/ edit' = [edit EXCEPT ![a] = [e EXCEPT !.had = had, !.pc = pc]]
                 \/ edit' = [edit EXCEPT ![a] = [IdleEdit EXCEPT !.pc = pc]]
              /\ UNCHANGED <<account, sessions, sweeps>>
  <2>1. PICK pc \in EditPcs, had \in {caps} :
              /\ \/ edit' = [edit EXCEPT ![a] = [e EXCEPT !.pc = pc]]
                 \/ edit' = [edit EXCEPT ![a] = [e EXCEPT !.had = had, !.pc = pc]]
                 \/ edit' = [edit EXCEPT ![a] = [IdleEdit EXCEPT !.pc = pc]]
              /\ UNCHANGED <<account, sessions, sweeps>>
    BY <1>10
  <2>2. /\ Past([e EXCEPT !.pc = pc], sweeps) /\ Past([e EXCEPT !.had = had, !.pc = pc], sweeps)
        /\ Past([IdleEdit EXCEPT !.pc = pc], sweeps)
    BY <1>1, <1>2, PastGoesOn, PastBegun
  <2>3. account'.since \in 0..sweeps
    BY <1>2, <2>1
  <2>4. QED
    BY <2>1, <2>2, <2>3, SweepFrame
<1>11. CASE ReadCaps(a)
  BY <1>7, <1>10, <1>11 DEF ReadCaps, EditPcs
<1>12. CASE CheckChannel(a)
  BY <1>7, <1>10, <1>12 DEF CheckChannel, EditPcs
<1>13. CASE UpdateOrg(a)
  BY <1>7, <1>10, <1>13 DEF UpdateOrg, EditPcs
<1>14. CASE SyncMembership(a) \/ Die(a)
  BY <1>10, <1>14 DEF SyncMembership, Die, EditPcs
<1>15. CASE ReplaceCaps(a) \/ ReplaceModules(a)
  BY <1>7, <1>15 DEF ReplaceCaps, ReplaceModules
<1>16. CASE Insert(a) /\ account.role # NoRole
  BY <1>7, <1>16 DEF Insert
<1>17. CASE UpdateAccount(a) /\ ~RoleAllowed(e.actor, NextRole(e), NextOrg(e))
  BY <1>7, <1>17 DEF UpdateAccount
<1>18. QED
  BY <1>3, <1>4, <1>5, <1>6, <1>8, <1>9, <1>11, <1>12, <1>13, <1>14, <1>15, <1>16, <1>17 DEF EditStep

LEMMA SweepNext == ASSUME TypeInv, SweepInv, [Next]_vars PROVE SweepInv'
<1>1. ASSUME UNCHANGED <<account, edit, sweeps>>,
             \A s \in sessions' : s.sweeps = sweeps
      PROVE  SweepInv'
  BY <1>1 DEF SweepInv, Past
<1>2. CASE UNCHANGED <<account, sessions, edit, sweeps>>
  BY <1>1, <1>2 DEF SweepInv
<1>3. ASSUME NEW l \in Logins, LoginStep(l)
      PROVE  SweepInv'
  <2>1. CASE CreateSession(l)
    <3>1. ASSUME NEW s \in sessions' PROVE s.sweeps = sweeps
      BY <2>1, <3>1 DEF CreateSession, SweepInv
    <3>2. QED
      BY <1>1, <2>1, <3>1 DEF CreateSession
  <2>2. CASE DeleteExpired(l) \/ DeleteDevice(l)
    BY <1>1, <2>2 DEF DeleteExpired, DeleteDevice, LiveSessions, SweepInv
  <2>3. CASE ReadLogin(l) \/ CountDevices(l)
    BY <1>2, <2>3 DEF ReadLogin, CountDevices
  <2>4. QED
    BY <1>3, <2>1, <2>2, <2>3 DEF LoginStep
<1>4. ASSUME NEW s \in sessions, Logout(s) \/ Expire(s)
      PROVE  SweepInv'
  <2>1. s \in Sessions /\ s.sweeps = sweeps
    BY DEF TypeInv, LoginInv, SweepInv
  <2>2. [s EXCEPT !.live = FALSE].sweeps = sweeps
    BY <2>1 DEF Sessions
  <2>3. sessions' \subseteq sessions \cup {[s EXCEPT !.live = FALSE]}
    BY <1>4 DEF Logout, Expire
  <2>4. \A x \in sessions' : x.sweeps = sweeps
    BY <2>2, <2>3 DEF SweepInv
  <2>5. QED
    BY <1>1, <1>4, <2>4 DEF Logout, Expire
<1>5. QED
  BY <1>2, <1>3, <1>4, SweepEdit DEF Next, vars

\* No session that still answers is older than the sweep of the change that
\* stored the password: one that survives a change was opened after its sweep.
THEOREM PasswordChangeEnds == Spec => []PasswordChangeEndsSessions
<1>1. TypeInv /\ SweepInv /\ [Next]_vars => SweepInv'
  BY SweepNext
<1>2. TypeInv /\ SweepInv => PasswordChangeEndsSessions
  BY RowFields DEF TypeInv, RowInv, SweepInv, PasswordChangeEndsSessions
<1>3. QED
  BY <1>1, <1>2, SweepInit, AccessTypeInductive, PTL DEF Spec

-----------------------------------------------------------------------------
(* The devices of an account stay within the limit and the logins in flight. *)

Counted  == DeviceKeys(LiveSessions, NoDevice)
Creating == {l \in Logins : login[l].pc = "create"}
Nameless == {l \in Creating : login[l].device = NoDevice}
Named    == Creating \ Nameless

\* The devices of all that log in at once and have passed the count
DevicesOf(ls) == {login[l].device : l \in ls}

\* The keys that will be counted once every login under way has created its session:
\* those of the sessions and the devices about to have one; Nameless adds one each.
Expected == Counted \cup DevicesOf(Named)

DeviceInv ==
  MaxDevices > 0 =>
    /\ IsFiniteSet(Expected)
    /\ Cardinality(Expected) + Cardinality(Nameless) < MaxDevices + Cardinality(Logins)

LEMMA LoginsFinite ==
  /\ IsFiniteSet(Logins) /\ Cardinality(Logins) \in Nat
  /\ \A ls \in SUBSET Logins : IsFiniteSet(ls) /\ Cardinality(ls) \in Nat
<1>1. IsFiniteSet(Logins)
  BY AccessAssumption
<1>2. \A ls \in SUBSET Logins : IsFiniteSet(ls)
  BY <1>1, FS_Subset
<1>3. QED
  BY <1>1, <1>2, FS_CardinalityType

\* Logins have no more devices than they are.
LEMMA DevicesFinite ==
  ASSUME NEW ls \in SUBSET Logins
  PROVE  IsFiniteSet(DevicesOf(ls)) /\ Cardinality(DevicesOf(ls)) <= Cardinality(ls)
<1> DEFINE f == [l \in ls |-> login[l].device]
<1>1. f \in Surjection(ls, DevicesOf(ls))
  BY DEF Surjection, DevicesOf
<1>2. IsFiniteSet(ls)
  BY LoginsFinite
<1> HIDE DEF f
<1>3. QED
  BY <1>1, <1>2, FS_Surjection

LEMMA AddAtMostOne ==
  ASSUME NEW S, IsFiniteSet(S), NEW x
  PROVE  /\ IsFiniteSet(S \cup {x}) /\ Cardinality(S) \in Nat
         /\ Cardinality(S \cup {x}) \in Nat /\ Cardinality(S \cup {x}) <= Cardinality(S) + 1
<1>1. IsFiniteSet(S \cup {x}) /\ Cardinality(S \cup {x}) = IF x \in S THEN Cardinality(S) ELSE Cardinality(S) + 1
  BY FS_AddElement
<1>2. Cardinality(S) \in Nat
  BY FS_CardinalityType
<1>3. QED
  BY <1>1, <1>2

LEMMA DeviceInit == Init => DeviceInv
<1> SUFFICES ASSUME Init, MaxDevices > 0
             PROVE  /\ IsFiniteSet(Expected)
                    /\ Cardinality(Expected) + Cardinality(Nameless) < MaxDevices + Cardinality(Logins)
  BY DEF DeviceInv
<1>1. Creating = {}
  BY DEF Init, Creating, IdleLogin
<1>2. Nameless = {} /\ Named = {}
  BY <1>1 DEF Nameless, Named
<1>3. Counted = {}
  BY DEF Init, Counted, DeviceKeys, LiveSessions
<1>4. Expected = {}
  BY <1>2, <1>3 DEF Expected, DevicesOf
<1>5. QED
  BY <1>2, <1>4, FS_EmptySet, LoginsFinite, AccessAssumption

\* Fewer keys and fewer logins at the last step
LEMMA DeviceShrink ==
  ASSUME DeviceInv, Expected' \subseteq Expected, Nameless' \subseteq Nameless
  PROVE  DeviceInv'
<1> SUFFICES ASSUME MaxDevices > 0
             PROVE  /\ IsFiniteSet(Expected')
                    /\ Cardinality(Expected') + Cardinality(Nameless') < MaxDevices + Cardinality(Logins)
  BY DEF DeviceInv
<1>1. IsFiniteSet(Expected) /\ IsFiniteSet(Nameless)
  BY LoginsFinite DEF DeviceInv, Nameless, Creating
<1>2. /\ IsFiniteSet(Expected') /\ Cardinality(Expected') <= Cardinality(Expected)
      /\ IsFiniteSet(Nameless') /\ Cardinality(Nameless') <= Cardinality(Nameless)
  BY <1>1, FS_Subset
<1>3. /\ Cardinality(Expected) \in Nat /\ Cardinality(Expected') \in Nat
      /\ Cardinality(Nameless) \in Nat /\ Cardinality(Nameless') \in Nat
      /\ Cardinality(Logins) \in Nat
  BY <1>1, <1>2, LoginsFinite, FS_CardinalityType
<1>4. Cardinality(Expected) + Cardinality(Nameless) < MaxDevices + Cardinality(Logins)
  BY DEF DeviceInv
<1>5. QED
  BY <1>2, <1>3, <1>4, AccessAssumption

\* Sessions that end take their keys with them.
LEMMA FewerSessions ==
  ASSUME LiveSessions' \subseteq LiveSessions
  PROVE  Counted' \subseteq Counted
BY DEF Counted, DeviceKeys

LEMMA SameLogins ==
  ASSUME UNCHANGED login
  PROVE  Nameless' = Nameless /\ Named' = Named /\ DevicesOf(Named)' = DevicesOf(Named)
BY DEF Nameless, Named, Creating, DevicesOf

LEMMA DeviceFrame ==
  ASSUME DeviceInv, LiveSessions' \subseteq LiveSessions, UNCHANGED login
  PROVE  DeviceInv'
BY FewerSessions, SameLogins, DeviceShrink DEF Expected

\* A login that moves on without passing the count
LEMMA LoginFrame ==
  ASSUME TypeInv, DeviceInv, LiveSessions' \subseteq LiveSessions, NEW l \in Logins,
         NEW r, r.pc # "create", login' = [login EXCEPT ![l] = r]
  PROVE  DeviceInv'
<1>1. \A m \in Logins : login'[m] = IF m = l THEN r ELSE login[m]
  BY DEF TypeInv, LoginInv
<1>2. Nameless' \subseteq Nameless
  BY <1>1 DEF Nameless, Creating
<1>3. DevicesOf(Named)' \subseteq DevicesOf(Named)
  BY <1>1 DEF Named, Nameless, Creating, DevicesOf
<1>4. QED
  BY <1>2, <1>3, FewerSessions, DeviceShrink DEF Expected

\* The count lets login l pass: with its device the account has at most the limit,
\* and every other login adds at most one key.
LEMMA CountPasses ==
  ASSUME TypeInv, DeviceInv, MaxDevices > 0, NEW l \in Logins, login[l].pc = "count",
         ~LimitReached(login[l].device), login' = [login EXCEPT ![l].pc = "create"], UNCHANGED sessions
  PROVE  DeviceInv'
<1> DEFINE d == login[l].device
           keys == DeviceKeys(LiveSessions, d)
<1>1. /\ \A m \in Logins : m # l => login'[m] = login[m]
      /\ login'[l].pc = "create" /\ login'[l].device = d
  BY DEF TypeInv, LoginInv, LoginStates
<1>2. Counted' = Counted
  BY DEF Counted, LiveSessions
<1>3. l \notin Named /\ l \notin Nameless /\ Named \in SUBSET Logins /\ Nameless \in SUBSET Logins
  BY DEF Named, Nameless, Creating
<1>4. keys \subseteq Counted /\ Counted \subseteq keys \cup {d}
  BY DEF Counted, DeviceKeys
<1>5. IsFiniteSet(Counted) /\ IsFiniteSet(keys)
  <2>1. IsFiniteSet(Expected) /\ Counted \subseteq Expected
    BY DEF DeviceInv, Expected
  <2>2. QED
    BY <1>4, <2>1, FS_Subset
<1>6. Cardinality(keys) \in Nat /\ Cardinality(keys) + 1 <= MaxDevices
  <2>1. Cardinality(keys) \in Nat
    BY <1>5, FS_CardinalityType
  <2>2. QED
    BY <2>1, AccessAssumption DEF LimitReached
<1>7. /\ IsFiniteSet(DevicesOf(Named)) /\ Cardinality(DevicesOf(Named)) <= Cardinality(Named)
      /\ Cardinality(DevicesOf(Named)) \in Nat
      /\ Cardinality(Named) \in Nat /\ Cardinality(Nameless) \in Nat /\ Cardinality(Logins) \in Nat
  BY <1>3, DevicesFinite, LoginsFinite, FS_CardinalityType
<1>8. Cardinality(Named) + Cardinality(Nameless) + 1 <= Cardinality(Logins)
  <2>1. /\ IsFiniteSet(Named) /\ IsFiniteSet(Nameless) /\ Named \cap Nameless = {}
        /\ Named \cup Nameless \in SUBSET (Logins \ {l})
    BY <1>3, LoginsFinite DEF Named
  <2>2. Cardinality(Named \cup Nameless) = Cardinality(Named) + Cardinality(Nameless)
    BY <1>7, <2>1, FS_Union, FS_EmptySet
  <2>3. IsFiniteSet(Logins \ {l}) /\ Cardinality(Logins \ {l}) = Cardinality(Logins) - 1
    BY LoginsFinite, FS_RemoveElement
  <2>4. Cardinality(Named \cup Nameless) <= Cardinality(Logins \ {l})
    BY <2>1, <2>3, FS_Subset
  <2>5. QED
    BY <1>7, <2>2, <2>3, <2>4
<1>9. \A S, T : IsFiniteSet(S) /\ IsFiniteSet(T) =>
        /\ IsFiniteSet(S \cup T) /\ Cardinality(S \cup T) <= Cardinality(S) + Cardinality(T)
        /\ Cardinality(S) \in Nat /\ Cardinality(T) \in Nat /\ Cardinality(S \cup T) \in Nat
  <2> TAKE S, T
  <2> HAVE IsFiniteSet(S) /\ IsFiniteSet(T)
  <2>1. IsFiniteSet(S \cup T) /\ Cardinality(S \cup T) = Cardinality(S) + Cardinality(T) - Cardinality(S \cap T)
    BY FS_Union
  <2>2. IsFiniteSet(S \cap T)
    BY FS_Subset
  <2>3. /\ Cardinality(S) \in Nat /\ Cardinality(T) \in Nat /\ Cardinality(S \cup T) \in Nat
        /\ Cardinality(S \cap T) \in Nat
    BY <2>1, <2>2, FS_CardinalityType
  <2>4. QED
    BY <2>1, <2>3
<1>10. CASE d = NoDevice
  <2>1. Nameless' = Nameless \cup {l} /\ Named' = Named
    BY <1>1, <1>3, <1>10 DEF Nameless, Named, Creating
  <2>2. DevicesOf(Named)' = DevicesOf(Named)
    BY <1>1, <1>3, <2>1 DEF DevicesOf
  <2>3. keys = Counted
    BY <1>10 DEF Counted
  <2>4. Expected' = keys \cup DevicesOf(Named)
    BY <1>2, <2>2, <2>3 DEF Expected
  <2> HIDE DEF keys
  <2>5. /\ IsFiniteSet(Expected') /\ Cardinality(Expected') <= Cardinality(keys) + Cardinality(DevicesOf(Named))
        /\ Cardinality(Expected') \in Nat
    BY <1>5, <1>7, <1>9, <2>4
  <2>6. Cardinality(Nameless') = Cardinality(Nameless) + 1
    BY <1>3, <2>1, LoginsFinite, FS_AddElement
  <2>7. Cardinality(Expected') + Cardinality(Nameless') < MaxDevices + Cardinality(Logins)
    BY <1>6, <1>7, <1>8, <2>5, <2>6, AccessAssumption
  <2>8. QED
    BY <2>5, <2>7 DEF DeviceInv
<1>11. CASE d # NoDevice
  <2>1. Nameless' = Nameless /\ Named' = Named \cup {l}
    BY <1>1, <1>3, <1>11 DEF Nameless, Named, Creating
  <2>2. DevicesOf(Named)' = DevicesOf(Named) \cup {d}
    BY <1>1, <1>3, <2>1 DEF DevicesOf
  <2>3. Expected' = (keys \cup {d}) \cup DevicesOf(Named)
    BY <1>2, <1>4, <2>2 DEF Expected
  <2> HIDE DEF keys, d
  <2>4. IsFiniteSet(keys \cup {d}) /\ Cardinality(keys \cup {d}) <= MaxDevices
    <3>1. /\ IsFiniteSet(keys \cup {d}) /\ Cardinality(keys \cup {d}) \in Nat
          /\ Cardinality(keys \cup {d}) <= Cardinality(keys) + 1
      BY <1>5, AddAtMostOne
    <3>2. MaxDevices \in Nat
      BY AccessAssumption
    <3>3. QED
      BY <1>6, <3>1, <3>2
  <2>5. /\ IsFiniteSet(Expected')
        /\ Cardinality(Expected') <= Cardinality(keys \cup {d}) + Cardinality(DevicesOf(Named))
        /\ Cardinality(Expected') \in Nat /\ Cardinality(keys \cup {d}) \in Nat
    BY <1>7, <1>9, <2>3, <2>4
  <2>6. Cardinality(Expected') + Cardinality(Nameless') < MaxDevices + Cardinality(Logins)
    BY <1>7, <1>8, <2>1, <2>4, <2>5, AccessAssumption
  <2>7. QED
    BY <2>5, <2>6 DEF DeviceInv
<1>12. QED
  BY <1>10, <1>11

\* The session of login l takes the key that was expected of it.
LEMMA CreateCounts ==
  ASSUME TypeInv, DeviceInv, NEW l \in Logins, CreateSession(l)
  PROVE  DeviceInv'
<1> DEFINE d == login[l].device
           new == [token |-> LeastToken, device |-> d, live |-> TRUE, sweeps |-> sweeps]
<1>1. sessions' = sessions \cup {new} /\ login' = [login EXCEPT ![l] = IdleLogin] /\ login[l].pc = "create"
  BY DEF CreateSession, LeastToken
<1>2. new.live = TRUE /\ new.device = d /\ new.token = LeastToken
  OBVIOUS
<1>3. LiveSessions' = LiveSessions \cup {new}
  BY <1>1, <1>2 DEF LiveSessions
<1> HIDE DEF new
<1>4. \A m \in Logins : login'[m] = IF m = l THEN IdleLogin ELSE login[m]
  BY <1>1 DEF TypeInv, LoginInv
<1>5. Creating' = Creating \ {l} /\ l \in Creating
  BY <1>1, <1>4 DEF Creating, IdleLogin
<1>6. Nameless' = Nameless \ {l} /\ Named' = Named \ {l}
  BY <1>4, <1>5 DEF Nameless, Named, Creating
<1>7. DevicesOf(Named)' \subseteq DevicesOf(Named)
  BY <1>4, <1>6 DEF DevicesOf, Named, Creating
<1>8. CASE d # NoDevice
  <2>1. Counted' \subseteq Counted \cup {d}
    BY <1>2, <1>3, <1>8 DEF Counted, DeviceKeys
  <2>2. d \in DevicesOf(Named)
    BY <1>5, <1>8 DEF DevicesOf, Named, Nameless
  <2>3. Expected' \subseteq Expected /\ Nameless' \subseteq Nameless
    BY <1>6, <1>7, <2>1, <2>2 DEF Expected
  <2>4. QED
    BY <2>3, DeviceShrink
<1>9. CASE d = NoDevice
  <2> SUFFICES ASSUME MaxDevices > 0
               PROVE  /\ IsFiniteSet(Expected')
                      /\ Cardinality(Expected') + Cardinality(Nameless') < MaxDevices + Cardinality(Logins)
    BY DEF DeviceInv
  <2>1. Counted' \subseteq Counted \cup {LeastToken}
    BY <1>2, <1>3, <1>9 DEF Counted, DeviceKeys
  <2>2. Expected' \subseteq Expected \cup {LeastToken}
    BY <1>7, <2>1 DEF Expected
  <2>3. /\ IsFiniteSet(Expected) /\ IsFiniteSet(Nameless) /\ l \in Nameless
        /\ Cardinality(Expected) + Cardinality(Nameless) < MaxDevices + Cardinality(Logins)
    BY <1>5, <1>9, LoginsFinite DEF DeviceInv, Nameless, Creating
  <2>4. Cardinality(Nameless') = Cardinality(Nameless) - 1 /\ Cardinality(Nameless) \in Nat
    BY <1>6, <2>3, FS_RemoveElement, FS_CardinalityType
  <2>5. /\ IsFiniteSet(Expected \cup {LeastToken}) /\ Cardinality(Expected) \in Nat
        /\ Cardinality(Expected \cup {LeastToken}) <= Cardinality(Expected) + 1
    BY <2>3, AddAtMostOne
  <2>6. /\ IsFiniteSet(Expected') /\ Cardinality(Expected') \in Nat
        /\ Cardinality(Expected') <= Cardinality(Expected) + 1
    <3>1. IsFiniteSet(Expected') /\ Cardinality(Expected') <= Cardinality(Expected \cup {LeastToken})
      BY <2>2, <2>5, FS_Subset
    <3>2. Cardinality(Expected') \in Nat /\ Cardinality(Expected \cup {LeastToken}) \in Nat
      BY <2>5, <3>1, FS_CardinalityType
    <3>3. QED
      BY <2>5, <3>1, <3>2
  <2>7. QED
    BY <2>3, <2>4, <2>5, <2>6, LoginsFinite, AccessAssumption
<1>10. QED
  BY <1>8, <1>9

LEMMA DeviceNext == ASSUME TypeInv, DeviceInv, [Next]_vars PROVE DeviceInv'
<1>1. CASE UNCHANGED <<sessions, login>>
  BY <1>1, DeviceFrame DEF LiveSessions
<1>2. ASSUME NEW l \in Logins, LoginStep(l)
      PROVE  DeviceInv'
  <2>1. IdleLogin.pc # "create" /\ login[l] \in LoginStates
    BY DEF IdleLogin, TypeInv, LoginInv
  <2>2. \A pc : [login[l] EXCEPT !.pc = pc].pc = pc
    BY <2>1 DEF LoginStates
  <2>3. CASE ReadLogin(l)
    <3>1. PICK d \in Devices \cup {NoDevice} : login' = [login EXCEPT ![l] = [pc |-> "expired", device |-> d]]
      BY <2>3 DEF ReadLogin
    <3>2. LiveSessions' \subseteq LiveSessions
      BY <2>3 DEF ReadLogin, LiveSessions
    <3>3. QED
      BY <3>1, <3>2, LoginFrame
  <2>4. CASE DeleteExpired(l)
    <3>1. PICK pc \in {"count", "device"} : login' = [login EXCEPT ![l] = [login[l] EXCEPT !.pc = pc]]
      BY <2>4 DEF DeleteExpired
    <3>2. LiveSessions' \subseteq LiveSessions
      BY <2>4 DEF DeleteExpired, LiveSessions
    <3>3. [login[l] EXCEPT !.pc = pc].pc # "create"
      BY <2>2
    <3>4. QED
      BY <3>1, <3>2, <3>3, LoginFrame
  <2>5. CASE DeleteDevice(l)
    <3>1. login' = [login EXCEPT ![l] = [login[l] EXCEPT !.pc = "count"]]
      BY <2>5 DEF DeleteDevice
    <3>2. LiveSessions' \subseteq LiveSessions
      BY <2>5 DEF DeleteDevice, LiveSessions
    <3>3. [login[l] EXCEPT !.pc = "count"].pc # "create"
      BY <2>2
    <3>4. QED
      BY <3>1, <3>2, <3>3, LoginFrame
  <2>6. CASE CountDevices(l) /\ LimitReached(login[l].device)
    BY <2>1, <2>6, LoginFrame DEF CountDevices, LiveSessions
  <2>7. CASE CountDevices(l) /\ ~LimitReached(login[l].device)
    <3>1. login' = [login EXCEPT ![l].pc = "create"] /\ UNCHANGED sessions /\ login[l].pc = "count"
      BY <2>7 DEF CountDevices
    <3>2. CASE MaxDevices > 0
      BY <2>7, <3>1, <3>2, CountPasses
    <3>3. CASE ~(MaxDevices > 0)
      BY <3>3 DEF DeviceInv
    <3>4. QED
      BY <3>2, <3>3
  <2>8. CASE CreateSession(l)
    BY <2>8, CreateCounts
  <2>9. QED
    BY <1>2, <2>3, <2>4, <2>5, <2>6, <2>7, <2>8 DEF LoginStep
<1>3. ASSUME NEW s \in sessions, Logout(s) \/ Expire(s)
      PROVE  DeviceInv'
  <2>1. s \in Sessions
    BY DEF TypeInv, LoginInv
  <2>2. [s EXCEPT !.live = FALSE].live = FALSE
    BY <2>1 DEF Sessions
  <2>3. LiveSessions' \subseteq LiveSessions
    BY <1>3, <2>2 DEF Logout, Expire, LiveSessions
  <2>4. QED
    BY <1>3, <2>3, DeviceFrame DEF Logout, Expire
<1>4. ASSUME NEW a \in Admins, EditStep(a)
      PROVE  DeviceInv'
  <2>1. CASE EndSessions(a)
    BY <2>1, DeviceFrame DEF EndSessions, LiveSessions
  <2>2. QED
    BY <1>1, <1>4, <2>1 DEF EditStep, CheckNew, Insert, ReadAccount, ReadCaps, UpdateAccount, SyncMembership,
       ReplaceCaps, ReadOrg, CheckChannel, UpdateOrg, ReplaceModules, Die
<1>5. QED
  BY <1>1, <1>2, <1>3, <1>4 DEF Next, vars

\* Logins at the same time exceed the device limit by at most the number of those
\* that run beside one another.
THEOREM DevicesStayBounded == Spec => []DeviceBound
<1>1. TypeInv /\ DeviceInv /\ [Next]_vars => DeviceInv'
  BY DeviceNext
<1>2. DeviceInv => DeviceBound
  <2> SUFFICES ASSUME DeviceInv, MaxDevices > 0
               PROVE  Cardinality(Counted) < MaxDevices + Cardinality(Logins)
    BY DEF DeviceBound, Counted
  <2>1. IsFiniteSet(Expected) /\ Counted \subseteq Expected
    BY DEF DeviceInv, Expected
  <2>2. Cardinality(Counted) <= Cardinality(Expected) /\ IsFiniteSet(Counted)
    BY <2>1, FS_Subset
  <2>3. /\ Cardinality(Counted) \in Nat /\ Cardinality(Expected) \in Nat
        /\ Cardinality(Nameless) \in Nat /\ Cardinality(Logins) \in Nat
    BY <2>1, <2>2, LoginsFinite, FS_CardinalityType DEF Nameless, Creating
  <2>4. QED
    BY <2>2, <2>3, AccessAssumption DEF DeviceInv
<1>3. QED
  BY <1>1, <1>2, DeviceInit, AccessTypeInductive, PTL DEF Spec

-----------------------------------------------------------------------------
(* Numbers *)

LEMMA LeastLemma ==
  ASSUME NEW T \in SUBSET Nat, T # {}
  PROVE  \E n \in T : \A m \in T : n <= m
<1>1. OpToRel(<, Nat) = {ss \in Nat \X Nat : ss[1] < ss[2]}
  BY DEF OpToRel
<1>2. PICK n \in T : \A m \in T : ~(<<m, n>> \in OpToRel(<, Nat))
  BY NatLessThanWellFounded, WFMin
<1>3. ASSUME NEW m \in T PROVE n <= m
  <2>1. m \in Nat /\ n \in Nat  OBVIOUS
  <2>2. ~(<<m, n>> \in {ss \in Nat \X Nat : ss[1] < ss[2]})  BY <1>1, <1>2
  <2> QED  BY <2>1, <2>2
<1> QED  BY <1>3

\* A bounded set of numbers has a largest one.
LEMMA LargestLemma ==
  ASSUME NEW n \in Nat, NEW T, T \subseteq 1..n, T # {}
  PROVE  \E k \in T : \A l \in T : l <= k
<1>1. PICK U : U = {m \in Nat : \A t \in T : t <= m}  OBVIOUS
<1>2. n \in U /\ U \in SUBSET Nat  BY <1>1
<1>3. PICK m \in U : \A l \in U : m <= l  BY <1>2, LeastLemma
<1>4. m \in Nat /\ \A t \in T : t <= m /\ t \in Nat \ {0}  BY <1>1
<1>5. m \in T
  <2> SUFFICES ASSUME m \notin T PROVE FALSE
    OBVIOUS
  <2>1. \A t \in T : t <= m - 1  BY <1>4
  <2>2. m - 1 \in Nat
    <3>1. PICK t \in T : TRUE  OBVIOUS
    <3>2. t <= m /\ t \in Nat \ {0}  BY <1>4
    <3> QED  BY <1>4, <3>2
  <2>3. m - 1 \in U  BY <1>1, <2>1, <2>2
  <2> QED  BY <1>3, <1>4, <2>3
<1> QED  BY <1>4, <1>5

-----------------------------------------------------------------------------
(* The batches of InvoiceHandoff: what a request may still have to do *)

DecisionAgendas == {<<"update", "log">>, <<"log">>}
ReadyAgendas == {<<"update", "log", "check">>, <<"log", "check">>}
HandOffAgendas == {<<"update", "log", "item">>, <<"log", "item">>}
ChosenAgendas == {<<"start_ready">>, <<"check">>, <<"start_hand_off">>, <<"item">>}
                   \cup ReadyAgendas \cup HandOffAgendas
FillingAgendas == {<<"choose">>, <<"totals">>} \cup ChosenAgendas
Agendas == {<<>>, <<"undo">>, <<"batch">>} \cup DecisionAgendas \cup FillingAgendas

\* The transactions of a decision, wherever it is made.
LEMMA DecisionHeads ==
  /\ Head(<<"update", "log">>) = "update" /\ Tail(<<"update", "log">>) = <<"log">>
  /\ Head(<<"update", "log", "check">>) = "update" /\ Tail(<<"update", "log", "check">>) = <<"log", "check">>
  /\ Head(<<"update", "log", "item">>) = "update" /\ Tail(<<"update", "log", "item">>) = <<"log", "item">>
  /\ Head(<<"log">>) = "log" /\ Tail(<<"log">>) = <<>>
  /\ Head(<<"log", "check">>) = "log" /\ Tail(<<"log", "check">>) = <<"check">>
  /\ Head(<<"log", "item">>) = "log" /\ Tail(<<"log", "item">>) = <<"item">>
<1>1. Head(<<"update", "log">>) = "update" /\ Tail(<<"update", "log">>) = <<"log">>  OBVIOUS
<1>2. Head(<<"update", "log", "check">>) = "update" /\ Tail(<<"update", "log", "check">>) = <<"log", "check">>
  OBVIOUS
<1>3. Head(<<"update", "log", "item">>) = "update" /\ Tail(<<"update", "log", "item">>) = <<"log", "item">>
  OBVIOUS
<1>4. Head(<<"log">>) = "log" /\ Tail(<<"log">>) = <<>>  OBVIOUS
<1>5. Head(<<"log", "check">>) = "log" /\ Tail(<<"log", "check">>) = <<"check">>  OBVIOUS
<1>6. Head(<<"log", "item">>) = "log" /\ Tail(<<"log", "item">>) = <<"item">>  OBVIOUS
<1> QED  BY <1>1, <1>2, <1>3, <1>4, <1>5, <1>6

\* What follows a decision is appended to it.
LEMMA AppendedAgenda ==
  ASSUME NEW S, NEW x \in S, NEW y \in S, NEW z \in S
  PROVE  <<x, y>> \o <<z>> = <<x, y, z>>
<1>1. <<x, y>> \in Seq(S) /\ <<z>> \in Seq(S) /\ <<x, y, z>> \in Seq(S)  OBVIOUS
<1>2. Len(<<x, y>> \o <<z>>) = 3  BY <1>1
<1>3. \A i \in 1..3 : (<<x, y>> \o <<z>>)[i] = <<x, y, z>>[i]  BY <1>1
<1>4. (<<x, y>> \o <<z>>) \in Seq(S)  BY <1>1
<1> QED  BY <1>1, <1>2, <1>3, <1>4, SeqEqual

\* An agenda of one transaction ends with it.
LEMMA SingleHeads ==
  ASSUME NEW s
  PROVE  <<s>> # <<>> /\ Head(<<s>>) = s /\ Tail(<<s>>) = <<>>
OBVIOUS

\* The first transaction of an agenda tells which agenda it is, but for the decisions.
LEMMA AgendaLemma ==
  ASSUME NEW a \in Agendas, a # <<>>
  PROVE  /\ Head(a) = "update" => a \in {<<"update", "log">>, <<"update", "log", "check">>, <<"update", "log", "item">>}
         /\ Head(a) = "log" => a \in {<<"log">>, <<"log", "check">>, <<"log", "item">>}
         /\ \A s \in {"undo", "batch", "choose", "start_ready", "check", "start_hand_off", "item", "totals"} :
              Head(a) = s => a = <<s>>
<1>1. \A s \in {"undo", "batch", "choose", "start_ready", "check", "start_hand_off", "item", "totals"} :
        Head(<<s>>) = s
  BY SingleHeads
<1>2. \/ a \in {<<"update", "log">>, <<"update", "log", "check">>, <<"update", "log", "item">>}
      \/ a \in {<<"log">>, <<"log", "check">>, <<"log", "item">>}
      \/ \E s \in {"undo", "batch", "choose", "start_ready", "check", "start_hand_off", "item", "totals"} : a = <<s>>
  BY Zenon DEF Agendas, FillingAgendas, ChosenAgendas, HandOffAgendas, ReadyAgendas, DecisionAgendas
<1>3. CASE a \in {<<"update", "log">>, <<"update", "log", "check">>, <<"update", "log", "item">>}
  BY <1>3, DecisionHeads
<1>4. CASE a \in {<<"log">>, <<"log", "check">>, <<"log", "item">>}
  BY <1>4, DecisionHeads
<1>5. CASE \E s \in {"undo", "batch", "choose", "start_ready", "check", "start_hand_off", "item", "totals"} : a = <<s>>
  <2>1. PICK s \in {"undo", "batch", "choose", "start_ready", "check", "start_hand_off", "item", "totals"} : a = <<s>>
    BY <1>5
  <2>2. Head(a) = s  BY <2>1, SingleHeads
  <2> QED  BY <2>1, <2>2
<1> QED  BY <1>2, <1>3, <1>4, <1>5

SeeingAgendas == DecisionAgendas \cup ReadyAgendas \cup HandOffAgendas \cup {<<"check">>, <<"item">>}

\* Which transactions are of which kind of request.
LEMMA AgendaKinds ==
  /\ <<>> \notin FillingAgendas \cup SeeingAgendas
  /\ <<"undo">> \notin FillingAgendas \cup SeeingAgendas
  /\ <<"batch">> \notin FillingAgendas \cup SeeingAgendas
  /\ \A s \in {"choose", "totals"} : <<s>> \notin SeeingAgendas \cup ChosenAgendas
  /\ \A s \in {"start_ready", "start_hand_off"} : <<s>> \notin SeeingAgendas
  /\ \A s \in {"check", "item"} : <<s>> \notin DecisionAgendas \cup ReadyAgendas \cup HandOffAgendas
  /\ DecisionAgendas \cap FillingAgendas = {}
  /\ (DecisionAgendas \cup ReadyAgendas) \cap HandOffAgendas = {}
<1> USE DEF DecisionAgendas, ReadyAgendas, HandOffAgendas, ChosenAgendas, FillingAgendas, SeeingAgendas
<1>1. <<>> \notin FillingAgendas \cup SeeingAgendas  OBVIOUS
<1>2. <<"undo">> \notin FillingAgendas \cup SeeingAgendas  OBVIOUS
<1>3. <<"batch">> \notin FillingAgendas \cup SeeingAgendas  OBVIOUS
<1>4. \A s \in {"choose", "totals"} : <<s>> \notin SeeingAgendas \cup ChosenAgendas  OBVIOUS
<1>5. \A s \in {"start_ready", "start_hand_off"} : <<s>> \notin SeeingAgendas  OBVIOUS
<1>6. \A s \in {"check", "item"} : <<s>> \notin DecisionAgendas \cup ReadyAgendas \cup HandOffAgendas
  OBVIOUS
<1>7. DecisionAgendas \cap FillingAgendas = {}  OBVIOUS
<1>8. (DecisionAgendas \cup ReadyAgendas) \cap HandOffAgendas = {}  OBVIOUS
<1> HIDE DEF DecisionAgendas, ReadyAgendas, HandOffAgendas, ChosenAgendas, FillingAgendas, SeeingAgendas
<1> QED  BY <1>1, <1>2, <1>3, <1>4, <1>5, <1>6, <1>7, <1>8

-----------------------------------------------------------------------------
(* The request of an operator *)

Request(agenda, invoice, type, seen, left, number, batch, processed, event) ==
  [agenda |-> agenda, invoice |-> invoice, type |-> type, seen |-> seen, left |-> left,
   number |-> number, batch |-> batch, processed |-> processed, event |-> event]

Shape(r) == r = Request(r.agenda, r.invoice, r.type, r.seen, r.left, r.number, r.batch, r.processed, r.event)

\* The updates the transactions make of a request, one by one.
LEMMA AgendaUpdate ==
  ASSUME NEW r, Shape(r), NEW a
  PROVE  [r EXCEPT !.agenda = a]
           = Request(a, r.invoice, r.type, r.seen, r.left, r.number, r.batch, r.processed, r.event)
BY DEF Shape, Request

LEMMA SeenUpdate ==
  ASSUME NEW r, Shape(r), NEW s
  PROVE  [r EXCEPT !.seen = s]
           = Request(r.agenda, r.invoice, r.type, s, r.left, r.number, r.batch, r.processed, r.event)
BY DEF Shape, Request

LEMMA BatchUpdate ==
  ASSUME NEW r, Shape(r), NEW k, NEW a
  PROVE  [r EXCEPT !.batch = k, !.agenda = a]
           = Request(a, r.invoice, r.type, r.seen, r.left, r.number, k, r.processed, r.event)
<1>1. r = Request(r.agenda, r.invoice, r.type, r.seen, r.left, r.number, r.batch, r.processed, r.event)  BY DEF Shape
<1>2. [r EXCEPT !.batch = k]
        = Request(r.agenda, r.invoice, r.type, r.seen, r.left, r.number, k, r.processed, r.event)
  BY <1>1 DEF Request
<1>3. [Request(r.agenda, r.invoice, r.type, r.seen, r.left, r.number, k, r.processed, r.event) EXCEPT !.agenda = a]
        = Request(a, r.invoice, r.type, r.seen, r.left, r.number, k, r.processed, r.event)
  BY DEF Request
<1>4. [r EXCEPT !.batch = k, !.agenda = a]
        = [[r EXCEPT !.batch = k] EXCEPT !.agenda = a]
  OBVIOUS
<1> QED  BY <1>2, <1>3, <1>4

LEMMA ChoiceUpdate ==
  ASSUME NEW r, Shape(r), NEW i, NEW s
  PROVE  [r EXCEPT !.invoice = i, !.seen = s]
           = Request(r.agenda, i, r.type, s, r.left, r.number, r.batch, r.processed, r.event)
<1>1. r = Request(r.agenda, r.invoice, r.type, r.seen, r.left, r.number, r.batch, r.processed, r.event)  BY DEF Shape
<1>2. [r EXCEPT !.invoice = i]
        = Request(r.agenda, i, r.type, r.seen, r.left, r.number, r.batch, r.processed, r.event)
  BY <1>1 DEF Request
<1>3. [Request(r.agenda, i, r.type, r.seen, r.left, r.number, r.batch, r.processed, r.event) EXCEPT !.seen = s]
        = Request(r.agenda, i, r.type, s, r.left, r.number, r.batch, r.processed, r.event)
  BY DEF Request
<1>4. [r EXCEPT !.invoice = i, !.seen = s]
        = [[r EXCEPT !.invoice = i] EXCEPT !.seen = s]
  OBVIOUS
<1> QED  BY <1>2, <1>3, <1>4

LEMMA DecisionUpdate ==
  ASSUME NEW r, Shape(r), NEW a, NEW t, NEW s
  PROVE  [r EXCEPT !.agenda = a, !.type = t, !.seen = s]
           = Request(a, r.invoice, t, s, r.left, r.number, r.batch, r.processed, r.event)
<1>1. r = Request(r.agenda, r.invoice, r.type, r.seen, r.left, r.number, r.batch, r.processed, r.event)  BY DEF Shape
<1>2. [r EXCEPT !.agenda = a]
        = Request(a, r.invoice, r.type, r.seen, r.left, r.number, r.batch, r.processed, r.event)
  BY <1>1 DEF Request
<1>3. [Request(a, r.invoice, r.type, r.seen, r.left, r.number, r.batch, r.processed, r.event) EXCEPT !.type = t]
        = Request(a, r.invoice, t, r.seen, r.left, r.number, r.batch, r.processed, r.event)
  BY DEF Request
<1>4. [Request(a, r.invoice, t, r.seen, r.left, r.number, r.batch, r.processed, r.event) EXCEPT !.seen = s]
        = Request(a, r.invoice, t, s, r.left, r.number, r.batch, r.processed, r.event)
  BY DEF Request
<1>5. [r EXCEPT !.agenda = a, !.type = t, !.seen = s]
        = [[[r EXCEPT !.agenda = a] EXCEPT !.type = t] EXCEPT !.seen = s]
  OBVIOUS
<1> QED  BY <1>2, <1>3, <1>4, <1>5

LEMMA ItemUpdate ==
  ASSUME NEW r, Shape(r), NEW l, NEW a
  PROVE  [r EXCEPT !.left = l, !.agenda = a]
           = Request(a, r.invoice, r.type, r.seen, l, r.number, r.batch, r.processed, r.event)
<1>1. r = Request(r.agenda, r.invoice, r.type, r.seen, r.left, r.number, r.batch, r.processed, r.event)  BY DEF Shape
<1>2. [r EXCEPT !.left = l]
        = Request(r.agenda, r.invoice, r.type, r.seen, l, r.number, r.batch, r.processed, r.event)
  BY <1>1 DEF Request
<1>3. [Request(r.agenda, r.invoice, r.type, r.seen, l, r.number, r.batch, r.processed, r.event) EXCEPT !.agenda = a]
        = Request(a, r.invoice, r.type, r.seen, l, r.number, r.batch, r.processed, r.event)
  BY DEF Request
<1>4. [r EXCEPT !.left = l, !.agenda = a]
        = [[r EXCEPT !.left = l] EXCEPT !.agenda = a]
  OBVIOUS
<1> QED  BY <1>2, <1>3, <1>4

LEMMA ProcessedUpdate ==
  ASSUME NEW r, Shape(r), NEW n
  PROVE  [r EXCEPT !.processed = n]
           = Request(r.agenda, r.invoice, r.type, r.seen, r.left, r.number, r.batch, n, r.event)
BY DEF Shape, Request

LEMMA TakenUpdate ==
  ASSUME NEW r, Shape(r), NEW a, NEW i, NEW t, NEW s
  PROVE  [r EXCEPT !.agenda = a, !.invoice = i, !.type = t, !.seen = s]
           = Request(a, i, t, s, r.left, r.number, r.batch, r.processed, r.event)
<1>1. r = Request(r.agenda, r.invoice, r.type, r.seen, r.left, r.number, r.batch, r.processed, r.event)  BY DEF Shape
<1>2. [r EXCEPT !.agenda = a]
        = Request(a, r.invoice, r.type, r.seen, r.left, r.number, r.batch, r.processed, r.event)
  BY <1>1 DEF Request
<1>3. [Request(a, r.invoice, r.type, r.seen, r.left, r.number, r.batch, r.processed, r.event) EXCEPT !.invoice = i]
        = Request(a, i, r.type, r.seen, r.left, r.number, r.batch, r.processed, r.event)
  BY DEF Request
<1>4. [Request(a, i, r.type, r.seen, r.left, r.number, r.batch, r.processed, r.event) EXCEPT !.type = t]
        = Request(a, i, t, r.seen, r.left, r.number, r.batch, r.processed, r.event)
  BY DEF Request
<1>5. [Request(a, i, t, r.seen, r.left, r.number, r.batch, r.processed, r.event) EXCEPT !.seen = s]
        = Request(a, i, t, s, r.left, r.number, r.batch, r.processed, r.event)
  BY DEF Request
<1>6. [r EXCEPT !.agenda = a, !.invoice = i, !.type = t, !.seen = s]
        = [[[[r EXCEPT !.agenda = a] EXCEPT !.invoice = i] EXCEPT !.type = t] EXCEPT !.seen = s]
  OBVIOUS
<1> QED  BY <1>2, <1>3, <1>4, <1>5, <1>6

LEMMA SelectionUpdate ==
  ASSUME NEW r, Shape(r), NEW a, NEW l, NEW n
  PROVE  [r EXCEPT !.agenda = a, !.left = l, !.number = n]
           = Request(a, r.invoice, r.type, r.seen, l, n, r.batch, r.processed, r.event)
<1>1. r = Request(r.agenda, r.invoice, r.type, r.seen, r.left, r.number, r.batch, r.processed, r.event)  BY DEF Shape
<1>2. [r EXCEPT !.agenda = a]
        = Request(a, r.invoice, r.type, r.seen, r.left, r.number, r.batch, r.processed, r.event)
  BY <1>1 DEF Request
<1>3. [Request(a, r.invoice, r.type, r.seen, r.left, r.number, r.batch, r.processed, r.event) EXCEPT !.left = l]
        = Request(a, r.invoice, r.type, r.seen, l, r.number, r.batch, r.processed, r.event)
  BY DEF Request
<1>4. [Request(a, r.invoice, r.type, r.seen, l, r.number, r.batch, r.processed, r.event) EXCEPT !.number = n]
        = Request(a, r.invoice, r.type, r.seen, l, n, r.batch, r.processed, r.event)
  BY DEF Request
<1>5. [r EXCEPT !.agenda = a, !.left = l, !.number = n]
        = [[[r EXCEPT !.agenda = a] EXCEPT !.left = l] EXCEPT !.number = n]
  OBVIOUS
<1> QED  BY <1>2, <1>3, <1>4, <1>5

LEMMA RequestShape ==
  ASSUME NEW agenda, NEW invoice, NEW type, NEW seen, NEW left, NEW number, NEW batch, NEW processed, NEW event,
         NEW q, q = Request(agenda, invoice, type, seen, left, number, batch, processed, event)
  PROVE  /\ Shape(q) /\ q.agenda = agenda /\ q.invoice = invoice /\ q.type = type /\ q.seen = seen
         /\ q.left = left /\ q.number = number /\ q.batch = batch /\ q.processed = processed
         /\ q.event = event
BY DEF Shape, Request

LEMMA IdleShape ==
  /\ Shape(IdleHandoff) /\ IdleHandoff.agenda = <<>> /\ IdleHandoff.invoice = NoRow
  /\ IdleHandoff.type = "none" /\ IdleHandoff.seen = NoRow /\ IdleHandoff.left = <<>>
  /\ IdleHandoff.number = 0 /\ IdleHandoff.batch = 0 /\ IdleHandoff.processed = 0 /\ IdleHandoff.event = NoRow
<1>1. IdleHandoff = Request(<<>>, NoRow, "none", NoRow, <<>>, 0, 0, 0, NoRow)
  BY DEF IdleHandoff, Request
<1> QED  BY <1>1, RequestShape

-----------------------------------------------------------------------------
(* The invariant *)

Filling(r) == r.agenda \in FillingAgendas

\* What a request knows is of the shape of the rows it was read from.
Knows(r) ==
  /\ r.agenda \in Agendas
  /\ r.agenda \in DecisionAgendas \cup ChosenAgendas \cup {<<"undo">>} => r.invoice \in Invoices
  /\ r.agenda \in DecisionAgendas \cup ReadyAgendas \cup HandOffAgendas => r.type \in Decisions
  /\ r.agenda \in SeeingAgendas => r.seen \in WorkflowRows
  /\ r.agenda = <<"undo">> => r.event \in LogRows
  /\ r.agenda = <<"batch">> => r.left \in Selections /\ r.number \in Nat \ {0} /\ r.processed = 0
  /\ r.agenda \in HandOffAgendas => r.type = "hand_off"

\* A request that fills a batch: what is left of its selection is not in the batch yet, its count
\* is right, and an empty batch is to take the first invoice, which gave it its organization.
Fills(r, b) ==
  /\ r.left \in Seq(Invoices) /\ IsInjective(r.left)
  /\ r.processed = Cardinality(b.items)
  /\ \A n \in DOMAIN r.left : \A x \in b.items : x[1] # r.left[n]
  /\ r.agenda # <<"totals">> => r.left # <<>>
  /\ b.items = {} => r.agenda # <<"totals">> /\ Organization[Head(r.left)] = b.organization
  /\ r.agenda \in ChosenAgendas => r.invoice = Head(r.left) /\ Organization[Head(r.left)] = b.organization
  /\ b.status # "przekazana"

BatchIs(b) ==
  /\ IsFiniteSet(b.items)
  /\ \A x, y \in b.items : x[1] = y[1] => x = y
  /\ \A x \in b.items : Organization[x[1]] = b.organization
  /\ b.status = "przekazana" => b.count = Cardinality(b.items) /\ b.items # {}

TablesInv ==
  /\ workflow \in [Invoices -> WorkflowRows]
  /\ log \in [Invoices -> Seq(LogRows)]
  /\ batches \in Seq(BatchRows)
  /\ handoffs \in 0..MaxHandoffs

BatchesInv == \A k \in DOMAIN batches : BatchIs(batches[k])

Asks(r) == Shape(r) /\ Knows(r)

RequestsInv ==
  /\ handoff = [o \in Clerks |-> handoff[o]]
  /\ \A o \in Clerks : Asks(handoff[o])
  /\ \A o \in Clerks : Filling(handoff[o]) =>
       handoff[o].batch \in DOMAIN batches /\ Fills(handoff[o], batches[handoff[o].batch])
  /\ \A o, p \in Clerks : Filling(handoff[o]) /\ Filling(handoff[p]) /\ o # p =>
       handoff[o].batch # handoff[p].batch

\* When requests come one at a time and none ends half way.
SettledBatch(b) ==
  /\ b.status # "utworzona" => b.count = Cardinality(b.items)
  /\ \A x \in b.items : x[2] = "przekazana"
  /\ b.exported => b.status = "wyeksportowana"

InOrder(r, bs, rows) ==
  /\ Filling(r) => bs[r.batch].status = "utworzona"
  /\ r.agenda = <<"log", "item">> => rows[r.invoice].state = "przekazana"
  /\ r.agenda = <<"item">> => r.seen.state = "przekazana"

OrderInv ==
  OrderlyHandoffs =>
    /\ \A o, p \in Clerks : HandingOff(o) /\ HandingOff(p) => o = p
    /\ \A k \in DOMAIN batches : SettledBatch(batches[k])
    /\ \A k \in DOMAIN batches : batches[k].status = "utworzona" =>
         \E o \in Clerks : Filling(handoff[o]) /\ handoff[o].batch = k
    /\ \A o \in Clerks : InOrder(handoff[o], batches, workflow)

HandoffIInv == TablesInv /\ BatchesInv /\ RequestsInv /\ OrderInv

-----------------------------------------------------------------------------
(* Steps in general *)

\* A step of one request leaves the others as they are.
LEMMA RequestsStep ==
  ASSUME RequestsInv, NEW o \in Clerks, NEW q, Asks(q),
         handoff' = [handoff EXCEPT ![o] = q],
         Filling(q) => q.batch \in DOMAIN batches' /\ Fills(q, batches'[q.batch]),
         \A p \in Clerks \ {o} : Filling(handoff[p]) =>
           /\ Filling(q) => handoff[p].batch # q.batch
           /\ handoff[p].batch \in DOMAIN batches' /\ Fills(handoff[p], batches'[handoff[p].batch])
  PROVE  RequestsInv'
<1>1. handoff = [p \in Clerks |-> handoff[p]]  BY DEF RequestsInv
<1>2. handoff' = [p \in Clerks |-> handoff'[p]] /\ handoff'[o] = q
      /\ \A p \in Clerks \ {o} : handoff'[p] = handoff[p]
  BY <1>1
<1>3. \A p \in Clerks : Asks(handoff'[p])  BY <1>2 DEF RequestsInv
<1>4. \A p \in Clerks : Filling(handoff'[p]) =>
        handoff'[p].batch \in DOMAIN batches' /\ Fills(handoff'[p], batches'[handoff'[p].batch])
  BY <1>2
<1>5. \A p, r \in Clerks : Filling(handoff'[p]) /\ Filling(handoff'[r]) /\ p # r =>
        handoff'[p].batch # handoff'[r].batch
  <2> SUFFICES ASSUME NEW p \in Clerks, NEW r \in Clerks, Filling(handoff'[p]), Filling(handoff'[r]), p # r
               PROVE  handoff'[p].batch # handoff'[r].batch
    OBVIOUS
  <2>1. CASE p = o  BY <2>1, <1>2
  <2>2. CASE r = o  BY <2>2, <1>2
  <2>3. CASE p # o /\ r # o  BY <2>3, <1>2 DEF RequestsInv
  <2> QED  BY <2>1, <2>2, <2>3
<1> QED  BY <1>2, <1>3, <1>4, <1>5 DEF RequestsInv

\* The same where the batches stay as they are.
LEMMA RequestsStayStep ==
  ASSUME RequestsInv, NEW o \in Clerks, NEW q, Asks(q),
         handoff' = [handoff EXCEPT ![o] = q], UNCHANGED batches,
         Filling(q) => /\ Filling(handoff[o]) /\ q.batch = handoff[o].batch
                       /\ Fills(q, batches[handoff[o].batch])
  PROVE  RequestsInv'
<1>1. \A p \in Clerks : Filling(handoff[p]) =>
        handoff[p].batch \in DOMAIN batches /\ Fills(handoff[p], batches[handoff[p].batch])
  BY DEF RequestsInv
<1>2. \A p \in Clerks \ {o} : Filling(handoff[p]) => (Filling(q) => handoff[p].batch # q.batch)
  BY DEF RequestsInv
<1> QED  BY <1>1, <1>2, RequestsStep

\* When requests come one at a time, the others are idle while one is at work.
LEMMA OthersIdle ==
  ASSUME RequestsInv, NEW o \in Clerks,
         \A p \in Clerks \ {o} : ~HandingOff(p)
  PROVE  \A p \in Clerks \ {o} : ~Filling(handoff[p]) /\ InOrder(handoff[p], batches', workflow')
<1>1. \A p \in Clerks \ {o} : handoff[p].agenda = <<>>  BY DEF HandingOff
<1>2. <<>> # <<"log", "item">> /\ <<>> # <<"item">>  OBVIOUS
<1> QED  BY <1>1, <1>2, AgendaKinds DEF Filling, InOrder

LEMMA OrderStep ==
  ASSUME RequestsInv, OrderInv, NEW o \in Clerks, NEW q,
         handoff' = [handoff EXCEPT ![o] = q],
         OrderlyHandoffs' => OrderlyHandoffs /\ \A p \in Clerks \ {o} : ~HandingOff(p),
         OrderlyHandoffs => \A k \in DOMAIN batches' : SettledBatch(batches'[k]),
         OrderlyHandoffs => \A k \in DOMAIN batches' : batches'[k].status = "utworzona" =>
                              (Filling(q) /\ q.batch = k),
         OrderlyHandoffs => InOrder(q, batches', workflow')
  PROVE  OrderInv'
<1> SUFFICES ASSUME OrderlyHandoffs'
             PROVE  /\ \A p, r \in Clerks : HandingOff(p)' /\ HandingOff(r)' => p = r
                    /\ \A k \in DOMAIN batches' : SettledBatch(batches'[k])
                    /\ \A k \in DOMAIN batches' : batches'[k].status = "utworzona" =>
                         \E p \in Clerks : Filling(handoff'[p]) /\ handoff'[p].batch = k
                    /\ \A p \in Clerks : InOrder(handoff'[p], batches', workflow')
  BY DEF OrderInv
<1>1. OrderlyHandoffs /\ \A p \in Clerks \ {o} : ~HandingOff(p)  OBVIOUS
<1>2. handoff = [p \in Clerks |-> handoff[p]]  BY DEF RequestsInv
<1>3. handoff'[o] = q /\ \A p \in Clerks \ {o} : handoff'[p] = handoff[p]  BY <1>2
<1>4. \A p \in Clerks \ {o} : ~Filling(handoff[p]) /\ InOrder(handoff[p], batches', workflow')
  BY <1>1, OthersIdle
<1>5. \A p, r \in Clerks : HandingOff(p)' /\ HandingOff(r)' => p = r
  <2>1. \A p \in Clerks \ {o} : ~HandingOff(p)'  BY <1>1, <1>3 DEF HandingOff
  <2> QED  BY <2>1
<1>6. \A p \in Clerks : InOrder(handoff'[p], batches', workflow')  BY <1>1, <1>3, <1>4
<1> QED  BY <1>1, <1>3, <1>5, <1>6

\* A request that is over asks for nothing more.
LEMMA IdleAsks ==
  Asks(IdleHandoff) /\ ~Filling(IdleHandoff) /\ IdleHandoff.agenda = <<>>
<1>1. Shape(IdleHandoff) /\ IdleHandoff.agenda = <<>>  BY IdleShape
<1>2. <<>> # <<"undo">> /\ <<>> # <<"batch">>  OBVIOUS
<1>3. <<>> \notin DecisionAgendas \cup ChosenAgendas \cup ReadyAgendas \cup HandOffAgendas \cup SeeingAgendas
  BY AgendaKinds DEF SeeingAgendas, FillingAgendas
<1>4. <<>> \in Agendas  BY Zenon DEF Agendas
<1>5. Knows(IdleHandoff)  BY <1>1, <1>2, <1>3, <1>4 DEF Knows
<1> QED  BY <1>1, <1>5, AgendaKinds DEF Asks, Filling

LEMMA AtWork ==
  ASSUME OrderInv, NEW o \in Clerks, HandingOff(o), UNCHANGED <<handoffsMixed, handoffDied>>
  PROVE  OrderlyHandoffs' => OrderlyHandoffs /\ \A p \in Clerks \ {o} : ~HandingOff(p)
BY DEF OrderInv, OrderlyHandoffs

\* A further transaction of a request that leaves the batches as they are.
LEMMA FurtherStep ==
  ASSUME HandoffIInv, NEW o \in Clerks, HandingOff(o), NEW q, Asks(q),
         handoff' = [handoff EXCEPT ![o] = q], TablesInv',
         UNCHANGED <<batches, handoffsMixed, handoffDied>>,
         Filling(handoff[o]) => Filling(q),
         Filling(q) => /\ Filling(handoff[o]) /\ q.batch = handoff[o].batch
                       /\ Fills(q, batches[handoff[o].batch]),
         OrderlyHandoffs => (q.agenda = <<"log", "item">> => workflow'[q.invoice].state = "przekazana"),
         OrderlyHandoffs => (q.agenda = <<"item">> => q.seen.state = "przekazana")
  PROVE  HandoffIInv'
<1>1. TablesInv /\ BatchesInv /\ RequestsInv /\ OrderInv  BY DEF HandoffIInv
<1>2. BatchesInv'  BY <1>1 DEF BatchesInv
<1>3. RequestsInv'  BY <1>1, RequestsStayStep
<1>4. OrderlyHandoffs' => OrderlyHandoffs /\ \A p \in Clerks \ {o} : ~HandingOff(p)
  BY <1>1, AtWork
<1>5. OrderlyHandoffs => \A k \in DOMAIN batches' : SettledBatch(batches'[k])
  BY <1>1 DEF OrderInv
<1>6. ASSUME OrderlyHandoffs
      PROVE  /\ InOrder(handoff[o], batches, workflow)
             /\ \A k \in DOMAIN batches : batches[k].status = "utworzona" =>
                  \E p \in Clerks : Filling(handoff[p]) /\ handoff[p].batch = k
             /\ \A p \in Clerks \ {o} : ~HandingOff(p)
  BY <1>1, <1>6 DEF OrderInv
<1>7. OrderlyHandoffs => \A k \in DOMAIN batches' : batches'[k].status = "utworzona" =>
                           (Filling(q) /\ q.batch = k)
  <2> SUFFICES ASSUME OrderlyHandoffs, NEW k \in DOMAIN batches, batches[k].status = "utworzona"
               PROVE  Filling(q) /\ q.batch = k
    OBVIOUS
  <2>1. PICK p \in Clerks : Filling(handoff[p]) /\ handoff[p].batch = k  BY <1>6
  <2>2. p = o  BY <2>1, <1>1, <1>6, OthersIdle
  <2> QED  BY <2>1, <2>2
<1>8. OrderlyHandoffs => InOrder(q, batches', workflow')
  BY <1>6 DEF InOrder
<1>9. OrderInv'  BY <1>1, <1>4, <1>5, <1>7, <1>8, OrderStep
<1> QED  BY <1>2, <1>3, <1>9 DEF HandoffIInv

\* What a transaction that stays with its invoice leaves of a batch to fill.
LEMMA FillsOn ==
  ASSUME NEW b, NEW r, NEW q, Fills(r, b), q.left = r.left, q.processed = r.processed,
         r.agenda # <<"totals">>, q.agenda # <<"totals">>,
         q.agenda \in ChosenAgendas => q.invoice = Head(q.left) /\ Organization[Head(q.left)] = b.organization
  PROVE  Fills(q, b)
BY Zenon DEF Fills

\* A request begins: it fills no batch yet, and all are filled unless it overlaps another.
LEMMA BeginStep ==
  ASSUME HandoffIInv, NEW o \in Clerks, Begins(o), NEW q, Asks(q), ~Filling(q),
         handoff' = [handoff EXCEPT ![o] = q], UNCHANGED <<workflow, log, batches>>
  PROVE  HandoffIInv'
<1>1. TablesInv /\ BatchesInv /\ RequestsInv /\ OrderInv  BY DEF HandoffIInv
<1>2. TablesInv'
  <2>1. handoffs' \in 0..MaxHandoffs  BY <1>1, HandoffAssumption DEF TablesInv, Begins
  <2> QED  BY <1>1, <2>1 DEF TablesInv
<1>3. BatchesInv'  BY <1>1 DEF BatchesInv
<1>4. RequestsInv'  BY <1>1, RequestsStayStep
<1>5. OrderlyHandoffs' => OrderlyHandoffs /\ \A p \in Clerks \ {o} : ~HandingOff(p)
  BY DEF OrderlyHandoffs, Begins
<1>6. q.agenda # <<"log", "item">> /\ q.agenda # <<"item">>
  BY DEF Filling, FillingAgendas, ChosenAgendas, HandOffAgendas
<1>7. SUFFICES ASSUME OrderlyHandoffs'
               PROVE  OrderInv'
  BY <1>2, <1>3, <1>4 DEF HandoffIInv, OrderInv
<1>8. OrderlyHandoffs /\ \A p \in Clerks : ~HandingOff(p)  BY <1>5, <1>7 DEF Begins
<1>9. \A p \in Clerks : ~Filling(handoff[p])
  BY <1>8, AgendaKinds DEF Filling, HandingOff
<1>10. \A k \in DOMAIN batches : SettledBatch(batches[k]) /\ batches[k].status # "utworzona"
  BY <1>1, <1>8, <1>9 DEF OrderInv
<1>11. InOrder(q, batches', workflow')  BY <1>6 DEF InOrder
<1> QED  BY <1>1, <1>5, <1>10, <1>11, OrderStep

\* A request ends half way.
LEMMA EndStep ==
  ASSUME HandoffIInv, NEW o \in Clerks, HandoffEndsHalfWay(o)
  PROVE  HandoffIInv'
<1>1. TablesInv /\ BatchesInv /\ RequestsInv /\ OrderInv  BY DEF HandoffIInv
<1>2. TablesInv'  BY <1>1 DEF TablesInv, HandoffEndsHalfWay
<1>3. UNCHANGED batches /\ handoff' = [handoff EXCEPT ![o] = IdleHandoff] /\ handoffDied'
  BY DEF HandoffEndsHalfWay
<1>4. BatchesInv'  BY <1>1, <1>3 DEF BatchesInv
<1>5. Asks(IdleHandoff) /\ ~Filling(IdleHandoff)  BY IdleAsks
<1>6. RequestsInv'  BY <1>1, <1>3, <1>5, RequestsStayStep
<1>7. OrderInv'  BY <1>3 DEF OrderInv, OrderlyHandoffs
<1> QED  BY <1>2, <1>4, <1>6, <1>7 DEF HandoffIInv

-----------------------------------------------------------------------------
(* Requests begin *)

\* A request that decides, as it begins.
LEMMA TakenAsks ==
  ASSUME TablesInv, NEW i \in Invoices, NEW type \in Decisions
  PROVE  Asks(DecisionOn(i, type)) /\ ~Filling(DecisionOn(i, type)) /\ DecisionOn(i, type).agenda # <<>>
<1>1. PICK r : r = Request(<<"update", "log">>, i, type, workflow[i], <<>>, 0, 0, 0, NoRow)  OBVIOUS
<1>2. DecisionOn(i, type) = r
  <2>1. Shape(IdleHandoff)  BY IdleShape
  <2>2. DecisionOn(i, type) = Request(<<"update", "log">>, i, type, workflow[i], IdleHandoff.left,
                                 IdleHandoff.number, IdleHandoff.batch, IdleHandoff.processed, IdleHandoff.event)
    BY <2>1, TakenUpdate DEF DecisionOn, DecidingSteps
  <2> QED  BY <2>2, <1>1, IdleShape
<1>3. Shape(r) /\ r.agenda = <<"update", "log">> /\ r.invoice = i /\ r.type = type /\ r.seen = workflow[i]
  BY <1>1, RequestShape
<1>4. <<"update", "log">> \in DecisionAgendas  BY DEF DecisionAgendas
<1>5. <<"update", "log">> \in Agendas /\ <<"update", "log">> \notin FillingAgendas \cup HandOffAgendas
  BY <1>4, AgendaKinds DEF Agendas
<1>6. workflow[i] \in WorkflowRows  BY DEF TablesInv
<1>7. <<"update", "log">> # <<"undo">> /\ <<"update", "log">> # <<"batch">> /\ <<"update", "log">> # <<>>  OBVIOUS
<1>8. Knows(r)  BY <1>3, <1>5, <1>6, <1>7 DEF Knows
<1> QED  BY <1>2, <1>3, <1>5, <1>7, <1>8 DEF Asks, Filling

LEMMA DecisionBegins ==
  ASSUME HandoffIInv, NEW o \in Clerks, NEW i \in Invoices, NEW type \in Decisions,
         Begins(o), Goto(o, DecisionOn(i, type)), UNCHANGED <<workflow, log, batches>>
  PROVE  HandoffIInv'
<1>1. PICK q : q = DecisionOn(i, type)  OBVIOUS
<1>2. TablesInv  BY DEF HandoffIInv
<1>3. Asks(q) /\ ~Filling(q) /\ q.agenda # <<>>  BY <1>1, <1>2, TakenAsks
<1>4. handoff' = [handoff EXCEPT ![o] = q]  BY <1>1, <1>3 DEF Goto
<1> QED  BY <1>3, <1>4, BeginStep

LEMMA DecisionsBegin ==
  ASSUME HandoffIInv, NEW o \in Clerks, MarkReady(o) \/ HandOff(o) \/ Close(o) \/ Reopen(o)
  PROVE  HandoffIInv'
<1>1. {"ready", "hand_off", "close", "reopen"} = Decisions  BY DEF Decisions
<1>2. CASE MarkReady(o)  BY <1>1, <1>2, DecisionBegins DEF MarkReady
<1>3. CASE HandOff(o)  BY <1>1, <1>3, DecisionBegins DEF HandOff
<1>4. CASE Close(o)  BY <1>1, <1>4, DecisionBegins DEF Close
<1>5. CASE Reopen(o)  BY <1>1, <1>5, DecisionBegins DEF Reopen
<1> QED  BY <1>2, <1>3, <1>4, <1>5

\* The decision an undo takes back is a logged one.
LEMMA LastDecisionLemma ==
  ASSUME TablesInv, NEW i \in Invoices, Reversible(i) # {}
  PROVE  LastDecision(i) \in LogRows
<1>1. log[i] \in Seq(LogRows)  BY DEF TablesInv
<1>2. Reversible(i) \subseteq 1..Len(log[i]) /\ Reversible(i) \subseteq DOMAIN log[i]  BY <1>1 DEF Reversible
<1>3. Len(log[i]) \in Nat  BY <1>1
<1>4. \E k \in Reversible(i) : \A l \in Reversible(i) : l <= k  BY <1>2, <1>3, LargestLemma
<1>5. (CHOOSE k \in Reversible(i) : \A l \in Reversible(i) : l <= k) \in DOMAIN log[i]  BY <1>2, <1>4
<1> QED  BY <1>1, <1>5 DEF LastDecision

LEMMA UndoneRequest ==
  ASSUME NEW i, NEW e
  PROVE  [IdleHandoff EXCEPT !.agenda = <<"undo">>, !.invoice = i, !.event = e]
           = Request(<<"undo">>, i, IdleHandoff.type, IdleHandoff.seen, IdleHandoff.left,
                     IdleHandoff.number, IdleHandoff.batch, IdleHandoff.processed, e)
<1>1. PICK a : a = <<"undo">>  OBVIOUS
<1>2. Shape(IdleHandoff)  BY IdleShape
<1>3. [IdleHandoff EXCEPT !.agenda = a]
        = Request(a, IdleHandoff.invoice, IdleHandoff.type, IdleHandoff.seen, IdleHandoff.left,
                  IdleHandoff.number, IdleHandoff.batch, IdleHandoff.processed, IdleHandoff.event)
  BY <1>2, AgendaUpdate
<1>4. [Request(a, IdleHandoff.invoice, IdleHandoff.type, IdleHandoff.seen, IdleHandoff.left,
               IdleHandoff.number, IdleHandoff.batch, IdleHandoff.processed, IdleHandoff.event) EXCEPT !.invoice = i]
        = Request(a, i, IdleHandoff.type, IdleHandoff.seen, IdleHandoff.left,
                  IdleHandoff.number, IdleHandoff.batch, IdleHandoff.processed, IdleHandoff.event)
  BY DEF Request
<1>5. [Request(a, i, IdleHandoff.type, IdleHandoff.seen, IdleHandoff.left,
               IdleHandoff.number, IdleHandoff.batch, IdleHandoff.processed, IdleHandoff.event) EXCEPT !.event = e]
        = Request(a, i, IdleHandoff.type, IdleHandoff.seen, IdleHandoff.left,
                  IdleHandoff.number, IdleHandoff.batch, IdleHandoff.processed, e)
  BY DEF Request
<1>6. [IdleHandoff EXCEPT !.agenda = a, !.invoice = i, !.event = e]
        = [[[IdleHandoff EXCEPT !.agenda = a] EXCEPT !.invoice = i] EXCEPT !.event = e]
  OBVIOUS
<1> QED  BY <1>1, <1>3, <1>4, <1>5, <1>6

LEMMA UndoBegins ==
  ASSUME HandoffIInv, NEW o \in Clerks, UndoLastDecision(o)
  PROVE  HandoffIInv'
<1>1. PICK i \in Invoices :
        /\ Reversible(i) # {} /\ Begins(o)
        /\ Goto(o, [IdleHandoff EXCEPT !.agenda = <<"undo">>, !.invoice = i, !.event = LastDecision(i)])
        /\ UNCHANGED <<workflow, log, batches>>
  BY DEF UndoLastDecision
<1>2. PICK e : e = LastDecision(i)  OBVIOUS
<1>3. PICK q : q = Request(<<"undo">>, i, "none", NoRow, <<>>, 0, 0, 0, e)  OBVIOUS
<1>4. [IdleHandoff EXCEPT !.agenda = <<"undo">>, !.invoice = i, !.event = e] = q
  <2>1. Shape(IdleHandoff)  BY IdleShape
  <2>2. [IdleHandoff EXCEPT !.agenda = <<"undo">>, !.invoice = i, !.event = e]
          = Request(<<"undo">>, i, IdleHandoff.type, IdleHandoff.seen, IdleHandoff.left,
                    IdleHandoff.number, IdleHandoff.batch, IdleHandoff.processed, e)
    BY UndoneRequest
  <2> QED  BY <2>2, <1>3, IdleShape
<1>5. Shape(q) /\ q.agenda = <<"undo">> /\ q.invoice = i /\ q.event = e
  BY <1>3, RequestShape
<1>6. e \in LogRows  BY <1>2, <1>1, LastDecisionLemma DEF HandoffIInv
<1>7. <<"undo">> # <<"batch">> /\ <<"undo">> # <<>>  OBVIOUS
<1>8. <<"undo">> \in Agendas  BY Zenon DEF Agendas
<1>9. <<"undo">> \notin FillingAgendas \cup SeeingAgendas \cup DecisionAgendas \cup ReadyAgendas \cup HandOffAgendas
  BY AgendaKinds DEF SeeingAgendas
<1>10. Knows(q)  BY <1>5, <1>6, <1>7, <1>8, <1>9 DEF Knows
<1>11. handoff' = [handoff EXCEPT ![o] = q]  BY <1>2, <1>1, <1>4, <1>5, <1>7 DEF Goto
<1> QED  BY <1>1, <1>5, <1>9, <1>10, <1>11, BeginStep DEF Asks, Filling

\* Every batch is numbered from one on.
LEMMA NextNumberLemma ==
  ASSUME TablesInv, NEW organization
  PROVE  NextNumber(organization) \in Nat \ {0}
<1>1. PICK K : K = {k \in DOMAIN batches : batches[k].organization = organization}  OBVIOUS
<1>2. K \subseteq 1..Len(batches) /\ Len(batches) \in Nat  BY <1>1 DEF TablesInv
<1>3. IsFiniteSet(1..Len(batches))  BY <1>2, FS_Interval
<1>4. IsFiniteSet(K)  BY <1>2, <1>3, FS_Subset
<1>5. Cardinality(K) \in Nat  BY <1>4, FS_CardinalityType
<1> QED  BY <1>1, <1>5 DEF NextNumber

LEMMA BatchBegins ==
  ASSUME HandoffIInv, NEW o \in Clerks, CreateBatch(o)
  PROVE  HandoffIInv'
<1>1. PICK s \in Selections :
        /\ Begins(o)
        /\ Goto(o, [IdleHandoff EXCEPT !.agenda = <<"batch">>, !.left = s,
                                       !.number = NextNumber(Organization[s[1]])])
        /\ UNCHANGED <<workflow, log, batches>>
  BY DEF CreateBatch
<1>2. PICK n : n = NextNumber(Organization[s[1]])  OBVIOUS
<1>3. PICK q : q = Request(<<"batch">>, NoRow, "none", NoRow, s, n, 0, 0, NoRow)  OBVIOUS
<1>4. [IdleHandoff EXCEPT !.agenda = <<"batch">>, !.left = s, !.number = n] = q
  <2>1. Shape(IdleHandoff)  BY IdleShape
  <2>2. [IdleHandoff EXCEPT !.agenda = <<"batch">>, !.left = s, !.number = n]
          = Request(<<"batch">>, IdleHandoff.invoice, IdleHandoff.type, IdleHandoff.seen, s,
                    n, IdleHandoff.batch, IdleHandoff.processed, IdleHandoff.event)
    BY <2>1, SelectionUpdate
  <2> QED  BY <2>2, <1>3, IdleShape
<1>5. Shape(q) /\ q.agenda = <<"batch">> /\ q.left = s /\ q.number = n /\ q.processed = 0  BY <1>3, RequestShape
<1>6. n \in Nat \ {0}  BY <1>2, NextNumberLemma DEF HandoffIInv
<1>7. <<"undo">> # <<"batch">> /\ <<"batch">> # <<>>  OBVIOUS
<1>8. <<"batch">> \in Agendas  BY Zenon DEF Agendas
<1>9. <<"batch">> \notin FillingAgendas \cup SeeingAgendas \cup DecisionAgendas \cup ReadyAgendas \cup HandOffAgendas
      /\ <<"batch">> \notin ChosenAgendas
  BY AgendaKinds DEF SeeingAgendas, FillingAgendas
<1>10. Knows(q)  BY <1>5, <1>6, <1>7, <1>8, <1>9 DEF Knows
<1>11. handoff' = [handoff EXCEPT ![o] = q]  BY <1>1, <1>2, <1>4, <1>5, <1>7 DEF Goto
<1> QED  BY <1>1, <1>5, <1>9, <1>10, <1>11, BeginStep DEF Asks, Filling

-----------------------------------------------------------------------------
(* Decisions *)

\* A column at a time.
LEMMA StateColumn ==
  ASSUME NEW row \in WorkflowRows, NEW s \in States
  PROVE  [row EXCEPT !.state = s] \in WorkflowRows /\ [row EXCEPT !.state = s].state = s
BY DEF WorkflowRows

LEMMA ReadyColumn ==
  ASSUME NEW row \in WorkflowRows, NEW b \in BOOLEAN
  PROVE  [row EXCEPT !.ready = b] \in WorkflowRows /\ [row EXCEPT !.ready = b].state = row.state
BY DEF WorkflowRows

LEMMA HandedColumn ==
  ASSUME NEW row \in WorkflowRows, NEW b \in BOOLEAN
  PROVE  [row EXCEPT !.handed = b] \in WorkflowRows /\ [row EXCEPT !.handed = b].state = row.state
BY DEF WorkflowRows

LEMMA ClosedColumn ==
  ASSUME NEW row \in WorkflowRows, NEW b \in BOOLEAN
  PROVE  [row EXCEPT !.closed = b] \in WorkflowRows /\ [row EXCEPT !.closed = b].state = row.state
BY DEF WorkflowRows

LEMMA ReopenedColumn ==
  ASSUME NEW row \in WorkflowRows, NEW b \in BOOLEAN
  PROVE  [row EXCEPT !.reopened = b] \in WorkflowRows /\ [row EXCEPT !.reopened = b].state = row.state
BY DEF WorkflowRows

LEMMA WrittenLemma ==
  ASSUME NEW row \in WorkflowRows, NEW seen \in WorkflowRows, NEW type \in Decisions
  PROVE  /\ Written(row, seen, type) \in WorkflowRows
         /\ type = "hand_off" => Written(row, seen, type).state = "przekazana"
<1>1. "w_pracy" \in States /\ "gotowa_do_przekazania" \in States /\ "przekazana" \in States
      /\ "zamknieta" \in States /\ TRUE \in BOOLEAN
  BY DEF States
<1>2. CASE type = "ready"
  <2>1. PICK back \in WorkflowRows : back = [row EXCEPT !.state = "gotowa_do_przekazania"]
    BY <1>1, StateColumn
  <2>2. [back EXCEPT !.ready = TRUE] \in WorkflowRows  BY <1>1, ReadyColumn
  <2>3. Written(row, seen, type) = [back EXCEPT !.ready = TRUE]
    BY <1>2, <2>1 DEF Written
  <2> QED  BY <1>2, <2>2, <2>3
<1>3. CASE type = "hand_off"
  <2>1. PICK b \in BOOLEAN : b = (row.ready \/ ~seen.ready)  OBVIOUS
  <2>2. PICK back : back = [row EXCEPT !.state = "przekazana"]  OBVIOUS
  <2> back \in WorkflowRows /\ back.state = "przekazana"  BY <1>1, <2>2, StateColumn
  <2>3. PICK next : next = [back EXCEPT !.handed = TRUE]  OBVIOUS
  <2> next \in WorkflowRows /\ next.state = "przekazana"  BY <1>1, <2>3, HandedColumn
  <2>4. [next EXCEPT !.ready = b] \in WorkflowRows /\ [next EXCEPT !.ready = b].state = "przekazana"
    BY ReadyColumn
  <2>5. Written(row, seen, type)
          = [row EXCEPT !.state = "przekazana", !.handed = TRUE, !.ready = row.ready \/ ~seen.ready]
    BY <1>3, Zenon DEF Written
  <2>6. [row EXCEPT !.state = "przekazana", !.handed = TRUE, !.ready = b] = [next EXCEPT !.ready = b]
    BY <2>2, <2>3
  <2> QED  BY <2>1, <2>4, <2>5, <2>6
<1>4. CASE type = "close"
  <2>1. PICK back \in WorkflowRows : back = [row EXCEPT !.state = "zamknieta"]
    BY <1>1, StateColumn
  <2>2. [back EXCEPT !.closed = TRUE] \in WorkflowRows  BY <1>1, ClosedColumn
  <2>3. Written(row, seen, type) = [back EXCEPT !.closed = TRUE]
    BY <1>4, <2>1 DEF Written
  <2> QED  BY <1>4, <2>2, <2>3
<1>5. CASE type = "reopen"
  <2>1. PICK back \in WorkflowRows : back = [row EXCEPT !.state = "w_pracy"]
    BY <1>1, StateColumn
  <2>2. [back EXCEPT !.reopened = TRUE] \in WorkflowRows  BY <1>1, ReopenedColumn
  <2>3. Written(row, seen, type) = [back EXCEPT !.reopened = TRUE]
    BY <1>5, <2>1 DEF Written
  <2> QED  BY <1>5, <2>2, <2>3
<1> QED  BY <1>2, <1>3, <1>4, <1>5 DEF Decisions

LEMMA UndoneLemma ==
  ASSUME NEW row \in WorkflowRows, NEW event \in LogRows
  PROVE  Undone(row, event) \in WorkflowRows
<1>1. event.before \in States /\ event.type \in Decisions /\ FALSE \in BOOLEAN  BY DEF LogRows
<1>2. PICK back \in WorkflowRows : back = [row EXCEPT !.state = event.before]  BY <1>1, StateColumn
<1>3. /\ [back EXCEPT !.ready = FALSE] \in WorkflowRows /\ [back EXCEPT !.closed = FALSE] \in WorkflowRows
      /\ [back EXCEPT !.reopened = FALSE] \in WorkflowRows
  BY <1>1, ReadyColumn, ClosedColumn, ReopenedColumn
<1>4. CASE event.type = "ready"  BY <1>2, <1>3, <1>4 DEF Undone
<1>5. CASE event.type = "hand_off"
  <2>1. PICK b \in BOOLEAN : b = (back.ready /\ event.before = "gotowa_do_przekazania")  OBVIOUS
  <2>2. PICK next \in WorkflowRows : next = [back EXCEPT !.handed = FALSE]  BY <1>1, HandedColumn
  <2>3. [next EXCEPT !.ready = b] \in WorkflowRows  BY ReadyColumn
  <2>4. Undone(row, event) = [back EXCEPT !.handed = FALSE,
                                          !.ready = back.ready /\ event.before = "gotowa_do_przekazania"]
    BY <1>2, <1>5, Zenon DEF Undone
  <2>5. [back EXCEPT !.handed = FALSE, !.ready = b] = [next EXCEPT !.ready = b]  BY <2>2
  <2> QED  BY <2>1, <2>3, <2>4, <2>5
<1>6. CASE event.type = "close"  BY <1>2, <1>3, <1>6 DEF Undone
<1>7. CASE event.type = "reopen"  BY <1>2, <1>3, <1>7 DEF Undone
<1> QED  BY <1>1, <1>4, <1>5, <1>6, <1>7 DEF Decisions

\* A request whose decision is written, and which has it to log.
ToLog(r, q) ==
  /\ Asks(q) /\ q.agenda # <<>> /\ (Filling(r) <=> Filling(q))
  /\ q.left = r.left /\ q.batch = r.batch /\ q.processed = r.processed /\ q.invoice = r.invoice
  /\ r.agenda # <<"totals">> /\ q.agenda # <<"totals">> /\ q.agenda # <<"item">>
  /\ q.agenda \in ChosenAgendas => r.agenda \in ChosenAgendas
  /\ q.agenda = <<"log", "item">> => r.type = "hand_off"
  /\ r.invoice \in Invoices /\ r.type \in Decisions /\ r.seen \in WorkflowRows

\* A decision of a request is a transaction nearer to its end, with the same invoice and batch.
LEMMA UpdatingLemma ==
  ASSUME NEW r, Asks(r), r.agenda # <<>>, Head(r.agenda) = "update",
         NEW q, q = [r EXCEPT !.agenda = Tail(r.agenda)]
  PROVE  ToLog(r, q)
<1>1. Shape(r) /\ Knows(r)  BY DEF Asks
<1>2. r.agenda \in {<<"update", "log">>, <<"update", "log", "check">>, <<"update", "log", "item">>}
  BY <1>1, AgendaLemma DEF Knows
<1>3. PICK a : a = Tail(r.agenda)  OBVIOUS
<1>4. q = Request(a, r.invoice, r.type, r.seen, r.left, r.number, r.batch, r.processed, r.event)
  BY <1>1, <1>3, AgendaUpdate
<1>5. Shape(q) /\ q.agenda = a /\ q.invoice = r.invoice /\ q.type = r.type /\ q.seen = r.seen
      /\ q.left = r.left /\ q.batch = r.batch /\ q.processed = r.processed
  BY ONLY <1>4, RequestShape
<1>6. \/ r.agenda = <<"update", "log">> /\ a = <<"log">>
      \/ r.agenda = <<"update", "log", "check">> /\ a = <<"log", "check">>
      \/ r.agenda = <<"update", "log", "item">> /\ a = <<"log", "item">>
  BY <1>2, <1>3, DecisionHeads
<1>7. /\ <<"update", "log">> \in DecisionAgendas /\ <<"log">> \in DecisionAgendas
      /\ <<"update", "log", "check">> \in ReadyAgendas /\ <<"log", "check">> \in ReadyAgendas
      /\ <<"update", "log", "item">> \in HandOffAgendas /\ <<"log", "item">> \in HandOffAgendas
  BY DEF DecisionAgendas, ReadyAgendas, HandOffAgendas
<1>8. /\ ReadyAgendas \cup HandOffAgendas \subseteq ChosenAgendas /\ ChosenAgendas \subseteq FillingAgendas
      /\ DecisionAgendas \cup FillingAgendas \subseteq Agendas
      /\ DecisionAgendas \cup ReadyAgendas \cup HandOffAgendas \subseteq SeeingAgendas
  BY DEF ChosenAgendas, FillingAgendas, Agendas, SeeingAgendas
<1>9. a \in Agendas /\ (Filling(r) <=> Filling(q))
      /\ (a \in ChosenAgendas <=> r.agenda \in ChosenAgendas)
      /\ (a \in HandOffAgendas <=> r.agenda \in HandOffAgendas)
      /\ r.agenda \in DecisionAgendas \cup ReadyAgendas \cup HandOffAgendas
      /\ a \in DecisionAgendas \cup ReadyAgendas \cup HandOffAgendas
  BY <1>5, <1>6, <1>7, <1>8, AgendaKinds DEF Filling
<1>10. r.invoice \in Invoices /\ r.type \in Decisions /\ r.seen \in WorkflowRows
       /\ (r.agenda \in HandOffAgendas => r.type = "hand_off")
  BY <1>1, <1>8, <1>9 DEF Knows
<1>11. /\ r.agenda # <<"totals">> /\ a # <<"totals">> /\ a # <<"item">> /\ a # <<>> /\ a # <<"undo">>
       /\ a # <<"batch">>
  BY <1>6
<1>12. Knows(q)  BY <1>5, <1>9, <1>10, <1>11 DEF Knows
<1>13. a = <<"log", "item">> => r.type = "hand_off"  BY <1>7, <1>9, <1>10
<1> QED  BY <1>5, <1>9, <1>10, <1>11, <1>12, <1>13 DEF Asks, ToLog

LEMMA UpdateStep ==
  ASSUME HandoffIInv, NEW o \in Clerks, Update(o)
  PROVE  HandoffIInv'
<1>1. PICK r : r = handoff[o]  OBVIOUS
<1>2. HandingOff(o)  BY <1>1 DEF Update, HandoffDoes
<1> r.agenda # <<>>  BY <1>1, <1>2 DEF HandingOff
<1> Head(r.agenda) = "update"  BY <1>1 DEF Update, HandoffDoes
<1>3. TablesInv /\ (Filling(r) => Fills(r, batches[r.batch]))
  BY <1>1 DEF HandoffIInv, RequestsInv
<1> Asks(r)  BY <1>1 DEF HandoffIInv, RequestsInv
<1>4. PICK q : q = [r EXCEPT !.agenda = Tail(r.agenda)]  OBVIOUS
<1>5. /\ Asks(q) /\ q.agenda # <<>> /\ (Filling(r) <=> Filling(q))
      /\ q.left = r.left /\ q.batch = r.batch /\ q.processed = r.processed /\ q.invoice = r.invoice
      /\ r.agenda # <<"totals">> /\ q.agenda # <<"totals">> /\ q.agenda # <<"item">>
      /\ q.agenda \in ChosenAgendas => r.agenda \in ChosenAgendas
      /\ q.agenda = <<"log", "item">> => r.type = "hand_off"
      /\ r.invoice \in Invoices /\ r.type \in Decisions /\ r.seen \in WorkflowRows
  <2>1. ToLog(r, q)  BY <1>4, UpdatingLemma
  <2> QED  BY <2>1 DEF ToLog
<1>6. handoff' = [handoff EXCEPT ![o] = q]
  BY <1>1, <1>4, <1>5 DEF Update, HandoffDone, Goto
<1>7. PICK row : row = Written(workflow[r.invoice], r.seen, r.type)  OBVIOUS
<1>8. workflow[r.invoice] \in WorkflowRows  BY <1>3, <1>5 DEF TablesInv
<1>9. row \in WorkflowRows /\ (r.type = "hand_off" => row.state = "przekazana")
  BY <1>5, <1>7, <1>8, WrittenLemma
<1>10. workflow' = [workflow EXCEPT ![r.invoice] = row]  BY <1>1, <1>7 DEF Update
<1>11. UNCHANGED <<log, batches, handoffs, handoffsMixed, handoffDied>>  BY DEF Update
<1>12. TablesInv'  BY <1>3, <1>5, <1>9, <1>10, <1>11 DEF TablesInv
<1>13. Filling(q) => Fills(q, batches[r.batch])
  <2> SUFFICES ASSUME Filling(q) PROVE Fills(q, batches[r.batch])
    OBVIOUS
  <2>1. Fills(r, batches[r.batch])  BY <1>3, <1>5
  <2>2. q.agenda \in ChosenAgendas =>
         q.invoice = Head(q.left) /\ Organization[Head(q.left)] = batches[r.batch].organization
    BY <2>1, <1>5 DEF Fills
  <2> QED  BY <2>1, <2>2, <1>5, FillsOn
<1>14. q.agenda = <<"log", "item">> => workflow'[q.invoice].state = "przekazana"
  BY <1>3, <1>5, <1>9, <1>10 DEF TablesInv
<1> QED  BY <1>1, <1>2, <1>5, <1>6, <1>11, <1>12, <1>13, <1>14, FurtherStep

\* A request whose decision is logged, with the invoice as it is now, and more to do.
Goes(r, q) ==
  /\ Asks(q) /\ q.agenda # <<>> /\ (Filling(r) <=> Filling(q))
  /\ q.left = r.left /\ q.batch = r.batch /\ q.processed = r.processed /\ q.invoice = r.invoice
  /\ r.agenda # <<"totals">> /\ q.agenda # <<"totals">> /\ q.agenda # <<"log", "item">>
  /\ q.agenda \in ChosenAgendas => r.agenda \in ChosenAgendas
  /\ q.agenda = <<"item">> => r.agenda = <<"log", "item">>

Logs(r, q, w) ==
  /\ r.invoice \in Invoices /\ r.type \in Decisions /\ r.seen \in WorkflowRows
  /\ r.agenda = <<"log">> => ~Filling(r) /\ q.agenda = <<>>
  /\ r.agenda # <<"log">> => Goes(r, q) /\ q.seen = w

LEMMA LoggingLemma ==
  ASSUME NEW r, Asks(r), r.agenda # <<>>, Head(r.agenda) = "log", NEW w \in WorkflowRows,
         NEW q, q = [[r EXCEPT !.seen = w] EXCEPT !.agenda = Tail(r.agenda)]
  PROVE  Logs(r, q, w)
<1>1. Shape(r) /\ Knows(r)  BY DEF Asks
<1>2. r.agenda \in {<<"log">>, <<"log", "check">>, <<"log", "item">>}
  BY <1>1, AgendaLemma DEF Knows
<1>3. PICK a : a = Tail(r.agenda)  OBVIOUS
<1>4. PICK p : p = [r EXCEPT !.seen = w]  OBVIOUS
<1>5. p = Request(r.agenda, r.invoice, r.type, w, r.left, r.number, r.batch, r.processed, r.event)
  BY <1>1, <1>4, SeenUpdate
<1>6. /\ Shape(p) /\ p.agenda = r.agenda /\ p.invoice = r.invoice /\ p.type = r.type /\ p.seen = w
      /\ p.left = r.left /\ p.number = r.number /\ p.batch = r.batch /\ p.processed = r.processed /\ p.event = r.event
  BY ONLY <1>5, RequestShape
<1>7. q = Request(a, p.invoice, p.type, p.seen, p.left, p.number, p.batch, p.processed, p.event)
  <2>1. q = [p EXCEPT !.agenda = a]  BY <1>3, <1>4
  <2>2. Shape(p)  BY <1>6
  <2> QED  BY ONLY <2>1, <2>2, AgendaUpdate
<1>8. /\ Shape(q) /\ q.agenda = a /\ q.invoice = p.invoice /\ q.type = p.type /\ q.seen = p.seen
      /\ q.left = p.left /\ q.batch = p.batch /\ q.processed = p.processed
  BY ONLY <1>7, RequestShape
<1>9. \/ r.agenda = <<"log">> /\ a = <<>>
      \/ r.agenda = <<"log", "check">> /\ a = <<"check">>
      \/ r.agenda = <<"log", "item">> /\ a = <<"item">>
  BY <1>2, <1>3, DecisionHeads
<1>10. /\ <<"log">> \in DecisionAgendas /\ <<"log", "check">> \in ReadyAgendas
       /\ <<"log", "item">> \in HandOffAgendas
       /\ <<"check">> \in ChosenAgendas /\ <<"item">> \in ChosenAgendas
       /\ <<"check">> \in SeeingAgendas /\ <<"item">> \in SeeingAgendas
  BY DEF DecisionAgendas, ReadyAgendas, HandOffAgendas, ChosenAgendas, SeeingAgendas
<1>11. /\ ReadyAgendas \cup HandOffAgendas \subseteq ChosenAgendas /\ ChosenAgendas \subseteq FillingAgendas
       /\ DecisionAgendas \cup FillingAgendas \subseteq Agendas
       /\ DecisionAgendas \cup ReadyAgendas \cup HandOffAgendas \subseteq SeeingAgendas
  BY DEF ChosenAgendas, FillingAgendas, Agendas, SeeingAgendas
<1>12. r.agenda \in DecisionAgendas \cup ReadyAgendas \cup HandOffAgendas
  BY <1>9, <1>10
<1>13. r.invoice \in Invoices /\ r.type \in Decisions /\ r.seen \in WorkflowRows
  BY <1>1, <1>11, <1>12 DEF Knows
<1>14. r.agenda = <<"log">> => ~Filling(r) /\ q.agenda = <<>>
  <2>1. <<"log">> \notin FillingAgendas  BY <1>10, AgendaKinds
  <2>2. <<"log">> # <<"log", "check">> /\ <<"log">> # <<"log", "item">>  OBVIOUS
  <2> QED  BY <2>1, <2>2, <1>8, <1>9 DEF Filling
<1>15. ASSUME r.agenda # <<"log">> PROVE Goes(r, q) /\ q.seen = w
  <2>1. a \in {<<"check">>, <<"item">>} /\ r.agenda \in ReadyAgendas \cup HandOffAgendas
    BY <1>9, <1>10, <1>15
  <2>2. a \in ChosenAgendas /\ a \in FillingAgendas /\ a \in Agendas
    BY <2>1, <1>10, <1>11
  <2>3. a \notin DecisionAgendas \cup ReadyAgendas \cup HandOffAgendas  BY <2>1, AgendaKinds
  <2>4. a # <<>> /\ a # <<"undo">> /\ a # <<"batch">> /\ a # <<"totals">> /\ a # <<"log", "item">>
        /\ r.agenda # <<"totals">>
    BY <1>9, <1>15
  <2>5. Knows(q)  BY <1>6, <1>8, <1>13, <2>2, <2>3, <2>4 DEF Knows
  <2>6. Filling(r) /\ Filling(q)  BY <1>8, <1>11, <2>1, <2>2 DEF Filling
  <2>7. r.agenda \in ChosenAgendas  BY <1>11, <2>1
  <2>8. a = <<"item">> => r.agenda = <<"log", "item">>
    <3>1. <<"check">> # <<"item">>  OBVIOUS
    <3> QED  BY <3>1, <1>9, <1>15
  <2> QED  BY <1>6, <1>8, <2>4, <2>5, <2>6, <2>7, <2>8 DEF Goes, Asks
<1> QED  BY <1>13, <1>14, <1>15 DEF Logs

LEMMA LoggingInvoice ==
  ASSUME NEW r, Asks(r), r.agenda # <<>>, Head(r.agenda) = "log"
  PROVE  r.invoice \in Invoices
<1>1. r.agenda \in {<<"log">>, <<"log", "check">>, <<"log", "item">>}
  BY AgendaLemma DEF Asks, Knows
<1>2. r.agenda \in DecisionAgendas \cup ChosenAgendas
  BY <1>1 DEF DecisionAgendas, ReadyAgendas, HandOffAgendas, ChosenAgendas
<1> QED  BY <1>2 DEF Asks, Knows

LEMMA LogStep ==
  ASSUME HandoffIInv, NEW o \in Clerks, Log(o)
  PROVE  HandoffIInv'
<1>1. PICK r : r = handoff[o]  OBVIOUS
<1>2. HandingOff(o)  BY <1>1 DEF Log, HandoffDoes
<1> r.agenda # <<>>  BY <1>1, <1>2 DEF HandingOff
<1> Head(r.agenda) = "log"  BY <1>1 DEF Log, HandoffDoes
<1>3. TablesInv /\ RequestsInv /\ OrderInv  BY DEF HandoffIInv
<1>4. Filling(r) => Fills(r, batches[r.batch])  BY <1>1, <1>3 DEF RequestsInv
<1> Asks(r)  BY <1>1, <1>3 DEF RequestsInv
<1>5. PICK w : w = workflow[r.invoice]  OBVIOUS
<1>6. r.invoice \in Invoices
  BY LoggingInvoice
<1>7. w \in WorkflowRows  BY <1>3, <1>5, <1>6 DEF TablesInv
<1>8. PICK q : q = [[r EXCEPT !.seen = w] EXCEPT !.agenda = Tail(r.agenda)]  OBVIOUS
<1>9. /\ r.invoice \in Invoices /\ r.type \in Decisions /\ r.seen \in WorkflowRows
      /\ r.agenda = <<"log">> => ~Filling(r) /\ q.agenda = <<>>
      /\ r.agenda # <<"log">> => Goes(r, q) /\ q.seen = w
  <2>1. Logs(r, q, w)  BY <1>7, <1>8, LoggingLemma
  <2> QED  BY <2>1 DEF Logs
<1>10. UNCHANGED <<workflow, batches, handoffs, handoffsMixed, handoffDied>>
  BY DEF Log, handoffHistory
<1>11. TablesInv'
  <2>1. PICK l : l = Logged(r)  OBVIOUS
  <2>2. l \in LogRows  BY <2>1, <1>3, <1>9 DEF Logged, LogRows, TablesInv, WorkflowRows
  <2>3. log' = [log EXCEPT ![r.invoice] = Append(log[r.invoice], l)]  BY <1>1, <2>1 DEF Log
  <2>4. log[r.invoice] \in Seq(LogRows)  BY <1>3, <1>9 DEF TablesInv
  <2>5. Append(log[r.invoice], l) \in Seq(LogRows)  BY <2>2, <2>4
  <2>6. log' \in [Invoices -> Seq(LogRows)]  BY <1>3, <2>3, <2>5 DEF TablesInv
  <2> QED  BY <1>3, <1>10, <2>6 DEF TablesInv
<1>12. Goto(o, q)
  <2>1. HandoffDone(o, [r EXCEPT !.seen = w])  BY <1>1, <1>5 DEF Log
  <2>2. [r EXCEPT !.seen = w].agenda = r.agenda  
    <3>1. Shape(r)  BY DEF Asks
    <3>2. [r EXCEPT !.seen = w] = Request(r.agenda, r.invoice, r.type, w, r.left, r.number, r.batch, r.processed, r.event)
      BY <3>1, SeenUpdate
    <3> QED  BY ONLY <3>2, RequestShape

  <2> QED  BY <1>8, <2>1, <2>2 DEF HandoffDone
<1>13. CASE r.agenda = <<"log">>
  <2>1. handoff' = [handoff EXCEPT ![o] = IdleHandoff]  BY <1>9, <1>12, <1>13 DEF Goto
  <2>2. IdleHandoff.agenda # <<"log", "item">> /\ IdleHandoff.agenda # <<"item">>
    BY IdleShape
  <2> QED  BY <1>1, <1>2, <1>9, <1>10, <1>11, <1>13, <2>1, <2>2, IdleAsks, FurtherStep
<1>14. CASE r.agenda # <<"log">>
  <2>1. Goes(r, q) /\ q.seen = w  BY <1>9, <1>14
  <2>2. handoff' = [handoff EXCEPT ![o] = q]  BY <1>12, <2>1 DEF Goto, Goes
  <2>3. Asks(q) /\ (Filling(r) <=> Filling(q)) /\ q.batch = r.batch /\ q.agenda # <<"log", "item">>
        /\ q.left = r.left /\ q.processed = r.processed /\ r.agenda # <<"totals">> /\ q.agenda # <<"totals">>
    BY <2>1 DEF Goes
  <2>4. Filling(q) => Fills(q, batches[r.batch])
    <3> SUFFICES ASSUME Filling(q) PROVE Fills(q, batches[r.batch])
      OBVIOUS
    <3>1. Fills(r, batches[r.batch])  BY <1>4, <2>3
    <3>2. q.agenda \in ChosenAgendas =>
         q.invoice = Head(q.left) /\ Organization[Head(q.left)] = batches[r.batch].organization
      BY <3>1, <2>1 DEF Fills, Goes
    <3> QED  BY <3>1, <3>2, <2>3, FillsOn
  <2>5. OrderlyHandoffs => (q.agenda = <<"item">> => q.seen.state = "przekazana")
    BY <1>1, <1>3, <1>5, <2>1 DEF OrderInv, InOrder, Goes
  <2> QED  BY <1>1, <1>2, <1>10, <1>11, <2>2, <2>3, <2>4, <2>5, FurtherStep
<1> QED  BY <1>13, <1>14

LEMMA UndoStep ==
  ASSUME HandoffIInv, NEW o \in Clerks, Undo(o)
  PROVE  HandoffIInv'
<1>1. PICK r : r = handoff[o]  OBVIOUS
<1>2. HandingOff(o)  BY <1>1 DEF Undo, HandoffDoes
<1>3. TablesInv /\ RequestsInv  BY DEF HandoffIInv
<1>4. Shape(r) /\ Knows(r)  BY <1>1, <1>3 DEF RequestsInv, Asks
<1>5. r.agenda = <<"undo">>
  <2>1. r.agenda \in Agendas /\ r.agenda # <<>> /\ Head(r.agenda) = "undo"
    BY <1>1, <1>2, <1>4 DEF Undo, HandoffDoes, HandingOff, Knows
  <2> QED  BY <2>1, AgendaLemma
<1>6. r.invoice \in Invoices /\ r.event \in LogRows /\ ~Filling(r)
  BY <1>4, <1>5, AgendaKinds DEF Knows, Filling
<1>7. handoff' = [handoff EXCEPT ![o] = IdleHandoff]
  <2>1. Tail(r.agenda) = <<>>  BY <1>5, SingleHeads
  <2>2. [r EXCEPT !.agenda = Tail(r.agenda)].agenda = <<>>
    <3>1. PICK a : a = Tail(r.agenda)  OBVIOUS
    <3>2. [r EXCEPT !.agenda = a] = Request(a, r.invoice, r.type, r.seen, r.left, r.number, r.batch, r.processed, r.event)
      BY <1>4, AgendaUpdate
    <3>3. [r EXCEPT !.agenda = a].agenda = a  BY ONLY <3>2, RequestShape
    <3> QED  BY <3>1, <3>3, <2>1
  <2> QED  BY <1>1, <2>2 DEF Undo, HandoffDone, Goto
<1>8. UNCHANGED <<log, batches, handoffs, handoffsMixed, handoffDied>>  BY DEF Undo
<1>9. TablesInv'
  <2>1. PICK row : row = Undone(workflow[r.invoice], r.event)  OBVIOUS
  <2>2. workflow[r.invoice] \in WorkflowRows  BY <1>3, <1>6 DEF TablesInv
  <2>3. row \in WorkflowRows  BY <1>6, <2>1, <2>2, UndoneLemma
  <2>4. workflow' = [workflow EXCEPT ![r.invoice] = row]  BY <1>1, <2>1 DEF Undo
  <2> QED  BY <1>3, <1>8, <2>3, <2>4 DEF TablesInv
<1>10. IdleHandoff.agenda # <<"log", "item">> /\ IdleHandoff.agenda # <<"item">>
  BY IdleShape
<1> QED  BY <1>1, <1>2, <1>6, <1>7, <1>8, <1>9, <1>10, IdleAsks, FurtherStep

LEMMA HalfWaySteps ==
  ASSUME HandoffIInv, NEW o \in Clerks, BatchRefused(o) \/ AlreadyHandedOff(o) \/ HandoffDies(o)
  PROVE  HandoffIInv'
BY EndStep DEF BatchRefused, AlreadyHandedOff, HandoffDies

-----------------------------------------------------------------------------
(* Batches *)

\* The transaction a request that fills a batch makes next, and what it knows.
LEMMA FillingLemma ==
  ASSUME HandoffIInv, NEW o \in Clerks,
         NEW s \in {"choose", "start_ready", "check", "start_hand_off", "item", "totals"},
         HandoffDoes(o, s), NEW r, r = handoff[o]
  PROVE  /\ HandingOff(o) /\ r.agenda = <<s>> /\ Shape(r) /\ Knows(r) /\ Filling(r)
         /\ r.batch \in DOMAIN batches /\ Fills(r, batches[r.batch])
<1>1. RequestsInv  BY DEF HandoffIInv
<1>2. HandingOff(o)  BY DEF HandoffDoes
<1>3. Shape(r) /\ Knows(r)  BY <1>1 DEF RequestsInv, Asks
<1>4. r.agenda \in Agendas /\ r.agenda # <<>> /\ Head(r.agenda) = s
  BY <1>2, <1>3 DEF HandoffDoes, HandingOff, Knows
<1>5. r.agenda = <<s>>  BY <1>4, AgendaLemma
<1>6. <<s>> \in FillingAgendas  BY DEF FillingAgendas, ChosenAgendas
<1>7. Filling(r)  BY <1>5, <1>6 DEF Filling
<1>8. r.batch \in DOMAIN batches /\ Fills(r, batches[r.batch])  BY <1>1, <1>7 DEF RequestsInv
<1> QED  BY <1>2, <1>3, <1>5, <1>7, <1>8

\* The invoice a request has chosen is the first of those it has left.
LEMMA ChosenInvoice ==
  ASSUME NEW r, NEW b, Fills(r, b), r.agenda # <<"totals">>
  PROVE  /\ r.left # <<>> /\ Head(r.left) \in Invoices
         /\ r.agenda \in ChosenAgendas => r.invoice = Head(r.left)
<1>1. r.left # <<>> /\ r.left \in Seq(Invoices)  BY DEF Fills
<1> QED  BY <1>1 DEF Fills

LEMMA ChooseStep ==
  ASSUME HandoffIInv, NEW o \in Clerks, Choose(o)
  PROVE  HandoffIInv'
<1>1. PICK r : r = handoff[o]  OBVIOUS
<1>2. /\ HandingOff(o) /\ r.agenda = <<"choose">> /\ Shape(r) /\ Knows(r) /\ Filling(r)
      /\ r.batch \in DOMAIN batches /\ Fills(r, batches[r.batch])
  BY <1>1, FillingLemma DEF Choose
<1>3. TablesInv /\ RequestsInv  BY DEF HandoffIInv
<1>4. r.agenda # <<"totals">>  BY <1>2
<1>5. PICK i : i = Head(r.left)  OBVIOUS
<1>6. i \in Invoices  BY <1>2, <1>4, <1>5, ChosenInvoice
<1>7. PICK w : w = workflow[i]  OBVIOUS
<1>8. w \in WorkflowRows  BY <1>3, <1>6, <1>7 DEF TablesInv
<1>9. PICK a : a = IF w.state = "w_pracy" THEN <<"start_ready">> ELSE <<"check">>  OBVIOUS
<1>10. a \in {<<"start_ready">>, <<"check">>}  BY <1>9
<1>11. PICK p : p = [r EXCEPT !.invoice = i, !.seen = w]  OBVIOUS
<1>12. p = Request(r.agenda, i, r.type, w, r.left, r.number, r.batch, r.processed, r.event)
  BY <1>2, <1>11, ChoiceUpdate
<1>13. /\ Shape(p) /\ p.agenda = r.agenda /\ p.invoice = i /\ p.type = r.type /\ p.seen = w
       /\ p.left = r.left /\ p.number = r.number /\ p.batch = r.batch /\ p.processed = r.processed /\ p.event = r.event
  BY ONLY <1>12, RequestShape
<1>14. PICK q : q = [p EXCEPT !.agenda = a]  OBVIOUS
<1>15. q = Request(a, p.invoice, p.type, p.seen, p.left, p.number, p.batch, p.processed, p.event)
  BY <1>13, <1>14, AgendaUpdate
<1>16. /\ Shape(q) /\ q.agenda = a /\ q.invoice = p.invoice /\ q.type = p.type /\ q.seen = p.seen
       /\ q.left = p.left /\ q.batch = p.batch /\ q.processed = p.processed
  BY ONLY <1>15, RequestShape
<1>17. Goto(o, q) /\ Organization[i] = batches[r.batch].organization
  BY <1>1, <1>5, <1>7, <1>9, <1>11, <1>14 DEF Choose, Belongs
<1>18. /\ a # <<>> /\ a # <<"undo">> /\ a # <<"batch">> /\ a # <<"totals">> /\ a # <<"item">>
       /\ a # <<"log", "item">>
  BY <1>10
<1>19. handoff' = [handoff EXCEPT ![o] = q]  BY <1>16, <1>17, <1>18 DEF Goto
<1>20. UNCHANGED <<workflow, log, batches, handoffs, handoffsMixed, handoffDied>>
  BY DEF Choose, handoffHistory
<1>21. TablesInv'  BY <1>3, <1>20 DEF TablesInv
<1>22. a \in ChosenAgendas /\ a \in FillingAgendas /\ a \in Agendas
  BY <1>10 DEF ChosenAgendas, FillingAgendas, Agendas
<1>23. a \notin DecisionAgendas \cup ReadyAgendas \cup HandOffAgendas
  BY <1>10, AgendaKinds DEF SeeingAgendas
<1>24. Knows(q)  BY <1>6, <1>8, <1>13, <1>16, <1>18, <1>22, <1>23 DEF Knows
<1>25. Asks(q) /\ Filling(q) /\ q.batch = r.batch  BY <1>13, <1>16, <1>22, <1>24 DEF Asks, Filling
<1>26. Fills(q, batches[r.batch])
  <2>1. /\ q.left = r.left /\ q.processed = r.processed /\ q.agenda # <<"totals">>
        /\ q.invoice = Head(q.left) /\ Organization[Head(q.left)] = batches[r.batch].organization
    BY <1>5, <1>13, <1>16, <1>17, <1>18
  <2> QED  BY <1>2, <1>4, <2>1, FillsOn
<1>27. q.agenda # <<"item">> /\ q.agenda # <<"log", "item">>  BY <1>16, <1>18
<1> QED  BY <1>1, <1>2, <1>19, <1>20, <1>21, <1>25, <1>26, <1>27, FurtherStep

LEMMA StartReadyStep ==
  ASSUME HandoffIInv, NEW o \in Clerks, StartReady(o)
  PROVE  HandoffIInv'
<1>1. PICK r : r = handoff[o]  OBVIOUS
<1>2. /\ HandingOff(o) /\ r.agenda = <<"start_ready">> /\ Shape(r) /\ Knows(r) /\ Filling(r)
      /\ r.batch \in DOMAIN batches /\ Fills(r, batches[r.batch])
  BY <1>1, FillingLemma DEF StartReady
<1>3. TablesInv /\ RequestsInv  BY DEF HandoffIInv
<1>4. r.agenda # <<"totals">> /\ r.agenda \in ChosenAgendas  BY <1>2 DEF ChosenAgendas
<1>5. r.invoice \in Invoices /\ r.invoice = Head(r.left)  BY <1>2, <1>4, ChosenInvoice
<1>6. PICK w : w = workflow[r.invoice]  OBVIOUS
<1>7. w \in WorkflowRows  BY <1>3, <1>5, <1>6 DEF TablesInv
<1>8. PICK a : a = DecidingSteps \o <<"check">>  OBVIOUS
<1>9. a = <<"update", "log", "check">>
  <2>1. PICK S : S = {"update", "log", "check"}  OBVIOUS
  <2>2. "update" \in S /\ "log" \in S /\ "check" \in S  BY <2>1
  <2> QED  BY <1>8, <2>2, AppendedAgenda DEF DecidingSteps
<1>10. PICK q : q = [r EXCEPT !.agenda = a, !.type = "ready", !.seen = w]  OBVIOUS
<1>11. q = Request(a, r.invoice, "ready", w, r.left, r.number, r.batch, r.processed, r.event)
  BY <1>2, <1>10, DecisionUpdate
<1>12. /\ Shape(q) /\ q.agenda = a /\ q.invoice = r.invoice /\ q.type = "ready" /\ q.seen = w
       /\ q.left = r.left /\ q.batch = r.batch /\ q.processed = r.processed
  BY ONLY <1>11, RequestShape
<1>13. Goto(o, q)  BY <1>1, <1>6, <1>8, <1>10 DEF StartReady
<1>14. /\ a # <<>> /\ a # <<"undo">> /\ a # <<"batch">> /\ a # <<"totals">> /\ a # <<"item">>
       /\ a # <<"log", "item">>
  BY <1>9
<1>15. handoff' = [handoff EXCEPT ![o] = q]  BY <1>12, <1>13, <1>14 DEF Goto
<1>16. UNCHANGED <<workflow, log, batches, handoffs, handoffsMixed, handoffDied>>
  BY DEF StartReady, handoffHistory
<1>17. TablesInv'  BY <1>3, <1>16 DEF TablesInv
<1>18. a \in ReadyAgendas /\ a \in ChosenAgendas /\ a \in FillingAgendas /\ a \in Agendas
  BY <1>9 DEF ReadyAgendas, ChosenAgendas, FillingAgendas, Agendas
<1>19. "ready" \in Decisions  BY DEF Decisions
<1>20. a \notin HandOffAgendas  BY <1>18, AgendaKinds
<1>21. Knows(q)  BY <1>5, <1>7, <1>12, <1>14, <1>18, <1>19, <1>20 DEF Knows
<1>22. Asks(q) /\ Filling(q) /\ q.batch = r.batch  BY <1>12, <1>18, <1>21 DEF Asks, Filling
<1>23. Fills(q, batches[r.batch])
  <2>1. /\ q.left = r.left /\ q.processed = r.processed /\ q.agenda # <<"totals">>
        /\ q.invoice = Head(q.left) /\ Organization[Head(q.left)] = batches[r.batch].organization
    BY <1>2, <1>4, <1>5, <1>12, <1>14 DEF Fills
  <2> QED  BY <1>2, <1>4, <2>1, FillsOn
<1>24. q.agenda # <<"item">> /\ q.agenda # <<"log", "item">>  BY <1>12, <1>14
<1> QED  BY <1>1, <1>2, <1>15, <1>16, <1>17, <1>22, <1>23, <1>24, FurtherStep

LEMMA StartHandOffStep ==
  ASSUME HandoffIInv, NEW o \in Clerks, StartHandOff(o)
  PROVE  HandoffIInv'
<1>1. PICK r : r = handoff[o]  OBVIOUS
<1>2. /\ HandingOff(o) /\ r.agenda = <<"start_hand_off">> /\ Shape(r) /\ Knows(r) /\ Filling(r)
      /\ r.batch \in DOMAIN batches /\ Fills(r, batches[r.batch])
  BY <1>1, FillingLemma DEF StartHandOff
<1>3. TablesInv /\ RequestsInv  BY DEF HandoffIInv
<1>4. r.agenda # <<"totals">> /\ r.agenda \in ChosenAgendas  BY <1>2 DEF ChosenAgendas
<1>5. r.invoice \in Invoices /\ r.invoice = Head(r.left)  BY <1>2, <1>4, ChosenInvoice
<1>6. PICK w : w = workflow[r.invoice]  OBVIOUS
<1>7. w \in WorkflowRows  BY <1>3, <1>5, <1>6 DEF TablesInv
<1>8. PICK a : a = DecidingSteps \o <<"item">>  OBVIOUS
<1>9. a = <<"update", "log", "item">>
  <2>1. PICK S : S = {"update", "log", "item"}  OBVIOUS
  <2>2. "update" \in S /\ "log" \in S /\ "item" \in S  BY <2>1
  <2> QED  BY <1>8, <2>2, AppendedAgenda DEF DecidingSteps
<1>10. PICK q : q = [r EXCEPT !.agenda = a, !.type = "hand_off", !.seen = w]  OBVIOUS
<1>11. q = Request(a, r.invoice, "hand_off", w, r.left, r.number, r.batch, r.processed, r.event)
  BY <1>2, <1>10, DecisionUpdate
<1>12. /\ Shape(q) /\ q.agenda = a /\ q.invoice = r.invoice /\ q.type = "hand_off" /\ q.seen = w
       /\ q.left = r.left /\ q.batch = r.batch /\ q.processed = r.processed
  BY ONLY <1>11, RequestShape
<1>13. Goto(o, q)  BY <1>1, <1>6, <1>8, <1>10 DEF StartHandOff
<1>14. /\ a # <<>> /\ a # <<"undo">> /\ a # <<"batch">> /\ a # <<"totals">> /\ a # <<"item">>
       /\ a # <<"log", "item">>
  BY <1>9
<1>15. handoff' = [handoff EXCEPT ![o] = q]  BY <1>12, <1>13, <1>14 DEF Goto
<1>16. UNCHANGED <<workflow, log, batches, handoffs, handoffsMixed, handoffDied>>
  BY DEF StartHandOff, handoffHistory
<1>17. TablesInv'  BY <1>3, <1>16 DEF TablesInv
<1>18. a \in HandOffAgendas /\ a \in ChosenAgendas /\ a \in FillingAgendas /\ a \in Agendas
  BY <1>9 DEF HandOffAgendas, ChosenAgendas, FillingAgendas, Agendas
<1>19. "hand_off" \in Decisions  BY DEF Decisions
<1>20. Knows(q)  BY <1>5, <1>7, <1>12, <1>14, <1>18, <1>19 DEF Knows
<1>21. Asks(q) /\ Filling(q) /\ q.batch = r.batch  BY <1>12, <1>18, <1>20 DEF Asks, Filling
<1>22. Fills(q, batches[r.batch])
  <2>1. /\ q.left = r.left /\ q.processed = r.processed /\ q.agenda # <<"totals">>
        /\ q.invoice = Head(q.left) /\ Organization[Head(q.left)] = batches[r.batch].organization
    BY <1>2, <1>4, <1>5, <1>12, <1>14 DEF Fills
  <2> QED  BY <1>2, <1>4, <2>1, FillsOn
<1>23. q.agenda # <<"item">> /\ q.agenda # <<"log", "item">>  BY <1>12, <1>14
<1> QED  BY <1>1, <1>2, <1>15, <1>16, <1>17, <1>21, <1>22, <1>23, FurtherStep

LEMMA CheckStep ==
  ASSUME HandoffIInv, NEW o \in Clerks, Check(o)
  PROVE  HandoffIInv'
<1>1. PICK r : r = handoff[o]  OBVIOUS
<1>2. /\ HandingOff(o) /\ r.agenda = <<"check">> /\ Shape(r) /\ Knows(r) /\ Filling(r)
      /\ r.batch \in DOMAIN batches /\ Fills(r, batches[r.batch])
  BY <1>1, FillingLemma DEF Check
<1>3. TablesInv /\ RequestsInv  BY DEF HandoffIInv
<1>4. r.agenda # <<"totals">> /\ r.agenda \in ChosenAgendas /\ r.agenda \in SeeingAgendas
  BY <1>2 DEF ChosenAgendas, SeeingAgendas
<1>5. r.invoice \in Invoices /\ r.invoice = Head(r.left)  BY <1>2, <1>4, ChosenInvoice
<1>6. r.seen \in WorkflowRows  BY <1>2, <1>4 DEF Knows
<1>7. PICK a : a = IF r.seen.state = "przekazana" THEN <<"item">> ELSE <<"start_hand_off">>  OBVIOUS
<1>8. a \in {<<"item">>, <<"start_hand_off">>}  BY <1>7
<1>9. PICK q : q = [r EXCEPT !.agenda = a]  OBVIOUS
<1>10. q = Request(a, r.invoice, r.type, r.seen, r.left, r.number, r.batch, r.processed, r.event)
  BY <1>2, <1>9, AgendaUpdate
<1>11. /\ Shape(q) /\ q.agenda = a /\ q.invoice = r.invoice /\ q.type = r.type /\ q.seen = r.seen
       /\ q.left = r.left /\ q.batch = r.batch /\ q.processed = r.processed
  BY ONLY <1>10, RequestShape
<1>12. Goto(o, q)  BY <1>1, <1>7, <1>9 DEF Check
<1>13. /\ a # <<>> /\ a # <<"undo">> /\ a # <<"batch">> /\ a # <<"totals">> /\ a # <<"log", "item">>
  BY <1>8
<1>14. handoff' = [handoff EXCEPT ![o] = q]  BY <1>11, <1>12, <1>13 DEF Goto
<1>15. UNCHANGED <<workflow, log, batches, handoffs, handoffsMixed, handoffDied>>
  BY DEF Check, handoffHistory
<1>16. TablesInv'  BY <1>3, <1>15 DEF TablesInv
<1>17. a \in ChosenAgendas /\ a \in FillingAgendas /\ a \in Agendas
  BY <1>8 DEF ChosenAgendas, FillingAgendas, Agendas
<1>18. a \notin DecisionAgendas \cup ReadyAgendas \cup HandOffAgendas
  BY <1>8, AgendaKinds DEF SeeingAgendas
<1>19. Knows(q)  BY <1>5, <1>6, <1>11, <1>13, <1>17, <1>18 DEF Knows
<1>20. Asks(q) /\ Filling(q) /\ q.batch = r.batch  BY <1>11, <1>17, <1>19 DEF Asks, Filling
<1>21. Fills(q, batches[r.batch])
  <2>1. /\ q.left = r.left /\ q.processed = r.processed /\ q.agenda # <<"totals">>
        /\ q.invoice = Head(q.left) /\ Organization[Head(q.left)] = batches[r.batch].organization
    BY <1>2, <1>4, <1>5, <1>11, <1>13 DEF Fills
  <2> QED  BY <1>2, <1>4, <2>1, FillsOn
<1>22. q.agenda # <<"log", "item">> /\ (q.agenda = <<"item">> => q.seen.state = "przekazana")
  <2>1. <<"start_hand_off">> # <<"item">>  OBVIOUS
  <2> QED  BY <2>1, <1>7, <1>11, <1>13
<1> QED  BY <1>1, <1>2, <1>14, <1>15, <1>16, <1>20, <1>21, <1>22, FurtherStep

\* The rows of the batches, written.
LEMMA ExportColumns ==
  ASSUME NEW b \in BatchRows, NEW c, c = [b EXCEPT !.status = "wyeksportowana", !.exported = TRUE]
  PROVE  /\ c \in BatchRows /\ c.items = b.items /\ c.organization = b.organization
         /\ c.status = "wyeksportowana" /\ c.count = b.count
<1>1. PICK d : d = [b EXCEPT !.status = "wyeksportowana"]  OBVIOUS
<1>2. /\ d \in BatchRows /\ d.items = b.items /\ d.organization = b.organization
      /\ d.status = "wyeksportowana" /\ d.count = b.count
  BY ONLY <1>1, b \in BatchRows DEF BatchRows
<1>3. c = [d EXCEPT !.exported = TRUE]  BY <1>1
<1>4. /\ c \in BatchRows /\ c.items = d.items /\ c.organization = d.organization
      /\ c.status = d.status /\ c.count = d.count
  BY ONLY <1>2, <1>3 DEF BatchRows
<1> QED  BY <1>2, <1>4

\* A step that changes one batch, the one its request fills.
LEMMA BatchStep ==
  ASSUME HandoffIInv, NEW o \in Clerks, HandingOff(o), NEW q, Asks(q),
         handoff' = [handoff EXCEPT ![o] = q],
         NEW k \in DOMAIN batches, Filling(handoff[o]), handoff[o].batch = k,
         NEW c \in BatchRows, batches' = [batches EXCEPT ![k] = c], BatchIs(c),
         UNCHANGED <<workflow, log, handoffs, handoffsMixed, handoffDied>>,
         Filling(q) => q.batch = k /\ Fills(q, c),
         OrderlyHandoffs => SettledBatch(c),
         OrderlyHandoffs => (c.status = "utworzona" => Filling(q)),
         OrderlyHandoffs => (Filling(q) => c.status = "utworzona"),
         q.agenda # <<"log", "item">>, q.agenda # <<"item">>
  PROVE  HandoffIInv'
<1>1. TablesInv /\ BatchesInv /\ RequestsInv /\ OrderInv  BY DEF HandoffIInv
<1>2. batches \in Seq(BatchRows)  BY <1>1 DEF TablesInv
<1>3. /\ batches' \in Seq(BatchRows) /\ DOMAIN batches' = DOMAIN batches
      /\ batches'[k] = c /\ \A l \in DOMAIN batches \ {k} : batches'[l] = batches[l]
  BY <1>2
<1>4. TablesInv'  BY <1>1, <1>3 DEF TablesInv
<1>5. BatchesInv'  BY <1>1, <1>3 DEF BatchesInv
<1>6. \A p \in Clerks \ {o} : Filling(handoff[p]) =>
        handoff[p].batch \in DOMAIN batches \ {k} /\ Fills(handoff[p], batches[handoff[p].batch])
  BY <1>1 DEF RequestsInv
<1>7. RequestsInv'
  <2>1. Filling(q) => q.batch \in DOMAIN batches' /\ Fills(q, batches'[q.batch])  BY <1>3
  <2>2. \A p \in Clerks \ {o} : Filling(handoff[p]) =>
          /\ Filling(q) => handoff[p].batch # q.batch
          /\ handoff[p].batch \in DOMAIN batches' /\ Fills(handoff[p], batches'[handoff[p].batch])
    BY <1>3, <1>6
  <2> QED  BY <1>1, <2>1, <2>2, RequestsStep
<1>8. OrderlyHandoffs' => OrderlyHandoffs /\ \A p \in Clerks \ {o} : ~HandingOff(p)
  BY <1>1, AtWork
<1>9. OrderlyHandoffs => \A l \in DOMAIN batches' : SettledBatch(batches'[l])
  BY <1>1, <1>3 DEF OrderInv
<1>10. OrderlyHandoffs => \A l \in DOMAIN batches' : batches'[l].status = "utworzona" =>
                            (Filling(q) /\ q.batch = l)
  <2> SUFFICES ASSUME OrderlyHandoffs, NEW l \in DOMAIN batches, batches'[l].status = "utworzona"
               PROVE  Filling(q) /\ q.batch = l
    BY <1>3
  <2>1. CASE l = k  BY <2>1, <1>3
  <2>2. CASE l # k
    <3>1. batches[l].status = "utworzona"  BY <2>2, <1>3
    <3>2. PICK p \in Clerks : Filling(handoff[p]) /\ handoff[p].batch = l  BY <1>1, <3>1 DEF OrderInv
    <3>3. p # o  BY <2>2, <3>2
    <3>4. handoff[p].agenda # <<>>  BY <3>2, AgendaKinds DEF Filling
    <3> QED  BY <1>1, <3>3, <3>4 DEF OrderInv, HandingOff
  <2> QED  BY <2>1, <2>2
<1>11. OrderlyHandoffs => InOrder(q, batches', workflow')
  BY <1>3 DEF InOrder
<1>12. OrderInv'  BY <1>1, <1>8, <1>9, <1>10, <1>11, OrderStep
<1> QED  BY <1>4, <1>5, <1>7, <1>12 DEF HandoffIInv

LEMMA InsertBatchStep ==
  ASSUME HandoffIInv, NEW o \in Clerks, InsertBatch(o)
  PROVE  HandoffIInv'
<1>1. PICK r : r = handoff[o]  OBVIOUS
<1>2. TablesInv /\ BatchesInv /\ RequestsInv /\ OrderInv  BY DEF HandoffIInv
<1>3. Shape(r) /\ Knows(r)  BY <1>1, <1>2 DEF RequestsInv, Asks
<1>4. HandingOff(o)  BY DEF InsertBatch, HandoffDoes
<1>5. r.agenda = <<"batch">>
  <2>1. r.agenda \in Agendas /\ r.agenda # <<>> /\ Head(r.agenda) = "batch"
    BY <1>1, <1>3, <1>4 DEF InsertBatch, HandoffDoes, HandingOff, Knows
  <2> QED  BY <2>1, AgendaLemma
<1>6. r.left \in Selections /\ r.number \in Nat \ {0} /\ r.processed = 0  BY <1>3, <1>5 DEF Knows
<1>7. r.left \in Seq(Invoices) /\ r.left # <<>> /\ IsInjective(r.left)
  BY <1>6, HandoffAssumption
<1>8. PICK n : n = Len(batches) + 1  OBVIOUS
<1>9. PICK q : q = [r EXCEPT !.batch = n, !.agenda = <<"choose">>]  OBVIOUS
<1>10. q = Request(<<"choose">>, r.invoice, r.type, r.seen, r.left, r.number, n, r.processed, r.event)
  BY <1>3, <1>9, BatchUpdate
<1>11. Shape(q) /\ q.agenda = <<"choose">> /\ q.left = r.left /\ q.batch = n /\ q.processed = r.processed
  BY ONLY <1>10, RequestShape
<1>12. handoff' = [handoff EXCEPT ![o] = q]
  <2>1. Goto(o, q)  BY <1>1, <1>8, <1>9 DEF InsertBatch, Taking
  <2>2. <<"choose">> # <<>>  OBVIOUS
  <2> QED  BY <1>11, <2>1, <2>2 DEF Goto
<1>13. Asks(q) /\ Filling(q) /\ q.agenda \notin ChosenAgendas
  <2>1. /\ <<"choose">> \in FillingAgendas /\ <<"choose">> \in Agendas
        /\ <<"choose">> \notin SeeingAgendas \cup ChosenAgendas
    BY AgendaKinds DEF FillingAgendas, Agendas
  <2>2. <<"choose">> # <<"undo">> /\ <<"choose">> # <<"batch">>  OBVIOUS
  <2>3. Knows(q)  BY <1>11, <2>1, <2>2 DEF Knows, SeeingAgendas
  <2> QED  BY <1>11, <2>1, <2>3 DEF Asks, Filling
<1>14. PICK g : g = Organization[Head(r.left)]  OBVIOUS
<1>15. PICK c : c = NewBatch(g, r.number)  OBVIOUS
<1>16. /\ c = [organization |-> g, number |-> r.number, status |-> "utworzona", count |-> 0,
               items |-> {}, exported |-> FALSE]
       /\ g \in Range(Organization)
  BY <1>7, <1>14, <1>15 DEF NewBatch, Invoices, Range
<1>17. c \in BatchRows /\ c.organization = g /\ c.status = "utworzona" /\ c.items = {} /\ c.exported = FALSE
  BY ONLY <1>6, <1>16 DEF BatchRows
<1>18. batches' = Append(batches, c)  BY <1>1, <1>14, <1>15 DEF InsertBatch
<1>19. UNCHANGED <<workflow, log, handoffs, handoffsMixed, handoffDied>>
  BY DEF InsertBatch, handoffHistory
<1>20. batches \in Seq(BatchRows)  BY <1>2 DEF TablesInv
<1>21. /\ batches' \in Seq(BatchRows) /\ DOMAIN batches' = DOMAIN batches \cup {n} /\ n \notin DOMAIN batches
       /\ batches'[n] = c /\ \A l \in DOMAIN batches : batches'[l] = batches[l]
  BY <1>8, <1>17, <1>18, <1>20
<1>22. TablesInv'  BY <1>2, <1>19, <1>21 DEF TablesInv
<1>23. BatchIs(c)
  BY <1>17, FS_EmptySet DEF BatchIs
<1>24. BatchesInv'  BY <1>2, <1>21, <1>23 DEF BatchesInv
<1>25. Fills(q, c)
  <2>1. q.processed = Cardinality(c.items)  BY <1>6, <1>11, <1>17, FS_EmptySet
  <2>2. q.agenda # <<"totals">> /\ c.status # "przekazana"  BY <1>11, <1>17
  <2> QED  BY <1>7, <1>11, <1>13, <1>14, <1>17, <2>1, <2>2 DEF Fills
<1>26. \A p \in Clerks \ {o} : Filling(handoff[p]) =>
         /\ Filling(q) => handoff[p].batch # q.batch
         /\ handoff[p].batch \in DOMAIN batches' /\ Fills(handoff[p], batches'[handoff[p].batch])
  <2> SUFFICES ASSUME NEW p \in Clerks \ {o}, Filling(handoff[p])
               PROVE  /\ handoff[p].batch # n
                      /\ handoff[p].batch \in DOMAIN batches' /\ Fills(handoff[p], batches'[handoff[p].batch])
    BY <1>11
  <2>1. handoff[p].batch \in DOMAIN batches /\ Fills(handoff[p], batches[handoff[p].batch])
    BY <1>2 DEF RequestsInv
  <2> QED  BY <1>21, <2>1
<1>27. RequestsInv'
  <2>1. Filling(q) => q.batch \in DOMAIN batches' /\ Fills(q, batches'[q.batch])
    BY <1>11, <1>21, <1>25
  <2> QED  BY <1>2, <1>12, <1>13, <1>26, <2>1, RequestsStep
<1>28. OrderlyHandoffs' => OrderlyHandoffs /\ \A p \in Clerks \ {o} : ~HandingOff(p)
  BY <1>2, <1>4, <1>19, AtWork
<1>29. OrderlyHandoffs => \A l \in DOMAIN batches' : SettledBatch(batches'[l])
  <2>1. SettledBatch(c)  BY <1>17 DEF SettledBatch
  <2> QED  BY <1>2, <1>21, <2>1 DEF OrderInv
<1>30. OrderlyHandoffs => \A l \in DOMAIN batches' : batches'[l].status = "utworzona" =>
                            (Filling(q) /\ q.batch = l)
  <2> SUFFICES ASSUME OrderlyHandoffs, NEW l \in DOMAIN batches, batches[l].status = "utworzona"
               PROVE  FALSE
    BY <1>11, <1>13, <1>21
  <2>1. PICK p \in Clerks : Filling(handoff[p]) /\ handoff[p].batch = l  BY <1>2 DEF OrderInv
  <2>2. handoff[p].agenda # <<>>  BY <2>1, AgendaKinds DEF Filling
  <2>3. p = o  BY <1>2, <1>4, <2>2 DEF OrderInv, HandingOff
  <2> QED  BY <1>1, <1>5, <2>1, <2>3, AgendaKinds DEF Filling
<1>31. OrderlyHandoffs => InOrder(q, batches', workflow')
  <2>1. q.agenda # <<"log", "item">> /\ q.agenda # <<"item">>  BY <1>11
  <2> QED  BY <1>11, <1>17, <1>21, <2>1 DEF InOrder
<1>32. OrderInv'  BY <1>2, <1>12, <1>28, <1>29, <1>30, <1>31, OrderStep
<1> QED  BY <1>22, <1>24, <1>27, <1>32 DEF HandoffIInv

\* The selection without its first invoice.
LEMMA RestLemma ==
  ASSUME NEW l \in Seq(Invoices), l # <<>>, IsInjective(l)
  PROVE  /\ Tail(l) \in Seq(Invoices) /\ IsInjective(Tail(l))
         /\ Len(l) # 1 => Tail(l) # <<>>
         /\ \A n \in DOMAIN Tail(l) :
              n + 1 \in DOMAIN l /\ Tail(l)[n] = l[n + 1] /\ l[n + 1] # Head(l)
<1>1. /\ Tail(l) \in Seq(Invoices) /\ Len(Tail(l)) = Len(l) - 1
      /\ \A n \in DOMAIN Tail(l) : n + 1 \in DOMAIN l /\ Tail(l)[n] = l[n + 1] /\ n \in Nat \ {0}
  OBVIOUS
<1>2. IsInjective(Tail(l))
  <2> SUFFICES ASSUME NEW m \in DOMAIN Tail(l), NEW n \in DOMAIN Tail(l), Tail(l)[m] = Tail(l)[n]
               PROVE  m = n
    BY DEF IsInjective
  <2>1. l[m + 1] = l[n + 1] /\ m + 1 \in DOMAIN l /\ n + 1 \in DOMAIN l  BY <1>1
  <2>2. m + 1 = n + 1  BY <2>1 DEF IsInjective
  <2> QED  BY <1>1, <2>2
<1>3. Len(l) # 1 => Tail(l) # <<>>
  <2> SUFFICES ASSUME Len(l) # 1 PROVE Tail(l) # <<>>
    OBVIOUS
  <2>1. Len(l) \in Nat /\ Len(l) # 0  OBVIOUS
  <2>2. Len(Tail(l)) # 0  BY <1>1, <2>1
  <2>3. Len(<<>>) = 0  OBVIOUS
  <2> QED  BY ONLY <2>2, <2>3
<1>4. \A n \in DOMAIN Tail(l) : l[n + 1] # Head(l)
  <2> SUFFICES ASSUME NEW n \in DOMAIN Tail(l) PROVE l[n + 1] # Head(l)
    OBVIOUS
  <2>1. n + 1 \in DOMAIN l /\ n + 1 # 1 /\ 1 \in DOMAIN l /\ Head(l) = l[1]  BY <1>1
  <2> QED  BY <2>1 DEF IsInjective
<1> QED  BY <1>1, <1>2, <1>3, <1>4

\* A request goes on to the next invoice of its selection, or to the totals.
Follows(r, q) ==
  /\ Asks(q) /\ Filling(q) /\ q.agenda \notin ChosenAgendas
  /\ q.agenda = IF Len(r.left) = 1 THEN <<"totals">> ELSE <<"choose">>
  /\ q.left = Tail(r.left) /\ q.batch = r.batch /\ q.processed = r.processed
  /\ q.agenda # <<>> /\ q.agenda # <<"item">> /\ q.agenda # <<"log", "item">>

LEMMA OnwardLemma ==
  ASSUME NEW r, Shape(r)
  PROVE  Follows(r, Onward(r))
<1>1. PICK a : a = IF Len(r.left) = 1 THEN <<"totals">> ELSE <<"choose">>  OBVIOUS
<1>2. PICK l : l = Tail(r.left)  OBVIOUS
<1>3. PICK q : q = Onward(r)  OBVIOUS
<1>4. q = [r EXCEPT !.left = l, !.agenda = a]  BY <1>1, <1>2, <1>3 DEF Onward, Taking
<1>5. q = Request(a, r.invoice, r.type, r.seen, l, r.number, r.batch, r.processed, r.event)
  BY <1>4, ItemUpdate
<1>6. Shape(q) /\ q.agenda = a /\ q.left = l /\ q.batch = r.batch /\ q.processed = r.processed
  BY ONLY <1>5, RequestShape
<1>7. a \in {<<"totals">>, <<"choose">>}  BY <1>1
<1>8. /\ a # <<>> /\ a # <<"undo">> /\ a # <<"batch">> /\ a # <<"item">> /\ a # <<"log", "item">>
  BY <1>7
<1>9. a \notin SeeingAgendas \cup ChosenAgendas /\ a \in FillingAgendas /\ a \in Agendas
  BY <1>7, AgendaKinds DEF FillingAgendas, Agendas
<1>10. Knows(q)  BY <1>6, <1>8, <1>9 DEF Knows, SeeingAgendas
<1> QED  BY <1>1, <1>2, <1>3, <1>6, <1>8, <1>9, <1>10 DEF Follows, Asks, Filling

LEMMA PassOverStep ==
  ASSUME HandoffIInv, NEW o \in Clerks, PassOver(o)
  PROVE  HandoffIInv'
<1>1. PICK r : r = handoff[o]  OBVIOUS
<1>2. /\ HandingOff(o) /\ r.agenda = <<"choose">> /\ Shape(r) /\ Knows(r) /\ Filling(r)
      /\ r.batch \in DOMAIN batches /\ Fills(r, batches[r.batch])
  BY <1>1, FillingLemma DEF PassOver
<1>3. TablesInv  BY DEF HandoffIInv
<1>4. PICK b : b = batches[r.batch]  OBVIOUS
<1>5. PICK q : q = Onward(r)  OBVIOUS
<1>6. Follows(r, q)  BY <1>2, <1>5, OnwardLemma
<1>7. handoff' = [handoff EXCEPT ![o] = q]
  BY <1>1, <1>5, <1>6 DEF PassOver, Goto, Follows
<1>8. UNCHANGED <<workflow, log, batches, handoffs, handoffsMixed, handoffDied>>
  BY DEF PassOver, handoffHistory
<1>9. TablesInv'  BY <1>3, <1>8 DEF TablesInv
<1>10. Fills(q, b)
  <2>1. /\ r.left \in Seq(Invoices) /\ r.left # <<>> /\ IsInjective(r.left)
        /\ r.processed = Cardinality(b.items) /\ b.status # "przekazana"
        /\ \A n \in DOMAIN r.left : \A x \in b.items : x[1] # r.left[n]
        /\ b.items = {} => Organization[Head(r.left)] = b.organization
    BY <1>2, <1>4 DEF Fills
  <2>2. b.items # {}  BY <1>1, <1>4, <2>1 DEF PassOver, Belongs
  <2>3. /\ Tail(r.left) \in Seq(Invoices) /\ IsInjective(Tail(r.left))
        /\ Len(r.left) # 1 => Tail(r.left) # <<>>
        /\ \A n \in DOMAIN Tail(r.left) : n + 1 \in DOMAIN r.left /\ Tail(r.left)[n] = r.left[n + 1]
    BY <2>1, RestLemma
  <2>4. q.agenda # <<"totals">> => Tail(r.left) # <<>>  BY <1>6, <2>3 DEF Follows
  <2> QED  BY <1>6, <2>1, <2>2, <2>3, <2>4 DEF Fills, Follows
<1> QED  BY <1>1, <1>2, <1>4, <1>6, <1>7, <1>8, <1>9, <1>10, FurtherStep DEF Follows

\* The items of a batch with one more.
LEMMA OneMoreItem ==
  ASSUME NEW b \in BatchRows, BatchIs(b), NEW r, Fills(r, b), r.left # <<>>, r.agenda \in ChosenAgendas,
         NEW i, i = Head(r.left), NEW s \in States,
         NEW c, c = [b EXCEPT !.items = b.items \cup {<<i, s>>}],
         NEW q, q.left = Tail(r.left), q.agenda \notin ChosenAgendas, q.processed = r.processed + 1,
         q.agenda = IF Len(r.left) = 1 THEN <<"totals">> ELSE <<"choose">>
  PROVE  /\ c \in BatchRows /\ BatchIs(c) /\ Fills(q, c) /\ c.items = b.items \cup {<<i, s>>}
         /\ c.status = b.status /\ c.count = b.count /\ c.exported = b.exported
<1>1. /\ r.left \in Seq(Invoices) /\ IsInjective(r.left)
      /\ Organization[i] = b.organization /\ r.processed = Cardinality(b.items)
      /\ \A n \in DOMAIN r.left : \A x \in b.items : x[1] # r.left[n]
      /\ b.status # "przekazana"
  BY DEF Fills
<1>2. 1 \in DOMAIN r.left /\ i = r.left[1] /\ i \in Invoices  BY <1>1
<1>3. PICK t : t = b.items \cup {<<i, s>>}  OBVIOUS
<1>4. b.items \in SUBSET (Invoices \X States)  BY DEF BatchRows
<1>5. t \in SUBSET (Invoices \X States)  BY <1>2, <1>3, <1>4
<1>6. /\ c \in BatchRows /\ c.items = t /\ c.organization = b.organization /\ c.status = b.status
      /\ c.count = b.count /\ c.exported = b.exported
  <2>1. c = [b EXCEPT !.items = t]  BY <1>3
  <2> QED  BY ONLY <1>5, <2>1, b \in BatchRows DEF BatchRows
<1>7. /\ IsFiniteSet(b.items) /\ \A x, y \in b.items : x[1] = y[1] => x = y
      /\ \A x \in b.items : Organization[x[1]] = b.organization
  BY DEF BatchIs
<1>8. <<i, s>>[1] = i /\ \A x \in b.items : x[1] # i  BY <1>1, <1>2
<1>9. IsFiniteSet(t) /\ Cardinality(t) = q.processed
  <2>1. <<i, s>> \notin b.items  BY <1>8
  <2> QED  BY <1>1, <1>3, <1>7, <2>1, FS_AddElement
<1>10. BatchIs(c)
  <2>1. \A x, y \in t : x[1] = y[1] => x = y  BY <1>3, <1>7, <1>8
  <2>2. \A x \in t : Organization[x[1]] = c.organization  BY <1>1, <1>3, <1>6, <1>7, <1>8
  <2> QED  BY <1>1, <1>6, <1>9, <2>1, <2>2 DEF BatchIs
<1>11. /\ Tail(r.left) \in Seq(Invoices) /\ IsInjective(Tail(r.left))
       /\ Len(r.left) # 1 => Tail(r.left) # <<>>
       /\ \A n \in DOMAIN Tail(r.left) :
            n + 1 \in DOMAIN r.left /\ Tail(r.left)[n] = r.left[n + 1] /\ r.left[n + 1] # i
  BY <1>1, RestLemma
<1>12. \A n \in DOMAIN Tail(r.left) : \A x \in t : x[1] # Tail(r.left)[n]
  BY <1>1, <1>3, <1>8, <1>11
<1>13. c.items # {} /\ (q.agenda # <<"totals">> => Tail(r.left) # <<>>)  BY <1>3, <1>6, <1>11
<1>14. Fills(q, c)  BY <1>1, <1>6, <1>9, <1>11, <1>12, <1>13 DEF Fills
<1> QED  BY <1>3, <1>6, <1>10, <1>14

LEMMA AddBatchItemStep ==
  ASSUME HandoffIInv, NEW o \in Clerks, AddBatchItem(o)
  PROVE  HandoffIInv'
<1>1. PICK r : r = handoff[o]  OBVIOUS
<1>2. /\ HandingOff(o) /\ r.agenda = <<"item">> /\ Shape(r) /\ Knows(r) /\ Filling(r)
      /\ r.batch \in DOMAIN batches /\ Fills(r, batches[r.batch])
  BY <1>1, FillingLemma DEF AddBatchItem
<1>3. TablesInv /\ BatchesInv /\ RequestsInv /\ OrderInv  BY DEF HandoffIInv
<1>4. r.agenda # <<"totals">> /\ r.agenda \in ChosenAgendas /\ r.agenda \in SeeingAgendas
  BY <1>2 DEF ChosenAgendas, SeeingAgendas
<1>5. r.invoice = Head(r.left) /\ r.left # <<>>  BY <1>2, <1>4, ChosenInvoice
<1>6. PICK s : s = r.seen.state  OBVIOUS
<1>7. s \in States  BY <1>2, <1>4, <1>6 DEF Knows, WorkflowRows
<1>8. PICK k \in DOMAIN batches : k = r.batch  BY <1>2
<1>9. batches \in Seq(BatchRows) /\ batches[k] \in BatchRows /\ BatchIs(batches[k])
  BY <1>3 DEF TablesInv, BatchesInv
<1>10. PICK b : b = batches[k]  OBVIOUS
<1>11. PICK c : c = [b EXCEPT !.items = b.items \cup {<<r.invoice, s>>}]  OBVIOUS
<1>12. batches' = [batches EXCEPT ![k] = c]
  BY <1>1, <1>6, <1>8, <1>10, <1>11 DEF AddBatchItem
<1>13. PICK p : p = [r EXCEPT !.processed = r.processed + 1]  OBVIOUS
<1>14. p = Request(r.agenda, r.invoice, r.type, r.seen, r.left, r.number, r.batch, r.processed + 1, r.event)
  BY <1>2, <1>13, ProcessedUpdate
<1>15. Shape(p) /\ p.left = r.left /\ p.batch = r.batch /\ p.processed = r.processed + 1
  BY ONLY <1>14, RequestShape
<1>16. PICK q : q = Onward(p)  OBVIOUS
<1>17. Follows(p, q)  BY <1>15, <1>16, OnwardLemma
<1>18. /\ Asks(q) /\ Filling(q) /\ q.agenda \notin ChosenAgendas
       /\ q.agenda = IF Len(r.left) = 1 THEN <<"totals">> ELSE <<"choose">>
       /\ q.left = Tail(r.left) /\ q.batch = r.batch /\ q.processed = r.processed + 1
       /\ q.agenda # <<>> /\ q.agenda # <<"item">> /\ q.agenda # <<"log", "item">>
  BY <1>15, <1>17 DEF Follows
<1>19. handoff' = [handoff EXCEPT ![o] = q]
  BY <1>1, <1>13, <1>16, <1>18 DEF AddBatchItem, Goto
<1>20. /\ c \in BatchRows /\ BatchIs(c) /\ Fills(q, c) /\ c.items = b.items \cup {<<r.invoice, s>>}
       /\ c.status = b.status /\ c.count = b.count /\ c.exported = b.exported
  <2>1. b \in BatchRows  BY <1>9, <1>10
  <2>2. BatchIs(b)  BY <1>9, <1>10
  <2>3. Fills(r, b)  BY <1>2, <1>8, <1>10
  <2> HIDE <1>1, <1>2
  <2> QED  BY <1>4, <1>5, <1>7, <1>11, <1>18, <2>1, <2>2, <2>3, OneMoreItem
<1>21. UNCHANGED <<workflow, log, handoffs, handoffsMixed, handoffDied>>
  BY DEF AddBatchItem, handoffHistory
<1>22. ASSUME OrderlyHandoffs
       PROVE  SettledBatch(c) /\ c.status = "utworzona"
  <2>1. SettledBatch(b) /\ b.status = "utworzona" /\ s = "przekazana"
    BY <1>1, <1>2, <1>3, <1>6, <1>8, <1>10, <1>22 DEF OrderInv, InOrder
  <2>2. <<r.invoice, s>>[2] = s  OBVIOUS
  <2> QED  BY <1>20, <2>1, <2>2 DEF SettledBatch
<1>23. q.batch = k /\ handoff[o].batch = k /\ Filling(handoff[o])  BY <1>1, <1>2, <1>8, <1>18
<1> QED  BY <1>2, <1>12, <1>18, <1>19, <1>20, <1>21, <1>22, <1>23, BatchStep

LEMMA WriteTotalsStep ==
  ASSUME HandoffIInv, NEW o \in Clerks, WriteTotals(o)
  PROVE  HandoffIInv'
<1>1. PICK r : r = handoff[o]  OBVIOUS
<1>2. /\ HandingOff(o) /\ r.agenda = <<"totals">> /\ Shape(r) /\ Knows(r) /\ Filling(r)
      /\ r.batch \in DOMAIN batches /\ Fills(r, batches[r.batch])
  BY <1>1, FillingLemma DEF WriteTotals
<1>3. TablesInv /\ BatchesInv /\ RequestsInv /\ OrderInv  BY DEF HandoffIInv
<1>4. PICK k \in DOMAIN batches : k = r.batch  BY <1>2
<1>5. batches \in Seq(BatchRows) /\ batches[k] \in BatchRows /\ BatchIs(batches[k])
  BY <1>3 DEF TablesInv, BatchesInv
<1>6. PICK b : b = batches[k]  OBVIOUS
<1>7. IsFiniteSet(b.items) /\ \A x, y \in b.items : x[1] = y[1] => x = y  BY <1>5, <1>6 DEF BatchIs
<1>8. PICK n : n = r.processed  OBVIOUS
<1>9. n = Cardinality(b.items) /\ b.items # {} /\ n \in Nat /\ n > 0
  <2>1. n = Cardinality(b.items) /\ b.items # {}  BY <1>2, <1>4, <1>6, <1>8 DEF Fills
  <2> QED  BY <1>7, <2>1, FS_CardinalityType, FS_EmptySet
<1>10. PICK c : c = [b EXCEPT !.status = "przekazana", !.count = n]  OBVIOUS
<1>11. /\ c \in BatchRows /\ c.items = b.items /\ c.organization = b.organization
       /\ c.status = "przekazana" /\ c.count = n /\ c.exported = b.exported
  <2>1. b \in BatchRows  BY <1>5, <1>6
  <2>2. PICK d : d = [b EXCEPT !.status = "przekazana"]  OBVIOUS
  <2>3. c = [d EXCEPT !.count = n]  BY <1>10, <2>2
  <2>4. /\ d \in BatchRows /\ d.items = b.items /\ d.organization = b.organization
        /\ d.status = "przekazana" /\ d.exported = b.exported
    BY ONLY <2>1, <2>2 DEF BatchRows
  <2>5. /\ c \in BatchRows /\ c.items = d.items /\ c.organization = d.organization
        /\ c.status = d.status /\ c.count = n /\ c.exported = d.exported
    BY ONLY <1>9, <2>3, <2>4 DEF BatchRows
  <2> QED  BY ONLY <2>4, <2>5
<1>12. batches' = [batches EXCEPT ![k] = c]
  <2>1. batches' = [batches EXCEPT ![k].status = "przekazana", ![k].count = n]
    BY <1>1, <1>4, <1>6, <1>8, <1>9 DEF WriteTotals, UpdateBatch
  <2>2. PICK d : d = [b EXCEPT !.status = "przekazana"]  OBVIOUS
  <2>3. PICK ds : ds = [batches EXCEPT ![k] = d]  OBVIOUS
  <2>4. ds[k] = d  BY <1>5, <2>3
  <2>5. c = [d EXCEPT !.count = n]  BY <1>10, <2>2
  <2>6. batches' = [ds EXCEPT ![k] = [ds[k] EXCEPT !.count = n]]  BY <1>6, <2>1, <2>2, <2>3
  <2> QED  BY <2>3, <2>4, <2>5, <2>6
<1>13. HandoffDone(o, r)  BY <1>1 DEF WriteTotals
<1>14. handoff' = [handoff EXCEPT ![o] = IdleHandoff]
  <2>1. PICK a : a = Tail(r.agenda)  OBVIOUS
  <2>2. a = <<>>  BY <1>2, <2>1, SingleHeads
  <2>3. [r EXCEPT !.agenda = a] = Request(a, r.invoice, r.type, r.seen, r.left, r.number, r.batch, r.processed, r.event)
    BY <1>2, AgendaUpdate
  <2>4. [r EXCEPT !.agenda = a].agenda = a  BY ONLY <2>3, RequestShape
  <2> QED  BY <1>13, <2>1, <2>2, <2>4 DEF HandoffDone, Goto
<1>15. UNCHANGED <<workflow, log, handoffs, handoffsMixed, handoffDied>>
  BY DEF WriteTotals, handoffHistory
<1>17. BatchIs(c)
  <2>1. \A x \in b.items : Organization[x[1]] = b.organization  BY <1>5, <1>6 DEF BatchIs
  <2> QED  BY <1>7, <1>9, <1>11, <2>1 DEF BatchIs
<1>18. OrderlyHandoffs => SettledBatch(c)
  <2> SUFFICES ASSUME OrderlyHandoffs PROVE SettledBatch(c)
    OBVIOUS
  <2>1. SettledBatch(b) /\ b.status = "utworzona"
    BY <1>1, <1>2, <1>3, <1>4, <1>6 DEF OrderInv, InOrder
  <2>2. ~b.exported  BY <2>1 DEF SettledBatch
  <2> QED  BY <1>9, <1>11, <2>1, <2>2 DEF SettledBatch
<1>19. Asks(IdleHandoff) /\ ~Filling(IdleHandoff)  BY IdleAsks
<1>20. IdleHandoff.agenda # <<"log", "item">> /\ IdleHandoff.agenda # <<"item">>
  BY IdleShape
<1>21. handoff[o].batch = k /\ Filling(handoff[o]) /\ c.status # "utworzona"  BY <1>1, <1>2, <1>4, <1>11
<1> QED  BY <1>2, <1>11, <1>12, <1>14, <1>15, <1>17, <1>18, <1>19, <1>20, <1>21, BatchStep

LEMMA ExportBatchStep ==
  ASSUME HandoffIInv, NEW o \in Clerks, ExportBatch(o)
  PROVE  HandoffIInv'
<1>1. PICK k \in DOMAIN batches :
        Begins(o) /\ batches' = MarkExported(k) /\ UNCHANGED <<workflow, log, handoff>>
  BY DEF ExportBatch
<1>2. TablesInv /\ BatchesInv /\ RequestsInv /\ OrderInv  BY DEF HandoffIInv
<1>3. batches \in Seq(BatchRows) /\ batches[k] \in BatchRows /\ BatchIs(batches[k])
  BY <1>2 DEF TablesInv, BatchesInv
<1>4. PICK b : b = batches[k]  OBVIOUS
<1>5. PICK c : c = [b EXCEPT !.status = "wyeksportowana", !.exported = TRUE]  OBVIOUS
<1>6. /\ c \in BatchRows /\ c.items = b.items /\ c.organization = b.organization
      /\ c.status = "wyeksportowana" /\ c.count = b.count
  <2>1. b \in BatchRows  BY <1>3, <1>4
  <2> QED  BY ONLY <1>5, <2>1, ExportColumns
<1>7. batches' = [batches EXCEPT ![k] = c]
  <2>1. batches' = [batches EXCEPT ![k].status = "wyeksportowana", ![k].exported = TRUE]
    BY <1>1 DEF MarkExported
  <2>2. PICK d : d = [b EXCEPT !.status = "wyeksportowana"]  OBVIOUS
  <2>3. PICK ds : ds = [batches EXCEPT ![k] = d]  OBVIOUS
  <2>4. ds[k] = d  BY <1>3, <2>3
  <2>5. c = [d EXCEPT !.exported = TRUE]  BY <1>5, <2>2
  <2>6. batches' = [ds EXCEPT ![k] = [ds[k] EXCEPT !.exported = TRUE]]  BY <1>4, <2>1, <2>2, <2>3
  <2> QED  BY <2>3, <2>4, <2>5, <2>6
<1>8. /\ batches' \in Seq(BatchRows) /\ DOMAIN batches' = DOMAIN batches
      /\ batches'[k] = c /\ \A l \in DOMAIN batches \ {k} : batches'[l] = batches[l]
  BY <1>3, <1>6, <1>7
<1>9. TablesInv'
  <2>1. handoffs' \in 0..MaxHandoffs  BY <1>1, <1>2, HandoffAssumption DEF TablesInv, Begins
  <2> QED  BY <1>1, <1>2, <1>8, <2>1 DEF TablesInv
<1>10. BatchIs(c)  BY <1>3, <1>4, <1>6 DEF BatchIs
<1>11. BatchesInv'  BY <1>2, <1>8, <1>10 DEF BatchesInv
<1>12. \A r : Fills(r, b) => Fills(r, c)  BY <1>6 DEF Fills
<1>13. RequestsInv'
  <2>1. \A p \in Clerks : Filling(handoff[p]) =>
          handoff[p].batch \in DOMAIN batches' /\ Fills(handoff[p], batches'[handoff[p].batch])
    <3> SUFFICES ASSUME NEW p \in Clerks, Filling(handoff[p])
                 PROVE  handoff[p].batch \in DOMAIN batches' /\ Fills(handoff[p], batches'[handoff[p].batch])
      OBVIOUS
    <3>1. handoff[p].batch \in DOMAIN batches /\ Fills(handoff[p], batches[handoff[p].batch])
      BY <1>2 DEF RequestsInv
    <3>2. CASE handoff[p].batch = k  BY <1>4, <1>8, <1>12, <3>1, <3>2
    <3>3. CASE handoff[p].batch # k  BY <1>8, <3>1, <3>3
    <3> QED  BY <3>2, <3>3
  <2> QED  BY <1>1, <1>2, <2>1 DEF RequestsInv
<1>14. OrderInv'
  <2> SUFFICES ASSUME OrderlyHandoffs' PROVE OrderInv'
    BY DEF OrderInv
  <2>1. OrderlyHandoffs /\ \A p \in Clerks : ~HandingOff(p)
    BY <1>1 DEF OrderlyHandoffs, Begins
  <2>2. \A p \in Clerks : ~Filling(handoff[p])  BY <2>1, AgendaKinds DEF Filling, HandingOff
  <2>3. \A l \in DOMAIN batches : SettledBatch(batches[l]) /\ batches[l].status # "utworzona"
    BY <1>2, <2>1, <2>2 DEF OrderInv
  <2>4. SettledBatch(c) /\ c.status # "utworzona"  BY <1>4, <1>6, <2>3 DEF SettledBatch
  <2>5. \A l \in DOMAIN batches' : SettledBatch(batches'[l]) /\ batches'[l].status # "utworzona"
    BY <1>8, <2>3, <2>4
  <2>6. \A p \in Clerks : InOrder(handoff'[p], batches', workflow')
    <3>1. \A p \in Clerks : handoff[p].agenda = <<>>  BY <2>1 DEF HandingOff
    <3>2. <<>> # <<"log", "item">> /\ <<>> # <<"item">>  OBVIOUS
    <3> QED  BY <1>1, <2>2, <3>1, <3>2 DEF InOrder
  <2>7. \A p \in Clerks : ~HandingOff(p)'  BY <1>1, <2>1 DEF HandingOff
  <2> QED  BY <2>5, <2>6, <2>7 DEF OrderInv
<1> QED  BY <1>9, <1>11, <1>13, <1>14 DEF HandoffIInv

-----------------------------------------------------------------------------
(* Theorems about the batches *)

LEMMA HandoffInitIInv ==
  ASSUME HandoffInit
  PROVE  HandoffIInv
<1>1. TablesInv
  <2>1. [state |-> "w_pracy", ready |-> FALSE, handed |-> FALSE, closed |-> FALSE, reopened |-> FALSE]
          \in WorkflowRows
    BY DEF WorkflowRows, States
  <2>2. workflow \in [Invoices -> WorkflowRows]  BY <2>1 DEF HandoffInit
  <2>3. <<>> \in Seq(LogRows) /\ <<>> \in Seq(BatchRows)  OBVIOUS
  <2>4. log \in [Invoices -> Seq(LogRows)] /\ batches \in Seq(BatchRows)  BY <2>3 DEF HandoffInit
  <2>5. handoffs \in 0..MaxHandoffs  BY HandoffAssumption DEF HandoffInit
  <2> QED  BY <2>2, <2>4, <2>5 DEF TablesInv
<1>2. DOMAIN batches = {} /\ \A o \in Clerks : handoff[o] = IdleHandoff
  BY DEF HandoffInit
<1>3. BatchesInv  BY <1>2 DEF BatchesInv
<1>4. Asks(IdleHandoff) /\ ~Filling(IdleHandoff) /\ IdleHandoff.agenda = <<>>  BY IdleAsks
<1>5. RequestsInv
  <2>1. handoff = [o \in Clerks |-> handoff[o]]  BY DEF HandoffInit
  <2> QED  BY <1>2, <1>4, <2>1 DEF RequestsInv
<1>6. OrderInv
  <2>1. <<>> # <<"log", "item">> /\ <<>> # <<"item">>  OBVIOUS
  <2>2. \A o \in Clerks : InOrder(handoff[o], batches, workflow) /\ ~HandingOff(o)
    BY <1>2, <1>4, <2>1 DEF InOrder, HandingOff
  <2> QED  BY <1>2, <2>2 DEF OrderInv
<1> QED  BY <1>1, <1>3, <1>5, <1>6 DEF HandoffIInv

LEMMA HandoffNextIInv ==
  ASSUME HandoffIInv, [HandoffNext]_handoffVars
  PROVE  HandoffIInv'
<1>1. CASE UNCHANGED handoffVars
  BY <1>1 DEF HandoffIInv, TablesInv, BatchesInv, RequestsInv, OrderInv, OrderlyHandoffs, HandingOff,
              handoffVars
<1>2. CASE HandoffNext
  <2>1. PICK o \in Clerks : Decision(o) \/ Batch(o) \/ HandoffDies(o)  BY <1>2 DEF HandoffNext
  <2>2. CASE Decision(o)
    BY <2>2, DecisionsBegin, UpdateStep, LogStep, UndoBegins, UndoStep DEF Decision
  <2>3. CASE Batch(o)
    BY <2>3, BatchBegins, InsertBatchStep, HalfWaySteps, PassOverStep, ChooseStep, StartReadyStep, CheckStep,
       StartHandOffStep, AddBatchItemStep, WriteTotalsStep, ExportBatchStep DEF Batch
  <2>4. CASE HandoffDies(o)  BY <2>4, HalfWaySteps
  <2> QED  BY <2>1, <2>2, <2>3, <2>4
<1> QED  BY <1>1, <1>2

LEMMA HandoffIInvTypes ==
  ASSUME HandoffIInv
  PROVE  HandoffTypeOK
<1>1. TablesInv  BY DEF HandoffIInv
<1>2. \A i \in Invoices : \A k \in DOMAIN log[i] : log[i][k] \in LogRows
  <2> SUFFICES ASSUME NEW i \in Invoices, NEW k \in DOMAIN log[i] PROVE log[i][k] \in LogRows
    OBVIOUS
  <2>1. log[i] \in Seq(LogRows)  BY <1>1 DEF TablesInv
  <2> QED  BY <2>1
<1>3. \A k \in DOMAIN batches : batches[k] \in BatchRows  BY <1>1 DEF TablesInv
<1> QED  BY <1>1, <1>2, <1>3 DEF HandoffTypeOK, TablesInv

\* A batch has as many members as items.
LEMMA MembersLemma ==
  ASSUME NEW b, BatchIs(b), NEW members, members = {x[1] : x \in b.items}
  PROVE  Cardinality(members) = Cardinality(b.items) /\ IsFiniteSet(members)
<1>1. PICK f : f = [x \in b.items |-> x[1]]  OBVIOUS
<1>2. IsFiniteSet(b.items) /\ \A x, y \in b.items : x[1] = y[1] => x = y  BY DEF BatchIs
<1>3. f \in Bijection(b.items, members)
  <2>1. f \in [b.items -> members]  BY <1>1
  <2>2. \A x, y \in b.items : f[x] = f[y] => x = y  BY <1>1, <1>2
  <2>3. \A y \in members : \E x \in b.items : f[x] = y  BY <1>1
  <2>4. DOMAIN f = b.items  BY <1>1
  <2>5. f \in Injection(b.items, members)  BY <2>1, <2>2, <2>4 DEF Injection, IsInjective
  <2>6. f \in Surjection(b.items, members)  BY <2>1, <2>3 DEF Surjection
  <2> QED  BY <2>5, <2>6 DEF Bijection
<1>4. ExistsBijection(b.items, members)  BY <1>3 DEF ExistsBijection
<1> QED  BY <1>2, <1>4, FS_Bijection

LEMMA HandoffIInvAgree ==
  ASSUME HandoffIInv
  PROVE  BatchesAgree
<1> SUFFICES ASSUME NEW k \in DOMAIN batches, NEW b, b = batches[k],
                    NEW members, members = {x[1] : x \in b.items}
             PROVE  /\ b.status = "przekazana" => (b.count = Cardinality(members) /\ b.count > 0)
                    /\ \A i \in members : Organization[i] = b.organization
                    /\ (OrderlyHandoffs /\ NoHandoffs) =>
                         /\ b.status # "utworzona" /\ b.count = Cardinality(members)
                         /\ \A x \in b.items : x[2] = "przekazana"
                         /\ b.exported => b.status = "wyeksportowana"
  BY DEF BatchesAgree
<1>1. BatchIs(b) /\ OrderInv  BY DEF HandoffIInv, BatchesInv
<1>2. Cardinality(members) = Cardinality(b.items)  BY <1>1, MembersLemma
<1>3. b.status = "przekazana" => (b.count = Cardinality(members) /\ b.count > 0)
  <2> SUFFICES ASSUME b.status = "przekazana"
               PROVE  b.count = Cardinality(members) /\ b.count > 0
    OBVIOUS
  <2>1. b.count = Cardinality(b.items) /\ b.items # {} /\ IsFiniteSet(b.items)  BY <1>1 DEF BatchIs
  <2>2. Cardinality(b.items) \in Nat /\ Cardinality(b.items) # 0
    BY <2>1, FS_CardinalityType, FS_EmptySet
  <2> QED  BY <1>2, <2>1, <2>2
<1>4. \A i \in members : Organization[i] = b.organization  BY <1>1 DEF BatchIs
<1>5. ASSUME OrderlyHandoffs, NoHandoffs
      PROVE  /\ b.status # "utworzona" /\ b.count = Cardinality(members)
             /\ \A x \in b.items : x[2] = "przekazana"
             /\ b.exported => b.status = "wyeksportowana"
  <2>1. SettledBatch(b) /\ (b.status = "utworzona" => \E o \in Clerks : Filling(handoff[o]))
    BY <1>1, <1>5 DEF OrderInv
  <2>2. \A o \in Clerks : ~Filling(handoff[o])
    BY <1>5, AgendaKinds DEF NoHandoffs, HandingOff, Filling
  <2> QED  BY <1>2, <2>1, <2>2 DEF SettledBatch
<1> QED  BY <1>3, <1>4, <1>5

\* The workflow, the logged decisions and the batches keep the shape of their tables.
THEOREM HandoffTypeCorrect == HandoffSpec => []HandoffTypeOK
<1>1. HandoffSpec => []HandoffIInv
  BY HandoffInitIInv, HandoffNextIInv, PTL DEF HandoffSpec
<1> QED  BY <1>1, HandoffIInvTypes, PTL

\* A batch whose totals are written has counted each of its items once, whatever other requests did
\* to its invoices; when requests came one at a time every batch got that far (create_handoff_batch).
THEOREM BatchesStayAgreed == HandoffSpec => []BatchesAgree
<1>1. HandoffSpec => []HandoffIInv
  BY HandoffInitIInv, HandoffNextIInv, PTL DEF HandoffSpec
<1> QED  BY <1>1, HandoffIInvAgree, PTL

================================================================================
