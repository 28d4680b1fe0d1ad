-------------------------------- MODULE Access --------------------------------
(***************************************************************************)
(* One account: its row in users, its primary membership, its stored        *)
(* capabilities and its sessions, together with the organizations it can    *)
(* belong to and the Slack channels they claim (app/services/               *)
(* auth_service.py, app/services/organization_service.py and their          *)
(* repositories).  Logins and administrators' requests run at the same      *)
(* time; each action is one transaction with the computation around it.     *)
(***************************************************************************)
EXTENDS Integers, FiniteSets

CONSTANTS
  Logins,        \* requests that sign the account in
  Admins,        \* requests that create or edit the account or an organization
  Devices,       \* device ids a browser sends
  NoDevice,      \* a login without a device id
  Orgs, NoOrg,   \* organizations; NoOrg stands for NULL
  Channels, NoChannel,   \* Slack channels; NoChannel when another provider is active
  Keep,          \* a field the payload does not contain
  Forms,         \* payloads of create_user and update_user that are tried
  OrgForms,      \* payloads of update_organization that are tried
  MaxDevices,    \* MAX_ACTIVE_DEVICES_PER_ACCOUNT, 0 for no limit
  MaxSessions,   \* sessions stored at once (bound)
  MaxEdits,      \* administrators' requests (bound)
  MaxRequests    \* logins and administrators' requests together (bound)

Roles == {"system_owner", "organization_admin", "coordinator", "operator", "guest"}
NoRole == "none"

\* upload stands for knowledge.upload and knowledge.sync, which are always given together.
Capabilities == {"read", "download", "upload", "manage", "assistant"}

AccountForms ==
  [role : Roles \cup {Keep}, org : Orgs \cup {NoOrg, Keep}, active : BOOLEAN \cup {Keep},
   \* asks: the payload lists capabilities
   password : BOOLEAN, upload : BOOLEAN \cup {Keep},
   asks : BOOLEAN, caps : SUBSET (Capabilities \cup {"unknown"})]

OrganizationForms ==
  [active : BOOLEAN \cup {Keep}, channel : Channels \cup {NoChannel, Keep},
   modules : BOOLEAN \cup {Keep}]

ASSUME AccessAssumption ==
  /\ IsFiniteSet(Logins)
  /\ {MaxDevices, MaxSessions, MaxEdits, MaxRequests} \subseteq Nat
  /\ NoOrg \notin Orgs /\ NoDevice \notin Devices /\ NoChannel \notin Channels
  /\ Keep \notin Roles /\ Keep \notin Orgs \cup {NoOrg} /\ Keep \notin Channels \cup {NoChannel}
  /\ Keep \notin BOOLEAN
  /\ Forms \subseteq AccountForms /\ OrgForms \subseteq OrganizationForms

VARIABLES
  account,     \* the row of users; role NoRole before it is created
  membership,  \* the primary row of organization_memberships
  caps,        \* user_capabilities
  sessions,    \* user_sessions
  orgs,        \* organizations
  login,       \* what each login knows between two transactions
  edit,        \* what each administrator's request knows between two transactions
  edits,       \* administrators' requests so far
  begun,       \* requests so far
  sweeps       \* history: times delete_for_user has run

vars == <<account, membership, caps, sessions, orgs, login, edit, edits, begun, sweeps>>

\* since is history: the number of the sweep made for the change that stored the password.
AccountRows == [role : Roles \cup {NoRole}, org : Orgs \cup {NoOrg}, active : BOOLEAN,
                upload : BOOLEAN, since : Nat]
NoAccount == [role |-> NoRole, org |-> NoOrg, active |-> FALSE, upload |-> FALSE, since |-> 0]

Memberships == [org : Orgs \cup {NoOrg}, role : Roles \cup {NoRole}, active : BOOLEAN]
NoMembership == [org |-> NoOrg, role |-> NoRole, active |-> FALSE]

\* sweeps is history: those made before the session was opened.
Sessions == [token : 1..MaxSessions, device : Devices \cup {NoDevice}, live : BOOLEAN, sweeps : Nat]

OrgRows == [active : BOOLEAN, channel : Channels \cup {NoChannel}, modules : BOOLEAN]

IdleLogin == [pc |-> "idle", device |-> NoDevice]
IdleEdit  == [pc |-> "idle", actor |-> NoOrg, form |-> Keep, row |-> NoAccount,
              had |-> {}, give |-> {}, sweep |-> 0, org |-> NoOrg]

\* No account yet, or an operator's of some organization.
Init ==
  /\ \/ account = NoAccount /\ caps = {} /\ membership = NoMembership
     \/ \E o \in Orgs :
          /\ account = [role |-> "operator", org |-> o, active |-> TRUE, upload |-> TRUE, since |-> 0]
          /\ caps = Capabilities \ {"manage"}
          /\ membership = [org |-> o, role |-> "operator", active |-> TRUE]
  /\ sessions = {}
  /\ orgs = [o \in Orgs |-> [active |-> TRUE, channel |-> NoChannel, modules |-> FALSE]]
  /\ login = [l \in Logins |-> IdleLogin]
  /\ edit = [a \in Admins |-> IdleEdit]
  /\ edits = 0 /\ begun = 0 /\ sweeps = 0

-----------------------------------------------------------------------------
(* Rules of roles and capabilities *)

DefaultCaps(role) ==
  CASE role \in {"system_owner", "organization_admin", "coordinator"} -> Capabilities
    [] role = "operator" -> Capabilities \ {"manage"}
    [] OTHER -> {"read", "download"}

\* _resolve_capabilities; existing is {} for a new account.
Resolved(role, f, upload, existing) ==
  LET base == IF f.asks THEN f.caps \cap Capabilities ELSE existing \cup DefaultCaps(role)
  IN IF role = "guest" THEN {"read", "download"}
     ELSE IF upload THEN base \cup {"upload", "read"} ELSE (base \cup {"read"}) \ {"upload"}

Given(value, default) == IF value = Keep THEN default ELSE value

\* normalize_user_organization_id: an administrator of an organization stays within it;
\* actor is that organization, NoOrg for a global administrator.
MayName(actor, org) == actor # NoOrg => org \in {NoOrg, actor}
NormalizedOrg(actor, org) == IF actor = NoOrg THEN org ELSE actor

\* _validate_role_assignment
RoleAllowed(actor, role, org) ==
  IF role = "system_owner" THEN org = NoOrg /\ actor = NoOrg ELSE org # NoOrg

-----------------------------------------------------------------------------
(* Sessions *)

\* The devices counted: those with an id once, the others by session.
DeviceKeys(open, but) ==
  {s.device : s \in {x \in open : x.device \notin {NoDevice, but}}}
    \cup {s.token : s \in {x \in open : x.device = NoDevice}}

LiveSessions == {s \in sessions : s.live}

FaultyLimitReached(device) ==
  MaxDevices > 0 /\ Cardinality(DeviceKeys(LiveSessions, device)) > MaxDevices

LimitReached(device) ==
  MaxDevices > 0 /\ Cardinality(DeviceKeys(LiveSessions, device)) >= MaxDevices

\* get_by_login, and the comparison of the password with the row read
ReadLogin(l) ==
  /\ login[l].pc = "idle" /\ begun < MaxRequests
  /\ begun' = begun + 1
  /\ account.role # NoRole /\ account.active
  /\ \E d \in Devices \cup {NoDevice} :
       login' = [login EXCEPT ![l] = [pc |-> "expired", device |-> d]]
  /\ UNCHANGED <<account, membership, caps, sessions, orgs, edit, edits, sweeps>>

DeleteExpired(l) ==
  /\ login[l].pc = "expired"
  /\ sessions' = LiveSessions
  /\ login' = [login EXCEPT ![l].pc = IF login[l].device = NoDevice THEN "count" ELSE "device"]
  /\ UNCHANGED <<account, membership, caps, orgs, edit, edits, begun, sweeps>>

DeleteDevice(l) ==
  /\ login[l].pc = "device"
  /\ sessions' = {s \in sessions : s.device # login[l].device}
  /\ login' = [login EXCEPT ![l].pc = "count"]
  /\ UNCHANGED <<account, membership, caps, orgs, edit, edits, begun, sweeps>>

CountDevices(l) ==
  /\ login[l].pc = "count"
  /\ login' = [login EXCEPT ![l] =
       IF LimitReached(login[l].device) THEN IdleLogin ELSE [@ EXCEPT !.pc = "create"]]
  /\ UNCHANGED <<account, membership, caps, sessions, orgs, edit, edits, begun, sweeps>>

\* A token is the least one free; rows that are gone leave no trace.
FreeTokens == (1..MaxSessions) \ {s.token : s \in sessions}

CreateSession(l) ==
  /\ login[l].pc = "create" /\ FreeTokens # {}
  /\ sessions' = sessions \cup {[token |-> CHOOSE t \in FreeTokens : \A u \in FreeTokens : t <= u,
                                 device |-> login[l].device, live |-> TRUE,
                                 sweeps |-> sweeps]}
  /\ login' = [login EXCEPT ![l] = IdleLogin]
  /\ UNCHANGED <<account, membership, caps, orgs, edit, edits, begun, sweeps>>

Logout(s) ==
  /\ sessions' = {x \in sessions : x.token # s.token}
  /\ UNCHANGED <<account, membership, caps, orgs, login, edit, edits, begun, sweeps>>

\* expires_at passes
Expire(s) ==
  /\ s.live
  /\ sessions' = (sessions \ {s}) \cup {[s EXCEPT !.live = FALSE]}
  /\ UNCHANGED <<account, membership, caps, orgs, login, edit, edits, begun, sweeps>>

\* get_current_user answers
Authenticated(s) == s \in LiveSessions /\ account.active

-----------------------------------------------------------------------------
(* Creating and editing the account *)

Working(a) == edit[a].pc \notin {"idle", "dead"}

Begun(a) ==
  /\ edit[a].pc = "idle" /\ edits < MaxEdits /\ begun < MaxRequests
  /\ edits' = edits + 1 /\ begun' = begun + 1

\* create_user up to its checks that the login is free
CheckNew(a) ==
  /\ Begun(a) /\ account.role = NoRole
  /\ \E actor \in Orgs \cup {NoOrg}, f \in Forms :
       LET role == Given(f.role, "operator")
           org  == NormalizedOrg(actor, Given(f.org, NoOrg))
           give == Resolved(role, f, Given(f.upload, role # "guest"), {})
       IN /\ MayName(actor, Given(f.org, NoOrg)) /\ RoleAllowed(actor, role, org) /\ f.password
          /\ edit' = [edit EXCEPT ![a] = [IdleEdit EXCEPT
               !.pc = "insert", !.actor = actor, !.give = give,
               !.row = [role |-> role, org |-> org, active |-> Given(f.active, TRUE),
                        upload |-> "upload" \in give, since |-> sweeps]]]
  /\ UNCHANGED <<account, membership, caps, sessions, orgs, login, sweeps>>

\* UserRepository.create; users.login is unique, so a second insert raises.
Insert(a) ==
  /\ edit[a].pc = "insert"
  /\ IF account.role = NoRole
     THEN /\ account' = edit[a].row
          /\ edit' = [edit EXCEPT ![a] = [IdleEdit EXCEPT !.pc = "sync", !.give = edit[a].give]]
     ELSE edit' = [edit EXCEPT ![a] = IdleEdit] /\ UNCHANGED account
  /\ UNCHANGED <<membership, caps, sessions, orgs, login, edits, begun, sweeps>>

\* update_user reads the row and refuses an administrator of another organization.
ReadAccount(a) ==
  /\ Begun(a) /\ account.role # NoRole
  /\ \E actor \in Orgs \cup {NoOrg}, f \in Forms :
       /\ actor # NoOrg => account.org = actor
       /\ edit' = [edit EXCEPT ![a] = [IdleEdit EXCEPT
            !.pc = "caps", !.actor = actor, !.form = f, !.row = account]]
  /\ UNCHANGED <<account, membership, caps, sessions, orgs, login, sweeps>>

\* list_capabilities, and the organization named by the payload
ReadCaps(a) ==
  /\ edit[a].pc = "caps"
  /\ LET f == edit[a].form
     IN edit' = [edit EXCEPT ![a] =
          IF f.org # Keep /\ ~MayName(edit[a].actor, f.org) THEN IdleEdit
          ELSE [@ EXCEPT !.had = caps, !.pc = IF f.password THEN "sweep" ELSE "validate"]]
  /\ UNCHANGED <<account, membership, caps, sessions, orgs, login, edits, begun, sweeps>>

FaultyEndSessions(a) ==
  /\ edit[a].pc = "sweep"
  /\ sessions' = {s \in sessions : s.device # NoDevice}
  /\ sweeps' = sweeps + 1
  /\ edit' = [edit EXCEPT ![a].pc = "validate", ![a].sweep = sweeps + 1]
  /\ UNCHANGED <<account, membership, caps, orgs, login, edits, begun>>

\* A new password ends the sessions before the rest of the payload is validated.
EndSessions(a) ==
  /\ edit[a].pc = "sweep"
  /\ sessions' = {}
  /\ sweeps' = sweeps + 1
  /\ edit' = [edit EXCEPT ![a].pc = "validate", ![a].sweep = sweeps + 1]
  /\ UNCHANGED <<account, membership, caps, orgs, login, edits, begun>>

\* The role and organization the account would have, from the row that was read.
NextRole(e) == Given(e.form.role, e.row.role)
NextOrg(e)  == IF e.form.org = Keep THEN e.row.org ELSE NormalizedOrg(e.actor, e.form.org)
NextCaps(e) == Resolved(NextRole(e), e.form, Given(e.form.upload, "upload" \in e.had), e.had)

\* The UPDATE sets the columns of the payload only, whatever the row holds now.
UpdateAccount(a) ==
  LET e == edit[a]
      f == e.form
  IN /\ e.pc = "validate"
     /\ IF RoleAllowed(e.actor, NextRole(e), NextOrg(e))
        THEN /\ account' = [account EXCEPT
                  !.role = Given(f.role, @), !.active = Given(f.active, @),
                  !.org = IF f.org = Keep THEN @ ELSE NextOrg(e),
                  !.upload = "upload" \in NextCaps(e),
                  !.since = IF f.password THEN e.sweep ELSE @]
             /\ edit' = [edit EXCEPT ![a] = [IdleEdit EXCEPT !.pc = "sync", !.give = NextCaps(e)]]
        ELSE edit' = [edit EXCEPT ![a] = IdleEdit] /\ UNCHANGED account
     /\ UNCHANGED <<membership, caps, sessions, orgs, login, edits, begun, sweeps>>

\* sync_primary_membership reads the row in its own transaction.
MembershipOf(row) ==
  IF row.org = NoOrg THEN NoMembership ELSE [org |-> row.org, role |-> row.role, active |-> row.active]

FaultySyncMembership(a) ==
  /\ edit[a].pc = "sync"
  /\ membership' = IF account.org = NoOrg THEN membership ELSE MembershipOf(account)
  /\ edit' = [edit EXCEPT ![a].pc = "grant"]
  /\ UNCHANGED <<account, caps, sessions, orgs, login, edits, begun, sweeps>>

SyncMembership(a) ==
  /\ edit[a].pc = "sync"
  /\ membership' = MembershipOf(account)
  /\ edit' = [edit EXCEPT ![a].pc = "grant"]
  /\ UNCHANGED <<account, caps, sessions, orgs, login, edits, begun, sweeps>>

\* replace_capabilities: delete and insert in one transaction
ReplaceCaps(a) ==
  /\ edit[a].pc = "grant"
  /\ caps' = edit[a].give
  /\ edit' = [edit EXCEPT ![a] = IdleEdit]
  /\ UNCHANGED <<account, membership, sessions, orgs, login, edits, begun, sweeps>>

-----------------------------------------------------------------------------
(* Editing an organization *)

\* update_organization reads the row; only a global administrator changes its
\* activity or its modules.
ReadOrg(a) ==
  /\ Begun(a)
  /\ \E actor \in Orgs \cup {NoOrg}, o \in Orgs, f \in OrgForms :
       /\ actor # NoOrg =>
            /\ actor = o
            /\ Given(f.active, orgs[o].active) = orgs[o].active
            /\ Given(f.modules, orgs[o].modules) = orgs[o].modules
       /\ edit' = [edit EXCEPT ![a] = [IdleEdit EXCEPT !.actor = actor, !.form = f, !.org = o,
            !.pc = IF Given(f.channel, orgs[o].channel) \in {orgs[o].channel, NoChannel}
                   THEN "orgUpdate" ELSE "channel"]]
  /\ UNCHANGED <<account, membership, caps, sessions, orgs, login, sweeps>>

\* get_by_active_slack_channel_id: no index keeps the channel unique.
Taken(c, o) == \E x \in Orgs \ {o} : orgs[x].channel = c

CheckChannel(a) ==
  /\ edit[a].pc = "channel"
  /\ edit' = [edit EXCEPT ![a] =
       IF Taken(edit[a].form.channel, edit[a].org) THEN IdleEdit ELSE [@ EXCEPT !.pc = "orgUpdate"]]
  /\ UNCHANGED <<account, membership, caps, sessions, orgs, login, edits, begun, sweeps>>

\* The modules follow in a transaction of their own, for a global administrator.
UpdateOrg(a) ==
  LET e == edit[a]
  IN /\ e.pc = "orgUpdate"
     /\ orgs' = [orgs EXCEPT ![e.org].active = Given(e.form.active, @),
                             ![e.org].channel = Given(e.form.channel, @)]
     /\ edit' = [edit EXCEPT ![a] =
          IF e.form.modules # Keep /\ e.actor = NoOrg THEN [@ EXCEPT !.pc = "modules"] ELSE IdleEdit]
     /\ UNCHANGED <<account, membership, caps, sessions, login, edits, begun, sweeps>>

ReplaceModules(a) ==
  /\ edit[a].pc = "modules"
  /\ orgs' = [orgs EXCEPT ![edit[a].org].modules = edit[a].form.modules]
  /\ edit' = [edit EXCEPT ![a] = IdleEdit]
  /\ UNCHANGED <<account, membership, caps, sessions, login, edits, begun, sweeps>>

\* The process dies, or a database call raises, between two transactions.
Die(a) ==
  /\ Working(a)
  /\ edit' = [edit EXCEPT ![a] = [IdleEdit EXCEPT !.pc = "dead"]]
  /\ UNCHANGED <<account, membership, caps, sessions, orgs, login, edits, begun, sweeps>>

-----------------------------------------------------------------------------
LoginStep(l) ==
  ReadLogin(l) \/ DeleteExpired(l) \/ DeleteDevice(l) \/ CountDevices(l) \/ CreateSession(l)

EditStep(a) ==
  \/ CheckNew(a) \/ Insert(a) \/ ReadAccount(a) \/ ReadCaps(a) \/ EndSessions(a)
  \/ UpdateAccount(a) \/ SyncMembership(a) \/ ReplaceCaps(a)
  \/ ReadOrg(a) \/ CheckChannel(a) \/ UpdateOrg(a) \/ ReplaceModules(a) \/ Die(a)

Next ==
  \/ \E l \in Logins : LoginStep(l)
  \/ \E a \in Admins : EditStep(a)
  \/ \E s \in sessions : Logout(s) \/ Expire(s)

Spec == Init /\ [][Next]_vars

-----------------------------------------------------------------------------
LoginStates == [pc : {"idle", "expired", "device", "count", "create"},
                device : Devices \cup {NoDevice}]

EditPcs == {"idle", "insert", "caps", "sweep", "validate", "sync", "grant",
            "channel", "orgUpdate", "modules", "dead"}

\* Every table and request holds values of its type.
TypeOK ==
  /\ account \in AccountRows /\ membership \in Memberships /\ caps \subseteq Capabilities
  /\ sessions \subseteq Sessions /\ orgs \in [Orgs -> OrgRows]
  /\ login \in [Logins -> LoginStates]
  /\ \A a \in Admins :
       /\ edit[a].pc \in EditPcs /\ edit[a].actor \in Orgs \cup {NoOrg}
       /\ edit[a].row \in AccountRows /\ edit[a].had \cup edit[a].give \subseteq Capabilities
  /\ edits \in 0..MaxEdits /\ begun \in 0..MaxRequests /\ sweeps \in Nat

\* Logins at the same time exceed the device limit by at most the number of those
\* that run beside one another: a count is out of date only by what they add.
DeviceBound ==
  MaxDevices > 0 =>
    Cardinality(DeviceKeys(LiveSessions, NoDevice)) < MaxDevices + Cardinality(Logins)

\* No session that still answers is older than the sweep of the change that stored the password: one
\* that survives a change was opened between its sweep and its UPDATE, or later.
PasswordChangeEndsSessions ==
  \A s \in sessions : Authenticated(s) => s.sweeps >= account.since

\* Between requests the membership is the account's organization, role and
\* activity, in whatever order overlapping edits stored and copied them.
MembershipMirrorsAccount ==
  (\A a \in Admins : edit[a].pc \notin {"sync", "dead"}) => membership = MembershipOf(account)

=============================================================================
