------------------------------- MODULE MCAccess -------------------------------
(* Access on small instances. *)
EXTENDS Access, TLC

NoChange == [role |-> Keep, org |-> Keep, active |-> Keep, password |-> FALSE, upload |-> Keep,
             asks |-> FALSE, caps |-> {}]

\* Payloads that create each kind of account, move it between roles and
\* organizations, change the password with and without other columns.
SomeForms ==
  {[NoChange EXCEPT !.role = "guest", !.org = o, !.password = TRUE] : o \in Orgs}
    \cup {[NoChange EXCEPT !.role = "system_owner", !.org = NoOrg, !.password = TRUE],
          [NoChange EXCEPT !.role = "operator", !.active = FALSE, !.asks = TRUE, !.caps = {"manage", "unknown"}],
          [NoChange EXCEPT !.role = "system_owner", !.upload = FALSE],
          [NoChange EXCEPT !.active = TRUE]}

SomeOrgForms ==
  {[active |-> Keep, channel |-> c, modules |-> Keep] : c \in Channels}
    \cup {[active |-> FALSE, channel |-> c, modules |-> TRUE] : c \in Channels}

\* Requests of one kind are interchangeable, and organizations are.
Symmetry == Permutations(Logins) \cup Permutations(Admins) \cup Permutations(Orgs)
=============================================================================
