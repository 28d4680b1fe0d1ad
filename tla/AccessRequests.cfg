\* Two logins of one account and two administrators' requests.
SPECIFICATION Spec
CONSTANTS
  Logins = {l1, l2}
  Admins = {a1, a2}
  Devices = {d1}
  NoDevice = noDevice
  Orgs = {o1, o2}
  NoOrg = noOrg
  Channels = {c1}
  NoChannel = noChannel
  Keep = keep
  Forms <- SomeForms
  OrgForms <- SomeOrgForms
  MaxDevices = 1
  MaxSessions = 3
  MaxEdits = 2
  MaxRequests = 4
SYMMETRY Symmetry
CHECK_DEADLOCK FALSE
INVARIANTS
  DeviceBound
  PasswordChangeEndsSessions
  MembershipMirrorsAccount
