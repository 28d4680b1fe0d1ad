\* Two starts, resets or validations, one after the other or overlapping, on every kind of database.
SPECIFICATION FairSpec
CONSTANTS
  Processes = {p1, p2}
  Engines = {"sqlite", "postgresql"}
  Releases <- MCReleases
  OldAccounts <- MCAccounts
  MaxStarts = 2
  MaxTries = 2
CHECK_DEADLOCK FALSE
INVARIANTS
  VersionMeansSchema
  ContractorsKept
PROPERTIES
  StartsServe
