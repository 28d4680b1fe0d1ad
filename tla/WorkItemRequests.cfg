\* One item, two users with two requests, the sweep, one failure.
CONSTANTS
  Items = {i1}
  Users = {u1, u2}
  NoTime = NoTime
  Keep = Keep
  ByMode = ByMode
  CreateForms <- SomeCreations
  PatchForms <- SomePatches
  SnoozeForms <- SomeSnoozes
  ReopenForms <- SomeReopenings
  DueDates = {1}
  Target = 1
  Scores = {FALSE}
  Lead = 1
  SweepLimit = 1
  MaxTime = 1
  MaxRequests = 2
  MaxDeaths = 1
SPECIFICATION FairSpec
CHECK_DEADLOCK FALSE
INVARIANTS
  ColumnsAgree
  StagesAreKept
  RecordsComplete
PROPERTIES
  OverdueEscalates
