SPECIFICATION FairMigrationSpec
CONSTANTS
  Operators = {o1, o2}
  Sources <- MCSources
  MaxRuns = 3
CHECK_DEADLOCK FALSE
INVARIANTS
  WholeOrNothing
PROPERTIES
  CopiesEnd
