\* Two overlapping runs, batches, rows committed out of order, stale timestamps, a crash, one administrator.
CONSTANTS
  Runs = {r1, r2}
  Admins = {a1}
  Triggers = {created}
  Edits = {}
  None = None
  Engine = Engine
  Lease = 1
  MaxLag = 1
  MaxLog = 2
  Limit = 2
  Serial = FALSE
  MaxCrashes = 1
SPECIFICATION Spec
CONSTRAINT SmallAdministration
SYMMETRY RunSymmetry
INVARIANTS
  AtMostOnce
  NoSkippedEvent
  StopsAfterDisable
  FreshRunsNeverReplay
PROPERTIES
  CursorMonotonic
