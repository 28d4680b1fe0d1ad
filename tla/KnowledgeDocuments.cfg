\* A document through three requests, with two questions working the queue off.
SPECIFICATION Spec
CONSTANTS
  Workers = {w1, w2}
  Editors = {e1, e2}
  Files = {text, scan}
  Binary = {scan}
  FolderKey = folderKey
  NoStatus = noStatus
  NoJob = noJob
  Choices = {"roboczy", "obowiazujacy"}
  MaxParts = 2
  MaxVersions = 2
  MaxJobs = 2
  MaxEdits = 3
SYMMETRY Symmetry
CHECK_DEADLOCK FALSE
INVARIANTS
  VersionsComplete
  ContentIsCurrentVersion
  LastJobWins
PROPERTY
  ImplementsHistory
