SPECIFICATION Spec
CONSTANTS
  OnDisk = {f1, f2}
  Unchanged = {}
  Modified = {f1}
  Gone = {g}
  Runs = {r1}
  Workers = {w1}
  BatchSize = 1
  Buffer = 1
  MaxRetries = 1
  MayPause = TRUE
  MayFail = FALSE
  MaxCrashes = 1
INVARIANTS
  TypeOK
  CompletedCovers
PROPERTIES
  FailedKeepMedia
CHECK_DEADLOCK FALSE
