SPECIFICATION FairSpec
CONSTANTS
  OnDisk = {f1}
  Unchanged = {}
  Modified = {}
  Gone = {g}
  Runs = {r1}
  Workers = {w1, w2}
  BatchSize = 1
  Buffer = 1
  MaxRetries = 1
  MayPause = FALSE
  MayFail = TRUE
  MaxCrashes = 1
PROPERTIES
  ScanEnds
CHECK_DEADLOCK FALSE
