SPECIFICATION Spec
CONSTANTS
  Keys = {k1}
  Workers = {w1, w2}
  Cap = 1
  MaxJobs = 2
  MaxFaults = 1
  MaxRuns = 2
INVARIANTS
  TypeOK
  ActiveJobsAreWorked
  ProcessingHasWorker
PROPERTIES
  OldCopiesKeepOff
  QueuedStarts
CHECK_DEADLOCK FALSE
