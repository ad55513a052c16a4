SPECIFICATION FairSpec
CONSTANTS
  Jobs = {j1, j2, j3, j4}
  Capacity = 2
  BatchSize = 2
\* Once the jobs are handed in and the worker is done, nothing is left to do.
CHECK_DEADLOCK FALSE
INVARIANTS
  TypeOK
  NothingLost
PROPERTIES
  OrderKept
  StopEnds
  JobsAreFlushed
