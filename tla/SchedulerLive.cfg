SPECIFICATION FairSpec
CONSTANTS
  scan = scan
  probe = probe
  k1 = k1
  r1 = r1
  r2 = r2
  NoExec = NoExec
  Tasks = {scan, probe}
  Keys = {k1}
  Execs = {r1, r2}
  Roots = {r1, r2}
  KeyOf <- SharedKey
  DependsOn <- Chain
  MayCrash = TRUE
  ManualTriggers = FALSE
  ClientMayLeave = FALSE
  DBFaults = FALSE
  EarlyTrigger = FALSE
CHECK_DEADLOCK FALSE
INVARIANTS
  NothingLeftBehind
PROPERTIES
  ExecutionsEnd
  
