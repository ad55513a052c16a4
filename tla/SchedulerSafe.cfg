SPECIFICATION Spec
CONSTANTS
  scan = scan
  probe = probe
  k1 = k1
  r1 = r1
  r2 = r2
  NoExec = NoExec
  Tasks = {scan, probe}
  Keys = {k1}
  Execs = {r1, r2}
  Roots = {r1, r2}
  KeyOf <- SharedKey
  DependsOn <- Chain
  MayCrash = TRUE
  ManualTriggers = TRUE
  ClientMayLeave = FALSE
  DBFaults = TRUE
  EarlyTrigger = FALSE
CHECK_DEADLOCK FALSE
SYMMETRY Ids
INVARIANTS
  TypeOK
  MutualExclusion
  DependencyAfterSuccess
PROPERTIES
  ResultsAreFinal
  RunsAreSerial
