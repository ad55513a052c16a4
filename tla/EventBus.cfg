SPECIFICATION Spec
CONSTANTS
  Publishers = {p1, p2}
  Subs = {s1, s2}
  Polite = {s1}
  Replay = 2
  Size = 2
  Cap = 1
  Unwanted = {2}
  MaxEvents = 3
INVARIANTS
  LastIsNewest
  NoGap
  SendsToOpen
CHECK_DEADLOCK FALSE
