SPECIFICATION FairSpec
CONSTANTS
  Workers = {w1, w2, w3}
  BatchSize = 2
  Threshold = 3
  MaxTimeout = 3
  Manual = TRUE
  MaxCount = 5
INVARIANTS
  ClosedBelowThreshold
PROPERTIES
  BackoffOnlyByProbes
  CircuitCloses
