SPECIFICATION FairSpec
CONSTANTS
  w1 = w1
  w2 = w2
  w3 = w3
  Media = {m1, m2}
  LastStage = 2
  Workers = {w1, w2}
  StageOf <- TwoStages
  BatchSize = 2
  MaxAttempts = 2
  Errors = {"retryable"}
  MaySkip = TRUE
  MayCrash = FALSE
  MayStop = FALSE
  SlowRestart = FALSE
  MayReenqueue = FALSE
INVARIANTS
  TypeOK
  
PROPERTIES
  PipelineFinishes
CHECK_DEADLOCK FALSE
