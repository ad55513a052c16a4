SPECIFICATION Spec
CONSTANTS
  w1 = w1
  w2 = w2
  w3 = w3
  Media = {m1}
  LastStage = 2
  Workers = {w1, w2, w3}
  StageOf <- Shared
  BatchSize = 1
  MaxAttempts = 2
  Errors = {"connection", "retryable"}
  MaySkip = TRUE
  MayCrash = TRUE
  MayStop = TRUE
  SlowRestart = TRUE
  MayReenqueue = TRUE
SYMMETRY Swap
INVARIANTS
  OneWorkerPerJob
  AttemptsDecide
  
  
