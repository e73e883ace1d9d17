\* One Agent, one job and its retries.
CONSTANTS
  Workers = {1}
  Gpus = {0}
  NoGpu <- MCNoGpu
  NoUnit = NoUnit
  Kinds = {"ffmpeg", "test"}
  Reports <- OneGpu
  NoReport = NoReport
  Inputs <- MixedInputs
  Keys = {}
  MaxJobs = 1
  MaxRetries = 2
  TestKinds = {"test"}
  Nothing = Nothing
SPECIFICATION FairFarm
INVARIANTS StartNeverThrows ResultAuthentic
PROPERTIES EngineSpec UnwantedStops OrphansEnd
