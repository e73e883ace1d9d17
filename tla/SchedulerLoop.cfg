\* The scheduler's loop against its declarative definition.
CONSTANTS
  Workers = {1, 2}
  Gpus = {0, 1}
  NoGpu <- MCNoGpu
  NoUnit = NoUnit
  Kinds = {"ffmpeg", "topaz"}
  Reports <- LoopReports
  NoReport = NoReport
  Inputs <- LoopInputs
  Keys = {}
  MaxJobs = 3
  MaxRetries = 0
  Tables <- LoopTables
SPECIFICATION LoopSpec
INVARIANT LoopSound
