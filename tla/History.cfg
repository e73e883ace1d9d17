\* One worker, uploads and dependencies.
CONSTANTS
  Workers = {1}
  Gpus = {0}
  NoGpu <- MCNoGpu
  NoUnit = NoUnit
  Kinds = {"ffmpeg"}
  Reports <- HistoryReports
  NoReport = NoReport
  Inputs <- HistoryInputs
  Keys = {}
  MaxJobs = 3
  MaxRetries = 1
SPECIFICATION Spec
INVARIANTS DependencyHonoured ReleasedStaysSettled HistoryBlockedOnlyByActive
PROPERTY LifecycleSpec
