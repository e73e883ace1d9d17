\* Two jobs on one GPU: what Worker.cs says of the scheduler.
CONSTANTS
  Workers = {1}
  Gpus = {0}
  NoGpu <- MCNoGpu
  NoUnit = NoUnit
  Kinds = {"ffmpeg"}
  Reports <- OneGpu
  NoReport = NoReport
  Inputs <- UploadInputs
  Keys = {}
  MaxJobs = 2
  MaxRetries = 0
  TestKinds = {}
  Nothing = Nothing
SPECIFICATION FarmSpec
INVARIANT OneProcessPerGpu
