\* One worker whose two GPUs come and go; two jobs with priorities, kinds, a
\* dependency, retries and two Idempotency-Keys.
CONSTANTS
  Workers = {1}
  Gpus = {0, 1}
  NoGpu <- MCNoGpu
  NoUnit = NoUnit
  Kinds = {"ffmpeg", "topaz"}
  Reports <- SchedulingReports
  NoReport = NoReport
  Inputs <- SchedulingInputs
  Keys = {k1, k2}
  MaxJobs = 2
  MaxRetries = 1
SPECIFICATION Spec
INVARIANT SlotExclusive
PROPERTY KeyedSpec
