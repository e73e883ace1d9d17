\* One upload of two units, three concurrent clients and the timer.
CONSTANTS
  MaxUploads = 1
  Files = {f1}
  Size = 2
  MaxActive = 1
  MaxTransfers = 1
  Requests = {r1, r2, r3}
  Maintenance = maintenance
SPECIFICATION LiveSpec
INVARIANTS ProtectedKept CommittedIntact TransfersKept
PROPERTIES SubmissionSettles LifeSpec
