\* Two uploads, two concurrent clients and the timer.
CONSTANTS
  MaxUploads = 2
  Files = {f1, f2}
  Size = 1
  MaxActive = 2
  MaxTransfers = 1
  Requests = {r1, r2}
  Maintenance = maintenance
SPECIFICATION Spec
SYMMETRY Interchangeable
INVARIANT ProtectedKept
