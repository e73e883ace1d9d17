\* Two records, two machines, three tokens and commands between them.
CONSTANTS
  Stations = {s1, s2}
  Machines = {m1, m2}
  Commands = {"restart"}
  Nobody = Nobody
  MaxIssues = 3
  MaxLate = 1
SPECIFICATION Spec
SYMMETRY MCSymmetry
INVARIANTS PairedByToken DeliveredOnce OkBacked
PROPERTIES PendingAccounted DeliverySpec
