\* The dashboard of one machine, the queue of one job or of two that ended, the audit log of three rows on pages of two,
\* and two tabs with three workstations and room for two thumbnails; one request fails.
CONSTANTS
  None = None
  Pending = Pending
  Failed = Failed
  MaxFaults = 1
  Machines = {m1}
  MaxChanges = 1
  MaxNews = 2
  Jobs = {j1, j2}
  History = History
  MaxPolls = 2
  MaxActs = 1
  MaxElsewhere = 1
  Actions = {login, wake}
  All = All
  PAGE_SIZE = 2
  MaxRows = 3
  MaxRequests = 2
  Tabs = {t1, t2}
  Keys = {k1, k2, k3}
  Frames = {f1, f2}
  Blank = blank
  MaxPreviews = 2
  Outcomes = {TRUE, FALSE}
SPECIFICATION LiveSpec
INVARIANT PreviewInv
PROPERTIES DashboardCurrent QueueInOrder AuditReadable
CHECK_DEADLOCK FALSE
