\* Two remote sessions of one page, two attempts of an upload of two units, two calls of the portal
\* through two restarts of the server, and a transfer under its deadlines.
CONSTANTS
  Parts = {"bridge", "uploads", "sessions", "deadline"}
  MaxTime = 5
  MaxTokens = 3
  PortalPasswords = {p1, p2}
  SessionLife = 3
  LoginWindow = 2
  MaxLogins = 2
  MaxSessions = 2
  php = php
  upload = upload
  UserNames = {php, upload, adm1, adm2}
  AdminNames = {adm1, adm2}
  Passwords = {p1, p2}
  NoUser = none
  MaxStarts = 3
  Crashes = TRUE
  Missing = Missing
  Null = Null
  Good = Good
  Loose = Loose
  Empty = Empty
  Elsewhere = Elsewhere
  Invalid = Invalid
  Nothing = Nothing
  MaxPath = 5
  MaxRoot = 3
  Admins = {a1, a2}
  Names = {n1, n2}
  MacAddresses = {m1}
  UNSET_MAC = m0
  None = none
  Absent = absent
  Bad = bad
  MaxId = 2
  MaxLog = 3
  MaxPackets = 2
  MaxRemotes = 2
  MaxChunks = 1
  Tabs = {t1}
  Files = {f1}
  Size = 2
  ChunkBytes = 1
  Pieces = {1, 2, 4}
  MaxRetries = 1
  MaxAttempts = 2
  MaxUploads = 2
  MaxLate = 0
  Calls = {c1, c2}
  MaxCookies = 8
  MaxRestarts = 2
  MaxFaults = 1
  CHUNK_MAX_MS = 20
  CHUNK_IDLE_MS = 3
SPECIFICATION LiveSpec
INVARIANT DeadlineKept
PROPERTIES SessionsToldAndEnded UploadsAdvance LoginsShared SlotReturned
CHECK_DEADLOCK FALSE
