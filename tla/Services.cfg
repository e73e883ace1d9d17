\* What the server and the portal store, what they and the Agent check, one remote session of three
\* chunks each way, and one tab with two files of one name.
CONSTANTS
  Parts = {"access", "accounts", "edits", "wakes", "inputs", "paths", "bridge", "uploads"}
  MaxTime = 5
  MaxTokens = 3
  PortalPasswords = {p1, p2}
  SessionLife = 3
  LoginWindow = 2
  MaxLogins = 2
  MaxSessions = 2
  php = php
  upload = upload
  UserNames = {php, upload, adm1, adm2}
  AdminNames = {adm1, adm2}
  Passwords = {p1, p2}
  NoUser = none
  MaxStarts = 3
  Crashes = TRUE
  Missing = Missing
  Null = Null
  Good = Good
  Loose = Loose
  Empty = Empty
  Elsewhere = Elsewhere
  Invalid = Invalid
  Nothing = Nothing
  MaxPath = 5
  MaxRoot = 3
  Admins = {a1, a2}
  Names = {n1, n2}
  MacAddresses = {m1}
  UNSET_MAC = m0
  None = none
  Absent = absent
  Bad = bad
  MaxId = 2
  MaxLog = 3
  MaxPackets = 2
  MaxRemotes = 1
  MaxChunks = 3
  Tabs = {t1}
  Files = {f1, f2}
  Size = 4
  ChunkBytes = 2
  Pieces = {1, 2, 4}
  MaxRetries = 1
  MaxAttempts = 1
  MaxUploads = 2
  MaxLate = 1
  Calls = {c1, c2}
  MaxCookies = 8
  MaxRestarts = 2
  MaxFaults = 1
  CHUNK_MAX_MS = 20
  CHUNK_IDLE_MS = 3
SPECIFICATION Spec
INVARIANTS AccessInv InputsAgree PathRulesAgree RegistryInv BridgeInv UploadInv
PROPERTIES AccountsSafe
CHECK_DEADLOCK FALSE
