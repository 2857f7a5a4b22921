\* Two rows and two inputs, so that the second row can reuse, retry or duplicate
\* the first while users cancel it and the database fails.
SPECIFICATION Spec
CONSTANTS
  j1 = j1
  j2 = j2
  x1 = x1
  x2 = x2
  s1 = s1
  s2 = s2
  None = None
  Jobs = {j1, j2}
  Inputs = {x1, x2}
  Slots = {s1}
  Attempts = 1
  DlqMaxRetries = 1
  AiPostAttempts = 1
  AiPollMaxAttempts = 1
  C2paMaxRetries = 1
  MaxStalledCount = 0
  MaxLate = 1
  Cancellable = {j1}
  ApiMayCrash = FALSE
  RowsMayExpire = TRUE
  LocksMayLapse = FALSE
  DatabaseMayFail = TRUE
SYMMETRY Symmetry
INVARIANTS
  TypeOK
  GovernanceGate
  ReuseMatchesRequest
  CompleteIsGoverned
VIEW View
CHECK_DEADLOCK FALSE
