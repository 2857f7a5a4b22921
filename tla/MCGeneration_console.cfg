\* One row, whose last progress callback lands late.
SPECIFICATION Spec
CONSTANTS
  j1 = j1
  j2 = j2
  x1 = x1
  x2 = x2
  s1 = s1
  s2 = s2
  None = None
  Jobs = {j1}
  Inputs = {x1}
  Slots = {s1}
  Attempts = 1
  DlqMaxRetries = 1
  AiPostAttempts = 1
  AiPollMaxAttempts = 1
  C2paMaxRetries = 1
  MaxStalledCount = 0
  MaxLate = 1
  Cancellable = {}
  ApiMayCrash = FALSE
  RowsMayExpire = FALSE
  LocksMayLapse = FALSE
  DatabaseMayFail = FALSE
INVARIANTS
  ConsoleAgrees
CHECK_DEADLOCK FALSE
