\* One row and one slot, with crashes of the API and of the worker and with rows that
\* expire: fairness alone must end what was accepted.
SPECIFICATION FairSpec
CONSTANTS
  j1 = j1
  j2 = j2
  x1 = x1
  x2 = x2
  s1 = s1
  s2 = s2
  None = None
  Jobs = {j1}
  Inputs = {x1}
  Slots = {s1}
  Attempts = 2
  DlqMaxRetries = 2
  AiPostAttempts = 1
  AiPollMaxAttempts = 2
  C2paMaxRetries = 2
  MaxStalledCount = 1
  MaxLate = 0
  Cancellable = {}
  ApiMayCrash = TRUE
  RowsMayExpire = TRUE
  LocksMayLapse = FALSE
  DatabaseMayFail = FALSE
PROPERTIES
  AcceptedSettles
  SlotsRecycle
CHECK_DEADLOCK FALSE
