\* One row, two slots and two attempts: a lapsed lock gives two live executions of
\* one job, each of which may POST its submission twice.
SPECIFICATION Spec
CONSTANTS
  j1 = j1
  j2 = j2
  x1 = x1
  x2 = x2
  s1 = s1
  s2 = s2
  None = None
  Jobs = {j1}
  Inputs = {x1}
  Slots = {s1, s2}
  Attempts = 2
  DlqMaxRetries = 2
  AiPostAttempts = 2
  AiPollMaxAttempts = 1
  C2paMaxRetries = 2
  MaxStalledCount = 1
  MaxLate = 0
  Cancellable = {}
  ApiMayCrash = FALSE
  RowsMayExpire = TRUE
  LocksMayLapse = TRUE
  DatabaseMayFail = FALSE
SYMMETRY Symmetry
INVARIANTS
  SubmissionBudget
  DeadLettersAreLast
  VerdictsHold
PROPERTIES
  ImplementsGate
VIEW View
CHECK_DEADLOCK FALSE
