\* One job and three workers, every outcome, control and crash.
SPECIFICATION WSpec
CONSTANTS
  Job = {j1}
  WorkerId = {w1, w2, w3}
  Caller = {w1, w2, w3}
  Limits = {2}
  Priorities = {2}
  LeaseSeconds = 1
  Delays = {1}
  NoJob = NoJob
  NoWorker = NoWorker
  Denied = {}
  Outcomes = {"SUCCESS", "RETRYABLE", "PERMANENT", "UNSAFE", "CANCELLED"}
  Controls = {"pause", "cancel"}
  CrashLimit = 0
  CrashForever = TRUE
INVARIANT HoldsOrDisplaced
PROPERTIES SuccessEarned DisplacedReportsIgnored
SYMMETRY Workers
