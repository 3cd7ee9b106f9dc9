\* Two jobs, one of them refused by the gate, and two workers that die twice.
SPECIFICATION TimelySpec
CONSTANTS
  Job = {j1, j2}
  WorkerId = {w1, w2}
  Caller = {w1, w2}
  Limits = {2}
  Priorities = {1, 2}
  LeaseSeconds = 1
  Delays = {1}
  NoJob = NoJob
  NoWorker = NoWorker
  Denied = {j2}
  Outcomes = {"SUCCESS", "RETRYABLE"}
  Controls = {"cancel"}
  CrashLimit = 2
  CrashForever = FALSE
PROPERTY Settles
