\* An executor slower than its lease runs the job for ever.
SPECIFICATION FairSpec
CONSTANTS
  Job = {j1}
  WorkerId = {w1, w2}
  Caller = {w1, w2}
  Limits = {2}
  Priorities = {2}
  LeaseSeconds = 1
  Delays = {1}
  NoJob = NoJob
  NoWorker = NoWorker
  Denied = {}
  Outcomes = {"SUCCESS"}
  Controls = {}
  CrashLimit = 0
  CrashForever = FALSE
PROPERTY Settles
