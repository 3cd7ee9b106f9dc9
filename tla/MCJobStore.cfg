\* Two jobs and two connections inside two-statement methods.
SPECIFICATION Spec
CONSTANTS
  Job = {j1, j2}
  WorkerId = {w1, w2}
  Caller = {c1}
  Limits = {1, 2}
  Priorities = {2}
  LeaseSeconds = 1
  Delays = {0, 1}
  NoJob = NoJob
  NoWorker = NoWorker
INVARIANT IInv
PROPERTIES LeavesTerminalByRetryOnly NoDirectHandover
SYMMETRY CallersAndWorkers
