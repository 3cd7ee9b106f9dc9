\* Two workers and an operator share a job; MaxCalls calls, one event lost.
SPECIFICATION ASpec
CONSTANTS
  Job = {j1}
  WorkerId = {w1, w2}
  Caller = {w1, w2, op}
  Limits = {2}
  Priorities = {2}
  LeaseSeconds = 1
  Delays = {0}
  NoJob = NoJob
  NoWorker = NoWorker
  MaxCalls = 8
  MaxLost = 1
SYMMETRY Workers
INVARIANTS EndTold AttemptsTold ClaimsToldFirst
