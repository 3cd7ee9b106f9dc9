\* One schedule of two items, two overlapping schedulers, two operators.
SPECIFICATION Spec
CONSTANTS
  Items = 2
  Edited = {2}
  Runner = {r1, r2}
  Purger = {o1}
  Restorer = {s1}
  Interval = 1
  Retention = 1
  Limit = 2
  MaxJobs = 2
  MaxLate = 1
  MaxEdits = 1
  MaxCrashes = 1
INVARIANTS   RestoredIsWhole
 
CONSTRAINT Narrow
SYMMETRY Runners
