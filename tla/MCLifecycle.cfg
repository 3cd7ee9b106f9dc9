\* Two sources with one base name, two quarantine roots, two operators.
SPECIFICATION Spec
CONSTANTS
  n1 = n1
  s1 = s1
  s2 = s2
  r1 = r1
  r2 = r2
  Source = {s1, s2}
  Root = {r1, r2}
  Targets <- ThreeTargets
  NameOf <- OneName
  Cleaner = {k1}
  Purger = {o1, o2}
  Restorer = {t1}
  Retention = 1
  MaxEdits = 1
  MaxCrashes = 1
INVARIANTS CopiesAccounted MissingOnlyByPurge
PROPERTIES EarlyPurgeOnlyOfReused RestoreVerified
SYMMETRY Interchangeable
