\* Two files, two overlapping discovery runs, one search, one content writer.
SPECIFICATION Spec
CONSTANTS
  Path = {p1, p2}
  Scanner = {k1, k2}
  Searcher = {q1}
  Writer = {w1}
  MaxScans = 2
  MaxTexts = 2
  MaxChanges = 1
  MaxRebuilds = 1
INVARIANTS HitsRight TrustedIndexIsFresh ContentBelongs
PROPERTIES StaleWasGone
SYMMETRY Interchangeable
CHECK_DEADLOCK FALSE
