\* Two overlapping collections, gauges that move at any time, one death.
SPECIFICATION FairSpec
CONSTANTS
  Collector = {c1, c2}
  Levels <- MCLevels
  Many = 2
  MaxDeaths = 1
INVARIANT OccurrencesTold
PROPERTIES ResolvedOnSight Converges
