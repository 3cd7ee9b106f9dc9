\* The parts of the local platform, one at a time, each on a small instance.
SPECIFICATION PlatformSpec
CONSTANTS
  Job = {j1}
  WorkerId = {w1, w2}
  Caller = {c1, c2}
  Limits = {1, 2}
  Priorities = {2}
  LeaseSeconds = 1
  Delays = {0, 1}
  NoJob = NoJob
  NoWorker = NoWorker
  Reader = {p1, p2}
  Chunks = 2
  MaxChanges = 2
  MaxDeaths = 1
  Dir = {0, 2, 4}
  Path = {1, 3, 5}
  Top = 0
  Listing <- Tree
  DepthOf <- Below
  Initially = {1, 3}
  MaxDepth = 1
  MaxFiles = 2
  MaxEvents = 2
  Cached = 3
  Biggest = 2
  HotUses = 2
  HotAge = 0
  WarmAge = 1
  Target = 3
  MaxClock = 3
  MaxUses = 2
  Admin = {a1, a2}
  Refusable = {"culture"}
  MaxRestarts = 1
  MaxLost = 2
  MaxQuits = 2
  Jobs = 2
  Records = 2
  Transferring = {1}
  Foreign = {2}
  Media = {1, 2}
  RowLimit = 1
  Cap = 1
  MaxMoves = 2
  Task = {"up", "check", "out", "index"}
  Kind <- Kinds
  From <- Origins
  To <- Destinations
  Granted = {"up", "out"}
  Place = {"near", "far", "mount"}
  Protected = {"mount"}
  Checksum = 0
  MaxTries = 2
  MaxEdits = 1
  MaxDeathsOfWorkers = 1
CHECK_DEADLOCK FALSE
SYMMETRY Alike
INVARIANTS StoreSound ScanRight AdviceSound  QuietRowsShown SuccessWasThere
 
