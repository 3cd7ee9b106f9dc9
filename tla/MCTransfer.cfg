\* A transfer and an archive job race for one destination, which may hold a file.
SPECIFICATION FairSpec
CONSTANTS
  t1 = t1
  t2 = t2
  s1 = s1
  d1 = d1
  Task = {t1, t2}
  Path = {s1, d1}
  SourceOf <- OneSource
  DestOf <- OneDest
  Overwriting = {}
  Unauthorized = {}
  TypeOf <- UploadAndArchive
  Sizes = {1, 2, 3}
  MaxWorkers = 2
  MaxBytes = 2
  Limit = 2
  MaxEdits = 2
  MaxCrashes = 1
INVARIANTS LimiterBalanced InstalledOnce
PROPERTIES InstallsSnapshot 
