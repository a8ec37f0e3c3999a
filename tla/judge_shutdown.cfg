SPECIFICATION FairSpec
CONSTANTS
  s1 = s1
  s2 = s2
  AC = AC
  WA = WA
  None = None
  Submission = {s1}
  Malformed = {}
  Broken = {}
  FinalVerdict = {AC}
  MinWorkers = 1
  MaxWorkers = 2
  JobsPerWorker = 1
  LastIdentifier = 3
  Faults <- InterruptsRedis
INVARIANTS
  CleanShutdown
  WorkerLimit
PROPERTIES
  ShutdownCompletes
CHECK_DEADLOCK FALSE
