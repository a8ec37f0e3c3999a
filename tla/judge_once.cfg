SPECIFICATION Spec
SYMMETRY Interchangeable
CONSTANTS
  s1 = s1
  s2 = s2
  AC = AC
  WA = WA
  None = None
  Submission = {s1, s2}
  Malformed = {}
  Broken = {}
  FinalVerdict = {AC, WA}
  MinWorkers = 1
  MaxWorkers = 1
  JobsPerWorker = 1
  LastIdentifier = 2
  Faults <- AllButCrash
PROPERTIES
  JudgedOnce
  KeepsPromise
CHECK_DEADLOCK FALSE
