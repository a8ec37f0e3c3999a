SPECIFICATION Spec
CONSTANTS
  s1 = s1
  s2 = s2
  AC = AC
  WA = WA
  None = None
  Submission = {s1, s2}
  Malformed = {s2}
  Broken = {}
  FinalVerdict = {AC}
  MinWorkers = 1
  MaxWorkers = 2
  JobsPerWorker = 1
  LastIdentifier = 2
  Faults <- StallRedisCrash
INVARIANTS
  TypeOK
  JobAccounted
  AtMostOnce
  StuckRequeued
  NoOrphanWorker
  SweepNeverBlocks
CHECK_DEADLOCK FALSE
