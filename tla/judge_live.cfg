SPECIFICATION FairSpec
CONSTANTS
  s1 = s1
  s2 = s2
  AC = AC
  WA = WA
  None = None
  Submission = {s1, s2}
  Malformed = {}
  Broken = {s2}
  FinalVerdict = {AC}
  MinWorkers = 1
  MaxWorkers = 1
  JobsPerWorker = 1
  LastIdentifier = 3
  Faults <- CrashStall
PROPERTIES
  SoundIsJudged
  WorkersRestored
  
  OrchestratorLoops
