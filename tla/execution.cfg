CONSTANTS
  Word = {"w"}
  Blank = " "
  Inputs <- TwoInputs
  Expected <- TwoOutputs
  TicksPerSecond = 2
  TimeLimit = 1
  MemoryLimit = 2
  MemoryCap = 2
  TimeoutMemory = 1
  None = None
  Capacity = 1
  MaxFrames = 2
  Delay = 1
SPECIFICATION FairSpec
INVARIANTS TypeOK VerdictIsFirstFailure FiguresAreMaxima ContainerStopped
PROPERTIES RunEnds
CHECK_DEADLOCK FALSE
