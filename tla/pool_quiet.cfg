CONSTANTS
  cpp = cpp
  python = python
  c1 = c1
  c2 = c2
  w1 = w1
  w2 = w2
  Language = {cpp}
  Creator = {c1, c2}
  Worker = {w1}
  Threshold = 1
  EventBound = 2
  BrokenImage = {}
  Faults <- NoFaults
SPECIFICATION Spec
CHECK_DEADLOCK FALSE
INVARIANT QuietPoolIsFull
