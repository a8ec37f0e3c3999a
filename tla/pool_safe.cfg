CONSTANTS
  cpp = cpp
  python = python
  c1 = c1
  c2 = c2
  w1 = w1
  w2 = w2
  Language = {cpp, python}
  Creator = {c1, c2}
  Worker = {w1}
  Threshold = 3
  EventBound = 2
  BrokenImage = {python}
  Faults <- OneOfEach
SPECIFICATION Spec
CHECK_DEADLOCK FALSE
INVARIANTS TypeOK PendingExact NoOverProvision PoolProvisioned DoneMeansEmpty
