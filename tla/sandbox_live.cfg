CONSTANTS
  cpp = cpp
  python = python
  s1 = s1
  s2 = s2
  Language = {cpp, python}
  Creator = {c1}
  Worker = {w1}
  Threshold = 3
  EventBound = 1
  BrokenImage = {python}
  Faults <- OneLeaseOneManager
  Submission = {s1, s2}
  language <- OneEach
  None = None
SPECIFICATION FairService
CHECK_DEADLOCK FALSE
INVARIANTS StarvedJobsKept
PROPERTIES ServedWhileManaged PoolRefills ShutdownEnds
