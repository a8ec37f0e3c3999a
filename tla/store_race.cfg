CONSTANTS
  c1 = c1
  c2 = c2
  c3 = c3
  d1 = d1
  d2 = d2
  s1 = s1
  s2 = s2
  Creator = {c1, c2}
  Deleter = {d1}
  Submitter = {s1}
  None = None
  Testcases = 1
  PageLimit = 1000
  Faults <- NoFaults
SPECIFICATION Spec
SYMMETRY Interchangeable
CHECK_DEADLOCK FALSE
INVARIANTS TestsIntact
