CONSTANTS
  c1 = c1
  c2 = c2
  c3 = c3
  d1 = d1
  d2 = d2
  s1 = s1
  s2 = s2
  Creator = {c1, c2}
  Deleter = {d1, d2}
  Submitter = {s1, s2}
  None = None
  Testcases = 1
  PageLimit = 2
  Faults <- OneOfEach
SPECIFICATION Spec
SYMMETRY Interchangeable
CHECK_DEADLOCK FALSE
INVARIANTS TypeOK TestsPresent NoLitter SubmissionReadable CodesAccounted
