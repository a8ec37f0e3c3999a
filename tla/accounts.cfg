CONSTANTS
  Registrant = {r1, r2}
  Login = {l1}
  Refresher = {f1}
  Updater = {u1, u2}
  Deleter = {d1}
  Submitter = {s1}
  Name = {n1, n2}
  Email = {e1, e2}
  Password = {p1, p2}
  None = None
  LastId = 2
  MaxColumns = 1
SYMMETRY Interchangeable
SPECIFICATION Spec
INVARIANTS TypeOK IdentifiersUnique TokensNameOneAccount OwnersExist
PROPERTIES OnlyAskedColumns UpdateTakesEffect
CHECK_DEADLOCK FALSE
