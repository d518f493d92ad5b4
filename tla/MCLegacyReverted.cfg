\* A configuration that cannot be connected to is taken back.
CONSTANTS
  c1 = c1
  c2 = c2
  d1 = d1
  d2 = d2
  Config = {c1, c2}
  Tables <- MCTables
  Dataset = {d1, d2}
  Request = {q1}
  MaxLoads = 3
  MaxRequests = 2
  Nothing = Nothing
SPECIFICATION Spec
INVARIANTS ConnectionIsOpen
CHECK_DEADLOCK FALSE
