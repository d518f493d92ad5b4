\* Two requests at a time while the configuration is reloaded.
CONSTANTS
  c1 = c1
  c2 = c2
  d1 = d1
  d2 = d2
  Config = {c1, c2}
  Tables <- MCTables
  Dataset = {d1, d2}
  Request = {q1, q2}
  MaxLoads = 3
  MaxRequests = 3
  Nothing = Nothing
SPECIFICATION Spec
SYMMETRY Symmetry
INVARIANTS TypeOK OnlyFailedPingLeaks PoolFitsDigest AnsweredFromOwnDatabase
CHECK_DEADLOCK FALSE
