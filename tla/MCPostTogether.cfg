\* Requests that may overlap, to two datasets, one of them without config.
CONSTANTS
  Dataset = {a, b}
  WithConfig = {a}
  Unmapped = Unmapped
  Request = {q1, q2}
  MaxBatches = 2
  MaxRequests = 3
SPECIFICATION Spec
SYMMETRY Symmetry
INVARIANTS TypeOK AtHomeIfUndisturbed InOrderOnceSettled OkMeansCommitted OnlyFailedPingLeaks NoClosedPool
CHECK_DEADLOCK FALSE
