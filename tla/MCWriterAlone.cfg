\* One request, batches of two, every order of updates and deletions.
CONSTANTS
  Writer = {w1}
  Id = {a, b}
  Recorded = {1, 2}
  FlushThreshold = 2
  MaxWrites = 4
  ClockSteps = {1}
  Absent = Absent
SPECIFICATION Spec
SYMMETRY Symmetry
INVARIANTS TypeOK BatchInsertsLatest BufferBounded AckedIsStored FailureSticks DuplicateKeyOnlyByRace
PROPERTY ImplementsFlushStore
CHECK_DEADLOCK FALSE
