\* Two requests that overlap: deletions, inserts and failures interleave.
CONSTANTS
  Writer = {w1, w2}
  Id = {a, b}
  Recorded = {1}
  FlushThreshold = 2
  MaxWrites = 3
  ClockSteps = {1}
  Absent = Absent
SPECIFICATION Spec
SYMMETRY Symmetry
INVARIANTS AckedIsStored FailureSticks DuplicateKeyOnlyByRace
PROPERTY ImplementsFlushStore
CHECK_DEADLOCK FALSE
