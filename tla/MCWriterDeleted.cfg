\* An update and a deletion of one entity in one batch.
CONSTANTS
  Writer = {w1}
  Id = {a}
  Recorded = {1, 2}
  FlushThreshold = 3
  MaxWrites = 2
  ClockSteps = {1}
  Absent = Absent
SPECIFICATION Spec
INVARIANTS DeletedIsGone
CHECK_DEADLOCK FALSE
