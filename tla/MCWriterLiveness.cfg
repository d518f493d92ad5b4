\* Two requests that wait for each other's rows.
CONSTANTS
  Writer = {w1, w2}
  Id = {a, b}
  Recorded = {1}
  FlushThreshold = 2
  MaxWrites = 2
  ClockSteps = {1}
  Absent = Absent
SPECIFICATION FairSpec
PROPERTIES FlushTerminates
CHECK_DEADLOCK FALSE
