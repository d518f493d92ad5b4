\* Two overlapping writers and a consumer that may set a limit: what can be lost.
CONSTANTS
  Writer = {w1, w2}
  Id = {a, b}
  Recorded = {1}
  FlushThreshold = 2
  MaxWrites = 1
  ClockSteps = {0, 1}
  Absent = Absent
  Reader = {r1}
  Datasets <- Mixed
  Limits = {0, 1}
  MaxReads = 3
SPECIFICATION FeedSpec
SYMMETRY Symmetry
INVARIANTS FeedTypeOK NoRedelivery LostOnlyIfCutOrLate
CHECK_DEADLOCK FALSE
