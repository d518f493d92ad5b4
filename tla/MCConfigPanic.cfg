\* An update after one that could not connect.
CONSTANTS
  Name = {p}
  Request = {r1}
  MaxVersion = 4
SPECIFICATION Spec
INVARIANTS UpdateNeverPanics
CHECK_DEADLOCK FALSE
