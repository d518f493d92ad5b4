\* Four updates, two datasets and a request in any interleaving.
CONSTANTS
  Name = {p, c}
  Request = {r1}
  MaxVersion = 5
SPECIFICATION Spec
INVARIANTS TypeOK ServedByOneConfiguration OnePoolOpen UpdateIsComplete MapsLowered
CHECK_DEADLOCK FALSE
