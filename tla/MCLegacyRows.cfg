\* Results of up to two rows, one reload.
CONSTANTS
  Tables <- MCTables
  Mappings <- MCMappings
  Base = {b1, b2}
  MaxRows = 2
  MaxReloads = 1
  Null = Null
  Unmapped = Unmapped
  NoRow = NoRow
SPECIFICATION Spec
INVARIANTS TypeOK SentIsTheRow TokenCoversRows
CHECK_DEADLOCK FALSE
