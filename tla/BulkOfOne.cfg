SPECIFICATION Spec
CONSTANTS
  Named = {1, 2}
  Slots = {1}
  MaxTries = 2
  MaxTrouble = 0
INVARIANTS BulkDeletes
CHECK_DEADLOCK FALSE
