SPECIFICATION Spec
CONSTANTS
  Songs <- MCSongs
  TableSize = 13
  MaxEdits = 1
INVARIANTS
  TextPlays
  OneText
CHECK_DEADLOCK FALSE
