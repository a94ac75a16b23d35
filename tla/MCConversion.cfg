\* Two patterns of three rows in all, five orderlists, both error modes.
CONSTANTS
  LoopCap = 2
  MaxCommands = 3
  MaxPatterns = 3
  EmptyRows = 2
  Songs <- MCSongs
SPECIFICATION FairSpec
INVARIANTS
  NotesOnTime
  LoopsAlike
  OwnCommand
PROPERTIES
  Converts
\* A conversion ends.
CHECK_DEADLOCK FALSE
