\* The converter's replay on songs it converts and songs it refuses.
CONSTANTS
  LoopCap = 2
  Channels = 2
  MCRows <- WalkRows
  MCOrders <- WalkOrders
  Songs <- WalkSongs
  StopLoops = 2
SPECIFICATION FairSpec
PROPERTIES
  RowsLastThree
  ReplayEnds
CHECK_DEADLOCK FALSE
