\* Every build of the gate timer: rows, patterns and the converter's replay.
CONSTANTS
  LoopCap = 1
  Channels = 2
  MCRows <- ClockRows
  MCOrders <- ClockOrders
  Songs <- BuildSongs
  GateModes = {"timer", "live", "fixed"}
SPECIFICATION FairSpec
INVARIANTS
  FetchedOnce
PROPERTIES
  RowReady
  ImplementsReplay
  AllLoop
