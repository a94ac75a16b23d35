SPECIFICATION Spec
CONSTANTS
  OldSongs <- MCOldSongs
  OwnSongs <- MCOwnSongs
  NameLen = 2
  InstrMax = 6
  TableMax = 24
  FilterSteps = 4
INVARIANTS
  ReadsBack
  SpeedsKept
  WavesKept
  PulseReturns
  ImportedWritable
CHECK_DEADLOCK FALSE
