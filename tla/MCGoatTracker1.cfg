\* Songs of three editors, packed behind every registered playroutine and five small ones.
SPECIFICATION Spec
CONSTANTS
  InstrCount = 2
  FilterBytes = 16
  StripTiming = FALSE
  WaveMax = 512
  Org = 4096
  Players <- MCPlayers
  Addresses <- MCAddresses
  Params <- MCParams
  Songs <- MCSongs
INVARIANTS
  LayoutRead
  PatternsPlay
  ProgramsKept
  Decompiles
CHECK_DEADLOCK FALSE
