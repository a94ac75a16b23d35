\* Tables of up to three rows (a filter's of four), two programs each.
CONSTANTS
  TableMax = 7
  MaxRows = 3
  Sources <- MCSources
SPECIFICATION FairSpec
INVARIANTS
  ProgramsPlaySame
  VibratoLast
  ProgramsApart
PROPERTIES
  WalksEnd
\* Every program is made: the system stops.
CHECK_DEADLOCK FALSE
