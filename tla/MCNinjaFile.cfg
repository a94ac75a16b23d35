\* Slots a few bytes wide, so that songs meet every limit.
CONSTANTS
  TableBytes = 3
  PattBytes = 6
  TrackBytes = 14
  MaxPatt = 3
  MaxSongs = 2
  MaxCmd = 2
  RunMax = 4
  Songs <- MCSongs
SPECIFICATION Spec
INVARIANTS
  PrefixDecodes
  ReadsBack
\* A song saved or refused is done with.
CHECK_DEADLOCK FALSE
