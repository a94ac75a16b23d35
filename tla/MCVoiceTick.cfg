\* Both songs, by a plain build and by one that skips work on the call of a row.
SPECIFICATION Spec
CONSTANTS
  Songs <- MCSongs
  Freq <- MCFreq
  RowBound = 2
PROPERTIES
  ImplementsTyped
  PortaArrives
