SPECIFICATION Spec
CONSTANTS
  Songs <- MCSongs
  Shapes <- MCShapes
  Reach = 12
  RestRun = 2
INVARIANTS
  RepackExact
  SongWritten
