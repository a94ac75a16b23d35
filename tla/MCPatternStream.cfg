\* Patterns of three rows that fill the cursor's reach or less.
CONSTANTS
  Reach = 10
  RestRun = 2
  Transposes = {0, 241}
  Songs <- FittingSongs
SPECIFICATION FairSpec
INVARIANTS
  DecodesBack
PROPERTIES
  ImplementsEditor
  PatternsEnd
