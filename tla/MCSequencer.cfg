\* Every well-formed orderlist of up to four entries implements the walk.
CONSTANTS
  LoopCap = 2
  MaxSize = 4
  Alphabet <- MCAlphabet
  Orders <- WellFormedLists
SPECIFICATION FairSpec
INVARIANTS
  TypeOK
  PlaysEditorEntry
  TransposeInForce
PROPERTIES
  RepeatExact
  ImplementsWalk
  ComesRound
