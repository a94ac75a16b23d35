\* Repeat(0) before a pattern, and a restart at the pattern of a repeat, as
\* the packed playroutine plays them (tlc -continue).
CONSTANTS
  LoopCap = 2
  MaxSize = 3
  Alphabet <- MCAlphabet
  Orders <- DocumentedLists
SPECIFICATION Spec
INVARIANTS
  RepeatBound
  PlaysEditorEntry
