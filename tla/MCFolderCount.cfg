\* Texts of up to five characters, pieces of two; trees of three directories
\* and five files, with three descriptors.
CONSTANTS
  a = a
  b = b
  Letter <- MCLetter
  Blank = Blank
  Newline = Newline
  Other = Other
  LineSize = 3
  MaxLength = 5
  Texts <- MCTexts
  Trees <- MCTrees
  MaxOpen = 3
  MaxLines = 3

SPECIFICATION Spec

INVARIANTS
  CountExact
  FolderCounted

\* The programs end.
CHECK_DEADLOCK FALSE
