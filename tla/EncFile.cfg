SPECIFICATION FairSpec
CONSTANTS
  k1 = k1
  k2 = k2
  x = x
  Keys <- MCKeys
  Texts <- MCTexts
  MaxPieces = 2
  MaxFiles = 2
CHECK_DEADLOCK FALSE
INVARIANTS
  TypeOK
  SavedIsEncrypted
  NeverBothWait
PROPERTIES
  Answered
  ChildEnds
