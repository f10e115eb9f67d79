\* The encoder page, see MCEncoder
SPECIFICATION Spec
CONSTANTS
  File <- MCFile
  Images <- MCImages
  Unreadable <- MCUnreadable
  NewName <- MCNewName
  Size <- MCSize
  maxZipSize = 3
  Selections <- MCSelections
  MaxBatches = 2
  NoFile = "none"
INVARIANT TypeOK
INVARIANT AccountsForAll
INVARIANT HoldsWhatIsListed
PROPERTY BatchEnds
CHECK_DEADLOCK FALSE
