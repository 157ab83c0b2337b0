SPECIFICATION HelperSpec
CONSTANTS
  Word = 256
  Byte = 2
  MaxInt = 3
  NotANumber <- Minus
  Processes <- MCProcesses
  Queries <- MCQueries
  Tags <- MCTags
  Texts <- MCTexts
  Keys <- MCKeys
  Files <- MCFiles
  Sizes = {16, 24, 144}
INVARIANTS
  ListIsWhole
  RowsInBounds
  VersionsOrdered
  BindingIsMeant
  VirtualKeysApart
  IconIsClosest
CHECK_DEADLOCK FALSE
