SPECIFICATION MarkupSpec
CHECK_DEADLOCK FALSE
CONSTANTS
  Chapters <- MCChapters
  MergedBlocks <- MCMergedBlocks
  Foreign <- MCForeign
  MaxMarkers = 4
INVARIANTS
  NothingIsLost
