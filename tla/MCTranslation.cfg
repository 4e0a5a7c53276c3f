SPECIFICATION Spec
CONSTANTS
  Histories <- MCHistories
  LaterChunks <- MCLaterChunks
  InitialWindow = 2
  DenseLimit = 3
  WidestWindow = 6
  RefineSizes <- MCRefineSizes
  MaxChanges = 2
  ChunkInputs <- MCChunkInputs
  TermInputs <- MCTermInputs
  SummaryInputs <- MCSummaryInputs
  r1 = r1
  r2 = r2
  Runs = {r1, r2}
  Work <- MCWork
  Concurrency = 1
  Limit = 1
  Cost = 1
  Attempts = 2
  Corrections = 1
  Tries = 2
  Polish = TRUE
  MaxResets = 1
INVARIANTS
  PlansAreSound
  OvershootIsBounded
PROPERTIES
  MemoryIsSound
  NothingIsAskedInVain
  RunsEnd
CHECK_DEADLOCK FALSE
