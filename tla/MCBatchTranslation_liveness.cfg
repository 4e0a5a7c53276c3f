\* Whatever calls fail and jobs end, every task ends, and a cancellation ends it.
SPECIFICATION FairSpec
CONSTANTS
  p1 = p1
  p2 = p2
  b1 = b1
  b2 = b2
  b3 = b3
  b4 = b4
  NoBatch = NoBatch
  Prompts <- TwoPrompts
  Batches <- FourBatches
  NumItems = 1
  RequestOf <- Single
  BatchSize = 2
  Concurrency = 1
  EnablePolish = {TRUE}
  Faults = {"bad_response", "permanent", "cancel_failed", "find_failed", "no_credentials"}
  Events = {"cancel", "rerun", "shutdown", "crash"}
  MaxOps = 3
  MaxJobs = 3
PROPERTIES
  TaskEnds
  CancelTakesEffect
CHECK_DEADLOCK FALSE
