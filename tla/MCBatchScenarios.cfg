\* The first of the four tasks: calls, responses, jobs and chunks that fail,
\* crashes, pauses and reruns.  The other three are set in the module.
SPECIFICATION ScenarioSpec
CONSTANTS
  p1 = p1
  p2 = p2
  b1 = b1
  b2 = b2
  b3 = b3
  b4 = b4
  NoBatch = NoBatch
  Prompts <- TwoPrompts
  Batches <- ThreeBatches
  NumItems = 2
  RequestOf <- Distinct
  BatchSize = 2
  Concurrency = 1
  EnablePolish = {TRUE, FALSE}
  Faults = {"transient", "permanent", "bad_response", "item_error", "batch_failed", "chunk_missing"}
  Events = {"rerun", "shutdown", "crash"}
  MaxOps = 2
  MaxJobs = 3
SYMMETRY BatchSymmetry
INVARIANTS
  DoneIsInChunks
  PaidOnce
  SubmittedToItsBatch
  CancelStops
PROPERTIES
  PolishNotLost
CHECK_DEADLOCK FALSE
