\* A finding: a cancelled task that is run again polishes a chunk and does not
\* write it.
SPECIFICATION Spec
CONSTANTS
  p1 = p1
  p2 = p2
  b1 = b1
  b2 = b2
  b3 = b3
  b4 = b4
  NoBatch = NoBatch
  Prompts <- TwoPrompts
  Batches <- ThreeBatches
  NumItems = 2
  RequestOf <- Distinct
  BatchSize = 1
  Concurrency = 1
  EnablePolish = {TRUE}
  Faults = {"bad_response"}
  Events = {"cancel", "rerun"}
  MaxOps = 2
  MaxJobs = 3
SYMMETRY BatchSymmetry
INVARIANTS
  PolishIsApplied
CHECK_DEADLOCK FALSE
