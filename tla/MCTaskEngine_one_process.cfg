SPECIFICATION Spec
SYMMETRY WorkerSymmetry
INVARIANTS
  TypeOK
  ClaimsCompatible
  LiveWorkersCompatible
  RowsTellTheWork
PROPERTIES
  CancelIsNotForgotten
  ImplementsClaimLocks

CONSTANTS
  p1 = p1
  p2 = p2
  text = text
  batch = batch
  batch2 = batch2
  export = export
  NoWorker = NoWorker
  desc <- MCDesc
  Books <- MCBooks
  Tasks = {text, batch, export}
  Procs = {p1}
  Desktop = {p1}
  Workers = {w1, w2, w3}
  EventOutlivesWorker = FALSE
  StartMayFail = TRUE
  MaxStarts = 2
  MaxUserOps = 4
