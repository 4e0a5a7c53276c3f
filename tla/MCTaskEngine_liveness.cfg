SPECIFICATION FairSpec
PROPERTIES
  CancelSettles
  RunningResumes
  QueuedIsTaken

CONSTANTS
  p1 = p1
  p2 = p2
  text = text
  batch = batch
  batch2 = batch2
  export = export
  NoWorker = NoWorker
  desc <- MCDesc
  Books <- MCBooks
  Tasks = {text, batch}
  Procs = {p1}
  Desktop = {p1}
  Workers = {w1, w2}
  EventOutlivesWorker = FALSE
  StartMayFail = FALSE
  MaxStarts = 2
  MaxUserOps = 4
