---------------------- MODULE TranslateAndExportProofs ----------------------
(***************************************************************************)
(* What TLAPS proves of TranslateAndExport: the file at the output path    *)
(* survives every crash of its promotion, a completed task's file is made  *)
(* of the document as it is, and a task is taken up again only on a        *)
(* document that nobody else has changed.                                  *)
(***************************************************************************)
EXTENDS TranslateAndExport, TLAPS

-----------------------------------------------------------------------------
(* Type correctness.                                                       *)

\* What the operators on payloads make of them.
LEMMA PayloadsTyped ==
  /\ ExportSubmitted \in Payload
  /\ \A p \in Payload :
       /\ StalePayload(p) \in Payload
       /\ \A required \in BOOLEAN : Guarded(p, required) \in Payload
       /\ [p EXCEPT !.params = TRUE] \in Payload
       /\ \A b \in BOOLEAN : [p EXCEPT !.job = b] \in Payload
       /\ [p EXCEPT !.items = TRUE, !.job = TRUE] \in Payload
BY DEF ExportSubmitted, Payload, Guards, StalePayload, Guarded

\* What the operators on rows, workers and files make of them.
LEMMA RecordsTyped ==
  /\ Idle \in ExportWorker
  /\ \A r \in ExportRow :
       /\ StaleRow(r) \in ExportRow
       /\ PrepareForRerun(r) \in Payload
       /\ \A kind \in {"run", "cancel"}, at \in {"start", "settle"} : Worker(kind, at, r) \in ExportWorker
  /\ \A x \in ExportWorker : StaleWorker(x) \in ExportWorker
  /\ \A f \in ExportFiles : StaleFiles(f) \in ExportFiles /\ SetAside(f) \in ExportFiles
<1>1. Idle \in ExportWorker
  BY PayloadsTyped DEF Idle, ExportWorker, LocalStages
<1>2. ASSUME NEW r \in ExportRow
      PROVE  /\ StaleRow(r) \in ExportRow
             /\ PrepareForRerun(r) \in Payload
  BY PayloadsTyped DEF ExportRow, StaleRow, PrepareForRerun
<1>3. ASSUME NEW r \in ExportRow, NEW kind \in {"run", "cancel"}, NEW at \in {"start", "settle"}
      PROVE  Worker(kind, at, r) \in ExportWorker
  <2>1. (r.use_batch /\ r.payload.params) \in BOOLEAN
    BY DEF ExportRow, Payload
  <2>. QED  BY <1>1, <2>1 DEF Worker, ExportWorker, LocalStages, Idle
<1>4. ASSUME NEW x \in ExportWorker PROVE StaleWorker(x) \in ExportWorker
  BY PayloadsTyped DEF ExportWorker, StaleWorker
<1>5. ASSUME NEW f \in ExportFiles PROVE StaleFiles(f) \in ExportFiles /\ SetAside(f) \in ExportFiles
  BY DEF ExportFiles, FileState, StaleFiles, SetAside, NoFile
<1>. QED  BY <1>1, <1>2, <1>3, <1>4, <1>5

LEMMA ExportInitTyped == TaskInit => TaskTypeOK
<1>. SUFFICES ASSUME TaskInit PROVE TaskTypeOK
  OBVIOUS
<1>1. row \in ExportRow
  BY PayloadsTyped DEF TaskInit, ExportRow, Status
<1>2. files \in ExportFiles
  BY DEF TaskInit, ExportFiles, FileState, NoFile
<1>. QED  BY <1>1, <1>2, RecordsTyped DEF TaskInit, TaskTypeOK

\* How a worker ends, and how it goes on, is well typed.
LEMMA EndsTyped ==
  ASSUME TaskTypeOK, NEW status \in {"failed", "cancelled"}
  PROVE  /\ TerminalRow(status) \in ExportRow
         /\ Ends => worker' \in ExportWorker /\ foreign' \in BOOLEAN
         /\ Interrupted => /\ row' \in ExportRow /\ worker' \in ExportWorker
                          /\ foreign' \in BOOLEAN /\ ended' \in BOOLEAN
         /\ \A at \in LocalStages \cup BatchSteps \cup ExportSteps : GoesTo(at) => worker' \in ExportWorker
         /\ \A f \in ExportFiles : [f EXCEPT !.staged = NoFile] \in ExportFiles
<1>. USE DEF TaskTypeOK
<1>1. \A s \in {"failed", "cancelled"} : TerminalRow(s) \in ExportRow
  BY PayloadsTyped DEF TerminalRow, ExportRow, ExportWorker, Status, TERMINAL_TASK_STATUSES
<1>2. Ends => worker' \in ExportWorker /\ foreign' \in BOOLEAN
  BY RecordsTyped DEF Ends
<1>3. ASSUME Interrupted
      PROVE  row' \in ExportRow /\ worker' \in ExportWorker /\ foreign' \in BOOLEAN /\ ended' \in BOOLEAN
  <2>1. CASE worker.batch /\ row.cancel
    <3>1. Guarded(worker.payload, FALSE) \in Payload
      BY PayloadsTyped DEF ExportWorker
    <3>2. row' \in ExportRow
      BY <1>3, <2>1, <3>1 DEF Interrupted, ExportRow
    <3>3. worker' \in ExportWorker
      BY <1>3, <2>1 DEF Interrupted, ExportWorker
    <3>. QED  BY <1>3, <2>1, <3>2, <3>3 DEF Interrupted
  <2>2. CASE ~(worker.batch /\ row.cancel)
    BY <1>1, <1>2, <1>3, <2>2 DEF Interrupted, EndsIn
  <2>. QED  BY <2>1, <2>2
<1>4. \A at \in LocalStages \cup BatchSteps \cup ExportSteps : GoesTo(at) => worker' \in ExportWorker
  BY DEF GoesTo, ExportWorker
<1>5. \A f \in ExportFiles : [f EXCEPT !.staged = NoFile] \in ExportFiles
  BY DEF ExportFiles, FileState, NoFile
<1>. QED  BY <1>1, <1>2, <1>3, <1>4, <1>5

\* The row as the actions write it
LEMMA RowWritesTyped ==
  ASSUME NEW r \in ExportRow, NEW p \in Payload
  PROVE  /\ [r EXCEPT !.payload = p] \in ExportRow
         /\ [r EXCEPT !.status = "cancelled", !.remote = FALSE, !.cancel = FALSE, !.payload = p] \in ExportRow
         /\ [r EXCEPT !.status = "cancelling", !.cancel = TRUE] \in ExportRow
         /\ [r EXCEPT !.status = "cancelled", !.cancel = TRUE, !.remote = FALSE] \in ExportRow
         /\ [r EXCEPT !.status = "running", !.remote = TRUE, !.payload = p] \in ExportRow
         /\ [r EXCEPT !.status = "running", !.remote = FALSE] \in ExportRow
<1>1. {"running", "cancelled", "cancelling"} \subseteq Status
  BY DEF Status, ACTIVE_STATUSES, TERMINAL_TASK_STATUSES
<1>2. [r EXCEPT !.payload = p] \in ExportRow
  BY DEF ExportRow
<1>3. [r EXCEPT !.status = "cancelled", !.remote = FALSE, !.cancel = FALSE, !.payload = p] \in ExportRow
  BY <1>1 DEF ExportRow
<1>4. [r EXCEPT !.status = "cancelling", !.cancel = TRUE] \in ExportRow
  BY <1>1 DEF ExportRow
<1>5. [r EXCEPT !.status = "cancelled", !.cancel = TRUE, !.remote = FALSE] \in ExportRow
  BY <1>1 DEF ExportRow
<1>6. [r EXCEPT !.status = "running", !.remote = TRUE, !.payload = p] \in ExportRow
  BY <1>1 DEF ExportRow
<1>7. [r EXCEPT !.status = "running", !.remote = FALSE] \in ExportRow
  BY <1>1 DEF ExportRow
<1>. QED  BY <1>2, <1>3, <1>4, <1>5, <1>6, <1>7

\* Every action keeps the types, one step for each.
LEMMA ExportStepTyped == TaskTypeOK /\ [TaskNext]_exportVars => TaskTypeOK'
<1>. SUFFICES ASSUME TaskTypeOK, [TaskNext]_exportVars PROVE TaskTypeOK'
  OBVIOUS
<1>. USE PayloadsTyped, RecordsTyped DEF TaskTypeOK
<1>0. /\ row \in ExportRow /\ worker \in ExportWorker /\ files \in ExportFiles
      /\ row.payload \in Payload /\ worker.payload \in Payload /\ worker.work \in Payload
  BY DEF ExportRow, ExportWorker
<1>. USE <1>0
<1>1. CASE UNCHANGED exportVars
  BY <1>1 DEF exportVars
<1>2. CASE TickExport
  <2>1. \A e \in {"stale_guard", "no_parameters"} : [row EXCEPT !.status = "failed", !.error = e] \in ExportRow
    BY DEF ExportRow, Status, TERMINAL_TASK_STATUSES
  <2>2. row' \in ExportRow
    BY <1>2, <2>1 DEF TickExport
  <2>3. worker' \in ExportWorker /\ ended' \in BOOLEAN
    BY <1>2 DEF TickExport, Start
  <2>. QED  BY <1>2, <2>2, <2>3 DEF TickExport
<1>3. CASE Retry
  <2>. DEFINE queued == [row EXCEPT !.status = "queued", !.cancel = FALSE, !.payload = PrepareForRerun(row)]
  <2>1. PrepareForRerun(row) \in Payload
    OBVIOUS
  <2>2. queued \in ExportRow
    BY <2>1 DEF ExportRow, Status
  <2>3. \A s \in {"queued", "failed"} : [queued EXCEPT !.status = s] \in ExportRow
    BY <2>2 DEF ExportRow, Status, TERMINAL_TASK_STATUSES
  <2>4. row' \in ExportRow
    BY <1>3, <2>3 DEF Retry
  <2>5. worker' \in ExportWorker /\ ended' \in BOOLEAN
    BY <1>3, <2>2 DEF Retry, Start
  <2>. QED  BY <1>3, <2>4, <2>5 DEF Retry
<1>4. CASE CancelTask
  <2>1. row' \in ExportRow
    BY <1>4 DEF CancelTask, ExportRow, Status, ACTIVE_STATUSES
  <2>2. worker' \in ExportWorker
    BY <1>4 DEF CancelTask, ExportWorker
  <2>. QED  BY <1>4, <2>1, <2>2 DEF CancelTask
<1>5. CASE Settle
  <2>. DEFINE payload == [row.payload EXCEPT !.params = TRUE]
  <2>1. payload \in Payload /\ \A b \in BOOLEAN : Guarded(payload, b) \in Payload
    OBVIOUS
  <2>2. row' \in ExportRow
    <3>1. \/ row' = [row EXCEPT !.payload = Guarded(payload, FALSE)]
          \/ row' = [row EXCEPT !.status = "cancelled", !.remote = FALSE, !.cancel = FALSE,
                               !.payload = Guarded(payload, TRUE)]
      BY <1>5 DEF Settle
    <3>. HIDE DEF payload
    <3>2. Guarded(payload, FALSE) \in Payload /\ Guarded(payload, TRUE) \in Payload
      BY <2>1
    <3>3. ASSUME NEW p \in Payload
          PROVE  /\ [row EXCEPT !.payload = p] \in ExportRow
                 /\ [row EXCEPT !.status = "cancelled", !.remote = FALSE, !.cancel = FALSE, !.payload = p] \in ExportRow
      BY Zenon, RowWritesTyped
    <3>. QED  BY Zenon, <3>1, <3>2, <3>3
  <2>3. worker' \in ExportWorker
    <3>1. [worker EXCEPT !.at = "cancel", !.payload = payload] \in ExportWorker
      BY <2>1 DEF ExportWorker
    <3>. QED  BY <1>5, <3>1 DEF Settle, Ends
  <2>. QED  BY <1>5, <2>2, <2>3 DEF Settle, Ends
<1>6. CASE RequestCancel
  <2>1. row' \in ExportRow
    <3>1. \/ row' = [row EXCEPT !.status = "cancelling", !.cancel = TRUE]
          \/ row' = [row EXCEPT !.status = "cancelled", !.cancel = TRUE, !.remote = FALSE]
      BY <1>6 DEF RequestCancel
    <3>. QED  BY Zenon, <3>1, RowWritesTyped
  <2>. QED  BY <1>6, <2>1 DEF RequestCancel, Ends
<1>7. CASE Begin
  <2>. DEFINE payload == [row.payload EXCEPT !.params = TRUE]
  <2>1. payload \in Payload /\ Guarded(payload, FALSE) \in Payload
    OBVIOUS
  <2>2. row' \in ExportRow
    BY <1>7, <2>1 DEF Begin, ExportRow, Status, ACTIVE_STATUSES
  <2>3. worker' \in ExportWorker
    <3>1. \A at \in {"cancel", "prepare"} : [worker EXCEPT !.at = at, !.payload = payload] \in ExportWorker
      BY <2>1 DEF ExportWorker, LocalStages
    <3>. QED  BY <1>7, <3>1 DEF Begin, Ends
  <2>. QED  BY <1>7, <2>2, <2>3 DEF Begin, Ends
<1>8. CASE Prepare
  <2>1. PICK writes \in BOOLEAN :
          /\ row' = IF writes THEN StaleRow([row EXCEPT !.remote = FALSE]) ELSE [row EXCEPT !.remote = FALSE]
          /\ \E at \in {"submit", "translate"} :
               worker' = IF writes THEN StaleWorker([worker EXCEPT !.at = at]) ELSE [worker EXCEPT !.at = at]
          /\ files' = IF writes THEN StaleFiles(files) ELSE files
    BY <1>8 DEF Prepare
  <2>2. [row EXCEPT !.remote = FALSE] \in ExportRow
    BY DEF ExportRow
  <2>3. \A at \in {"submit", "translate"} : [worker EXCEPT !.at = at] \in ExportWorker
    BY DEF ExportWorker, LocalStages, BatchSteps
  <2>. QED  BY <1>8, <2>1, <2>2, <2>3 DEF Prepare, Quietly
<1>9. CASE Translate
  <2>1. [worker EXCEPT !.at = "reembed"] \in ExportWorker
    BY DEF ExportWorker, LocalStages
  <2>. QED  BY <1>9, <2>1 DEF Translate, Writes, GoesTo, Quietly
<1>10. CASE SubmitExport
  <2>. DEFINE shared == worker.payload.items
              fresh  == [params |-> FALSE, guard |-> "none", required |-> FALSE, items |-> TRUE, job |-> FALSE]
              work   == [(IF shared THEN worker.payload ELSE fresh) EXCEPT !.job = TRUE]
  <2>1. shared \in BOOLEAN /\ work \in Payload
    <3>1. fresh \in Payload /\ shared \in BOOLEAN
      BY DEF Payload, Guards
    <3>. QED  BY <3>1
  <2>2. row' \in ExportRow
    <3>1. row' = row \/ row' = [row EXCEPT !.status = "running", !.remote = TRUE, !.payload = work]
      BY <1>10 DEF SubmitExport
    <3>. HIDE DEF work
    <3>. QED  BY Zenon, <2>1, <3>1, RowWritesTyped
  <2>3. worker' \in ExportWorker
    <3>1. [worker EXCEPT !.at = "reembed"] \in ExportWorker
      BY DEF ExportWorker, LocalStages
    <3>2. \A p \in Payload : [worker EXCEPT !.at = "poll", !.work = work, !.shared = shared, !.payload = p]
                                 \in ExportWorker
      <4>. HIDE DEF work, shared
      <4>. QED  BY <2>1 DEF ExportWorker, BatchSteps
    <3>3. \/ worker' = [worker EXCEPT !.at = "reembed"]
          \/ worker' = [worker EXCEPT !.at = "poll", !.work = work, !.shared = shared,
                                     !.payload = IF shared THEN work ELSE worker.payload]
      BY <1>10 DEF SubmitExport, GoesTo
    <3>4. (IF shared THEN work ELSE worker.payload) \in Payload
      BY <2>1
    <3>. HIDE DEF work, shared
    <3>. QED  BY <3>1, <3>2, <3>3, <3>4
  <2>. QED  BY <1>10, <2>2, <2>3 DEF SubmitExport, Quietly
<1>11. CASE Poll
  <2>1. row' \in ExportRow
    <3>1. \/ row' = [row EXCEPT !.status = "running", !.remote = FALSE]
          \/ row' = [row EXCEPT !.status = "running", !.remote = TRUE, !.payload = worker.work]
      BY <1>11 DEF Poll
    <3>. QED  BY Zenon, <3>1, RowWritesTyped
  <2>2. worker' \in ExportWorker
    <3>1. worker' = worker \/ worker' = [worker EXCEPT !.at = "apply"]
      BY <1>11 DEF Poll, GoesTo
    <3>2. [worker EXCEPT !.at = "apply"] \in ExportWorker
      BY DEF ExportWorker, BatchSteps
    <3>. QED  BY <3>1, <3>2
  <2>. QED  BY <1>11, <2>1, <2>2 DEF Poll, Quietly
<1>12. CASE Apply
  <2>. DEFINE x == [worker EXCEPT !.at = "reembed",
                      !.payload = IF worker.shared THEN @ ELSE [@ EXCEPT !.items = TRUE, !.job = TRUE]]
              r == [row EXCEPT !.remote = FALSE, !.payload = worker.work]
  <2>1. x \in ExportWorker
    BY DEF ExportWorker, LocalStages
  <2>2. r \in ExportRow
    BY DEF ExportRow
  <2>3. /\ row' = r \/ row' = StaleRow(r)
        /\ worker' = x \/ worker' = StaleWorker(x)
        /\ files' = files \/ files' = StaleFiles(files)
    BY <1>12 DEF Apply, Writes
  <2>. QED  BY <1>12, <2>1, <2>2, <2>3 DEF Apply, Quietly
<1>13. CASE Reembed
  <2>1. [worker EXCEPT !.at = "stage"] \in ExportWorker
    BY DEF ExportWorker, LocalStages
  <2>2. [row EXCEPT !.remote = FALSE] \in ExportRow
    BY DEF ExportRow
  <2>. QED  BY <1>13, <2>1, <2>2 DEF Reembed, Writes, GoesTo, Quietly
<1>14. CASE StageExport
  <2>1. row' \in ExportRow /\ files' \in ExportFiles
    BY <1>14 DEF StageExport, ExportRow, ExportFiles, FileState
  <2>2. worker' \in ExportWorker
    BY <1>14 DEF StageExport, GoesTo, ExportWorker, ExportSteps
  <2>. QED  BY <1>14, <2>1, <2>2 DEF StageExport, Quietly
<1>15. CASE Backup
  <2>1. worker' \in ExportWorker
    BY <1>15 DEF Backup, GoesTo, ExportWorker, ExportSteps
  <2>. QED  BY <1>15, <2>1 DEF Backup, Quietly
<1>16. CASE Promote
  <2>1. files' \in ExportFiles
    <3>1. [files EXCEPT !.final = files.staged, !.staged = NoFile, !.had = TRUE] \in ExportFiles
      BY DEF ExportFiles, FileState, NoFile
    <3>2. /\ [files EXCEPT !.staged = NoFile] \in ExportFiles
          /\ [files EXCEPT !.final = files.backup, !.backup = NoFile, !.staged = NoFile] \in ExportFiles
      BY DEF ExportFiles, FileState, NoFile
    <3>. QED  BY <1>16, <3>1, <3>2 DEF Promote
  <2>2. row' \in ExportRow /\ worker' \in ExportWorker /\ foreign' \in BOOLEAN /\ ended' \in BOOLEAN
    BY <1>16, EndsTyped DEF Promote, EndsIn, ExportSteps
  <2>. QED  BY <1>16, <2>1, <2>2 DEF Promote
<1>17. CASE Clean
  <2>1. files' \in ExportFiles
    BY <1>17 DEF Clean, ExportFiles, FileState, NoFile
  <2>2. worker' \in ExportWorker
    BY <1>17 DEF Clean, GoesTo, ExportWorker, ExportSteps
  <2>. QED  BY <1>17, <2>1, <2>2 DEF Clean, Quietly
<1>18. CASE Complete
  <2>1. row' \in ExportRow
    BY <1>18 DEF Complete, ExportRow, Status, TERMINAL_TASK_STATUSES
  <2>. QED  BY <1>18, <2>1, EndsTyped DEF Complete
<1>19. CASE Fails
  BY <1>19, EndsTyped DEF Fails, EndsIn
<1>20. CASE Stops
  BY <1>20, EndsTyped DEF Stops
<1>21. CASE Answer
  BY <1>21 DEF Answer
<1>22. CASE OtherChange
  BY <1>22 DEF OtherChange
<1>23. CASE Close
  <2>1. worker' \in ExportWorker
    BY ZenonT(30), <1>23 DEF Close, ExportWorker
  <2>. QED  BY <1>23, <2>1 DEF Close
<1>24. CASE Restart
  <2>1. Recovered(row) \in ExportRow
    BY ZenonT(30) DEF Recovered, ExportRow, Status, TERMINAL_TASK_STATUSES
  <2>2. files' \in ExportFiles
    BY <1>24 DEF Restart, ExportFiles, FileState, NoFile
  <2>. QED  BY <1>24, <2>1, <2>2 DEF Restart
<1>. QED
  BY <1>1, <1>2, <1>3, <1>4, <1>5, <1>6, <1>7, <1>8, <1>9, <1>10, <1>11, <1>12, <1>13, <1>14,
     <1>15, <1>16, <1>17, <1>18, <1>19, <1>20, <1>21, <1>22, <1>23, <1>24 DEF TaskNext

\* The row, the worker, the files and the provider's job keep their types.
THEOREM ExportTypeCorrect == TaskSpec => []TaskTypeOK
<1>. QED  BY ExportInitTyped, ExportStepTyped, PTL DEF TaskSpec

-----------------------------------------------------------------------------
(* The file at the output path.                                            *)

\* From the staged file to the end of its promotion, the document stays as it
\* was when the file was made.
ExportInv ==
  /\ OldExportSurvives
  /\ worker.kind = "run" /\ worker.at \in {"backup", "promote"} => files.staged = "current" /\ doc
  /\ worker.kind = "run" /\ worker.at \in {"clean", "complete"} => files.final = "current" /\ doc

LEMMA ExportInitInv == TaskInit => ExportInv
<1>. SUFFICES ASSUME TaskInit PROVE ExportInv
  OBVIOUS
<1>1. worker.kind = "none"
  BY DEF TaskInit, Idle
<1>2. PICK before \in {NoFile, "before"} :
        files = [final |-> before, backup |-> NoFile, staged |-> NoFile, had |-> before # NoFile]
  BY DEF TaskInit
<1>3. files.had => files.final # NoFile
  BY <1>2
<1>. QED  BY <1>1, <1>3 DEF ExportInv, OldExportSurvives

LEMMA ExportStepInv == TaskTypeOK /\ ExportInv /\ [TaskNext]_exportVars => ExportInv'
<1>. SUFFICES ASSUME TaskTypeOK, ExportInv, [TaskNext]_exportVars PROVE ExportInv'
  OBVIOUS
<1>. USE DEF ExportInv, OldExportSurvives, NoFile
<1>0. worker \in ExportWorker /\ files \in ExportFiles
  BY DEF TaskTypeOK
<1>1. CASE UNCHANGED exportVars
  BY <1>1 DEF exportVars
<1>2. CASE TickExport
  BY <1>2 DEF TickExport, Start, Worker, Idle
<1>3. CASE Retry
  BY <1>3 DEF Retry, Start, Worker, Idle
<1>4. CASE CancelTask
  BY <1>0, <1>4 DEF CancelTask, Worker, Idle, ExportWorker
<1>5. CASE Settle
  <2>1. worker' = Idle \/ \E p : worker' = [worker EXCEPT !.at = "cancel", !.payload = p]
    BY <1>5 DEF Settle, Ends
  <2>2. \A p : [worker EXCEPT !.at = "cancel", !.payload = p].at = "cancel"
    BY <1>0 DEF ExportWorker
  <2>3. worker'.at \in {"start", "cancel"}
    <3>1. Idle.at = "start"
      BY DEF Idle
    <3>. QED  BY <2>1, <2>2, <3>1, Zenon
  <2>. QED  BY <1>5, <2>3 DEF Settle
<1>6. CASE RequestCancel
  BY <1>6 DEF RequestCancel, Ends, Idle
<1>7. CASE Begin
  <2>1. \/ worker' = Idle
        \/ \E p : worker' = [worker EXCEPT !.at = "cancel", !.payload = p]
        \/ \E p : worker' = [worker EXCEPT !.at = "prepare", !.payload = p]
    BY <1>7 DEF Begin, Ends
  <2>2. /\ Idle.at = "start"
        /\ \A p : [worker EXCEPT !.at = "cancel", !.payload = p].at = "cancel"
        /\ \A p : [worker EXCEPT !.at = "prepare", !.payload = p].at = "prepare"
    BY <1>0 DEF ExportWorker, Idle
  <2>3. worker'.at \in {"start", "cancel", "prepare"}
    BY <2>1, <2>2, ZenonT(40)
  <2>. QED  BY <1>7, <2>3 DEF Begin
<1>8. CASE Prepare
  BY <1>0, <1>8 DEF Prepare, StaleWorker, StaleFiles, At, ExportWorker, ExportFiles
<1>9. CASE Translate
  BY ZenonT(30), <1>0, <1>9 DEF Translate, Writes, GoesTo, StaleWorker, StaleFiles, At, ExportWorker, ExportFiles
<1>10. CASE SubmitExport
  BY <1>0, <1>10 DEF SubmitExport, GoesTo, At, ExportWorker
<1>11. CASE Poll
  BY <1>0, <1>11 DEF Poll, GoesTo, At, ExportWorker
<1>12. CASE Apply
  BY ZenonT(30), <1>0, <1>12 DEF Apply, Writes, StaleWorker, StaleFiles, At, ExportWorker, ExportFiles
<1>13. CASE Reembed
  BY ZenonT(30), <1>0, <1>13 DEF Reembed, Writes, GoesTo, StaleWorker, StaleFiles, At, ExportWorker, ExportFiles
<1>14. CASE StageExport
  BY <1>0, <1>14 DEF StageExport, GoesTo, At, ExportWorker, ExportFiles
<1>15. CASE Backup
  BY <1>0, <1>15 DEF Backup, SetAside, GoesTo, At, ExportWorker, ExportFiles
<1>16. CASE Promote
  <2>1. CASE worker' = Idle
    <3>1. \/ files' = [files EXCEPT !.final = files.staged, !.staged = NoFile, !.had = TRUE]
          \/ files.backup = NoFile /\ files' = [files EXCEPT !.staged = NoFile]
          \/ files.backup # NoFile
             /\ files' = [files EXCEPT !.final = files.backup, !.backup = NoFile, !.staged = NoFile]
      BY <1>16 DEF Promote
    <3>2. files.staged = "current"
      BY <1>16 DEF Promote, At
    <3>3. OldExportSurvives'
      BY <1>0, <3>1, <3>2 DEF ExportFiles
    <3>. QED  BY <2>1, <3>3 DEF Idle
  <2>2. CASE worker' # Idle
    <3>1. files' = [files EXCEPT !.final = files.staged, !.staged = NoFile, !.had = TRUE]
      BY <1>16, <2>2 DEF Promote, EndsIn, Ends
    <3>2. worker'.at = "clean"
      BY <1>0, <1>16, <2>2 DEF Promote, EndsIn, Ends, GoesTo, ExportWorker
    <3>. QED  BY <1>0, <1>16, <3>1, <3>2 DEF Promote, At, ExportFiles
  <2>. QED  BY <2>1, <2>2
<1>17. CASE Clean
  BY <1>0, <1>17 DEF Clean, GoesTo, At, ExportWorker, ExportFiles
<1>18. CASE Complete
  BY <1>18 DEF Complete, Ends, Idle
<1>19. CASE Fails
  BY <1>0, <1>19 DEF Fails, EndsIn, Ends, Idle, ExportFiles
<1>20. CASE Stops
  <2>0. worker' = Idle \/ worker' = [worker EXCEPT !.at = "cancel"]
    BY <1>20 DEF Stops, Interrupted, EndsIn, Ends
  <2>1. worker'.at \in {"start", "cancel"}
    BY <1>0, <2>0 DEF Idle, ExportWorker
  <2>2. files' = [files EXCEPT !.staged = NoFile]
    BY <1>20 DEF Stops
  <2>. QED  BY <1>0, <2>1, <2>2 DEF ExportFiles
<1>21. CASE Answer
  BY <1>21 DEF Answer
<1>22. CASE OtherChange
  BY <1>0, <1>22 DEF OtherChange, Unclaimed, StaleWorker, StaleFiles, ExportWorker, ExportFiles
<1>23. CASE Close
  BY <1>0, <1>23 DEF Close, ExportWorker
<1>24. CASE Restart
  BY <1>0, <1>24 DEF Restart, Idle, ExportFiles
<1>. QED
  BY <1>1, <1>2, <1>3, <1>4, <1>5, <1>6, <1>7, <1>8, <1>9, <1>10, <1>11, <1>12, <1>13, <1>14,
     <1>15, <1>16, <1>17, <1>18, <1>19, <1>20, <1>21, <1>22, <1>23, <1>24 DEF TaskNext

\* Wherever the application dies, an earlier export still stands at the output
\* path or its predecessor lies beside it: the two renames of the promotion
\* never leave neither.
THEOREM ExportSurvives == TaskSpec => []OldExportSurvives
<1>1. ExportInv => OldExportSurvives
  BY DEF ExportInv
<1>. QED  BY <1>1, ExportInitTyped, ExportStepTyped, ExportInitInv, ExportStepInv, PTL DEF TaskSpec

\* The task is completed only with a file made from the translated document as
\* it is at that moment.
THEOREM CompletedIsCurrent == TaskSpec => CompletedExportIsCurrent
<1>1. TaskTypeOK /\ ExportInv /\ [TaskNext]_exportVars
        => [row.status # "completed" /\ row'.status = "completed" => files.final = "current" /\ doc]_exportVars
  <2>. SUFFICES ASSUME TaskTypeOK, ExportInv, TaskNext, row.status # "completed", row'.status = "completed"
               PROVE  files.final = "current" /\ doc
    OBVIOUS
  <2>0. row \in ExportRow
    BY DEF TaskTypeOK
  <2>1. CASE Complete
    BY <2>1 DEF Complete, At, ExportInv
  <2>2. CASE TickExport
    BY <2>0, <2>2 DEF TickExport, ExportRow
  <2>3. CASE Retry
    BY <2>0, <2>3 DEF Retry, ExportRow
  <2>4. CASE CancelTask \/ Settle \/ RequestCancel
    BY <2>0, <2>4 DEF CancelTask, Settle, RequestCancel, ExportRow
  <2>5. CASE Begin \/ Prepare \/ Translate \/ Reembed \/ StageExport \/ OtherChange
    BY <2>0, <2>5 DEF Begin, Prepare, Translate, Reembed, StageExport, OtherChange, Writes, StaleRow, ExportRow
  <2>6. CASE SubmitExport \/ Poll
    BY <2>0, <2>6 DEF SubmitExport, Poll, ExportRow
  <2>7. CASE Apply
    BY <2>0, <2>7 DEF Apply, Writes, StaleRow, ExportRow
  <2>8. CASE Backup \/ Clean \/ Answer \/ Close
    BY <2>8 DEF Backup, Clean, Answer, Close
  <2>9. CASE Promote \/ Fails \/ Stops
    BY <2>0, <2>9 DEF Promote, Fails, Stops, Interrupted, EndsIn, TerminalRow, ExportRow
  <2>10. CASE Restart
    BY <2>0, <2>10 DEF Restart, Recovered, ExportRow
  <2>. QED  BY <2>1, <2>2, <2>3, <2>4, <2>5, <2>6, <2>7, <2>8, <2>9, <2>10 DEF TaskNext
<1>. QED
  BY <1>1, ExportInitTyped, ExportStepTyped, ExportInitInv, ExportStepInv, PTL
     DEF TaskSpec, CompletedExportIsCurrent

-----------------------------------------------------------------------------
(* The resume guard.                                                       *)

\* A row that refuses to run on a document that somebody else changed.
RefusesForeign(r, changed) ==
  /\ r.payload.guard # "none" /\ (changed => r.payload.guard = "stale")
  /\ r.payload.required \/ r.status \in RERUNNABLE_TERMINAL_STATUSES

\* Wherever a task stopped for good, its row carries a guard that the next start
\* looks at; it does not pass as a batch phase that is taken up without one.
GuardInv ==
  /\ worker.kind = "run" => ~ended
  /\ worker.kind = "cancel" => row.status = "cancel_requested" /\ (worker.batch => row.payload.params)
  /\ worker.kind # "none" /\ worker.at = "cancel" => row.payload.guard # "none"
  /\ ended /\ worker.kind = "none" /\ row.payload.params => RefusesForeign(row, foreign)
  /\ ended /\ ResumesBatch(row) => row.status = "failed" /\ row.payload.guard = "stale"

LEMMA ResumesMeans ==
  \A r : ResumesBatch(r) <=> r.use_batch /\ r.payload.params /\ r.remote
BY DEF ResumesBatch, Self, Task, CanResumeBatchPhase

LEMMA GuardInitInv == TaskInit => GuardInv
<1>. SUFFICES ASSUME TaskInit PROVE GuardInv
  OBVIOUS
<1>1. worker.kind = "none" /\ ~ended
  BY DEF TaskInit, Idle
<1>. QED  BY <1>1 DEF GuardInv

LEMMA GuardsSet ==
  \A p \in Payload, required \in BOOLEAN :
    /\ Guarded(p, required).guard = "current" /\ Guarded(p, required).required = required
    /\ Guarded(p, required).params = p.params
    /\ [p EXCEPT !.params = TRUE].params
BY DEF Payload, Guarded

\* A worker that ends leaves a guarded row.
LEMMA EndsGuarded ==
  ASSUME TaskTypeOK, NEW status \in {"failed", "cancelled"}, EndsIn(status)
  PROVE  GuardInv'
<1>0. row \in ExportRow /\ worker.payload \in Payload
  BY DEF TaskTypeOK, ExportWorker
<1>1. worker'.kind = "none" /\ foreign' = FALSE
  BY DEF EndsIn, Ends, Idle
<1>2. row'.payload.guard = "current" /\ row'.payload.required /\ ~row'.remote
  BY <1>0, GuardsSet DEF EndsIn, TerminalRow, ExportRow
<1>. QED  BY <1>1, <1>2, ResumesMeans DEF GuardInv, RefusesForeign

LEMMA GuardStepInv == TaskTypeOK /\ GuardInv /\ [TaskNext]_exportVars => GuardInv'
<1>. SUFFICES ASSUME TaskTypeOK, GuardInv, [TaskNext]_exportVars PROVE GuardInv'
  OBVIOUS
<1>. USE ResumesMeans DEF GuardInv, RefusesForeign
<1>0. /\ row \in ExportRow /\ worker \in ExportWorker /\ ended \in BOOLEAN /\ foreign \in BOOLEAN
      /\ row.payload \in Payload /\ worker.payload \in Payload
  BY DEF TaskTypeOK, ExportRow, ExportWorker
<1>1. CASE UNCHANGED exportVars
  BY <1>1 DEF exportVars
<1>2. CASE TickExport
  BY <1>0, <1>2 DEF TickExport, Stopped, ValidateRun, Start, Worker, Idle, ExportRow, RERUNNABLE_TERMINAL_STATUSES
<1>3. CASE Retry
  BY ZenonT(30), <1>0, <1>3 DEF Retry, Stopped, ValidateRun, PrepareForRerun, Start, Worker, Idle, ExportRow, Payload,
                    RERUNNABLE_TERMINAL_STATUSES
<1>4. CASE CancelTask
  BY <1>0, <1>4 DEF CancelTask, CanCancel, Worker, Idle, ExportRow, ExportWorker, TERMINAL_TASK_STATUSES
<1>5. CASE Settle
  <2>. DEFINE payload == [row.payload EXCEPT !.params = TRUE]
  <2>1. payload \in Payload /\ payload.params
    BY <1>0, PayloadsTyped, GuardsSet
  <2>2. CASE worker.batch
    <3>1. /\ row' = [row EXCEPT !.payload = Guarded(payload, FALSE)]
          /\ worker' = [worker EXCEPT !.at = "cancel", !.payload = payload]
          /\ UNCHANGED <<foreign, ended>>
      BY <1>5, <2>2 DEF Settle
    <3>2. row'.payload.guard = "current" /\ row'.payload.params /\ row'.status = row.status
          /\ row'.remote = row.remote /\ row'.use_batch = row.use_batch
      BY <1>0, <2>1, <3>1, GuardsSet DEF ExportRow
    <3>3. worker'.kind = "cancel" /\ row.payload.params
      BY <1>0, <1>5, <2>2, <3>1 DEF Settle, ExportWorker
    <3>. QED  BY <1>0, <1>5, <3>1, <3>2, <3>3 DEF Settle
  <2>3. CASE ~worker.batch
    <3>1. /\ row' = [row EXCEPT !.status = "cancelled", !.remote = FALSE, !.cancel = FALSE,
                                !.payload = Guarded(payload, TRUE)]
          /\ Ends /\ ended'
      BY <1>5, <2>3 DEF Settle
    <3>2. row'.payload.guard = "current" /\ row'.payload.required /\ ~row'.remote
      BY <1>0, <2>1, <3>1, GuardsSet DEF ExportRow
    <3>. QED  BY <3>1, <3>2 DEF Ends, Idle
  <2>. QED  BY <2>2, <2>3
<1>6. CASE RequestCancel
  BY <1>0, <1>6 DEF RequestCancel, Ends, Idle, ExportRow, RERUNNABLE_TERMINAL_STATUSES
<1>7. CASE Begin
  <2>. DEFINE payload == [row.payload EXCEPT !.params = TRUE]
  <2>1. payload \in Payload
    BY <1>0, PayloadsTyped
  <2>2. worker.kind = "run" /\ ~ended /\ ended' = ended
    BY <1>7 DEF Begin, At
  <2>3. CASE Asked /\ Ends
    BY <2>2, <2>3 DEF Ends, Idle
  <2>4. CASE /\ row' = [row EXCEPT !.payload = Guarded(payload, FALSE)]
             /\ worker' = [worker EXCEPT !.at = "cancel", !.payload = payload]
    <3>1. row'.payload.guard = "current"
      BY <1>0, <2>1, <2>4, GuardsSet DEF ExportRow
    <3>2. worker'.kind = "run"
      BY <1>0, <2>2, <2>4 DEF ExportWorker
    <3>. QED  BY <2>2, <3>1, <3>2
  <2>5. CASE worker' = [worker EXCEPT !.at = "prepare", !.payload = payload]
    <3>1. worker'.kind = "run" /\ worker'.at = "prepare"
      BY <1>0, <2>2, <2>5 DEF ExportWorker
    <3>. QED  BY <2>2, <3>1
  <2>. QED  BY <1>7, <2>3, <2>4, <2>5 DEF Begin
<1>8. CASE Prepare
  BY <1>0, <1>8 DEF Prepare, At, Quietly, StaleRow, StaleWorker, ExportRow, ExportWorker
<1>9. CASE Translate
  BY <1>0, <1>9 DEF Translate, Writes, GoesTo, At, Quietly, StaleRow, StaleWorker, ExportRow, ExportWorker
<1>10. CASE SubmitExport
  BY <1>0, <1>10 DEF SubmitExport, GoesTo, At, Quietly, ExportWorker
<1>11. CASE Poll
  BY <1>0, <1>11 DEF Poll, GoesTo, At, Quietly, ExportWorker
<1>12. CASE Apply
  BY <1>0, <1>12 DEF Apply, Writes, At, Quietly, StaleRow, StaleWorker, ExportRow, ExportWorker
<1>13. CASE Reembed
  BY <1>0, <1>13 DEF Reembed, Writes, GoesTo, At, Quietly, StaleRow, StaleWorker, ExportRow, ExportWorker
<1>14. CASE StageExport
  BY <1>0, <1>14 DEF StageExport, GoesTo, At, Quietly, ExportWorker
<1>15. CASE Backup
  BY <1>0, <1>15 DEF Backup, GoesTo, At, Quietly, ExportWorker
<1>16. CASE Promote
  <2>1. CASE EndsIn("failed")
    BY <2>1, EndsGuarded
  <2>2. CASE GoesTo("clean") /\ UNCHANGED <<row, foreign, ended>>
    BY <1>0, <1>16, <2>2 DEF Promote, GoesTo, At, ExportWorker
  <2>. QED  BY <1>16, <2>1, <2>2 DEF Promote
<1>17. CASE Clean
  BY <1>0, <1>17 DEF Clean, GoesTo, At, Quietly, ExportWorker
<1>18. CASE Complete
  BY <1>0, <1>18 DEF Complete, At, Ends, Idle
<1>19. CASE Fails
  BY <1>19, EndsGuarded DEF Fails
<1>20. CASE Stops
  <2>1. CASE \E status \in {"failed", "cancelled"} : EndsIn(status)
    BY <2>1, EndsGuarded
  <2>2. CASE /\ row' = [row EXCEPT !.payload = Guarded(worker.payload, FALSE)]
             /\ worker' = [worker EXCEPT !.at = "cancel"]
             /\ UNCHANGED <<foreign, ended>>
    <3>1. row'.payload.guard = "current"
      BY <1>0, <2>2, GuardsSet DEF ExportRow
    <3>2. worker'.kind = "run" /\ ~ended'
      BY <1>0, <1>20, <2>2 DEF Stops, ExportWorker
    <3>. QED  BY <3>1, <3>2
  <2>. QED  BY <1>20, <2>1, <2>2 DEF Stops, Interrupted
<1>21. CASE Answer
  BY <1>21 DEF Answer
<1>22. CASE OtherChange
  BY <1>0, <1>22 DEF OtherChange, Unclaimed, StaleRow, StaleWorker, StalePayload, ExportRow, ExportWorker, Payload, Guards
<1>23. CASE Close
  BY <1>0, <1>23 DEF Close, ExportWorker
<1>24. CASE Restart
  <2>1. worker'.kind = "none"
    BY <1>24 DEF Restart, Idle
  <2>2. CASE row.status \in ACTIVE_STATUSES /\ ~Autorunnable(row)
    <3>1. /\ row' = [row EXCEPT !.status = IF row.status = "running" THEN "queued" ELSE "cancelled",
                                !.cancel = FALSE, !.payload = Guarded(row.payload, TRUE)]
          /\ foreign' = FALSE
      BY <1>24, <2>2 DEF Restart, Recovered
    <3>2. row'.payload.guard = "current" /\ row'.payload.required /\ row'.payload.params = row.payload.params
          /\ row'.remote = row.remote /\ row'.use_batch = row.use_batch
      BY <1>0, <3>1, GuardsSet DEF ExportRow
    <3>3. ~ResumesBatch(row)
      BY <2>2 DEF Autorunnable
    <3>4. ~(row'.use_batch /\ row'.payload.params /\ row'.remote)
      BY <3>2, <3>3
    <3>. QED  BY <2>1, <3>1, <3>2, <3>4
  <2>3. CASE ~(row.status \in ACTIVE_STATUSES /\ ~Autorunnable(row))
    <3>1. row' = row /\ ended' = ended /\ foreign' = (foreign /\ worker.kind # "run")
      BY <1>24, <2>3 DEF Restart
    <3>2. ended => worker.kind = "none"
      BY <1>0, <2>3 DEF Autorunnable, ExportWorker, ACTIVE_STATUSES
    <3>. QED  BY <1>0, <2>1, <3>1, <3>2
  <2>. QED  BY <2>2, <2>3
<1>. QED
  BY <1>1, <1>2, <1>3, <1>4, <1>5, <1>6, <1>7, <1>8, <1>9, <1>10, <1>11, <1>12, <1>13, <1>14,
     <1>15, <1>16, <1>17, <1>18, <1>19, <1>20, <1>21, <1>22, <1>23, <1>24 DEF TaskNext

\* A task that has stopped is never taken up again on a document or a glossary
\* that somebody else has changed since.
THEOREM ResumeIsGuarded == TaskSpec => GuardedResume
<1>1. TaskTypeOK /\ GuardInv /\ [TaskNext]_exportVars
        => [ended /\ worker.kind = "none" /\ worker'.kind = "run" => ~foreign]_exportVars
  <2>. SUFFICES ASSUME TaskTypeOK, GuardInv, TaskNext, ended, worker.kind = "none", worker'.kind = "run"
               PROVE  ~foreign
    OBVIOUS
  <2>0. worker \in ExportWorker
    BY DEF TaskTypeOK
  <2>1. CASE TickExport
    BY <2>1, ResumesMeans DEF TickExport, Autorunnable, ValidateRun, GuardInv, RefusesForeign, ACTIVE_STATUSES,
                              RERUNNABLE_TERMINAL_STATUSES
  <2>2. CASE Retry
    BY <2>2 DEF Retry, ValidateRun, GuardInv, RefusesForeign
  <2>3. CASE CancelTask \/ Restart
    <3>1. Idle.kind = "none" /\ Worker("cancel", "settle", row).kind = "cancel"
      BY DEF Worker, Idle
    <3>2. worker' = Idle \/ worker' = Worker("cancel", "settle", row)
      BY <2>3 DEF CancelTask, Restart
    <3>. QED  BY <3>1, <3>2
  <2>6. CASE Close \/ OtherChange
    BY <2>0, <2>6 DEF Close, OtherChange, StaleWorker, ExportWorker
  <2>4. CASE Settle \/ RequestCancel \/ Answer
    BY <2>4 DEF Settle, RequestCancel, Answer
  <2>5. CASE Begin \/ Prepare \/ Translate \/ SubmitExport \/ Poll \/ Apply \/ Reembed \/ StageExport
             \/ Backup \/ Promote \/ Clean \/ Complete \/ Fails \/ Stops
    BY <2>5 DEF Begin, Prepare, Translate, SubmitExport, Poll, Apply, Reembed, StageExport,
                Backup, Promote, Clean, Complete, Fails, Stops, At
  <2>. QED  BY <2>1, <2>2, <2>3, <2>4, <2>5, <2>6 DEF TaskNext
<1>. QED
  BY <1>1, ExportInitTyped, ExportStepTyped, GuardInitInv, GuardStepInv, PTL DEF TaskSpec, GuardedResume

\* Neither a task taken up again nor one that completes exports what is no longer there.
THEOREM NothingStaleEverIsExported == TaskSpec => NothingStaleIsExported
BY CompletedIsCurrent, ResumeIsGuarded DEF NothingStaleIsExported
=============================================================================
