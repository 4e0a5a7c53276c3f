------------------------- MODULE TranslateAndExport -------------------------
(***************************************************************************)
(* The one-shot task that takes one document from import to an exported    *)
(* file: OCR, glossary, translation (direct, or through the batch          *)
(* provider), reembedding and export, all in one worker.  A task that      *)
(* ended without success can be retried, and a task whose application was  *)
(* closed is taken up again; a fingerprint of the document and its         *)
(* glossary in the payload, the resume guard, refuses the retry when       *)
(* somebody else changed them in between.                                  *)
(*                                                                         *)
(* Sources: adapters/qt/workers/translate_and_export_task_worker.py,       *)
(* workflow/tasks/translate_and_export_support.py and their handler, the   *)
(* parts of engine_core.py and task_engine.py that treat this type apart,  *)
(* and the promotion of the exported file in workflow/ops/export_ops.py.   *)
(*                                                                         *)
(* Data left out: a fingerprint is kept as whether it is that of the       *)
(* document as it is now ("current") or not ("stale"); the batch stages    *)
(* are one submission and one answer (module BatchStages has their inside).*)
(***************************************************************************)
EXTENDS TaskHandlers

VARIABLES
  row,      \* the task row: status, phase, cancel_requested, payload, error
  worker,   \* the worker thread of the task, its payload and its work dict
  doc,      \* is every chunk of the document translated?
  job,      \* the batch job at the provider
  files,    \* what stands at the output path, beside it and in the staging place
  app,      \* is the application open or closing?
  foreign,  \* history: did anybody else change the document since the task stopped?
  ended     \* history: did the task stop for good, or was it put back in the queue?

exportVars == <<row, worker, doc, job, files, app, foreign, ended>>

Guards == {"none", "current", "stale"}
\* The keys of payload_json that matter: the task's own parameters, the guard,
\* the prepared items, and the provider job the stages have recorded.
Payload == [params : BOOLEAN, guard : Guards, required : BOOLEAN, items : BOOLEAN, job : BOOLEAN]
ExportSubmitted == [params |-> TRUE, guard |-> "none", required |-> FALSE, items |-> FALSE, job |-> FALSE]

LocalStages  == {"start", "prepare", "translate", "reembed", "stage"}
BatchSteps   == {"submit", "poll", "apply"}
ExportSteps  == {"backup", "promote", "clean", "complete"}
Idle == [kind |-> "none", at |-> "start", batch |-> FALSE, interrupted |-> FALSE,
         payload |-> ExportSubmitted, work |-> ExportSubmitted, shared |-> FALSE]
NoFile == "none"

\* As a record of TaskHandlers: the handler reads use_batch from the payload.
Task(use_batch) == [type |-> "translate_and_export", book |-> "book", docs |-> {"doc"},
                    sources |-> {}, chunk |-> "none", use_batch |-> use_batch]
Self(r) == Task(r.use_batch /\ r.payload.params)
ResumesBatch(r) == CanResumeBatchPhase(Self(r), r)

TaskInit ==
  /\ row \in [status : {"queued"}, remote : {FALSE}, cancel : {FALSE}, use_batch : BOOLEAN,
              payload : {ExportSubmitted}, error : {"none"}]
  /\ worker = Idle
  /\ doc = FALSE
  /\ job = "none"
  /\ \E before \in {NoFile, "before"} :
       files = [final |-> before, backup |-> NoFile, staged |-> NoFile, had |-> before # NoFile]
  /\ app = "open"
  /\ foreign = FALSE
  /\ ended = FALSE

-----------------------------------------------------------------------------
(* Who may run.                                                            *)

\* (mutant of ValidateRun: only the payload's mark is looked at)
ValidateRunMarked(r) == r.payload.params /\ ~(r.payload.required /\ r.payload.guard = "stale")

\* validate_translate_and_export_run: without its parameters the task has no
\* output path; a stale guard is looked at when the payload or the status asks.
ValidateRun(r) ==
  /\ r.payload.params
  /\ ~ /\ r.payload.required \/ r.status \in RERUNNABLE_TERMINAL_STATUSES
       /\ r.payload.guard = "stale"

\* _payload_json_for_task_rerun, prepare_payload_for_rerun: the stages of a
\* batch payload forget their jobs, everything else stays.
PrepareForRerun(r) ==
  IF r.use_batch /\ r.payload.params THEN [r.payload EXCEPT !.job = FALSE] ELSE r.payload

\* build_worker, _current_payload: the worker is built from the row; its own
\* parameters are laid over whatever the row holds when it begins.
Worker(kind, at, r) ==
  [Idle EXCEPT !.kind = kind, !.at = at, !.batch = r.use_batch /\ r.payload.params]

Autorunnable(r) == r.status = "queued" \/ (r.status \in ACTIVE_STATUSES /\ ResumesBatch(r))

Stopped == worker.kind = "none" /\ app = "open"
Start(r) == worker' = Worker("run", "start", r) /\ ended' = FALSE

\* TaskEngine.tick: scan_autorunnable, authorize_start; a rejected task fails.
TickExport ==
  /\ Stopped /\ Autorunnable(row)
  /\ IF ValidateRun(row) THEN Start(row) /\ UNCHANGED row
     ELSE /\ row' = [row EXCEPT !.status = "failed",
                                !.error = IF row.payload.params THEN "stale_guard" ELSE "no_parameters"]
          /\ ended' = TRUE /\ UNCHANGED worker
  /\ UNCHANGED <<doc, job, files, app, foreign>>

\* DefaultQueueService.apply_action: preflight_task on the ended row, then
\* TaskEngine.run_task: ensure_runnable, authorize_start (the user's event).
Retry ==
  /\ Stopped /\ row.status \in RERUNNABLE_TERMINAL_STATUSES
  /\ ValidateRun(row)
  /\ LET queued == [row EXCEPT !.status = "queued", !.cancel = FALSE, !.payload = PrepareForRerun(row)]
     IN /\ row' = [queued EXCEPT !.status = IF ValidateRun(queued) THEN "queued" ELSE "failed"]
        /\ IF ValidateRun(queued) THEN Start(queued) ELSE UNCHANGED <<worker, ended>>
  /\ UNCHANGED <<doc, job, files, app, foreign>>

-----------------------------------------------------------------------------
(* How a worker ends.                                                      *)

At(stage) == worker.kind = "run" /\ worker.at = stage
Asked == worker.interrupted
BatchAsked == worker.interrupted \/ row.cancel   \* raise_if_local_pause
Ends == worker' = Idle /\ foreign' = FALSE

\* with_resume_guard
Guarded(payload, required) == [payload EXCEPT !.guard = "current", !.required = required]

\* _persist_terminal_state: the worker's payload replaces the row's.
TerminalRow(status) ==
  [row EXCEPT !.status = status, !.remote = FALSE, !.cancel = FALSE,
              !.payload = Guarded(worker.payload, TRUE)]

EndsIn(status) == row' = TerminalRow(status) /\ Ends /\ ended' = TRUE

\* _handle_interrupted: a cancelled batch task goes on to cancel its jobs, with
\* the payload the worker began with in the row.
Interrupted ==
  IF worker.batch /\ row.cancel
  THEN /\ row' = [row EXCEPT !.payload = Guarded(worker.payload, FALSE)]
       /\ worker' = [worker EXCEPT !.at = "cancel"]
       /\ UNCHANGED <<foreign, ended>>
  ELSE EndsIn(IF row.cancel THEN "cancelled" ELSE "failed")

\* A step of the pipeline fails, the renaming of the file in the way and the
\* deletion of its backup included.
Fails ==
  /\ worker.kind = "run"
  /\ worker.at \in (LocalStages \cup BatchSteps \cup {"backup", "clean"}) \ {"start"}
  /\ EndsIn("failed")
  /\ files' = [files EXCEPT !.staged = NoFile]
  /\ UNCHANGED <<doc, job, app>>

\* It finds at its check that it was interrupted.
Stops ==
  /\ \/ worker.kind = "run" /\ worker.at \in (LocalStages \cup {"backup"}) \ {"start"} /\ Asked
     \/ worker.kind = "run" /\ worker.at \in BatchSteps /\ BatchAsked
  /\ Interrupted
  /\ files' = [files EXCEPT !.staged = NoFile]
  /\ UNCHANGED <<doc, job, app>>

-----------------------------------------------------------------------------
(* The pipeline.                                                           *)

StaleFiles(f) == [f EXCEPT !.final = IF @ = "current" THEN "stale" ELSE @,
                           !.staged = IF @ = "current" THEN "stale" ELSE @]
StalePayload(p) == [p EXCEPT !.guard = IF @ = "current" THEN "stale" ELSE @]

\* Every write to the document or the glossary outdates all fingerprints.
StaleRow(r) == [r EXCEPT !.payload = StalePayload(@)]
StaleWorker(w) == [w EXCEPT !.payload = StalePayload(@), !.work = StalePayload(@)]

GoesTo(stage) == worker' = [worker EXCEPT !.at = stage]
Quietly == UNCHANGED <<app, foreign, ended>>

\* BaseWorker.run and the head of _run_pipeline.  A worker interrupted before
\* it begins leaves the row alone; one that finds a cancellation cancels.
Begin ==
  /\ At("start")
  /\ LET payload == [row.payload EXCEPT !.params = TRUE]
     IN \/ Asked /\ Ends /\ UNCHANGED <<row, ended>>
        \/ /\ ~Asked /\ worker.batch /\ (row.cancel \/ row.status \in {"cancel_requested", "cancelling"})
           /\ row' = [row EXCEPT !.payload = Guarded(payload, FALSE)]
           /\ worker' = [worker EXCEPT !.at = "cancel", !.payload = payload]
           /\ UNCHANGED <<foreign, ended>>
        \/ /\ ~Asked /\ ~(worker.batch /\ (row.cancel \/ row.status \in {"cancel_requested", "cancelling"}))
           /\ row' = [row EXCEPT !.status = "running"]
           /\ worker' = [worker EXCEPT !.at = "prepare", !.payload = payload]
           /\ UNCHANGED <<foreign, ended>>
  /\ UNCHANGED <<doc, job, files, app>>

\* OCR, glossary, noise, review, glossary translation: each reports a phase of
\* its own and may write the document or the glossary.
Prepare ==
  /\ At("prepare") /\ ~Asked
  /\ \E writes \in BOOLEAN :
       LET r == [row EXCEPT !.remote = FALSE]
           w == [worker EXCEPT !.at = IF worker.batch THEN "submit" ELSE "translate"]
       IN /\ row' = IF writes THEN StaleRow(r) ELSE r
          /\ worker' = IF writes THEN StaleWorker(w) ELSE w
          /\ files' = IF writes THEN StaleFiles(files) ELSE files
  /\ UNCHANGED <<doc, job>> /\ Quietly

Writes(r, w) == row' = StaleRow(r) /\ worker' = StaleWorker(w) /\ files' = StaleFiles(files)

\* translation_ops.translate
Translate ==
  /\ At("translate") /\ ~Asked
  /\ IF doc THEN GoesTo("reembed") /\ UNCHANGED <<row, files>>
     ELSE Writes(row, [worker EXCEPT !.at = "reembed"])
  /\ doc' = TRUE
  /\ UNCHANGED job /\ Quietly

\* ensure_payload_prepared returns the payload itself when it already holds
\* items, otherwise a new dict with the items alone; run_translation_stage
\* persists that dict over the row's payload and submits the job, or recovers
\* the one the response cache remembers.  Nothing to translate: no items.
SubmitExport ==
  /\ At("submit") /\ ~BatchAsked
  /\ LET shared == worker.payload.items
         fresh  == [params |-> FALSE, guard |-> "none", required |-> FALSE, items |-> TRUE, job |-> FALSE]
         work   == [(IF shared THEN worker.payload ELSE fresh) EXCEPT !.job = TRUE]
     IN IF doc /\ ~shared
        THEN GoesTo("reembed") /\ UNCHANGED <<row, job>>
        ELSE /\ row' = [row EXCEPT !.status = "running", !.remote = TRUE, !.payload = work]
             /\ worker' = [worker EXCEPT !.at = "poll", !.work = work, !.shared = shared,
                                         !.payload = IF shared THEN work ELSE @]
             /\ job' = IF job = "none" \/ job = "cancelled" THEN "pending" ELSE job
  /\ UNCHANGED <<doc, files>> /\ Quietly

\* poll_until_terminal: the progress callback writes a phase of its own over
\* the remote one while the job is pending.
Poll ==
  /\ At("poll") /\ ~BatchAsked
  /\ \/ job = "pending" /\ row.remote /\ row' = [row EXCEPT !.status = "running", !.remote = FALSE]
        /\ UNCHANGED worker
     \/ job = "done" /\ row' = [row EXCEPT !.status = "running", !.remote = TRUE, !.payload = worker.work]
        /\ GoesTo("apply")
  /\ UNCHANGED <<doc, job, files>> /\ Quietly

\* apply_results, and payload.update(...) when all items are in
Apply ==
  /\ At("apply") /\ ~BatchAsked
  /\ LET w == [worker EXCEPT !.at = "reembed",
                 !.payload = IF worker.shared THEN @ ELSE [@ EXCEPT !.items = TRUE, !.job = TRUE]]
         r == [row EXCEPT !.remote = FALSE, !.payload = worker.work]
     IN IF doc THEN row' = r /\ worker' = w /\ UNCHANGED files
        ELSE Writes(r, w)
  /\ doc' = TRUE
  /\ UNCHANGED job /\ Quietly

\* document.reembed, when asked for, stores the new images
Reembed ==
  /\ At("reembed") /\ ~Asked
  /\ \/ Writes([row EXCEPT !.remote = FALSE], [worker EXCEPT !.at = "stage"])
     \/ GoesTo("stage") /\ UNCHANGED <<row, files>>
  /\ UNCHANGED <<doc, job>> /\ Quietly

\* apply_export_text and export_merged into a temporary directory: refused for
\* a document that is not translated.
StageExport ==
  /\ At("stage") /\ ~Asked /\ doc
  /\ GoesTo("backup")
  /\ row' = [row EXCEPT !.remote = FALSE]
  /\ files' = [files EXCEPT !.staged = "current"]
  /\ UNCHANGED <<doc, job>> /\ Quietly

\* (mutant of SetAside: the file in the way is deleted)
SetAsideNowhere(f) == [f EXCEPT !.final = NoFile]

\* _promote_staged_path, system call by system call
SetAside(f) == IF f.final = NoFile THEN f ELSE [f EXCEPT !.final = NoFile, !.backup = f.final]

Backup ==
  /\ At("backup") /\ ~Asked
  /\ GoesTo("promote")
  /\ files' = SetAside(files)
  /\ UNCHANGED <<row, doc, job>> /\ Quietly

Promote ==
  /\ At("promote")
  /\ \/ /\ files' = [files EXCEPT !.final = files.staged, !.staged = NoFile, !.had = TRUE]
        /\ GoesTo("clean") /\ UNCHANGED <<row, foreign, ended>>
     \/ /\ files' = IF files.backup = NoFile THEN [files EXCEPT !.staged = NoFile]
                    ELSE [files EXCEPT !.final = files.backup, !.backup = NoFile, !.staged = NoFile]
        /\ EndsIn("failed")
  /\ UNCHANGED <<doc, job, app>>

Clean ==
  /\ At("clean")
  /\ GoesTo("complete")
  /\ files' = [files EXCEPT !.backup = NoFile]
  /\ UNCHANGED <<row, doc, job>> /\ Quietly

Complete ==
  /\ At("complete")
  /\ row' = [row EXCEPT !.status = "completed", !.remote = FALSE, !.cancel = FALSE,
                        !.payload = worker.payload, !.error = "none"]
  /\ Ends
  /\ UNCHANGED <<doc, job, files, app, ended>>

-----------------------------------------------------------------------------
(* Cancellation.                                                           *)

\* TaskEngine.cancel: the request is recorded; a worker at work is
\* interrupted, otherwise a worker for the cancellation is started.
CancelTask ==
  /\ app = "open" /\ CanCancel(row) /\ ~Asked /\ worker.kind # "cancel"
  /\ row' = [row EXCEPT !.cancel = TRUE, !.status = "cancel_requested"]
  /\ worker' = IF worker.kind = "run" THEN [worker EXCEPT !.interrupted = TRUE]
               ELSE Worker("cancel", "settle", row)
  /\ UNCHANGED <<doc, job, files, app, foreign, ended>>

\* _run_cancel of the cancellation's own worker
Settle ==
  /\ worker.kind = "cancel" /\ worker.at = "settle"
  /\ LET payload == [row.payload EXCEPT !.params = TRUE]
     IN IF worker.batch
        THEN /\ row' = [row EXCEPT !.payload = Guarded(payload, FALSE)]
             /\ worker' = [worker EXCEPT !.at = "cancel", !.payload = payload]
             /\ UNCHANGED <<foreign, ended>>
        ELSE /\ row' = [row EXCEPT !.status = "cancelled", !.remote = FALSE, !.cancel = FALSE,
                                   !.payload = Guarded(payload, TRUE)]
             /\ Ends /\ ended' = TRUE
  /\ UNCHANGED <<doc, job, files, app>>

\* BatchTranslationExecutor.request_cancel: it cancels the jobs the row's
\* payload names; one that stays active keeps the row cancelling.
RequestCancel ==
  /\ worker.kind # "none" /\ worker.at = "cancel"
  /\ LET stopped == [row EXCEPT !.status = "cancelled", !.cancel = TRUE, !.remote = FALSE]
         waiting == [row EXCEPT !.status = "cancelling", !.cancel = TRUE]
     IN \/ /\ row.payload.job /\ job = "pending"
           /\ row' = waiting /\ UNCHANGED job
        \/ /\ row' = stopped
           /\ job' = IF row.payload.job /\ job = "pending" THEN "cancelled" ELSE job
  /\ Ends
  /\ ended' = (row'.status = "cancelled")
  /\ UNCHANGED <<doc, files, app>>

-----------------------------------------------------------------------------
(* Everybody else.                                                         *)

\* The provider answers.
Answer == job = "pending" /\ job' = "done" /\ UNCHANGED <<row, worker, doc, files, app, foreign, ended>>

\* (mutant of Unclaimed: a change that no claim holds back)
UnclaimedAlways == TRUE

\* The claims of a task at work keep other writers off the document and glossary.
Unclaimed == worker.kind # "run"

\* An edit, an OCR correction, a glossary change, another task.
OtherChange ==
  /\ app = "open" /\ Unclaimed
  /\ row' = StaleRow(row) /\ worker' = StaleWorker(worker) /\ files' = StaleFiles(files)
  /\ doc' \in {doc, FALSE}
  /\ foreign' = TRUE
  /\ UNCHANGED <<job, app, ended>>

\* TaskEngine.close interrupts the worker; it is waited for, or dies.
Close ==
  /\ app = "open" /\ app' = "closing"
  /\ worker' = [worker EXCEPT !.interrupted = (worker.kind # "none")]
  /\ UNCHANGED <<row, doc, job, files, foreign, ended>>

\* recover_interrupted_tasks: a row in a remote phase is left as it is; of the
\* others the cancelled ones end and the running ones go back to the queue,
\* with a guard either way.
Recovered(r) ==
  [r EXCEPT !.status = IF r.status = "running" THEN "queued" ELSE "cancelled",
            !.cancel = FALSE, !.payload = Guarded(r.payload, TRUE)]

\* The application ends, in order or not, and is started again.
Restart ==
  /\ worker' = Idle /\ app' = "open"
  /\ IF row.status \in ACTIVE_STATUSES /\ ~Autorunnable(row)
     THEN row' = Recovered(row) /\ ended' = TRUE /\ foreign' = FALSE
     ELSE UNCHANGED <<row, ended>> /\ foreign' = (foreign /\ worker.kind # "run")
  /\ files' = [files EXCEPT !.staged = NoFile]
  /\ UNCHANGED <<doc, job>>

TaskNext ==
  \/ TickExport \/ Retry \/ CancelTask \/ Settle \/ RequestCancel
  \/ Begin \/ Prepare \/ Translate \/ SubmitExport \/ Poll \/ Apply \/ Reembed
  \/ StageExport \/ Backup \/ Promote \/ Clean \/ Complete
  \/ Fails \/ Stops
  \/ Answer \/ OtherChange \/ Close \/ Restart

TaskSpec == TaskInit /\ [][TaskNext]_exportVars

-----------------------------------------------------------------------------
(* Properties.                                                             *)

ExportRow == [status : Status, remote : BOOLEAN, cancel : BOOLEAN, use_batch : BOOLEAN,
              payload : Payload, error : {"none", "stale_guard", "no_parameters"}]
ExportWorker ==
  [kind : {"none", "run", "cancel"},
   at : LocalStages \cup BatchSteps \cup ExportSteps \cup {"settle", "cancel"},
   batch : BOOLEAN, interrupted : BOOLEAN, payload : Payload, work : Payload, shared : BOOLEAN]
FileState == {"none", "before", "stale", "current"}
ExportFiles == [final : FileState, backup : FileState, staged : FileState \ {"before"}, had : BOOLEAN]

TaskTypeOK ==
  /\ row \in ExportRow /\ worker \in ExportWorker /\ files \in ExportFiles
  /\ job \in {"none", "pending", "done", "cancelled"} /\ app \in {"open", "closing"}
  /\ doc \in BOOLEAN /\ foreign \in BOOLEAN /\ ended \in BOOLEAN

\* A task that stopped for good, or was put back in the queue at start-up, is
\* never taken up again on a document or a glossary that somebody else changed
\* since: the retry is refused, whichever way the task had stopped.
GuardedResume ==
  [][ended /\ worker.kind = "none" /\ worker'.kind = "run" => ~foreign]_exportVars

\* A task is completed only with a file at the output path that was made from
\* the translated document as it is at that moment.
CompletedExportIsCurrent ==
  [][row.status # "completed" /\ row'.status = "completed" => files.final = "current" /\ doc]_exportVars

\* Neither a retry nor a run to its end takes the document for what it no longer is.
NothingStaleIsExported == GuardedResume /\ CompletedExportIsCurrent

\* Wherever the application dies, an export that once stood at the output path
\* still stands there, or its predecessor lies beside it.
OldExportSurvives == files.had => files.final # NoFile \/ files.backup # NoFile

=============================================================================
