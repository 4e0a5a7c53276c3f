-------------------------- MODULE BatchTranslation --------------------------
(***************************************************************************)
(* One batch_translation task, from its submission to a terminal status:   *)
(* BatchTranslationExecutor.run_task in the worker thread the engine       *)
(* starts (adapters/qt/workers/batch_translation_task_worker.py), the user *)
(* who cancels and reruns it, the provider that ends its jobs, and the     *)
(* crashes and shutdowns between two of its steps.                         *)
(*                                                                         *)
(* Which worker may run, and when, is the matter of TaskEngine: here the   *)
(* task has at most one worker, and its claims keep other tasks off its    *)
(* chunks.  So one process has the library open: the tick of a second one  *)
(* would start another worker for the row, whatever the first one does.    *)
(***************************************************************************)
EXTENDS BatchStages

CONSTANTS
  EnablePolish,   \* what the user may choose for enable_polish
  Events,         \* what may happen to the task, see EventKinds
  MaxOps          \* bound: events in a behaviour

EventKinds ==
  {"cancel",    \* the user cancels it
   "rerun",     \* the user runs it again
   "shutdown",  \* the application closes while it runs
   "crash"}     \* the process dies while it runs

ASSUME OptionsAssumption ==
  /\ EnablePolish \subseteq BOOLEAN /\ EnablePolish # {}
  /\ Events \subseteq EventKinds
  /\ MaxOps \in Nat

VARIABLE ops      \* how much of MaxOps is used

vars == <<batches, requests, row, chunks, w, ops>>
running == <<batches, chunks, requests>>

-----------------------------------------------------------------------------

\* submit: the row is queued, its payload has the parameters alone.  The
\* chunks of the documents are still to be translated, or all of them are.
Init ==
  /\ ProviderInit
  /\ \E enable_polish \in EnablePolish :
       row = [status |-> "queued", cancel_requested |-> FALSE,
              payload |-> NewPayload(enable_polish)]
  /\ \E text \in {"none", "translated"} : chunks = [i \in Items |-> text]
  /\ w = IdleWorker(row.payload)
  /\ ops = 0

-----------------------------------------------------------------------------
(* run_task                                                                *)

\* prepare_payload_for_rerun
Final(item, s) == item[s].state \in {"succeeded", "skipped"}
prepare_payload_for_rerun(p) ==
  LET Reset(item) ==
        [item EXCEPT !.translation = IF Final(item, "translation") THEN @ ELSE new_stage_state,
                     !.polish = IF Final(item, "translation") /\ Final(item, "polish") THEN @
                                ELSE new_stage_state]
  IN  [p EXCEPT !.items = [i \in Items |-> IF @[i].applied THEN @[i] ELSE Reset(@[i])],
                !.jobs = NoJobs, !.display = NoName]

\* BaseWorker.run looks at the interruption first, as it does for a cancel
\* worker; then the row decides.
EndInterrupted ==
  /\ At("cancel") /\ w.action = "cancel" /\ w.interrupted
  /\ w' = IdleWorker(row.payload)
  /\ UNCHANGED <<running, row, ops>>

EnterRun ==
  /\ At("entry")
  /\ \/ w.interrupted /\ w' = IdleWorker(row.payload) /\ UNCHANGED row
     \/ /\ ~w.interrupted /\ row.status = "completed"
        /\ Goto("post") /\ UNCHANGED row
     \/ /\ ~w.interrupted /\ row.status \in TerminalStatuses \ {"completed"}
        /\ row' = [status |-> "paused", cancel_requested |-> FALSE,
                   payload |-> prepare_payload_for_rerun(row.payload)]
        /\ Goto("begin")
     \/ /\ ~w.interrupted /\ row.status \notin TerminalStatuses
        /\ Goto(IF row.cancel_requested THEN "cancel" ELSE "begin")
        /\ UNCHANGED row
  /\ UNCHANGED <<running, ops>>

BeginRun ==
  /\ At("begin")
  /\ PersistProgress
  /\ Proceed("prepare", row.payload)
  /\ UNCHANGED <<running, ops>>

\* ensure_payload_prepared: items are collected once.  The new payload has
\* none of the keys the task was submitted with, enable_polish among them.
PreparedPayload == [NewPayload(TRUE) EXCEPT !.prepared = TRUE]

Prepare ==
  /\ At("prepare")
  /\ UNCHANGED <<running, ops>>
  /\ \/ /\ w.mem.prepared
        /\ Persist(w.mem)
        /\ Goto("stage")
     \/ /\ ~w.mem.prepared
        /\ Pause \/ Raise
        /\ UNCHANGED row
     \/ /\ ~w.mem.prepared /\ ~PauseRequested
        /\ \E i \in Items : chunks[i] = "none"
        /\ Persist(PreparedPayload)
        /\ Proceed("stage", PreparedPayload)
     \/ /\ ~w.mem.prepared /\ ~PauseRequested
        /\ \A i \in Items : chunks[i] # "none"
        /\ row' = [row EXCEPT !.status = "completed", !.payload = NewPayload(TRUE)]
        /\ Goto("post")

\* The flag is read, then the terminal status written.
DecideOutcome ==
  /\ At("finish")
  /\ w' = [w EXCEPT !.pc = "finished",
                    !.outcome = IF row.cancel_requested THEN "cancelled"
                                ELSE IF Succeeded(w.mem) # Items THEN "completed_with_errors"
                                ELSE "completed"]
  /\ UNCHANGED <<running, row, ops>>

FinishRun ==
  /\ At("finished")
  /\ row' = [row EXCEPT !.status = w.outcome, !.payload = w.mem]
  /\ Goto("post")
  /\ UNCHANGED <<running, ops>>

\* except _PauseRequestedError, except OperationCancelledError
HandlePause ==
  /\ At("interrupted")
  /\ \/ /\ row.cancel_requested
        /\ row' = [row EXCEPT !.payload = w.mem]
        /\ Goto("cancel")
     \/ /\ ~row.cancel_requested
        /\ Goto("pausing")
        /\ UNCHANGED row
  /\ UNCHANGED <<running, ops>>

\* The row is written after the flag was read, or without reading it.
WritePaused ==
  /\ w.pc \in {"pausing", "transient"}
  /\ row' = [row EXCEPT !.status = "paused", !.payload = w.mem]
  /\ Goto("post")
  /\ UNCHANGED <<running, ops>>

WriteFailed ==
  /\ At("permanent")
  /\ row' = [row EXCEPT !.status = "failed"]
  /\ Goto("post")
  /\ UNCHANGED <<running, ops>>

\* The worker notes, after whatever run it was, that requests were submitted.
NoteRemoteSubmission ==
  /\ At("post")
  /\ row' = IF w.action = "run" THEN [row EXCEPT !.payload.remote = TRUE] ELSE row
  /\ w' = IdleWorker(row'.payload)
  /\ UNCHANGED <<running, ops>>

RunStep ==
  \/ EndInterrupted \/ EnterRun \/ BeginRun \/ Prepare \/ DecideOutcome \/ FinishRun
  \/ HandlePause \/ WritePaused \/ WriteFailed \/ NoteRemoteSubmission

-----------------------------------------------------------------------------
(* The engine, the user and the machine                                    *)

Worker(action) ==
  [IdleWorker(row.payload) EXCEPT !.pc = IF action = "run" THEN "entry" ELSE "cancel",
                                  !.action = action, !.polish = row.payload.enable_polish]

Occurs(event) == event \in Events /\ ops < MaxOps /\ ops' = ops + 1

\* The autorun tick; build_worker takes enable_polish from the row's payload.
StartRun ==
  /\ At("idle") /\ row.status \notin TerminalStatuses
  /\ w' = Worker("run")
  /\ UNCHANGED <<running, row, ops>>

\* TaskEngine.cancel: without a worker the row is marked and a cancel worker
\* started.  With one, which may have done its work, the row is marked under the
\* lock, and the worker interrupted after it is released.
CancelRequested == row' = [row EXCEPT !.status = "cancel_requested", !.cancel_requested = TRUE]

UserCancel ==
  /\ Occurs("cancel")
  /\ At("idle") /\ row.status \notin TerminalStatuses
  /\ CancelRequested
  /\ w' = Worker("cancel")
  /\ UNCHANGED running

MarkCancelRequested ==
  /\ Occurs("cancel")
  /\ row.status \notin TerminalStatuses
  /\ CancelRequested
  /\ UNCHANGED <<running, w>>

InterruptWorker ==
  /\ Occurs("cancel")
  /\ ~At("idle") /\ row.cancel_requested /\ ~w.interrupted
  /\ w' = [w EXCEPT !.interrupted = TRUE]
  /\ UNCHANGED <<running, row>>

\* EngineCore.run_task of a terminal row: ensure_runnable queues it again.
UserRerun ==
  /\ Occurs("rerun")
  /\ At("idle") /\ row.status \in TerminalStatuses \ {"completed"}
  /\ row' = [row EXCEPT !.status = "queued", !.cancel_requested = FALSE]
  /\ UNCHANGED <<running, w>>

\* The application closes: the worker is interrupted, and the row kept.
Shutdown ==
  /\ Occurs("shutdown")
  /\ ~At("idle") /\ ~w.interrupted
  /\ w' = [w EXCEPT !.interrupted = TRUE]
  /\ UNCHANGED <<running, row>>

\* The process dies.  Between the reply of a create call and the first record
\* of a request this loses the name of the job.
Crash ==
  /\ Occurs("crash")
  /\ ~At("idle")
  /\ At("created") =>
       May("lost_record") \/ \E h \in w.hashes : requests[h].batch_name = w.batch
  /\ w' = IdleWorker(row.payload)
  /\ UNCHANGED <<running, row>>

ProviderStep == (\E b \in Batches : EndJob(b)) /\ UNCHANGED <<row, chunks, w, ops>>

Environment ==
  UserCancel \/ MarkCancelRequested \/ InterruptWorker \/ UserRerun \/ Shutdown \/ Crash

WorkerStep == RunStep \/ ((StageStep \/ CancelStep) /\ UNCHANGED ops)

Next == WorkerStep \/ StartRun \/ ProviderStep \/ Environment

Spec == Init /\ [][Next]_vars

\* Threads are scheduled, the tick comes back, and the provider ends jobs.
FairSpec == Spec /\ WF_vars(WorkerStep) /\ WF_vars(StartRun) /\ WF_vars(ProviderStep)

-----------------------------------------------------------------------------
(* Properties                                                              *)

JobEntry == [batch : Batches, hashes : SUBSET Hash]
PayloadOK(p) ==
  /\ p.prepared \in BOOLEAN /\ p.enable_polish \in BOOLEAN /\ p.remote \in BOOLEAN
  /\ p.items \in [Items -> Item]
  /\ DOMAIN p.jobs = Stages /\ \A s \in Stages : Range(p.jobs[s]) \subseteq JobEntry
  /\ p.display \in [Stages -> SUBSET Hash]

\* The type invariant of the provider, the cache, the row and the worker.
TypeOK ==
  /\ batches \in [Batches -> Job] /\ requests \in [Hash -> LLMBatchRecord]
  /\ row.status \in Status /\ row.cancel_requested \in BOOLEAN /\ PayloadOK(row.payload)
  /\ chunks \in [Items -> {"none", "translated", "polished"}]
  /\ PayloadOK(w.mem) /\ w.stage \in Stages /\ w.action \in {"run", "cancel"}
  /\ w.job \in Nat /\ w.hashes \subseteq Hash /\ w.batch \in Batches \cup {NoBatch}
  /\ w.inflight \subseteq Items /\ w.todo \subseteq Batches
  /\ ops \in 0..MaxOps

\* The jobs that somebody has noted: the row lists them, the cache names them, or the
\* worker has the reply of the create call in hand.
Noted ==
  KnownBatches(row.payload) \cup {requests[h].batch_name : h \in {g \in Hash : Submitted(g)}}
    \cup (IF At("created") THEN {w.batch} ELSE {})

\* A request is paid for once: until a job is cancelled, no two of the jobs noted ask
\* the same, however runs fail, are interrupted or die and are resumed (submission and
\* resumption in _execute_stage).  After a cancelled job the requests are asked
\* again, and its end may later be written over the record of their new job.
PaidOnce ==
  (\A b \in Batches : batches[b].state \notin {"cancelling", "cancelled"}) =>
    \A b1, b2 \in Noted : b1 # b2 => batches[b1].asked \cap batches[b2].asked = {}

\* What the cache says was submitted to a job was asked of that job; else the
\* output file of the job has no answer and every run of the task fails
\* (_recover_submitted_batch_name).
SubmittedToItsBatch ==
  \A h \in Hash : Submitted(h) => h \in batches[requests[h].batch_name].asked

\* A task that says it is cancelled, and that nothing runs, has left none of the
\* jobs that its row lists running at the provider (request_cancel, and run_task,
\* which may find at its end that it was cancelled).  request_cancel calls a task so
\* only when none runs that asks what the row's display names stand for, either: a
\* job whose create reply was lost is found by the name that the next submission of
\* its requests leaves.  Before that, nothing tells of it.
CancelStops ==
  LET Runs(b) == batches[b].state = "active"
      settled == At("settle") /\ w.todo = {} /\ ~w.active
  IN  /\ (row.status = "cancelled" /\ At("idle")) => \A b \in KnownBatches(row.payload) : ~Runs(b)
      /\ (settled /\ {"find_failed", "no_credentials"} \cap Faults = {}) =>
           \A b \in Batches : Runs(b) =>
             b \notin KnownBatches(w.mem) /\ \A s \in Stages : batches[b].asked # w.mem.display[s]

\* An item the row says is applied has its text in the chunks: a crash may
\* separate the two writes, but not in the other order (apply_results).
AppliedIsInChunks ==
  \A i \in Items : row.payload.items[i].applied => chunks[i] # "none"

\* The text a finished run reports as polished is the one in the chunks
\* (apply_results passes over the items that are already applied).
PolishIsApplied ==
  (row.status \in TerminalStatuses /\ At("idle")) =>
    \A i \in Items : (row.payload.items[i].applied
                        /\ row.payload.items[i].polish.state = "succeeded")
                     => chunks[i] = "polished"

\* A completed task has translated every chunk; one that gave up on a chunk
\* says so in its status.
CompletedMeansTranslated ==
  row.status = "completed" => \A i \in Items : chunks[i] # "none"

\* What the row says is done is in the chunks, item by item and of the whole task.
DoneIsInChunks == AppliedIsInChunks /\ CompletedMeansTranslated

\* No resumed or repeated run puts the unpolished text back.
PolishNotLost ==
  [][\A i \in Items : chunks[i] = "polished" => chunks'[i] = "polished"]_chunks

\* What a checkpoint says was achieved is never asked for again: a stage that
\* has succeeded stays so through every pause, failure, crash and rerun.
KeepsSuccess ==
  \A i \in Items, s \in Stages :
    row.payload.items[i][s].state = "succeeded" => row'.payload.items[i][s].state = "succeeded"
CheckpointKeepsSuccess == [][KeepsSuccess]_row

\* A response in the cache is never overwritten.
CacheKeepsResponses ==
  [][\A h \in Hash : Completed(h) => requests'[h].status = "completed"]_requests

\* Without faults, a task that is not terminal becomes terminal.
TaskEnds == row.status \notin TerminalStatuses ~> row.status \in TerminalStatuses

\* A requested cancellation ends the task, and the row says cancelled unless
\* the run ended first.
CancelTakesEffect ==
  (row.cancel_requested /\ row.status \notin TerminalStatuses) ~>
    (row.status \in TerminalStatuses /\ At("idle"))

=============================================================================
