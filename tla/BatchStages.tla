----------------------------- MODULE BatchStages -----------------------------
(***************************************************************************)
(* A worker thread that takes the items of one batch task through the      *)
(* translation and the polish stage and writes the results to the chunks   *)
(* (workflow/tasks/execution/batch_translation_ops.py), and the            *)
(* cancellation of its batch jobs (batch_translation_executor.py).         *)
(*                                                                         *)
(* The worker changes its own copy of the payload, w.mem, and persists it  *)
(* in the task row from time to time; a crash leaves the row's.  One step  *)
(* is the code between two awaits, or between two accesses to the row or   *)
(* to the interruption flag that another thread can separate.  The modules *)
(* that EXTEND this one say how a run starts and how it ends.              *)
(*                                                                         *)
(* Every item has blocks to translate (the code marks an item without any  *)
(* as succeeded and asks for nothing), and a stage's request is a function *)
(* of the item: two items with the same prompt share the request.          *)
(***************************************************************************)
EXTENDS BatchProvider, Sequences, FiniteSetsExt

CONSTANTS
  NumItems,     \* items of the payload, in its order
  RequestOf,    \* RequestOf[stage][i]: the prompt of item i
  BatchSize,    \* requests in one job
  Concurrency,  \* items validated, or translated directly, at a time
  MaxJobs       \* bound: entries in a stage's list of jobs

Items == 1..NumItems

ASSUME ItemsAssumption ==
  /\ NumItems \in Nat \ {0}
  /\ RequestOf \in [Stages -> [Items -> Prompts]]
ASSUME SizesAssumption ==
  BatchSize \in Nat \ {0} /\ Concurrency \in Nat \ {0} /\ MaxJobs \in Nat

VARIABLES
  row,      \* the task's row in task_store.db
  chunks,   \* what the chunks of an item hold
  w         \* the worker thread

provider == <<batches, requests>>

-----------------------------------------------------------------------------
(* The payload                                                             *)

StageState == {"pending", "succeeded", "failed", "skipped"}
StageItemState == [state : StageState, fallback_attempted : BOOLEAN]
Item == [translation : StageItemState, polish : StageItemState, applied : BOOLEAN]

new_stage_state == [state |-> "pending", fallback_attempted |-> FALSE]
NewItem == [translation |-> new_stage_state, polish |-> new_stage_state, applied |-> FALSE]
NoJobs == [s \in Stages |-> <<>>]
NoName == [s \in Stages |-> {}]

\* prepared: the payload has its items.  display: the requests that
\* batch_display_name is a digest of, {} when it is None.
NewPayload(enable_polish) ==
  [prepared |-> FALSE, items |-> [i \in Items |-> NewItem], jobs |-> NoJobs,
   display |-> NoName, enable_polish |-> enable_polish, remote |-> FALSE]

HashOf(s, i) == <<s, RequestOf[s][i]>>
ItemsIn(p, s, state) == {i \in Items : p.items[i][s].state = state}
Succeeded(p) == ItemsIn(p, "translation", "succeeded")

\* _ordered_pending_stage_hashes, and its first BatchSize elements
PendingHashes == {h \in {HashOf(w.stage, i) : i \in ItemsIn(w.mem, w.stage, "pending")} :
                    ~Resolved(h)}
Position(h) == Min({i \in ItemsIn(w.mem, w.stage, "pending") : HashOf(w.stage, i) = h})
SliceHashes == {h \in PendingHashes :
                  Cardinality({g \in PendingHashes : Position(g) < Position(h)}) < BatchSize}

-----------------------------------------------------------------------------
(* The row and the worker                                                  *)

TerminalStatuses == {"completed", "completed_with_errors", "failed", "cancelled"}
Status == {"queued", "running", "paused", "cancel_requested", "cancelling"} \cup TerminalStatuses

IdleWorker(p) ==
  [pc |-> "idle", action |-> "run", polish |-> TRUE, interrupted |-> FALSE, mem |-> p,
   stage |-> "translation", job |-> 0, hashes |-> {}, batch |-> NoBatch,
   inflight |-> {}, todo |-> {}, active |-> FALSE, outcome |-> "completed"]

At(pc) == w.pc = pc
Goto(pc) == w' = [w EXCEPT !.pc = pc]
Proceed(pc, mem) == w' = [w EXCEPT !.pc = pc, !.mem = mem]

\* persist_payload, persist_poll_progress
Persist(mem) == row' = [row EXCEPT !.status = "running", !.payload = mem]
PersistProgress == row' = [row EXCEPT !.status = "running"]

\* raise_if_local_pause: the thread is interrupted or the row says cancel.
PauseRequested == w.interrupted \/ row.cancel_requested
Pause == PauseRequested /\ Goto("interrupted")

\* A call raises: paused when the error is transient, failed otherwise.
Raise == \E error \in {"transient", "permanent"} : May(error) /\ Goto(error)

-----------------------------------------------------------------------------
(* A stage begins                                                          *)

WithState(mem, s, subset, state) ==
  [mem EXCEPT !.items = [i \in Items |-> IF i \in subset THEN [@[i] EXCEPT ![s].state = state]
                                         ELSE @[i]]]

\* run_translation_stage, run_polish_stage, the first lines of _execute_stage
run_translation_stage ==
  /\ At("stage") /\ w.stage = "translation"
  /\ Persist(w.mem)
  /\ w' = [w EXCEPT !.pc = "jobs", !.job = 1]
  /\ UNCHANGED <<provider, chunks>>

\* (mutant of run_polish_stage: a resumed stage asks for every item again)
run_polish_stage_again ==
  /\ At("stage") /\ w.stage = "polish" /\ w.polish
  /\ LET mem == WithState(WithState(w.mem, "polish", Succeeded(w.mem), "pending"),
                          "polish", Items \ Succeeded(w.mem), "skipped")
     IN  /\ Persist(mem)
         /\ w' = [w EXCEPT !.pc = "jobs", !.job = 1, !.mem = mem]
  /\ UNCHANGED <<provider, chunks>>

run_polish_stage ==
  /\ At("stage") /\ w.stage = "polish"
  /\ UNCHANGED <<provider, chunks>>
  /\ \/ /\ ~w.polish
        /\ Proceed("apply", WithState(w.mem, "polish", Succeeded(w.mem), "skipped"))
        /\ UNCHANGED row
     \/ /\ w.polish
        /\ LET mem == WithState(w.mem, "polish", Items \ Succeeded(w.mem), "skipped")
           IN  /\ Persist(mem)
               /\ w' = [w EXCEPT !.pc = "jobs", !.job = 1, !.mem = mem]

-----------------------------------------------------------------------------
(* Jobs: those the payload lists first, then new ones slice by slice.      *)
(* w.job is the entry being polled, 0 in the slices' loop.                 *)

NewEntry(b, hashes) == [batch |-> b, hashes |-> hashes]
Listed(mem, b, hashes) ==
  [mem EXCEPT !.jobs[w.stage] = Append(@, NewEntry(b, hashes)), !.display[w.stage] = hashes]

\* for job in jobs
ResumeJob ==
  /\ At("jobs")
  /\ LET jobs == w.mem.jobs[w.stage]
         Left(j) == jobs[j].hashes \cap PendingHashes
         unfinished == {j \in w.job..Len(jobs) : Left(j) # {}}
     IN  \/ /\ unfinished = {}
            /\ w' = [w EXCEPT !.pc = "slice", !.job = 0]
            /\ UNCHANGED row
         \/ /\ unfinished # {}
            /\ LET j == Min(unfinished)
                   mem == [w.mem EXCEPT !.display[w.stage] = jobs[j].hashes]
               IN  /\ Persist(mem)
                   /\ w' = [w EXCEPT !.pc = "poll", !.mem = mem, !.job = j,
                                     !.batch = jobs[j].batch, !.hashes = Left(j)]
  /\ UNCHANGED <<provider, chunks>>

\* (mutant of SubmittedTo: a submission without an entry in the payload is forgotten)
SubmittedToForgotten(hashes) == {}

\* _recover_submitted_batch_name: the jobs the requests were submitted to
SubmittedTo(hashes) == {requests[h].batch_name : h \in {g \in hashes : Submitted(g)}}

\* while unresolved
NextSlice ==
  /\ At("slice")
  /\ UNCHANGED <<batches, chunks>>
  /\ LET slice == SliceHashes
         names == SubmittedTo(slice)
     IN  \/ /\ slice = {}
            /\ Persist(w.mem)
            /\ Goto("validate")
            /\ UNCHANGED requests
         \/ /\ Cardinality(names) > 1
            /\ Goto("permanent")
            /\ UNCHANGED <<row, requests>>
         \/ \E b \in names :
              /\ names = {b}
              /\ Len(w.mem.jobs[w.stage]) < MaxJobs
              /\ requests' = Upsert({h \in slice : ~Submitted(h)}, "submitted", b, FALSE)
              /\ LET mem == Listed(w.mem, b, slice)
                 IN  /\ Persist(mem)
                     /\ w' = [w EXCEPT !.pc = "poll", !.mem = mem, !.batch = b, !.hashes = slice]
         \/ /\ slice # {} /\ names = {}
            /\ w' = [w EXCEPT !.pc = "submit", !.hashes = slice]
            /\ UNCHANGED <<row, requests>>

\* submit_batch.  The reply names the job; it may be lost.
SubmitSlice ==
  /\ At("submit")
  /\ Len(w.mem.jobs[w.stage]) < MaxJobs
  /\ UNCHANGED <<row, chunks, requests>>
  /\ \/ Raise /\ UNCHANGED batches
     \/ \E b \in Batches :
          /\ CreateJob(b, w.hashes)
          /\ \/ w' = [w EXCEPT !.pc = "created", !.batch = b, !.mem = Listed(w.mem, b, w.hashes)]
             \/ May("lost_reply") /\ Goto("transient")

\* upsert_submitted for one request after the other, then persist_payload
RecordSubmission ==
  /\ At("created")
  /\ UNCHANGED <<batches, chunks>>
  /\ LET left == {h \in w.hashes : requests[h] # [status |-> "submitted", batch_name |-> w.batch,
                                                  cancellation |-> FALSE]}
     IN  \/ \E h \in left :
              /\ requests' = Upsert({h}, "submitted", w.batch, FALSE)
              /\ UNCHANGED <<row, w>>
         \/ /\ left = {}
            /\ Persist(w.mem)
            /\ Goto("poll")
            /\ UNCHANGED requests

-----------------------------------------------------------------------------
(* poll_until_terminal                                                     *)

\* progress_callback raises in an interrupted thread, else the run goes on.
Report(next) == w' = IF w.interrupted THEN [next EXCEPT !.pc = "interrupted"] ELSE next

AfterPoll == IF w.job = 0 THEN [w EXCEPT !.pc = "slice"]
             ELSE [w EXCEPT !.pc = "jobs", !.job = @ + 1]

CheckBeforePoll ==
  /\ At("poll")
  /\ Pause \/ (~PauseRequested /\ Goto("polling"))
  /\ UNCHANGED <<provider, row, chunks>>

\* poll_once raises: a failed call, or an output file without all the answers
PollFails ==
  /\ At("polling")
  /\ UNCHANGED <<batches, row, chunks>>
  /\ \/ Raise /\ UNCHANGED requests
     \/ /\ batches[w.batch].state = "succeeded"
        /\ Unanswered(w.batch, w.hashes) # {}
        /\ requests' = PersistOutput(w.batch, w.hashes)
        /\ Goto("permanent")

PollPending ==
  /\ At("polling") /\ IsActive(w.batch)
  /\ PersistProgress
  /\ \/ Report([w EXCEPT !.pc = "poll"])
     \/ May("timeout") /\ Report([w EXCEPT !.pc = "timed_out"])
  /\ UNCHANGED <<provider, chunks>>

\* The requests of a job given up stay submitted to it.
CancelAfterTimeout ==
  /\ At("timed_out")
  /\ w' = AfterPoll
  /\ \/ IsActive(w.batch) /\ CancelJob(w.batch)
     \/ ~IsActive(w.batch) /\ UNCHANGED batches
     \/ May("cancel_failed") /\ UNCHANGED batches
  /\ UNCHANGED <<requests, row, chunks>>

\* (mutant of PollEnds: the requests of a cancelled job are not marked)
PollEndsUnmarked ==
  /\ At("polling")
  /\ PersistProgress
  /\ \/ /\ batches[w.batch].state = "succeeded"
        /\ Unanswered(w.batch, w.hashes) = {}
        /\ requests' = PersistOutput(w.batch, w.hashes)
     \/ /\ batches[w.batch].state \in {"failed", "cancelled"}
        /\ UNCHANGED requests
  /\ Report(AfterPoll)
  /\ UNCHANGED <<batches, chunks>>

\* The answers are kept before the progress is reported, a failure is after.
PollEnds ==
  /\ At("polling")
  /\ PersistProgress
  /\ \/ /\ batches[w.batch].state = "succeeded"
        /\ Unanswered(w.batch, w.hashes) = {}
        /\ requests' = PersistOutput(w.batch, w.hashes)
     \/ /\ batches[w.batch].state \in {"failed", "cancelled"}
        /\ LET left == {h \in w.hashes : ~w.interrupted /\ requests[h].status # "failed"}
           IN  requests' = Upsert(left, "failed", w.batch, batches[w.batch].state = "cancelled")
  /\ Report(AfterPoll)
  /\ UNCHANGED <<batches, chunks>>

-----------------------------------------------------------------------------
(* Validation of the responses, then direct calls for what failed; up to   *)
(* Concurrency items at a time, started in their order.  When one of them  *)
(* is interrupted the others are cancelled.                                *)

Start(candidates, i) ==
  /\ Cardinality(w.inflight) < Concurrency
  /\ candidates # {} /\ i = Min(candidates)

Interrupted == [w EXCEPT !.pc = "interrupted", !.inflight = {}]

\* _validate_item up to validated_chat; without a response the item has failed.
StartValidation(i) ==
  /\ At("validate")
  /\ Start(ItemsIn(w.mem, w.stage, "pending") \ w.inflight, i)
  /\ UNCHANGED <<provider, chunks>>
  /\ \/ PauseRequested /\ w' = Interrupted /\ UNCHANGED row
     \/ /\ ~PauseRequested /\ Completed(HashOf(w.stage, i))
        /\ w' = [w EXCEPT !.inflight = @ \cup {i}]
        /\ UNCHANGED row
     \/ /\ ~PauseRequested /\ ~Completed(HashOf(w.stage, i))
        /\ LET mem == WithState(w.mem, w.stage, {i}, "failed")
           IN  Persist(mem) /\ Proceed("validate", mem)

\* _fallback_item up to validated_chat: the attempt is noted first.
FallbackCandidates ==
  {i \in ItemsIn(w.mem, w.stage, "failed") : ~w.mem.items[i][w.stage].fallback_attempted}

StartFallback(i) ==
  /\ At("fallback") /\ ~row.cancel_requested
  /\ Start(FallbackCandidates, i)
  /\ \/ w.interrupted /\ w' = Interrupted
     \/ /\ ~w.interrupted
        /\ w' = [w EXCEPT !.inflight = @ \cup {i},
                          !.mem.items[i][w.stage].fallback_attempted = TRUE]
  /\ UNCHANGED <<provider, row, chunks>>

\* validated_chat returns blocks, or raises and the item has failed.
FinishItem(i) ==
  /\ w.pc \in {"validate", "fallback"} /\ i \in w.inflight
  /\ \E state \in {"succeeded", "failed"} :
       /\ state = "failed" => May("bad_response")
       /\ LET mem == WithState(w.mem, w.stage, {i}, state)
          IN  /\ Persist(mem)
              /\ w' = [w EXCEPT !.mem = mem, !.inflight = @ \ {i}]
  /\ UNCHANGED <<provider, chunks>>

\* validated_chat looks at the interruption flag alone.
InterruptItem ==
  /\ w.pc \in {"validate", "fallback"} /\ w.inflight # {} /\ w.interrupted
  /\ w' = Interrupted
  /\ UNCHANGED <<provider, row, chunks>>

EndValidation ==
  /\ At("validate") /\ w.inflight = {} /\ ItemsIn(w.mem, w.stage, "pending") = {}
  /\ Persist(w.mem)
  /\ Goto("fallback")
  /\ UNCHANGED <<provider, chunks>>

\* Once a cancellation is requested the items left are passed over.
EndFallback ==
  /\ At("fallback") /\ w.inflight = {}
  /\ FallbackCandidates = {} \/ row.cancel_requested
  /\ Persist(w.mem)
  /\ w' = IF w.stage = "translation" THEN [w EXCEPT !.pc = "stage", !.stage = "polish"]
          ELSE [w EXCEPT !.pc = "apply"]
  /\ UNCHANGED <<provider, chunks>>

-----------------------------------------------------------------------------
(* apply_results: the chunks are written, the payload is not persisted.    *)

\* (mutant of BeginApply: the items are marked before their chunks are written)
BeginApplyMarked ==
  /\ At("apply")
  /\ Persist([w.mem EXCEPT !.items = [i \in Items |->
       IF i \in Succeeded(w.mem) THEN [@[i] EXCEPT !.applied = TRUE] ELSE @[i]]])
  /\ Goto("applying")
  /\ UNCHANGED <<provider, chunks>>

BeginApply ==
  /\ At("apply")
  /\ Persist(w.mem)
  /\ Goto("applying")
  /\ UNCHANGED <<provider, chunks>>

Applicable == {i \in Succeeded(w.mem) : ~w.mem.items[i].applied}

ApplyItem(i) ==
  /\ At("applying") /\ Applicable # {} /\ i = Min(Applicable)
  /\ \/ /\ chunks' = [chunks EXCEPT ![i] = IF w.mem.items[i].polish.state = "succeeded"
                                           THEN "polished" ELSE "translated"]
        /\ Report([w EXCEPT !.mem.items[i].applied = TRUE])
     \/ /\ May("chunk_missing")
        /\ w' = [w EXCEPT !.mem.items[i].translation.state = "failed"]
        /\ UNCHANGED chunks
  /\ UNCHANGED <<provider, row>>

EndApply ==
  /\ At("applying") /\ Applicable = {}
  /\ Goto("finish")
  /\ UNCHANGED <<provider, row, chunks>>

-----------------------------------------------------------------------------
(* request_cancel: cancel the jobs the row's payload knows of, and settle  *)
(* the row when none of them can still run.                                *)

JobEntries(p) == UNION {Range(p.jobs[s]) : s \in Stages}
KnownBatches(p) == {entry.batch : entry \in JobEntries(p)}
HashesOf(p, b) == UNION {entry.hashes : entry \in {e \in JobEntries(p) : e.batch = b}}

BeginCancel ==
  /\ At("cancel")
  /\ UNCHANGED <<provider, chunks>>
  /\ \/ row.status \in TerminalStatuses /\ Goto("post") /\ UNCHANGED row
     \/ /\ row.status \notin TerminalStatuses
        /\ row' = [row EXCEPT !.status = "cancelling", !.cancel_requested = TRUE]
        /\ Proceed("find", row.payload)

\* (mutant of FindBatches: only the jobs that are listed are looked for)
FindBatchesListed ==
  /\ At("find")
  /\ w' = [w EXCEPT !.pc = "settle", !.todo = KnownBatches(w.mem), !.active = FALSE]
  /\ UNCHANGED <<provider, row, chunks>>

\* find_batch_names per stage, for the display name the payload remembers
FindBatches ==
  /\ At("find")
  /\ LET Found(s) == IF w.mem.display[s] = {} THEN {} ELSE FindBatchNames(w.mem.display[s])
         known == KnownBatches(w.mem)
         Settle(todo) == w' = [w EXCEPT !.pc = "settle", !.todo = todo, !.active = FALSE]
     IN  \/ Settle(known \cup UNION {Found(s) : s \in Stages})
         \/ May("find_failed") /\ Settle(known)
         \/ May("no_credentials") /\ Settle({})
  /\ UNCHANGED <<provider, row, chunks>>

Settled(b, active) ==
  w' = [w EXCEPT !.pc = "settle", !.todo = @ \ {b}, !.active = @ \/ active]

\* Keep the answers of a job that has ended, then look at its state.
SettleBatch(b) ==
  /\ At("settle") /\ b \in w.todo
  /\ \/ /\ batches[b].state = "succeeded"
        /\ requests' = PersistOutput(b, HashesOf(w.mem, b))
     \/ /\ batches[b].state = "succeeded" => May("transient")
        /\ UNCHANGED requests
  /\ \/ ~IsActive(b) /\ Settled(b, FALSE)
     \/ IsActive(b) /\ w' = [w EXCEPT !.pc = "cancelling", !.batch = b]
     \/ May("inspect_failed") /\ Settled(b, TRUE)
  /\ UNCHANGED <<batches, row, chunks>>

CancelBatch ==
  /\ At("cancelling")
  /\ Goto("inspect")
  /\ \/ IsActive(w.batch) /\ CancelJob(w.batch)
     \/ ~IsActive(w.batch) /\ UNCHANGED batches
     \/ May("cancel_failed") /\ UNCHANGED batches
  /\ UNCHANGED <<requests, row, chunks>>

InspectBatch ==
  /\ At("inspect")
  /\ \/ Settled(w.batch, IsActive(w.batch))
     \/ May("inspect_failed") /\ Settled(w.batch, TRUE)
  /\ UNCHANGED <<provider, row, chunks>>

\* (mutant of EndCancel: a job that still runs does not hold the status back)
EndCancelAtOnce ==
  /\ At("settle") /\ w.todo = {}
  /\ row' = [row EXCEPT !.status = "cancelled"]
  /\ Goto("post")
  /\ UNCHANGED <<provider, chunks>>

\* (mutant of EndCancel: a job that was ever known holds the status back)
EndCancelWhileKnown ==
  /\ At("settle") /\ w.todo = {}
  /\ row' = [row EXCEPT !.status = IF KnownBatches(w.mem) # {} THEN "cancelling" ELSE "cancelled"]
  /\ Goto("post")
  /\ UNCHANGED <<provider, chunks>>

EndCancel ==
  /\ At("settle") /\ w.todo = {}
  /\ row' = [row EXCEPT !.status = IF w.active THEN "cancelling" ELSE "cancelled"]
  /\ Goto("post")
  /\ UNCHANGED <<provider, chunks>>

-----------------------------------------------------------------------------

StageStep ==
  \/ run_translation_stage \/ run_polish_stage
  \/ ResumeJob \/ NextSlice \/ SubmitSlice \/ RecordSubmission
  \/ CheckBeforePoll \/ PollFails \/ PollPending \/ CancelAfterTimeout \/ PollEnds
  \/ \E i \in Items : StartValidation(i) \/ StartFallback(i) \/ FinishItem(i)
  \/ InterruptItem \/ EndValidation \/ EndFallback
  \/ BeginApply \/ (\E i \in Items : ApplyItem(i)) \/ EndApply

CancelStep ==
  \/ BeginCancel \/ FindBatches \/ (\E b \in w.todo : SettleBatch(b))
  \/ CancelBatch \/ InspectBatch \/ EndCancel
=============================================================================
