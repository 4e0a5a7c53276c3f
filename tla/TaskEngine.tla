----------------------------- MODULE TaskEngine -----------------------------
(***************************************************************************)
(* The task engine: workflow/tasks/engine_core.py, the Qt engine around it *)
(* (adapters/qt/task_engine.py), the worker threads it starts              *)
(* (adapters/qt/workers) and the task rows they share                      *)
(* (storage/repositories/task_store.py).                                   *)
(*                                                                         *)
(* Procs are processes over one library: the desktop application and       *)
(* cat-cli commands all open the same task_store.db, and no lock between   *)
(* processes exists.  In a process the main thread alone writes the        *)
(* registrations (active_workers, active_claims); worker threads write rows*)
(* and nothing else; the queue screen deletes tasks in threads of its own. *)
(* EngineCore takes a lock per book around its decisions, which orders the *)
(* main thread and the deletions but not the workers' writes.  One step is *)
(* one access to the store, or several that no other thread of the process *)
(* can separate; a main-thread operation that another thread can interleave*)
(* with is split into the steps listed under MainPC.                       *)
(*                                                                         *)
(* translate_and_export, whose worker is a pipeline of its own, is not a   *)
(* task type of this module.                                               *)
(***************************************************************************)
EXTENDS Integers, TaskHandlers

CONSTANTS
  Tasks,              \* task ids (uuid4: never reused)
  desc,               \* desc[t]: type and scope of task t, fixed at creation
  Books,
  Procs,              \* engine processes over one task_store.db
  Desktop,            \* those with the queue screen: run, retry, delete
  Workers,            \* QThread objects
  NoWorker,
  EventOutlivesWorker,\* a finished event outlives its released QThread
  StartMayFail,       \* validate_run or building the worker may fail
  MaxStarts,          \* bound: process starts in a behaviour
  MaxUserOps          \* bound: user operations in a behaviour

ASSUME DescAssumption ==
  \A t \in Tasks : /\ desc[t].type \in TaskTypes \ {"translate_and_export"}
                   /\ desc[t].book \in Books
ASSUME TasksAssumption == Tasks # {}
\* BatchTranslationHandler.scope: no documents named means all of them.
ASSUME BatchScopeAssumption ==
  \A t \in Tasks : desc[t].type = "batch_translation" => desc[t].docs # {}
ASSUME ProcsAssumption == Procs # {} /\ Desktop \subseteq Procs
ASSUME WorkersAssumption == NoWorker \notin Workers
ASSUME FlagsAssumption ==
  /\ EventOutlivesWorker \in BOOLEAN
  /\ StartMayFail \in BOOLEAN
ASSUME BoundsAssumption == MaxStarts \in Nat /\ MaxUserOps \in Nat

VARIABLES
  rows,            \* the tasks table, shared by every process
  active_workers,  \* EngineCore._active_workers, per process
  active_claims,   \* EngineCore._active_claims, per process
  workers,         \* the QThreads and where their run() stands
  main_pc,         \* what the main thread of a process is doing
  focus,           \* the task its operation is about
  startable,       \* the tasks its tick has still to start
  recovery,        \* the rows its recovery has still to rewrite
  backoff,         \* books whose autorun is suspended, per process
  deletion,        \* where the thread deleting a task stands, per process
  starts, ops      \* how much of the bounds is used

storeVars  == <<rows>>
engineVars == <<active_workers, active_claims, backoff, deletion>>
mainVars   == <<main_pc, focus, startable, recovery>>
bounds     == <<starts, ops>>
vars == <<rows, active_workers, active_claims, workers, main_pc, focus,
          startable, recovery, backoff, deletion, starts, ops>>

-----------------------------------------------------------------------------
(* The store.  "unborn" and "deleted" rows are not in the table.           *)

Row == [status : Status \cup {"unborn", "deleted"},
        cancel_requested : BOOLEAN, remote : BOOLEAN]
NewRow(status) == [status |-> status, cancel_requested |-> FALSE, remote |-> FALSE]

Exists(t) == rows[t].status \in Status
Batch(t)  == desc[t].type = "batch_translation"

\* TaskStore.update: KeyError, and no effect, when the row is gone.
SetStatus(t, s) ==
  rows' = [rows EXCEPT ![t].status = IF Exists(t) THEN s ELSE @]
SetRow(t, s, flag) ==
  rows' = [rows EXCEPT ![t] = IF Exists(t)
             THEN [@ EXCEPT !.status = s, !.cancel_requested = flag] ELSE @]

(* The worker threads. "ended": run() returned, finished() is in the event *)
(* queue of the main thread and isRunning() is false.                      *)
LocalPC == {"checked", "working"}
BatchPC == {"guard", "entry", "run", "polling", "finish_cancelled",
            "finish_completed", "cancel", "confirm", "post"}
WorkerPC == {"free", "start", "ended"} \cup LocalPC \cup BatchPC
Worker == [pc : WorkerPC, proc : Procs, task : Tasks,
           action : {"run", "cancel"}, interrupted : BOOLEAN]

isRunning(w) == workers[w].pc \notin {"free", "ended"}
Running(w, action) == isRunning(w) /\ workers[w].action = action

MainPC == {"down", "recover", "idle", "tick", "strict_start", "register_run",
           "cancel_check", "cancel_mark", "cancel_dispatch", "register_cancel", "closing"}

\* "requested": the thread has still to take the book lock; "holding": it has
\* decided, and holds the lock while pre_delete cleans up at the provider.
DeletionPC == {"none", "requested", "holding"}

HasWorker(p, t) == active_workers[p][t] # NoWorker
AllActive(p) == UNION {active_claims[p][t] : t \in Tasks}

AnyTask == CHOOSE t \in Tasks : TRUE
FreeWorker == [pc |-> "free", proc |-> CHOOSE p \in Procs : TRUE, task |-> AnyTask,
               action |-> "run", interrupted |-> FALSE]

Init ==
  /\ rows = [t \in Tasks |-> NewRow("unborn")]
  /\ active_workers = [p \in Procs |-> [t \in Tasks |-> NoWorker]]
  /\ active_claims = [p \in Procs |-> [t \in Tasks |-> {}]]
  /\ workers = [w \in Workers |-> FreeWorker]
  /\ main_pc = [p \in Procs |-> "down"]
  /\ focus = [p \in Procs |-> AnyTask]
  /\ startable = [p \in Procs |-> {}]
  /\ recovery = [p \in Procs |-> {}]
  /\ backoff = [p \in Procs |-> {}]
  /\ deletion = [p \in Procs |-> [t \in Tasks |-> "none"]]
  /\ starts = 0 /\ ops = 0

-----------------------------------------------------------------------------
(* Shared parts of the main-thread actions.                                *)

\* The main thread returns to its event loop.
Idle(p) == /\ main_pc' = [main_pc EXCEPT ![p] = "idle"]
           /\ focus' = [focus EXCEPT ![p] = AnyTask]
Goto(p, pc) == main_pc' = [main_pc EXCEPT ![p] = pc] /\ UNCHANGED focus
UserOp(p) == main_pc[p] = "idle" /\ ops < MaxUserOps /\ ops' = ops + 1 /\ UNCHANGED starts
Operation(p, t, pc) ==
  /\ UserOp(p)
  /\ main_pc' = [main_pc EXCEPT ![p] = pc]
  /\ focus' = [focus EXCEPT ![p] = t]
  /\ UNCHANGED <<startable, recovery, backoff, deletion>>

\* _book_lock: a deletion holds it from its decision to its commit.  The main
\* thread keeps it over two steps only between cancel_check and cancel_mark.
LockFree(p, t) ==
  \A u \in Tasks : desc[u].book = desc[t].book => deletion[p][u] # "holding"

\* (mutant of RunAuthorized: the claims of the tasks at work are not consulted)
RunAuthorizedUnclaimed(p, t) == Exists(t) /\ ~HasWorker(p, t) /\ CanRun(desc[t], rows[t])

\* authorize_start(RUN), up to the faults of validate_run
RunPermitted(p, t) ==
  /\ Exists(t)
  /\ ~HasWorker(p, t)
  /\ CanRun(desc[t], rows[t])

\* and from there up to the faults of build_worker
RunAuthorized(p, t) ==
  /\ RunPermitted(p, t)
  /\ ~Conflicts(HandlerClaims(desc[t]), AllActive(p))

\* authorize_start has returned a worker for task t, and released the lock.
Authorized(p, t, pc) ==
  /\ main_pc' = [main_pc EXCEPT ![p] = pc]
  /\ focus' = [focus EXCEPT ![p] = t]
  /\ UNCHANGED rows

\* The rest of _start_action: register_active_worker and QThread.start.
Register(p, w, action, claims) ==
  LET t == focus[p] IN
  /\ workers[w].pc = "free"
  /\ workers' = [workers EXCEPT ![w] = [pc |-> "start", proc |-> p, task |-> t,
                                        action |-> action, interrupted |-> FALSE]]
  /\ active_workers' = [active_workers EXCEPT ![p][t] = w]
  /\ active_claims' = [active_claims EXCEPT ![p][t] = claims]
  /\ focus' = [focus EXCEPT ![p] = AnyTask]
  /\ main_pc' = [main_pc EXCEPT ![p] = IF startable[p] = {} THEN "idle" ELSE "tick"]
  /\ UNCHANGED <<storeVars, startable, recovery, backoff, deletion, bounds>>

\* (mutant of RegisterRun: a run is registered without claims, as a
\* cancellation is)
RegisterRunUnclaimed(p, w) == main_pc[p] = "register_run" /\ Register(p, w, "run", {})

RegisterRun(p, w) ==
  main_pc[p] = "register_run" /\ Register(p, w, "run", HandlerClaims(desc[focus[p]]))
RegisterCancel(p, w) ==
  main_pc[p] = "register_cancel" /\ Register(p, w, "cancel", {})

\* (mutant of PreflightRun: the row's status alone is asked)
PreflightRunUnclaimed(p, t, row) == CanRun(desc[t], row)

\* preflight and preflight_task (RUN): advisory, before the row is touched
PreflightRun(p, t, row) ==
  /\ CanRun(desc[t], row)
  /\ ~Conflicts(HandlerClaims(desc[t]), AllActive(p))

-----------------------------------------------------------------------------
(* Submitting, running and rerunning a task.                               *)

\* ApplicationRuntime.submit_task: preflight, then submit_and_start creates
\* the row and starts the task.
Submit(p, t) ==
  /\ rows[t].status = "unborn" /\ LockFree(p, t)
  /\ PreflightRun(p, t, NewRow("queued"))
  /\ Operation(p, t, "strict_start")
  /\ rows' = [rows EXCEPT ![t] = NewRow("queued")]
  /\ UNCHANGED <<active_workers, active_claims, workers>>

\* The queue's RUN (run_task, ensure_runnable) and RETRY (rerun), which does
\* the same on a terminal row and is refused on any other.
QueueRun(p, t) ==
  /\ p \in Desktop
  /\ Exists(t) /\ LockFree(p, t)
  /\ PreflightRun(p, t, rows[t])
  /\ Operation(p, t, "strict_start")
  /\ IF rows[t].status \in TERMINAL_TASK_STATUSES
     THEN SetRow(t, "queued", FALSE) ELSE UNCHANGED rows
  /\ UNCHANGED <<active_workers, active_claims, workers>>

\* The strict start of submit_and_start, run_task and rerun: a start that
\* raises anything marks the task failed.
StrictStart(p) ==
  LET t == focus[p] IN
  /\ main_pc[p] = "strict_start" /\ LockFree(p, t)
  /\ \/ RunAuthorized(p, t) /\ Authorized(p, t, "register_run")
     \/ /\ RunAuthorized(p, t) => StartMayFail
        /\ SetStatus(t, "failed")
        /\ Idle(p)
  /\ UNCHANGED <<engineVars, workers, startable, recovery, bounds>>

-----------------------------------------------------------------------------
(* Cancelling and deleting.                                                *)

\* The services ask preflight_task(CANCEL) first; cat-cli does not.
Cancel(p, t) ==
  /\ Exists(t)
  /\ p \in Desktop => LockFree(p, t) /\ CanCancel(rows[t])
  /\ Operation(p, t, "cancel_check")
  /\ UNCHANGED <<storeVars, active_workers, active_claims, workers>>

\* EngineCore.cancel up to its decision.  When it is refused, TaskEngine
\* still looks at the row, and dispatches if cancel_requested is set.
CancelCheck(p) ==
  LET t == focus[p] IN
  /\ main_pc[p] = "cancel_check" /\ LockFree(p, t)
  /\ IF Exists(t) /\ CanCancel(rows[t]) THEN Goto(p, "cancel_mark")
     ELSE IF Exists(t) /\ rows[t].cancel_requested THEN Goto(p, "cancel_dispatch")
     ELSE Idle(p)
  /\ UNCHANGED <<storeVars, engineVars, workers, startable, recovery, bounds>>

\* mark_cancel_requested, then the interruption of the active worker
CancelMark(p) ==
  LET t == focus[p]
      w == active_workers[p][t] IN
  /\ main_pc[p] = "cancel_mark"
  /\ SetRow(t, "cancel_requested", TRUE)
  /\ IF HasWorker(p, t)
     THEN /\ workers' = [workers EXCEPT ![w].interrupted = TRUE]
          /\ Idle(p)
     ELSE /\ IF Exists(t) THEN Goto(p, "cancel_dispatch") ELSE Idle(p)
          /\ UNCHANGED workers
  /\ UNCHANGED <<engineVars, startable, recovery, bounds>>

\* handle_cancel_dispatch_failure, on the row as it is then
SettleCancel(t) ==
  IF CancelDispatchPolicy(desc[t], rows[t]) = "require_remote_confirmation"
  THEN SetRow(t, "cancelling", TRUE)
  ELSE IF rows[t].status \in {"cancel_requested", "cancelling", "queued", "paused"}
  THEN SetRow(t, "cancelled", FALSE)
  ELSE UNCHANGED rows

\* authorize_start(CANCEL): no claims are asked for or held.  An active
\* worker makes it raise RuntimeError, which nobody handles.
CancelDispatch(p) ==
  LET t == focus[p] IN
  /\ main_pc[p] = "cancel_dispatch" /\ LockFree(p, t)
  /\ IF ~HasWorker(p, t) /\ Exists(t) /\ CanCancel(rows[t])
     THEN Authorized(p, t, "register_cancel")
     ELSE /\ Idle(p)
          /\ IF HasWorker(p, t) \/ ~Exists(t) THEN UNCHANGED rows ELSE SettleCancel(t)
  /\ UNCHANGED <<engineVars, workers, startable, recovery, bounds>>

\* The queue screen starts a thread for each deletion ...
Delete(p, t) ==
  /\ p \in Desktop
  /\ Exists(t) /\ deletion[p][t] = "none"
  /\ UserOp(p)
  /\ deletion' = [deletion EXCEPT ![p][t] = "requested"]
  /\ UNCHANGED <<storeVars, active_workers, active_claims, backoff, workers, mainVars>>

\* ... in which EngineCore.delete takes the lock and decides ...
DeleteCheck(p, t) ==
  LET allowed == Exists(t) /\ CanDelete(rows[t]) /\ ~HasWorker(p, t) IN
  /\ deletion[p][t] = "requested" /\ LockFree(p, t)
  /\ ~(main_pc[p] = "cancel_mark" /\ desc[focus[p]].book = desc[t].book)
  /\ deletion' = [deletion EXCEPT ![p][t] = IF allowed THEN "holding" ELSE "none"]
  /\ UNCHANGED <<storeVars, active_workers, active_claims, backoff, workers, mainVars, bounds>>

\* ... and removes the row once pre_delete has cleaned up at the provider.
DeleteCommit(p, t) ==
  /\ deletion[p][t] = "holding"
  /\ rows' = [rows EXCEPT ![t] = NewRow("deleted")]
  /\ deletion' = [deletion EXCEPT ![p][t] = "none"]
  /\ UNCHANGED <<active_workers, active_claims, backoff, workers, mainVars, bounds>>

-----------------------------------------------------------------------------
(* The autorun tick.                                                       *)

\* (mutant of Finished: a tick releases nothing)
FinishedNever(p) == {}

Finished(p) == {t \in Tasks : HasWorker(p, t) /\ ~isRunning(active_workers[p][t])}
ReleasedWorkers(p) == {active_workers[p][t] : t \in Finished(p)}

\* scan_autorunnable, with the workers and claims left after the cleanup
ScanAutorunnable(p) ==
  LET busy(t) == HasWorker(p, t) /\ t \notin Finished(p)
      claims  == UNION {active_claims[p][t] : t \in Tasks \ Finished(p)}
  IN {t \in Tasks : /\ Exists(t) /\ rows[t].status \notin TERMINAL_TASK_STATUSES
                    /\ desc[t].book \notin backoff[p]
                    /\ CanAutorun(desc[t], rows[t], busy(t), claims)}

\* cleanup_finished_workers and the scan.  The released QThread is destroyed,
\* and its queued finished() with it unless EventOutlivesWorker.
Tick(p) ==
  /\ main_pc[p] = "idle"
  /\ active_workers' = [active_workers EXCEPT ![p] =
       [t \in Tasks |-> IF t \in Finished(p) THEN NoWorker ELSE @[t]]]
  /\ active_claims' = [active_claims EXCEPT ![p] =
       [t \in Tasks |-> IF t \in Finished(p) THEN {} ELSE @[t]]]
  /\ workers' = [w \in Workers |-> IF w \in ReleasedWorkers(p) /\ ~EventOutlivesWorker
                                   THEN FreeWorker ELSE workers[w]]
  /\ startable' = [startable EXCEPT ![p] = ScanAutorunnable(p)]
  /\ IF ScanAutorunnable(p) # {} THEN Goto(p, "tick") ELSE UNCHANGED <<main_pc, focus>>
  /\ UNCHANGED <<storeVars, recovery, backoff, deletion, bounds>>

\* One round of tick's loop: a start that is denied is skipped, one that
\* validate_run rejects fails the task, any other fault suspends the book.
TickStart(p, t) ==
  LET left == startable[p] \ {t}
      goOn == IF left = {} THEN Idle(p) ELSE UNCHANGED <<main_pc, focus>> IN
  /\ main_pc[p] = "tick" /\ LockFree(p, t)
  /\ t \in startable[p]
  /\ startable' = [startable EXCEPT ![p] = left]
  /\ \/ RunAuthorized(p, t) /\ Authorized(p, t, "register_run") /\ UNCHANGED backoff
     \/ ~RunAuthorized(p, t) /\ goOn /\ UNCHANGED <<rows, backoff>>
     \/ /\ StartMayFail /\ goOn
        /\ \/ RunPermitted(p, t) /\ SetStatus(t, "failed") /\ UNCHANGED backoff
           \/ /\ RunAuthorized(p, t)
              /\ backoff' = [backoff EXCEPT ![p] = @ \cup {desc[t].book}] /\ UNCHANGED rows
  /\ UNCHANGED <<active_workers, active_claims, deletion, workers, recovery, bounds>>

\* 30 s later
BackoffExpires(p, b) ==
  /\ b \in backoff[p]
  /\ backoff' = [backoff EXCEPT ![p] = @ \ {b}]
  /\ UNCHANGED <<storeVars, active_workers, active_claims, deletion, workers, mainVars, bounds>>

\* _on_worker_finished, delivered by the event loop: it releases by task id,
\* whichever worker is registered for the task by then.
OnWorkerFinished(p, w) ==
  LET t == workers[w].task IN
  /\ main_pc[p] = "idle"
  /\ workers[w].pc = "ended" /\ workers[w].proc = p
  /\ active_workers' = [active_workers EXCEPT ![p][t] = NoWorker]
  /\ active_claims' = [active_claims EXCEPT ![p][t] = {}]
  /\ workers' = [workers EXCEPT ![w] = FreeWorker]
  /\ UNCHANGED <<storeVars, mainVars, backoff, deletion, bounds>>

-----------------------------------------------------------------------------
(* Start-up, shutdown and crashes.                                         *)

\* (mutants of NeedsRecovery and RecoveredStatus: rows left running are not
\* recovered; a row is given a status that no other part knows)
NeedsRecoveryIfCancelled(t) ==
  rows[t].status \in {"cancel_requested", "cancelling"} /\ ~CanAutorun(desc[t], rows[t], FALSE, {})
RecoveredStatusInterrupted(t) ==
  IF rows[t].status = "running" THEN "interrupted" ELSE "cancelled"

\* recover_interrupted_tasks: what becomes of a row left active
NeedsRecovery(t) ==
  /\ rows[t].status \in ACTIVE_STATUSES
  /\ ~CanAutorun(desc[t], rows[t], FALSE, {})
RecoveredStatus(t) ==
  IF rows[t].status \in {"cancel_requested", "cancelling"} THEN "cancelled"
  ELSE IF CanAutorun(desc[t], [rows[t] EXCEPT !.status = "queued"], FALSE, {})
  THEN "queued" ELSE "failed"

\* Every process recovers when it builds its engine: the rows are listed ...
Startup(p) ==
  LET stale == {[task |-> t, status |-> RecoveredStatus(t)] :
                  t \in {u \in Tasks : NeedsRecovery(u)}} IN
  /\ main_pc[p] = "down" /\ starts < MaxStarts
  /\ starts' = starts + 1
  /\ recovery' = [recovery EXCEPT ![p] = stale]
  /\ main_pc' = [main_pc EXCEPT ![p] = IF stale = {} THEN "idle" ELSE "recover"]
  /\ UNCHANGED <<storeVars, engineVars, workers, focus, startable, ops>>

\* ... and rewritten one by one.  A row deleted meanwhile raises KeyError out
\* of the start-up.
RecoverRow(p, r) ==
  LET left == recovery[p] \ {r} IN
  /\ main_pc[p] = "recover"
  /\ r \in recovery[p]
  /\ SetRow(r.task, r.status, FALSE)
  /\ IF Exists(r.task)
     THEN /\ recovery' = [recovery EXCEPT ![p] = left]
          /\ IF left = {} THEN Idle(p) ELSE UNCHANGED <<main_pc, focus>>
     ELSE recovery' = [recovery EXCEPT ![p] = {}] /\ Goto(p, "down")
  /\ UNCHANGED <<engineVars, workers, startable, bounds>>

\* The process is gone: its threads and its registrations with it.
Gone(p) ==
  /\ main_pc' = [main_pc EXCEPT ![p] = "down"]
  /\ focus' = [focus EXCEPT ![p] = AnyTask]
  /\ startable' = [startable EXCEPT ![p] = {}]
  /\ recovery' = [recovery EXCEPT ![p] = {}]
  /\ backoff' = [backoff EXCEPT ![p] = {}]
  /\ deletion' = [deletion EXCEPT ![p] = [t \in Tasks |-> "none"]]
  /\ active_workers' = [active_workers EXCEPT ![p] = [t \in Tasks |-> NoWorker]]
  /\ active_claims' = [active_claims EXCEPT ![p] = [t \in Tasks |-> {}]]
  /\ workers' = [w \in Workers |-> IF workers[w].pc # "free" /\ workers[w].proc = p
                                   THEN FreeWorker ELSE workers[w]]
  /\ UNCHANGED <<storeVars, bounds>>

\* A process stops only while a later start is within the bound.
Crash(p) == main_pc[p] # "down" /\ starts < MaxStarts /\ Gone(p)

\* TaskEngine.close interrupts every registered worker, waits at most 5 s ...
Close(p) ==
  /\ main_pc[p] = "idle" /\ starts < MaxStarts
  /\ Goto(p, "closing")
  /\ workers' = [w \in Workers |->
       IF \E t \in Tasks : active_workers[p][t] = w
       THEN [workers[w] EXCEPT !.interrupted = TRUE] ELSE workers[w]]
  /\ UNCHANGED <<storeVars, engineVars, startable, recovery, bounds>>

\* ... and the process exits, with whatever threads are left.
Exit(p) == main_pc[p] = "closing" /\ Gone(p)

-----------------------------------------------------------------------------
(* The worker threads.  A worker writes rows and nothing else.             *)

mainState == <<active_workers, active_claims, main_pc, focus, startable,
               recovery, backoff, deletion, starts, ops>>

WorkerAt(w, pc, action, batch) ==
  /\ workers[w].pc = pc
  /\ workers[w].action = action
  /\ Batch(workers[w].task) = batch
  /\ UNCHANGED mainState
Continue(w, pc) == workers' = [workers EXCEPT ![w].pc = pc]

\* BaseWorker.run, before anything else: an interruption leaves the row alone.
InterruptedAtStart(w) ==
  /\ workers[w].pc = "start" /\ workers[w].interrupted
  /\ ~Batch(workers[w].task) \/ workers[w].action = "cancel"
  /\ Continue(w, "ended")
  /\ UNCHANGED <<storeVars, mainState>>

(* The local workers: text, manga, chunk, glossary, ocr, reembedding.      *)

LocalStart(w) ==
  /\ WorkerAt(w, "start", "run", FALSE)
  /\ ~workers[w].interrupted
  /\ Continue(w, "checked")
  /\ UNCHANGED rows

\* (mutant of LocalRunning: a run starts with a clean cancel_requested)
LocalRunningAfresh(w) ==
  LET t == workers[w].task IN
  /\ WorkerAt(w, "checked", "run", FALSE)
  /\ SetRow(t, "running", FALSE)
  /\ Continue(w, IF Exists(t) THEN "working" ELSE "ended")

\* update(status="running") raises KeyError when the row is gone
LocalRunning(w) ==
  LET t == workers[w].task IN
  /\ WorkerAt(w, "checked", "run", FALSE)
  /\ SetStatus(t, "running")
  /\ Continue(w, IF Exists(t) THEN "working" ELSE "ended")

\* Completion and failure leave cancel_requested as it is.
LocalDone(w) ==
  LET t == workers[w].task IN
  /\ WorkerAt(w, "working", "run", FALSE)
  /\ \/ SetStatus(t, "completed")
     \/ SetStatus(t, "failed")
     \/ workers[w].interrupted /\ SetRow(t, "cancelled", FALSE)
  /\ Continue(w, "ended")

LocalCancel(w) ==
  /\ WorkerAt(w, "start", "cancel", FALSE)
  /\ ~workers[w].interrupted
  /\ SetRow(workers[w].task, "cancelled", FALSE)
  /\ Continue(w, "ended")

(* The batch worker, action run.                                           *)

DocsOverlap(t1, t2) ==
  /\ desc[t1].book = desc[t2].book
  /\ \/ desc[t1].docs = AllDocuments \/ desc[t2].docs = AllDocuments
     \/ desc[t1].docs \cap desc[t2].docs # {}

\* DocumentOperationTracker: the operation a batch run holds to its end
HoldsOperation(w) == workers[w].pc \in BatchPC /\ workers[w].action = "run"

BatchStart(w) ==
  LET blocked == \E v \in Workers : /\ HoldsOperation(v)
                                    /\ workers[v].proc = workers[w].proc
                                    /\ DocsOverlap(workers[v].task, workers[w].task) IN
  /\ WorkerAt(w, "start", "run", TRUE)
  /\ Continue(w, IF blocked THEN "ended" ELSE "guard")
  /\ UNCHANGED rows

\* has_any_batch_task_overlap: rows in any status reserve their documents.
ReservedByOther(t) ==
  \E u \in Tasks \ {t} : Exists(u) /\ Batch(u) /\ DocsOverlap(u, t)

BatchGuard(w) ==
  /\ WorkerAt(w, "guard", "run", TRUE)
  /\ Continue(w, IF ReservedByOther(workers[w].task) \/ workers[w].interrupted
                 THEN "ended" ELSE "entry")
  /\ UNCHANGED rows

\* The config snapshot cannot be restored, and no cancellation is pending.
BatchSnapshotFails(w) ==
  LET t == workers[w].task IN
  /\ WorkerAt(w, "entry", "run", TRUE)
  /\ StartMayFail
  /\ ~(Exists(t) /\ rows[t].cancel_requested)
  /\ SetStatus(t, "failed")
  /\ Continue(w, "ended")

\* BatchTranslationExecutor.run_task, up to its try block
BatchEntry(w) ==
  LET t == workers[w].task
      rerunnable == rows[t].status \in RERUNNABLE_TERMINAL_STATUSES IN
  /\ WorkerAt(w, "entry", "run", TRUE)
  /\ IF rerunnable THEN SetRow(t, "paused", FALSE) ELSE UNCHANGED rows
  /\ Continue(w, IF ~Exists(t) THEN "ended"
                 ELSE IF rows[t].status = "completed" THEN "post"
                 ELSE IF rows[t].cancel_requested /\ ~rerunnable THEN "cancel"
                 ELSE "run")

\* _persist(status=running): a missing row raises, here and in the handler
\* that would mark the task failed.
BatchRunning(w) ==
  LET t == workers[w].task IN
  /\ WorkerAt(w, "run", "run", TRUE)
  /\ SetStatus(t, "running")
  /\ Continue(w, IF Exists(t) THEN "polling" ELSE "ended")

\* persist_payload and persist_poll_progress, again and again
BatchProgress(w) ==
  LET t == workers[w].task IN
  /\ WorkerAt(w, "polling", "run", TRUE)
  /\ SetStatus(t, "running")
  /\ Continue(w, IF Exists(t) THEN "polling" ELSE "ended")

\* raise_if_local_pause, and the two handlers that catch what it raises
BatchPause(w) ==
  LET t == workers[w].task
      requested == Exists(t) /\ rows[t].cancel_requested IN
  /\ WorkerAt(w, "polling", "run", TRUE)
  /\ workers[w].interrupted \/ requested
  /\ IF requested THEN UNCHANGED rows ELSE SetStatus(t, "paused")
  /\ Continue(w, IF ~Exists(t) THEN "ended" ELSE IF requested THEN "cancel" ELSE "post")

\* A transient error pauses the task, any other fails it; nothing to
\* translate completes it.  None of them looks at cancel_requested.
BatchEnds(w) ==
  LET t == workers[w].task IN
  /\ WorkerAt(w, "polling", "run", TRUE)
  /\ \E s \in {"paused", "failed", "completed"} : SetStatus(t, s)
  /\ Continue(w, IF Exists(t) THEN "post" ELSE "ended")

\* The results are applied; the row is read once more, then written.
BatchFinish(w) ==
  LET t == workers[w].task IN
  /\ WorkerAt(w, "polling", "run", TRUE)
  /\ Continue(w, IF Exists(t) /\ rows[t].cancel_requested
                 THEN "finish_cancelled" ELSE "finish_completed")
  /\ UNCHANGED rows

BatchFinished(w) ==
  LET t == workers[w].task IN
  /\ \/ WorkerAt(w, "finish_cancelled", "run", TRUE) /\ SetStatus(t, "cancelled")
     \/ WorkerAt(w, "finish_completed", "run", TRUE) /\ SetStatus(t, "completed")
     \/ WorkerAt(w, "finish_completed", "run", TRUE) /\ SetStatus(t, "completed_with_errors")
  /\ Continue(w, IF Exists(t) THEN "post" ELSE "ended")

\* remote_submission_state is written once run_task has returned.
BatchPost(w) ==
  LET t == workers[w].task IN
  /\ WorkerAt(w, "post", "run", TRUE)
  /\ rows' = [rows EXCEPT ![t].remote = IF Exists(t) THEN TRUE ELSE @]
  /\ Continue(w, "ended")

(* request_cancel, from a batch run or from the batch cancel worker.       *)

\* Neither the config snapshot nor the live config may be usable.
BatchCancelStart(w) ==
  /\ WorkerAt(w, "start", "cancel", TRUE)
  /\ ~workers[w].interrupted
  /\ \/ Continue(w, "cancel")
     \/ StartMayFail /\ Continue(w, "ended")
  /\ UNCHANGED rows

AfterCancel(w) == IF workers[w].action = "run" THEN "post" ELSE "ended"

\* A terminal task is left alone; any other is marked, then cancelling.
RequestCancel(w) ==
  LET t == workers[w].task
      settled == rows[t].status \in TERMINAL_TASK_STATUSES IN
  /\ workers[w].pc = "cancel"
  /\ UNCHANGED mainState
  /\ IF settled THEN UNCHANGED rows ELSE SetRow(t, "cancelling", TRUE)
  /\ Continue(w, IF ~Exists(t) THEN "ended" ELSE IF settled THEN AfterCancel(w) ELSE "confirm")

\* The provider has no active batch left: cancelled; cancel_requested stays.
CancelConfirmed(w) ==
  LET t == workers[w].task IN
  /\ workers[w].pc = "confirm"
  /\ UNCHANGED mainState
  /\ SetStatus(t, "cancelled")
  /\ Continue(w, IF Exists(t) THEN AfterCancel(w) ELSE "ended")

\* A batch is still active, or its state could not be read.
CancelUnconfirmed(w) ==
  LET t == workers[w].task IN
  /\ workers[w].pc = "confirm"
  /\ UNCHANGED mainState
  /\ SetStatus(t, "cancelling")
  /\ Continue(w, IF Exists(t) THEN AfterCancel(w) ELSE "ended")

-----------------------------------------------------------------------------
(* The specification.                                                      *)

UserStep(p) ==
  \E t \in Tasks : Submit(p, t) \/ QueueRun(p, t) \/ Cancel(p, t) \/ Delete(p, t)

\* What the main thread does on its own once it is up
EngineStep(p) ==
  \/ StrictStart(p)
  \/ CancelCheck(p) \/ CancelMark(p) \/ CancelDispatch(p)
  \/ \E w \in Workers : RegisterRun(p, w) \/ RegisterCancel(p, w)
  \/ \E t \in Tasks : TickStart(p, t)
  \/ \E r \in recovery[p] : RecoverRow(p, r)

DeletionStep(p) == \E t \in Tasks : DeleteCheck(p, t) \/ DeleteCommit(p, t)

Lifecycle(p) == Startup(p) \/ Crash(p) \/ Close(p) \/ Exit(p)

LocalStep(w) == LocalStart(w) \/ LocalRunning(w) \/ LocalDone(w) \/ LocalCancel(w)
BatchStep(w) ==
  \/ BatchStart(w) \/ BatchGuard(w) \/ BatchSnapshotFails(w) \/ BatchEntry(w)
  \/ BatchRunning(w) \/ BatchProgress(w) \/ BatchPause(w) \/ BatchEnds(w)
  \/ BatchFinish(w) \/ BatchFinished(w) \/ BatchPost(w)
  \/ BatchCancelStart(w) \/ RequestCancel(w)
  \/ CancelConfirmed(w) \/ CancelUnconfirmed(w)
WorkerStep(w) == InterruptedAtStart(w) \/ LocalStep(w) \/ BatchStep(w)

Next ==
  \/ \E p \in Procs :
       \/ UserStep(p) \/ EngineStep(p) \/ DeletionStep(p) \/ Tick(p) \/ Lifecycle(p)
       \/ \E b \in Books : BackoffExpires(p, b)
       \/ \E w \in Workers : OnWorkerFinished(p, w)
  \/ \E w \in Workers : WorkerStep(w)

Spec == Init /\ [][Next]_vars

\* The bounded process runs: ticks come every 3 s, threads are scheduled, an
\* LLM call returns or times out, a closed application is started again, and
\* a provider asked often enough about a cancelled batch reports it inactive.
Fairness ==
  /\ \A p \in Procs :
       /\ WF_vars(Startup(p)) /\ WF_vars(Exit(p))
       /\ WF_vars(EngineStep(p)) /\ WF_vars(DeletionStep(p)) /\ WF_vars(Tick(p))
       /\ \A b \in Books : WF_vars(BackoffExpires(p, b))
  /\ \A w \in Workers :
       /\ WF_vars(InterruptedAtStart(w) \/ LocalStep(w))
       /\ WF_vars(BatchStep(w) /\ ~BatchProgress(w))
       /\ SF_vars(CancelConfirmed(w))

FairSpec == Spec /\ Fairness

-----------------------------------------------------------------------------
(* Properties.                                                             *)

\* Rows, registrations and threads keep their shape: a registered claim set
\* is one that HandlerClaims produced, and a registration names a QThread.
TypeOK ==
  /\ rows \in [Tasks -> Row]
  /\ active_workers \in [Procs -> [Tasks -> Workers \cup {NoWorker}]]
  /\ active_claims \in [Procs -> [Tasks -> {{}} \cup {HandlerClaims(desc[t]) : t \in Tasks}]]
  /\ workers \in [Workers -> Worker]
  /\ main_pc \in [Procs -> MainPC]
  /\ focus \in [Procs -> Tasks]
  /\ startable \in [Procs -> SUBSET Tasks]
  /\ recovery \in [Procs -> SUBSET [task : Tasks, status : Status]]
  /\ backoff \in [Procs -> SUBSET Books]
  /\ deletion \in [Procs -> [Tasks -> DeletionPC]]
  /\ starts \in Nat /\ ops \in Nat

\* The claims registered in a process never conflict with one another, under
\* any interleaving of submits, ticks, cancellations and finished events
\* (authorize_start's check against every active claim).
ClaimsCompatible ==
  \A p \in Procs : \A t, u \in Tasks :
    t # u => ~Conflicts(active_claims[p][t], active_claims[p][u])

\* What that check is for: two threads of a process that are really running
\* tasks work on different tasks, under claims that do not conflict.  It
\* needs registrations to outlive threads: no release path (finished event,
\* tick cleanup) may drop the claims of a thread that still runs.
LiveWorkersCompatible ==
  \A v, w \in Workers :
    (v # w /\ Running(v, "run") /\ Running(w, "run") /\ workers[v].proc = workers[w].proc) =>
      LET t == workers[v].task
          u == workers[w].task
      IN t # u /\ ~Conflicts(HandlerClaims(desc[t]), HandlerClaims(desc[u]))

\* A local task shown as running is being worked on by a thread of a process
\* that is up: recovery and the workers' last writes leave no row behind.
\* (A batch row may stay "running" until the tick after a restart.)
RunningHasWorker ==
  \A t \in Tasks :
    (rows[t].status = "running" /\ ~Batch(t) /\ \A p \in Procs : main_pc[p] \notin {"down", "recover"}) =>
      \E w \in Workers : Running(w, "run") /\ workers[w].task = t

\* While a thread works on a task its row stays active, so that the task can
\* not be rerun or run a second time under it: preflight keeps every user
\* operation away from a task that holds claims against itself.  A glossary
\* export only reads, holds no such claim, and is excepted; a row can be gone,
\* as a deletion may pass between the authorization of a start and its thread.
WorkingRowIsActive ==
  \A w \in Workers :
    LET t == workers[w].task
        selfExclusive == Conflicts(HandlerClaims(desc[t]), HandlerClaims(desc[t]))
    IN workers[w].pc \in {"working", "polling"} /\ selfExclusive =>
         rows[t].status \in ACTIVE_STATUSES \cup {"deleted"}

\* Neither is a row shown at work without a thread, nor a thread at work on a row that
\* could be taken up again.
RowsTellTheWork == RunningHasWorker /\ WorkingRowIsActive

\* A cancellation asked for is not forgotten: cancel_requested is only reset
\* by a step that leaves the task cancelled, by the user's rerun of a task
\* that had ended, by its deletion, or by the recovery of a dead worker's row.
CancelIsNotForgotten ==
  [][\A t \in Tasks :
       (rows[t].cancel_requested /\ ~rows'[t].cancel_requested) =>
         \/ rows'[t].status \in {"cancelled", "deleted"}
         \/ rows[t].status \in TERMINAL_TASK_STATUSES /\ rows'[t].status = "queued"
         \/ \E p \in Procs : main_pc[p] = "recover"]_vars

\* The engine implements the lock manager with the threads it really runs.
AtWork == {t \in Tasks : \E w \in Workers : Running(w, "run") /\ workers[w].task = t}
Locks == INSTANCE ClaimLocks WITH
  claimsOf <- [t \in Tasks |-> HandlerClaims(desc[t])], holding <- AtWork
ImplementsClaimLocks == Locks!Spec

\* A batch task whose cancellation was requested ends, or is deleted: across
\* restarts, lost interruptions and unconfirmed provider cancellations.  (The
\* status alone is not a request: a cancel worker that is late writes it over
\* the user's rerun, and the task goes on.)
CancelSettles ==
  \A t \in Tasks :
    (Batch(t) /\ rows[t].cancel_requested /\ rows[t].status \in {"cancel_requested", "cancelling"}) ~>
      rows[t].status \in TERMINAL_TASK_STATUSES \cup {"deleted"}

\* A queued task of a type that ticks start does not stay queued, unless a
\* batch task pauses again and again: being the last one updated, it is the
\* first in every tick's list.
QueuedIsTaken ==
  \/ \A t \in Tasks :
       (rows[t].status = "queued" /\ desc[t].type \notin InteractiveTypes) ~> rows[t].status # "queued"
  \/ \E u \in Tasks : []<>(rows[u].status = "paused")

\* A batch row left "running" by a dead process gets a thread again, or ends.
RunningResumes ==
  \A t \in Tasks :
    (Batch(t) /\ rows[t].status = "running") ~>
      \/ rows[t].status # "running"
      \/ \E w \in Workers : Running(w, "run") /\ workers[w].task = t
=============================================================================
