-------------------------- MODULE TaskEngineProofs --------------------------
(***************************************************************************)
(* What TLAPS proves of TaskEngine for any tasks, processes and threads,   *)
(* and of the claims of the handlers for any documents.                    *)
(***************************************************************************)
EXTENDS TaskEngine, MCTaskAccess, TLAPS

-----------------------------------------------------------------------------
(* Conflicts between claim sets.                                           *)

\* Which of two sets is wanted and which is held makes no difference to
\* ClaimArbiter.conflicts.
LEMMA ConflictsSymmetric ==
  ASSUME NEW A, NEW B
  PROVE  Conflicts(A, B) <=> Conflicts(B, A)
BY DEF Conflicts, ClaimsClash, ModesConflict

\* A set compatible with all that is held is compatible with each part of it.
LEMMA CompatibleWithEach ==
  ASSUME NEW p \in Procs, NEW t \in Tasks, NEW A, ~Conflicts(A, AllActive(p))
  PROVE  ~Conflicts(A, active_claims[p][t])
BY DEF Conflicts, AllActive

\* Nothing conflicts with an empty set of claims.
LEMMA EmptyNeverConflicts ==
  ASSUME NEW A
  PROVE  ~Conflicts({}, A) /\ ~Conflicts(A, {})
BY DEF Conflicts

-----------------------------------------------------------------------------
(* Type correctness.                                                       *)

\* The values Init and the resets use have the types TypeOK gives their places.
LEMMA ConstantsTyped ==
  /\ AnyTask \in Tasks
  /\ FreeWorker \in Worker
  /\ \A s \in Status : NewRow(s) \in Row
  /\ NewRow("unborn") \in Row /\ NewRow("deleted") \in Row
<1>1. AnyTask \in Tasks
  BY TasksAssumption DEF AnyTask
<1>2. (CHOOSE p \in Procs : TRUE) \in Procs
  BY ProcsAssumption
<1>. QED
  BY <1>1, <1>2 DEF FreeWorker, Worker, WorkerPC, NewRow, Row

\* The store's updates keep the table well formed.
LEMMA StoreTyped ==
  ASSUME rows \in [Tasks -> Row], NEW t \in Tasks, NEW s \in Status, NEW flag \in BOOLEAN
  PROVE  /\ SetStatus(t, s) => rows' \in [Tasks -> Row]
         /\ SetRow(t, s, flag) => rows' \in [Tasks -> Row]
<1>1. /\ [rows[t] EXCEPT !.status = s] \in Row
      /\ [rows[t] EXCEPT !.status = s, !.cancel_requested = flag] \in Row
  BY DEF Row
<1>2. SetRow(t, s, flag) => rows' \in [Tasks -> Row]
  BY <1>1 DEF SetRow
<1>3. SetStatus(t, s) => rows' \in [Tasks -> Row]
  <2>1. CASE Exists(t)
    BY <1>1, <2>1 DEF SetStatus
  <2>2. CASE ~Exists(t)
    BY <2>2 DEF SetStatus, Row
  <2>. QED  BY <2>1, <2>2
<1>. QED  BY <1>2, <1>3

\* So do the updates of the threads' records.
LEMMA ThreadsTyped ==
  ASSUME NEW f \in [Workers -> Worker], NEW pc \in WorkerPC
  PROVE  /\ \A w \in Workers : [f EXCEPT ![w].pc = pc] \in [Workers -> Worker]
         /\ \A w \in Workers : [f EXCEPT ![w].interrupted = TRUE] \in [Workers -> Worker]
         /\ \A w \in Workers : [f[w] EXCEPT !.interrupted = TRUE] \in Worker
<1>1. ASSUME NEW x \in Worker
      PROVE [x EXCEPT !.pc = pc] \in Worker /\ [x EXCEPT !.interrupted = TRUE] \in Worker
  BY <1>1 DEF Worker
<1>. QED  BY <1>1

\* What a worker thread's step can change: its own program counter, which
\* leaves neither "free" nor "ended" and never becomes "free", and the rows.
LEMMA WorkerStepShape ==
  ASSUME TypeOK, NEW w \in Workers, WorkerStep(w)
  PROVE  /\ UNCHANGED mainState
         /\ workers[w].pc \notin {"free", "ended"}
         /\ \E pc \in WorkerPC \ {"free"} : workers' = [workers EXCEPT ![w].pc = pc]
         /\ rows' \in [Tasks -> Row]
<1>. DEFINE t == workers[w].task
<1>0. /\ rows \in [Tasks -> Row] /\ t \in Tasks
      /\ \A s \in {"running", "completed", "failed", "cancelled", "paused", "cancelling",
                   "completed_with_errors"} : s \in Status
  BY DEF TypeOK, Worker, Status, TERMINAL_TASK_STATUSES, ACTIVE_STATUSES
<1>1. CASE InterruptedAtStart(w)
  BY <1>0, <1>1 DEF InterruptedAtStart, Continue, WorkerPC, storeVars, mainState
<1>2. CASE LocalStep(w)
  <2>1. CASE LocalStart(w)
    BY <1>0, <2>1 DEF LocalStart, WorkerAt, Continue, WorkerPC, LocalPC, mainState
  <2>2. CASE LocalRunning(w)
    BY <1>0, <2>2, StoreTyped DEF LocalRunning, WorkerAt, Continue, WorkerPC, LocalPC, mainState
  <2>3. CASE LocalDone(w)
    BY <1>0, <2>3, StoreTyped DEF LocalDone, WorkerAt, Continue, WorkerPC, mainState
  <2>4. CASE LocalCancel(w)
    BY <1>0, <2>4, StoreTyped DEF LocalCancel, WorkerAt, Continue, WorkerPC, mainState
  <2>. QED  BY <1>2, <2>1, <2>2, <2>3, <2>4 DEF LocalStep
<1>3. CASE BatchStep(w)
  <2>1. CASE BatchStart(w)
    BY <1>0, <2>1 DEF BatchStart, WorkerAt, Continue, WorkerPC, BatchPC, mainState
  <2>2. CASE BatchGuard(w)
    BY <1>0, <2>2 DEF BatchGuard, WorkerAt, Continue, WorkerPC, BatchPC, mainState
  <2>3. CASE BatchSnapshotFails(w)
    BY <1>0, <2>3, StoreTyped DEF BatchSnapshotFails, WorkerAt, Continue, WorkerPC, mainState
  <2>4. CASE BatchEntry(w)
    BY <1>0, <2>4, StoreTyped DEF BatchEntry, WorkerAt, Continue, WorkerPC, BatchPC, mainState
  <2>5. CASE BatchRunning(w)
    BY <1>0, <2>5, StoreTyped DEF BatchRunning, WorkerAt, Continue, WorkerPC, BatchPC, mainState
  <2>6. CASE BatchProgress(w)
    BY <1>0, <2>6, StoreTyped DEF BatchProgress, WorkerAt, Continue, WorkerPC, BatchPC, mainState
  <2>7. CASE BatchPause(w)
    BY <1>0, <2>7, StoreTyped DEF BatchPause, WorkerAt, Continue, WorkerPC, BatchPC, mainState
  <2>8. CASE BatchEnds(w)
    BY <1>0, <2>8, StoreTyped DEF BatchEnds, WorkerAt, Continue, WorkerPC, BatchPC, mainState
  <2>9. CASE BatchFinish(w)
    BY <1>0, <2>9 DEF BatchFinish, WorkerAt, Continue, WorkerPC, BatchPC, mainState
  <2>10. CASE BatchFinished(w)
    BY <1>0, <2>10, StoreTyped DEF BatchFinished, WorkerAt, Continue, WorkerPC, BatchPC, mainState
  <2>11. CASE BatchPost(w)
    <3>1. rows' \in [Tasks -> Row]
      BY ZenonT(30), <1>0, <2>11 DEF BatchPost, Row
    <3>. QED  BY <1>0, <2>11, <3>1 DEF BatchPost, WorkerAt, Continue, WorkerPC, mainState
  <2>12. CASE BatchCancelStart(w)
    BY <1>0, <2>12 DEF BatchCancelStart, WorkerAt, Continue, WorkerPC, BatchPC, mainState
  <2>13. CASE RequestCancel(w)
    BY <1>0, <2>13, StoreTyped DEF RequestCancel, AfterCancel, Continue, WorkerPC, BatchPC, mainState
  <2>14. CASE CancelConfirmed(w)
    BY <1>0, <2>14, StoreTyped DEF CancelConfirmed, AfterCancel, Continue, WorkerPC, BatchPC, mainState
  <2>15. CASE CancelUnconfirmed(w)
    BY <1>0, <2>15, StoreTyped DEF CancelUnconfirmed, AfterCancel, Continue, WorkerPC, BatchPC, mainState
  <2>. QED
    BY <1>3, <2>1, <2>2, <2>3, <2>4, <2>5, <2>6, <2>7, <2>8, <2>9, <2>10, <2>11,
       <2>12, <2>13, <2>14, <2>15 DEF BatchStep
<1>. QED  BY <1>1, <1>2, <1>3 DEF WorkerStep

\* RecoveredStatus always names a status.
LEMMA RecoveredStatusTyped ==
  ASSUME NEW t \in Tasks
  PROVE  RecoveredStatus(t) \in Status
BY DEF RecoveredStatus, Status, TERMINAL_TASK_STATUSES

\* The main thread's moves keep its program counter and focus well formed.
LEMMA MainMoves ==
  ASSUME TypeOK, NEW p \in Procs, NEW t \in Tasks, NEW pc \in MainPC
  PROVE  /\ Operation(p, t, pc) \/ Authorized(p, t, pc) \/ Idle(p) \/ Goto(p, pc)
              \/ UNCHANGED <<main_pc, focus>>
            => main_pc' \in [Procs -> MainPC] /\ focus' \in [Procs -> Tasks]
         /\ UserOp(p) => ops' \in Nat /\ starts' \in Nat
<1>. USE DEF TypeOK
<1>1. "idle" \in MainPC /\ AnyTask \in Tasks
  BY ConstantsTyped DEF MainPC
<1>2. CASE Operation(p, t, pc)
  BY <1>2 DEF Operation, UserOp
<1>3. CASE Authorized(p, t, pc)
  BY <1>3 DEF Authorized, UserOp
<1>4. CASE Idle(p)
  BY <1>1, <1>4 DEF Idle, UserOp
<1>5. CASE Goto(p, pc)
  BY <1>5 DEF Goto, UserOp
<1>6. UserOp(p) => ops' \in Nat /\ starts' \in Nat
  BY DEF UserOp
<1>. QED  BY <1>2, <1>3, <1>4, <1>5, <1>6

\* A library without tasks or processes is well formed.
LEMMA InitTyped == Init => TypeOK
BY ConstantsTyped DEF Init, TypeOK, MainPC, DeletionPC

\* Every action keeps TypeOK, one step for each.
LEMMA StepTyped == TypeOK /\ [Next]_vars => TypeOK'
<1>. SUFFICES ASSUME TypeOK, [Next]_vars PROVE TypeOK'
  OBVIOUS
<1>0. /\ AnyTask \in Tasks /\ FreeWorker \in Worker
      /\ {"queued", "failed", "cancelling", "cancelled", "cancel_requested"} \subseteq Status
      /\ NewRow("queued") \in Row /\ NewRow("deleted") \in Row
  BY ConstantsTyped DEF Status, TERMINAL_TASK_STATUSES, ACTIVE_STATUSES
<1>1. CASE UNCHANGED vars
  BY <1>1 DEF TypeOK, vars
<1>2. ASSUME NEW w \in Workers, WorkerStep(w) PROVE TypeOK'
  <2>1. PICK pc \in WorkerPC \ {"free"} : workers' = [workers EXCEPT ![w].pc = pc]
    BY <1>2, WorkerStepShape
  <2>2. workers' \in [Workers -> Worker]
    BY <2>1, ThreadsTyped DEF TypeOK
  <2>. QED  BY <1>2, <2>2, WorkerStepShape DEF TypeOK, mainState
<1>3. ASSUME NEW p \in Procs, UserStep(p) PROVE TypeOK'
  <2>. PICK t \in Tasks : Submit(p, t) \/ QueueRun(p, t) \/ Cancel(p, t) \/ Delete(p, t)
    BY <1>3 DEF UserStep
  <2>0. "strict_start" \in MainPC /\ "cancel_check" \in MainPC
    BY DEF MainPC
  <2>1. CASE Submit(p, t)
    <3>1. Operation(p, t, "strict_start") /\ UNCHANGED <<active_workers, active_claims, workers>>
      BY <2>1 DEF Submit
    <3>2. rows' \in [Tasks -> Row]
      BY <1>0, <2>1 DEF Submit, TypeOK
    <3>3. /\ main_pc' \in [Procs -> MainPC] /\ focus' \in [Procs -> Tasks]
          /\ ops' \in Nat /\ starts' \in Nat
      BY <2>0, <3>1, MainMoves DEF Operation
    <3>. QED  BY <3>1, <3>2, <3>3 DEF TypeOK, Operation
  <2>2. CASE QueueRun(p, t)
    <3>1. Operation(p, t, "strict_start") /\ UNCHANGED <<active_workers, active_claims, workers>>
      BY <2>2 DEF QueueRun
    <3>2. rows' \in [Tasks -> Row]
      BY <1>0, <2>2, StoreTyped DEF QueueRun, TypeOK
    <3>3. /\ main_pc' \in [Procs -> MainPC] /\ focus' \in [Procs -> Tasks]
          /\ ops' \in Nat /\ starts' \in Nat
      BY <2>0, <3>1, MainMoves DEF Operation
    <3>. QED  BY <3>1, <3>2, <3>3 DEF TypeOK, Operation
  <2>3. CASE Cancel(p, t)
    <3>1. /\ Operation(p, t, "cancel_check")
          /\ UNCHANGED <<rows, active_workers, active_claims, workers>>
      BY <2>3 DEF Cancel, storeVars
    <3>2. /\ main_pc' \in [Procs -> MainPC] /\ focus' \in [Procs -> Tasks]
          /\ ops' \in Nat /\ starts' \in Nat
      BY <2>0, <3>1, MainMoves DEF Operation
    <3>. QED  BY <3>1, <3>2 DEF TypeOK, Operation
  <2>4. CASE Delete(p, t)
    <3>1. /\ UserOp(p)
          /\ deletion' = [deletion EXCEPT ![p][t] = "requested"]
          /\ UNCHANGED <<rows, active_workers, active_claims, backoff, workers,
                         main_pc, focus, startable, recovery>>
      BY <2>4 DEF Delete, storeVars, mainVars
    <3>2. ops' \in Nat /\ starts' \in Nat
      BY <2>0, <3>1, MainMoves
    <3>3. deletion' \in [Procs -> [Tasks -> DeletionPC]]
      BY <3>1 DEF TypeOK, DeletionPC
    <3>. QED  BY <3>1, <3>2, <3>3 DEF TypeOK
  <2>. QED  BY <2>1, <2>2, <2>3, <2>4
<1>4. ASSUME NEW p \in Procs, EngineStep(p) PROVE TypeOK'
  <2>0. /\ {"register_run", "cancel_mark", "cancel_dispatch", "register_cancel", "down"} \subseteq MainPC
        /\ focus[p] \in Tasks
    BY DEF TypeOK, MainPC
  <2>1. CASE StrictStart(p)
    <3>1. rows' \in [Tasks -> Row]
      BY <1>0, <2>0, <2>1, StoreTyped DEF StrictStart, Authorized, TypeOK
    <3>2. Authorized(p, focus[p], "register_run") \/ Idle(p)
      BY <2>1 DEF StrictStart
    <3>3. main_pc' \in [Procs -> MainPC] /\ focus' \in [Procs -> Tasks]
      BY <2>0, <3>2, MainMoves
    <3>4. UNCHANGED <<engineVars, workers, startable, recovery, bounds>>
      BY <2>1 DEF StrictStart
    <3>. QED  BY <3>1, <3>3, <3>4 DEF TypeOK, engineVars, bounds
  <2>2. CASE CancelCheck(p)
    <3>1. Goto(p, "cancel_mark") \/ Goto(p, "cancel_dispatch") \/ Idle(p)
      BY <2>2 DEF CancelCheck
    <3>2. main_pc' \in [Procs -> MainPC] /\ focus' \in [Procs -> Tasks]
      BY <2>0, <3>1, MainMoves
    <3>3. UNCHANGED <<storeVars, engineVars, workers, startable, recovery, bounds>>
      BY <2>2 DEF CancelCheck
    <3>. QED  BY <3>2, <3>3 DEF TypeOK, storeVars, engineVars, bounds
  <2>3. CASE CancelMark(p)
    <3>1. rows' \in [Tasks -> Row]
      BY <1>0, <2>0, <2>3, StoreTyped DEF CancelMark, TypeOK
    <3>2. workers' \in [Workers -> Worker]
      <4>. DEFINE v == active_workers[p][focus[p]]
      <4>1. v \in Workers \cup {NoWorker}
        BY <2>0 DEF TypeOK
      <4>2. /\ HasWorker(p, focus[p]) => workers' = [workers EXCEPT ![v].interrupted = TRUE]
            /\ ~HasWorker(p, focus[p]) => UNCHANGED workers
        BY <2>3, Zenon DEF CancelMark
      <4>3. workers \in [Workers -> Worker] /\ "free" \in WorkerPC
        BY DEF TypeOK, WorkerPC
      <4>4. \A w \in Workers : [workers EXCEPT ![w].interrupted = TRUE] \in [Workers -> Worker]
        BY <4>3, ThreadsTyped
      <4>. QED  BY <4>1, <4>2, <4>3, <4>4 DEF HasWorker
    <3>3. Goto(p, "cancel_dispatch") \/ Idle(p)
      BY <2>3 DEF CancelMark
    <3>4. main_pc' \in [Procs -> MainPC] /\ focus' \in [Procs -> Tasks]
      BY <2>0, <3>3, MainMoves
    <3>5. UNCHANGED <<engineVars, startable, recovery, bounds>>
      BY <2>3 DEF CancelMark
    <3>. QED  BY <3>1, <3>2, <3>4, <3>5 DEF TypeOK, engineVars, bounds
  <2>4. CASE CancelDispatch(p)
    <3>1. rows' \in [Tasks -> Row]
      BY <1>0, <2>0, <2>4, StoreTyped DEF CancelDispatch, Authorized, SettleCancel, TypeOK
    <3>2. Authorized(p, focus[p], "register_cancel") \/ Idle(p)
      BY <2>4 DEF CancelDispatch
    <3>3. main_pc' \in [Procs -> MainPC] /\ focus' \in [Procs -> Tasks]
      BY <2>0, <3>2, MainMoves
    <3>4. UNCHANGED <<engineVars, workers, startable, recovery, bounds>>
      BY <2>4 DEF CancelDispatch
    <3>. QED  BY <3>1, <3>3, <3>4 DEF TypeOK, engineVars, bounds
  <2>5. ASSUME NEW w \in Workers, RegisterRun(p, w) \/ RegisterCancel(p, w) PROVE TypeOK'
    <3>. DEFINE ClaimSets == {{}} \cup {HandlerClaims(desc[t]) : t \in Tasks}
    <3>1. PICK action \in {"run", "cancel"}, claims \in ClaimSets : Register(p, w, action, claims)
      BY <2>0, <2>5 DEF RegisterRun, RegisterCancel
    <3>2. workers' \in [Workers -> Worker]
      BY <2>0, <3>1 DEF Register, TypeOK, Worker, WorkerPC
    <3>3. active_workers' \in [Procs -> [Tasks -> Workers \cup {NoWorker}]]
      BY <2>0, <3>1 DEF Register, TypeOK
    <3>4. active_claims' \in [Procs -> [Tasks -> ClaimSets]]
      BY <2>0, <3>1 DEF Register, TypeOK
    <3>5. main_pc' \in [Procs -> MainPC] /\ focus' \in [Procs -> Tasks]
      BY <1>0, <3>1 DEF Register, TypeOK, MainPC
    <3>6. UNCHANGED <<storeVars, startable, recovery, backoff, deletion, bounds>>
      BY <3>1 DEF Register
    <3>. QED  BY <3>2, <3>3, <3>4, <3>5, <3>6 DEF TypeOK, storeVars, bounds
  <2>6. ASSUME NEW t \in Tasks, TickStart(p, t) PROVE TypeOK'
    <3>1. rows' \in [Tasks -> Row]
      BY <1>0, <2>6, StoreTyped DEF TickStart, Authorized, TypeOK
    <3>2. backoff' \in [Procs -> SUBSET Books]
      <4>1. desc[t].book \in Books
        BY DescAssumption
      <4>2. \/ UNCHANGED backoff
            \/ backoff' = [backoff EXCEPT ![p] = @ \cup {desc[t].book}]
        BY <2>6 DEF TickStart
      <4>3. backoff \in [Procs -> SUBSET Books]
        BY DEF TypeOK
      <4>. QED  BY <4>1, <4>2, <4>3
    <3>3. Authorized(p, t, "register_run") \/ Idle(p) \/ UNCHANGED <<main_pc, focus>>
      BY <2>6 DEF TickStart
    <3>4. main_pc' \in [Procs -> MainPC] /\ focus' \in [Procs -> Tasks]
      BY <2>0, <3>3, MainMoves
    <3>5. startable' \in [Procs -> SUBSET Tasks]
      BY <2>6 DEF TickStart, TypeOK
    <3>6. UNCHANGED <<active_workers, active_claims, deletion, workers, recovery, bounds>>
      BY <2>6 DEF TickStart
    <3>. QED  BY <3>1, <3>2, <3>4, <3>5, <3>6 DEF TypeOK, bounds
  <2>7. ASSUME NEW r \in recovery[p], RecoverRow(p, r) PROVE TypeOK'
    <3>1. r.task \in Tasks /\ r.status \in Status
      BY DEF TypeOK
    <3>2. rows' \in [Tasks -> Row]
      BY <2>7, <3>1, StoreTyped DEF RecoverRow, TypeOK
    <3>3. Idle(p) \/ Goto(p, "down") \/ UNCHANGED <<main_pc, focus>>
      BY <2>7 DEF RecoverRow
    <3>4. main_pc' \in [Procs -> MainPC] /\ focus' \in [Procs -> Tasks]
      BY <2>0, <3>3, MainMoves
    <3>5. recovery' \in [Procs -> SUBSET [task : Tasks, status : Status]]
      <4>1. \/ recovery' = [recovery EXCEPT ![p] = recovery[p] \ {r}]
            \/ recovery' = [recovery EXCEPT ![p] = {}]
        BY <2>7 DEF RecoverRow
      <4>2. recovery \in [Procs -> SUBSET [task : Tasks, status : Status]]
        BY DEF TypeOK
      <4>. QED  BY <4>1, <4>2
    <3>6. UNCHANGED <<engineVars, workers, startable, bounds>>
      BY <2>7 DEF RecoverRow
    <3>. QED  BY <3>2, <3>4, <3>5, <3>6 DEF TypeOK, engineVars, bounds
  <2>. QED  BY <1>4, <2>1, <2>2, <2>3, <2>4, <2>5, <2>6, <2>7 DEF EngineStep
<1>5. ASSUME NEW p \in Procs, DeletionStep(p) PROVE TypeOK'
  <2>. PICK t \in Tasks : DeleteCheck(p, t) \/ DeleteCommit(p, t)
    BY <1>5 DEF DeletionStep
  <2>1. CASE DeleteCheck(p, t)
    BY <2>1 DEF DeleteCheck, TypeOK, DeletionPC, storeVars, mainVars, bounds
  <2>2. CASE DeleteCommit(p, t)
    BY <1>0, <2>2 DEF DeleteCommit, TypeOK, DeletionPC, mainVars, bounds
  <2>. QED  BY <2>1, <2>2
<1>6. ASSUME NEW p \in Procs, Tick(p) PROVE TypeOK'
  <2>1. workers' \in [Workers -> Worker]
    BY <1>0, <1>6 DEF Tick, TypeOK
  <2>2. ScanAutorunnable(p) \in SUBSET Tasks
    BY DEF ScanAutorunnable
  <2>3. /\ active_workers' \in [Procs -> [Tasks -> Workers \cup {NoWorker}]]
        /\ active_claims' \in [Procs -> [Tasks -> {{}} \cup {HandlerClaims(desc[t]) : t \in Tasks}]]
    BY <1>6 DEF Tick, TypeOK
  <2>. QED  BY ZenonT(40), <1>0, <1>6, <2>1, <2>2, <2>3 DEF Tick, TypeOK, Goto, MainPC, storeVars, bounds
<1>7. ASSUME NEW p \in Procs, Lifecycle(p) PROVE TypeOK'
  <2>1. CASE Startup(p)
    <3>1. recovery' \in [Procs -> SUBSET [task : Tasks, status : Status]]
      BY <2>1, RecoveredStatusTyped DEF Startup, TypeOK
    <3>. QED  BY SMTT(30), <2>1, <3>1 DEF Startup, TypeOK, MainPC, storeVars, engineVars
  <2>2. CASE Gone(p)
    <3>1. workers' \in [Workers -> Worker]
      BY <1>0, <2>2 DEF Gone, TypeOK
    <3>. QED  BY <1>0, <2>2, <3>1 DEF Gone, TypeOK, MainPC, DeletionPC, storeVars, bounds
  <2>3. CASE Close(p)
    <3>1. workers' \in [Workers -> Worker]
      <4>1. \A w \in Workers : [workers[w] EXCEPT !.interrupted = TRUE] \in Worker
        BY ThreadsTyped DEF TypeOK, WorkerPC
      <4>. QED  BY <2>3, <4>1 DEF Close, TypeOK
    <3>. QED  BY <2>3, <3>1 DEF Close, Goto, TypeOK, MainPC, storeVars, engineVars, bounds
  <2>. QED  BY <1>7, <2>1, <2>2, <2>3 DEF Lifecycle, Crash, Exit
<1>8. ASSUME NEW p \in Procs, NEW b \in Books, BackoffExpires(p, b) PROVE TypeOK'
  BY <1>8 DEF BackoffExpires, TypeOK, storeVars, mainVars, bounds
<1>9. ASSUME NEW p \in Procs, NEW w \in Workers, OnWorkerFinished(p, w) PROVE TypeOK'
  <2>1. /\ workers' \in [Workers -> Worker]
        /\ active_workers' \in [Procs -> [Tasks -> Workers \cup {NoWorker}]]
        /\ active_claims' \in [Procs -> [Tasks -> {{}} \cup {HandlerClaims(desc[t]) : t \in Tasks}]]
    BY <1>0, <1>9 DEF OnWorkerFinished, TypeOK, Worker
  <2>. QED  BY <1>9, <2>1 DEF OnWorkerFinished, TypeOK, storeVars, mainVars, bounds
<1>. QED  BY <1>1, <1>2, <1>3, <1>4, <1>5, <1>6, <1>7, <1>8, <1>9 DEF Next

\* Rows, registrations and threads keep their shape in every behaviour.
THEOREM TypeCorrect == Spec => []TypeOK
<1>1. Init => TypeOK
  BY InitTyped
<1>2. TypeOK /\ [Next]_vars => TypeOK'
  BY StepTyped
<1>. QED  BY <1>1, <1>2, PTL DEF Spec

-----------------------------------------------------------------------------
(* The claims of a process never conflict.  ClaimsCompatible alone is not  *)
(* inductive: between authorize_start and register_active_worker the claims*)
(* about to be registered must still be compatible with all that is held.  *)

AuthorizedIsFree ==
  \A p \in Procs : main_pc[p] = "register_run" =>
    ~Conflicts(HandlerClaims(desc[focus[p]]), AllActive(p))

ClaimsInv == TypeOK /\ ClaimsCompatible /\ AuthorizedIsFree

\* The steps of a process that neither register nor release anything
QuietStep(p) ==
  \/ UserStep(p) \/ DeletionStep(p) \/ Startup(p) \/ Close(p)
  \/ StrictStart(p) \/ CancelCheck(p) \/ CancelMark(p) \/ CancelDispatch(p)
  \/ \E t \in Tasks : TickStart(p, t)
  \/ \E r \in recovery[p] : RecoverRow(p, r)
  \/ \E b \in Books : BackoffExpires(p, b)

\* Where the main thread of q stands is unchanged.
SameMain(q) == main_pc'[q] = main_pc[q] /\ focus'[q] = focus[q]

\* What a quiet step of p leaves to prove: it only moves p's main thread, and
\* it reaches a registration only through the checks of authorize_start.
LEMMA QuietShape ==
  ASSUME TypeOK, NEW p \in Procs, QuietStep(p)
  PROVE  /\ UNCHANGED <<active_workers, active_claims>>
         /\ \A q \in Procs \ {p} : SameMain(q)
         /\ main_pc'[p] = "register_run" => SameMain(p) \/ RunAuthorized(p, focus'[p])
         /\ main_pc'[p] = "register_cancel" => SameMain(p) \/ ~HasWorker(p, focus'[p])
         /\ UNCHANGED workers \/ CancelMark(p) \/ Close(p)
<1>0. /\ main_pc \in [Procs -> MainPC] /\ focus \in [Procs -> Tasks]
      /\ focus[p] \in Tasks
  BY DEF TypeOK
<1>. USE <1>0 DEF SameMain, Idle, Goto
<1>1. CASE UserStep(p)
  <2>. PICK t \in Tasks : Submit(p, t) \/ QueueRun(p, t) \/ Cancel(p, t) \/ Delete(p, t)
    BY <1>1 DEF UserStep
  <2>1. CASE Submit(p, t)
    BY <2>1 DEF Submit, Operation
  <2>2. CASE QueueRun(p, t)
    BY <2>2 DEF QueueRun, Operation
  <2>3. CASE Cancel(p, t)
    BY <2>3 DEF Cancel, Operation
  <2>4. CASE Delete(p, t)
    BY <2>4 DEF Delete, mainVars
  <2>. QED  BY <2>1, <2>2, <2>3, <2>4
<1>2. CASE DeletionStep(p)
  BY <1>2 DEF DeletionStep, DeleteCheck, DeleteCommit, mainVars
<1>3. CASE Startup(p)
  BY <1>3 DEF Startup, engineVars
<1>4. CASE Close(p)
  BY <1>4 DEF Close, engineVars
<1>5. CASE StrictStart(p)
  BY <1>5 DEF StrictStart, Authorized, engineVars
<1>6. CASE CancelCheck(p)
  BY <1>6 DEF CancelCheck, engineVars
<1>7. CASE CancelMark(p)
  BY <1>7 DEF CancelMark, engineVars
<1>8. CASE CancelDispatch(p)
  BY <1>8 DEF CancelDispatch, Authorized, engineVars
<1>9. ASSUME NEW t \in Tasks, TickStart(p, t)
      PROVE  /\ UNCHANGED <<active_workers, active_claims, workers>>
             /\ \A q \in Procs \ {p} : SameMain(q)
             /\ main_pc'[p] = "register_run" => SameMain(p) \/ RunAuthorized(p, focus'[p])
             /\ main_pc'[p] # "register_cancel"
  BY <1>9 DEF TickStart, Authorized
<1>10. ASSUME NEW r \in recovery[p], RecoverRow(p, r)
       PROVE  /\ UNCHANGED <<active_workers, active_claims, workers>>
              /\ \A q \in Procs \ {p} : SameMain(q)
              /\ main_pc'[p] \notin {"register_run", "register_cancel"}
  BY <1>10 DEF RecoverRow, engineVars
<1>11. ASSUME NEW b \in Books, BackoffExpires(p, b)
       PROVE  UNCHANGED <<active_workers, active_claims, workers, main_pc, focus>>
  BY <1>11 DEF BackoffExpires, mainVars
<1>. QED
  BY <1>1, <1>2, <1>3, <1>4, <1>5, <1>6, <1>7, <1>8, <1>9, <1>10, <1>11 DEF QuietStep

\* A step of the system is one of these.
LEMMA Steps ==
  ASSUME [Next]_vars
  PROVE  \/ UNCHANGED vars
         \/ \E w \in Workers : WorkerStep(w)
         \/ \E p \in Procs : \/ QuietStep(p) \/ Tick(p) \/ Gone(p)
                             \/ \E w \in Workers : \/ RegisterRun(p, w) \/ RegisterCancel(p, w)
                                                   \/ OnWorkerFinished(p, w)
BY DEF Next, EngineStep, Lifecycle, Crash, Exit, QuietStep

\* ClaimsInv is preserved when a process keeps or drops each of its claim
\* sets, the others keep theirs, and nothing new is about to be registered.
LEMMA ClaimsOnlyShrink ==
  ASSUME ClaimsInv, TypeOK',
         \A q \in Procs, t \in Tasks : active_claims'[q][t] \in {active_claims[q][t], {}},
         \A q \in Procs : main_pc'[q] = "register_run" =>
            ~Conflicts(HandlerClaims(desc[focus'[q]]), AllActive(q))
  PROVE  ClaimsInv'
<1>1. ClaimsCompatible'
  <2>. SUFFICES ASSUME NEW q \in Procs, NEW t \in Tasks, NEW u \in Tasks, t # u
                PROVE  ~Conflicts(active_claims'[q][t], active_claims'[q][u])
    BY DEF ClaimsCompatible
  <2>1. ~Conflicts(active_claims[q][t], active_claims[q][u])
    BY DEF ClaimsInv, ClaimsCompatible
  <2>. QED  BY <2>1, EmptyNeverConflicts
<1>2. AuthorizedIsFree'
  <2>. SUFFICES ASSUME NEW q \in Procs, main_pc'[q] = "register_run"
                PROVE  ~Conflicts(HandlerClaims(desc[focus'[q]]), AllActive(q)')
    BY DEF AuthorizedIsFree
  <2>1. AllActive(q)' \subseteq AllActive(q)
    BY DEF AllActive
  <2>. QED  BY <2>1 DEF Conflicts
<1>. QED  BY <1>1, <1>2 DEF ClaimsInv

\* Every step preserves ClaimsInv.
LEMMA ClaimsStep == ClaimsInv /\ [Next]_vars => ClaimsInv'
<1>. SUFFICES ASSUME ClaimsInv, [Next]_vars PROVE ClaimsInv'
  OBVIOUS
<1>0. TypeOK /\ TypeOK'
  BY StepTyped DEF ClaimsInv
<1>1. CASE UNCHANGED vars
  <2>1. UNCHANGED <<active_claims, main_pc, focus>>
    BY <1>1 DEF vars
  <2>. QED  BY <1>0, <2>1, ClaimsOnlyShrink DEF ClaimsInv, AuthorizedIsFree
<1>2. ASSUME NEW w \in Workers, WorkerStep(w) PROVE ClaimsInv'
  <2>1. UNCHANGED <<active_claims, main_pc, focus>>
    BY <1>0, <1>2, WorkerStepShape DEF mainState
  <2>. QED  BY <1>0, <2>1, ClaimsOnlyShrink DEF ClaimsInv, AuthorizedIsFree
<1>3. ASSUME NEW p \in Procs, QuietStep(p) PROVE ClaimsInv'
  <2>1. UNCHANGED active_claims
    BY <1>0, <1>3, QuietShape
  <2>2. ASSUME NEW q \in Procs, main_pc'[q] = "register_run"
        PROVE  ~Conflicts(HandlerClaims(desc[focus'[q]]), AllActive(q))
    <3>1. SameMain(q) \/ RunAuthorized(q, focus'[q])
      BY <1>0, <1>3, <2>2, QuietShape
    <3>. QED  BY <2>2, <3>1 DEF SameMain, RunAuthorized, RunPermitted, ClaimsInv, AuthorizedIsFree
  <2>. QED  BY <1>0, <2>1, <2>2, ClaimsOnlyShrink
<1>4. ASSUME NEW p \in Procs, Tick(p) PROVE ClaimsInv'
  <2>1. \A q \in Procs, t \in Tasks : active_claims'[q][t] \in {active_claims[q][t], {}}
    BY <1>0, <1>4 DEF Tick, TypeOK
  <2>2. \A q \in Procs : main_pc'[q] = "register_run" => main_pc[q] = "register_run" /\ focus'[q] = focus[q]
    BY <1>0, <1>4 DEF Tick, Goto, TypeOK
  <2>. QED  BY <1>0, <2>1, <2>2, ClaimsOnlyShrink DEF ClaimsInv, AuthorizedIsFree
<1>5. ASSUME NEW p \in Procs, Gone(p) PROVE ClaimsInv'
  <2>1. \A q \in Procs, t \in Tasks : active_claims'[q][t] \in {active_claims[q][t], {}}
    BY <1>0, <1>5 DEF Gone, TypeOK
  <2>2. \A q \in Procs : main_pc'[q] = "register_run" => main_pc[q] = "register_run" /\ focus'[q] = focus[q]
    BY <1>0, <1>5 DEF Gone, TypeOK
  <2>. QED  BY <1>0, <2>1, <2>2, ClaimsOnlyShrink DEF ClaimsInv, AuthorizedIsFree
<1>6. ASSUME NEW p \in Procs, NEW w \in Workers, OnWorkerFinished(p, w) PROVE ClaimsInv'
  <2>1. \A q \in Procs, t \in Tasks : active_claims'[q][t] \in {active_claims[q][t], {}}
    BY <1>0, <1>6 DEF OnWorkerFinished, TypeOK
  <2>2. UNCHANGED <<main_pc, focus>>
    BY <1>6 DEF OnWorkerFinished, mainVars
  <2>. QED  BY <1>0, <2>1, <2>2, ClaimsOnlyShrink DEF ClaimsInv, AuthorizedIsFree
<1>7. ASSUME NEW p \in Procs, NEW w \in Workers, RegisterCancel(p, w) PROVE ClaimsInv'
  <2>1. \A q \in Procs, t \in Tasks : active_claims'[q][t] \in {active_claims[q][t], {}}
    BY <1>0, <1>7 DEF RegisterCancel, Register, TypeOK
  <2>2. \A q \in Procs : main_pc'[q] = "register_run" => main_pc[q] = "register_run" /\ focus'[q] = focus[q]
    BY <1>0, <1>7 DEF RegisterCancel, Register, TypeOK
  <2>. QED  BY <1>0, <2>1, <2>2, ClaimsOnlyShrink DEF ClaimsInv, AuthorizedIsFree
<1>8. ASSUME NEW p \in Procs, NEW w \in Workers, RegisterRun(p, w) PROVE ClaimsInv'
  <2>. DEFINE t == focus[p]
              C == HandlerClaims(desc[t])
  <2>1. /\ t \in Tasks /\ main_pc[p] = "register_run"
        /\ active_claims' = [active_claims EXCEPT ![p][t] = C]
        /\ main_pc' = [main_pc EXCEPT ![p] = IF startable[p] = {} THEN "idle" ELSE "tick"]
        /\ focus' = [focus EXCEPT ![p] = AnyTask]
    BY <1>0, <1>8 DEF RegisterRun, Register, TypeOK
  <2>2. \A q \in Procs, u \in Tasks :
          active_claims'[q][u] = IF q = p /\ u = t THEN C ELSE active_claims[q][u]
    BY <1>0, <2>1 DEF TypeOK
  <2>3. \A u \in Tasks : ~Conflicts(C, active_claims[p][u]) /\ ~Conflicts(active_claims[p][u], C)
    BY <2>1, CompatibleWithEach, ConflictsSymmetric DEF ClaimsInv, AuthorizedIsFree
  <2>4. ClaimsCompatible'
    BY <2>2, <2>3 DEF ClaimsInv, ClaimsCompatible
  <2>5. AuthorizedIsFree'
    <3>. SUFFICES ASSUME NEW q \in Procs, main_pc'[q] = "register_run"
                  PROVE  ~Conflicts(HandlerClaims(desc[focus'[q]]), AllActive(q)')
      BY DEF AuthorizedIsFree
    <3>1. q # p /\ main_pc[q] = "register_run" /\ focus'[q] = focus[q]
      BY <1>0, <2>1 DEF TypeOK
    <3>2. AllActive(q)' = AllActive(q)
      BY <2>2, <3>1 DEF AllActive
    <3>. QED  BY <3>1, <3>2 DEF ClaimsInv, AuthorizedIsFree
  <2>. QED  BY <1>0, <2>4, <2>5 DEF ClaimsInv
<1>. QED  BY <1>1, <1>2, <1>3, <1>4, <1>5, <1>6, <1>7, <1>8, Steps

\* Whatever the interleaving of submits, ticks, cancellations, deletions and
\* finished events, the claims registered in a process never conflict.
THEOREM ClaimsNeverConflict == Spec => []ClaimsCompatible
<1>1. Init => ClaimsInv
  BY InitTyped, EmptyNeverConflicts DEF Init, ClaimsInv, ClaimsCompatible, AuthorizedIsFree
<1>2. ClaimsInv /\ [Next]_vars => ClaimsInv'
  BY ClaimsStep
<1>3. ClaimsInv => ClaimsCompatible
  BY DEF ClaimsInv
<1>. QED  BY <1>1, <1>2, <1>3, PTL DEF Spec

-----------------------------------------------------------------------------
(* Threads and registrations.  When the finished event of a released QThread*)
(* is never delivered (~EventOutlivesWorker), registrations and threads    *)
(* name each other: a thread that exists is the one registered for its     *)
(* task, and a registered run holds the claims of its task.                *)

RegistrationsNameThreads ==
  \A p \in Procs, t \in Tasks : HasWorker(p, t) =>
    LET w == active_workers[p][t] IN
    /\ workers[w].pc # "free" /\ workers[w].proc = p /\ workers[w].task = t
    /\ workers[w].action = "run" => active_claims[p][t] = HandlerClaims(desc[t])

ThreadsAreRegistered ==
  \A w \in Workers : workers[w].pc # "free" =>
    active_workers[workers[w].proc][workers[w].task] = w

NothingRegisteredTwice ==
  \A p \in Procs : main_pc[p] \in {"register_run", "register_cancel"} => ~HasWorker(p, focus[p])

RegistrationInv ==
  ClaimsInv /\ RegistrationsNameThreads /\ ThreadsAreRegistered /\ NothingRegisteredTwice

\* The threads' identities: everything about them but how far they are.
SameThreads ==
  \A w \in Workers : /\ workers'[w].proc = workers[w].proc
                     /\ workers'[w].task = workers[w].task
                     /\ workers'[w].action = workers[w].action
                     /\ workers'[w].pc = "free" <=> workers[w].pc = "free"

\* RegistrationInv is preserved by the steps that register nothing, release
\* nothing, and get to a registration only through authorize_start.
LEMMA RegistrationsKept ==
  ASSUME RegistrationInv, ClaimsInv', UNCHANGED <<active_workers, active_claims>>, SameThreads,
         \A q \in Procs : main_pc'[q] \in {"register_run", "register_cancel"} =>
            ~HasWorker(q, focus'[q])
  PROVE  RegistrationInv'
<1>0. TypeOK
  BY DEF RegistrationInv, ClaimsInv
<1>1. RegistrationsNameThreads'
  <2>. SUFFICES ASSUME NEW q \in Procs, NEW t \in Tasks, HasWorker(q, t)'
                PROVE  LET w == active_workers'[q][t] IN
                       /\ workers'[w].pc # "free" /\ workers'[w].proc = q /\ workers'[w].task = t
                       /\ workers'[w].action = "run" =>
                            active_claims'[q][t] = HandlerClaims(desc[t])
    BY DEF RegistrationsNameThreads
  <2>1. HasWorker(q, t) /\ active_workers[q][t] \in Workers
    BY <1>0 DEF HasWorker, TypeOK
  <2>. QED  BY <2>1 DEF RegistrationInv, RegistrationsNameThreads, SameThreads
<1>2. ThreadsAreRegistered'
  BY DEF RegistrationInv, ThreadsAreRegistered, SameThreads
<1>3. NothingRegisteredTwice'
  BY DEF NothingRegisteredTwice, HasWorker
<1>. QED  BY <1>1, <1>2, <1>3 DEF RegistrationInv

\* Nothing is registered, and no thread exists, at first.
LEMMA InitRegistered == Init => RegistrationInv
<1>. SUFFICES ASSUME Init PROVE RegistrationInv
  OBVIOUS
<1>1. ClaimsInv
  BY InitTyped, EmptyNeverConflicts DEF Init, ClaimsInv, ClaimsCompatible, AuthorizedIsFree
<1>. QED  BY <1>1, ProcsAssumption DEF Init, FreeWorker, RegistrationInv, RegistrationsNameThreads,
            ThreadsAreRegistered, NothingRegisteredTwice, HasWorker

\* Every step preserves RegistrationInv, provided a finished event dies with its
\* thread.
LEMMA RegistrationStep ==
  ASSUME ~EventOutlivesWorker, RegistrationInv, [Next]_vars
  PROVE  RegistrationInv'
<1>0. /\ ClaimsInv /\ ClaimsInv' /\ TypeOK /\ TypeOK'
      /\ workers \in [Workers -> Worker]
      /\ active_workers \in [Procs -> [Tasks -> Workers \cup {NoWorker}]]
      /\ \A w \in Workers : workers[w].proc \in Procs /\ workers[w].task \in Tasks
  BY ClaimsStep DEF RegistrationInv, ClaimsInv, TypeOK, Worker
<1>. USE <1>0
<1>1. CASE UNCHANGED vars
  <2>1. UNCHANGED <<active_workers, active_claims, workers, main_pc, focus>>
    BY <1>1 DEF vars
  <2>. QED
    BY <2>1, RegistrationsKept DEF SameThreads, RegistrationInv, NothingRegisteredTwice
<1>2. ASSUME NEW w \in Workers, WorkerStep(w) PROVE RegistrationInv'
  <2>1. UNCHANGED <<active_workers, active_claims, main_pc, focus>>
    BY <1>2, WorkerStepShape DEF mainState
  <2>2. PICK pc \in WorkerPC \ {"free"} : workers' = [workers EXCEPT ![w].pc = pc]
    BY <1>2, WorkerStepShape
  <2>3. SameThreads
    BY <1>2, <2>2, WorkerStepShape DEF SameThreads, Worker
  <2>. QED  BY <2>1, <2>3, RegistrationsKept DEF RegistrationInv, NothingRegisteredTwice
<1>3. ASSUME NEW p \in Procs, QuietStep(p) PROVE RegistrationInv'
  <2>1. UNCHANGED <<active_workers, active_claims>>
    BY <1>3, QuietShape
  <2>2. SameThreads
    <3>1. CASE UNCHANGED workers
      BY <3>1 DEF SameThreads
    <3>2. CASE CancelMark(p)
      <4>1. \/ UNCHANGED workers
            \/ workers' = [workers EXCEPT ![active_workers[p][focus[p]]].interrupted = TRUE]
        BY <3>2, Zenon DEF CancelMark
      <4>. QED  BY <3>1, <4>1 DEF SameThreads, Worker
    <3>3. CASE Close(p)
      BY <3>3 DEF Close, SameThreads, Worker
    <3>. QED  BY <1>3, <3>1, <3>2, <3>3, QuietShape
  <2>3. ASSUME NEW q \in Procs, main_pc'[q] \in {"register_run", "register_cancel"}
        PROVE  ~HasWorker(q, focus'[q])
    <3>1. SameMain(q) \/ ~HasWorker(q, focus'[q])
      BY <1>3, <2>3, QuietShape DEF RunAuthorized, RunPermitted
    <3>. QED  BY <2>3, <3>1 DEF SameMain, RegistrationInv, NothingRegisteredTwice
  <2>. QED  BY <2>1, <2>2, <2>3, RegistrationsKept
<1>. USE DEF RegistrationInv, RegistrationsNameThreads, ThreadsAreRegistered,
             NothingRegisteredTwice, HasWorker
<1>4. ASSUME NEW p \in Procs, Tick(p) PROVE RegistrationInv'
  <2>1. \A q \in Procs, t \in Tasks :
          /\ active_workers'[q][t] = IF q = p /\ t \in Finished(p) THEN NoWorker ELSE active_workers[q][t]
          /\ active_claims'[q][t] = IF q = p /\ t \in Finished(p) THEN {} ELSE active_claims[q][t]
    BY <1>4 DEF Tick, TypeOK
  <2>2. \A w \in Workers :
          workers'[w] = IF w \in ReleasedWorkers(p) THEN FreeWorker ELSE workers[w]
    BY <1>4 DEF Tick
  <2>3. \A w \in Workers : w \in ReleasedWorkers(p) <=>
          \E t \in Finished(p) : active_workers[p][t] = w
    BY DEF ReleasedWorkers
  <2>4. FreeWorker.pc = "free" /\ Finished(p) \subseteq Tasks
    BY DEF FreeWorker, Finished
  <2>5. RegistrationsNameThreads'
    <3>. SUFFICES ASSUME NEW q \in Procs, NEW t \in Tasks, HasWorker(q, t)'
                  PROVE  LET w == active_workers'[q][t] IN
                         /\ workers'[w].pc # "free" /\ workers'[w].proc = q /\ workers'[w].task = t
                         /\ workers'[w].action = "run" =>
                              active_claims'[q][t] = HandlerClaims(desc[t])
      OBVIOUS
    <3>. DEFINE w == active_workers[q][t]
    <3>1. /\ ~(q = p /\ t \in Finished(p)) /\ w \in Workers /\ HasWorker(q, t)
          /\ active_workers'[q][t] = w /\ active_claims'[q][t] = active_claims[q][t]
      BY <2>1
    <3>2. w \notin ReleasedWorkers(p)
      BY <2>3, <2>4, <3>1, WorkersAssumption
    <3>. QED  BY <2>2, <3>1, <3>2
  <2>6. ThreadsAreRegistered'
    BY <2>1, <2>2, <2>3, <2>4
  <2>7. NothingRegisteredTwice'
    <3>1. \A q \in Procs : main_pc'[q] \in {"register_run", "register_cancel"} =>
                             main_pc'[q] = main_pc[q] /\ focus'[q] = focus[q]
      BY <1>4 DEF Tick, Goto, TypeOK
    <3>2. \A q \in Procs : focus[q] \in Tasks
      BY DEF TypeOK
    <3>. QED  BY <2>1, <3>1, <3>2
  <2>. QED  BY <2>5, <2>6, <2>7
<1>5. ASSUME NEW p \in Procs, Gone(p) PROVE RegistrationInv'
  <2>1. \A q \in Procs, t \in Tasks :
          /\ active_workers'[q][t] = IF q = p THEN NoWorker ELSE active_workers[q][t]
          /\ active_claims'[q][t] = IF q = p THEN {} ELSE active_claims[q][t]
    BY <1>5 DEF Gone, TypeOK
  <2>2. \A w \in Workers :
          workers'[w] = IF workers[w].pc # "free" /\ workers[w].proc = p THEN FreeWorker ELSE workers[w]
    BY <1>5 DEF Gone
  <2>3. FreeWorker.pc = "free"
    BY DEF FreeWorker
  <2>4. \A q \in Procs : main_pc'[q] \in {"register_run", "register_cancel"} =>
                           q # p /\ main_pc'[q] = main_pc[q] /\ focus'[q] = focus[q]
    BY <1>5 DEF Gone, TypeOK
  <2>5. \A q \in Procs : focus[q] \in Tasks
    BY DEF TypeOK
  <2>6. RegistrationsNameThreads'
    BY <2>1, <2>2
  <2>7. ThreadsAreRegistered'
    BY <2>1, <2>2, <2>3
  <2>8. NothingRegisteredTwice'
    BY <2>1, <2>4, <2>5
  <2>. QED  BY <2>6, <2>7, <2>8
<1>6. ASSUME NEW p \in Procs, NEW w \in Workers, OnWorkerFinished(p, w) PROVE RegistrationInv'
  <2>. DEFINE t == workers[w].task
  <2>1. /\ active_workers' = [active_workers EXCEPT ![p][t] = NoWorker]
        /\ active_claims' = [active_claims EXCEPT ![p][t] = {}]
        /\ workers' = [workers EXCEPT ![w] = FreeWorker]
        /\ workers[w].pc = "ended" /\ workers[w].proc = p
        /\ UNCHANGED <<main_pc, focus>>
    BY <1>6 DEF OnWorkerFinished, mainVars
  <2>2. \A q \in Procs, u \in Tasks :
          /\ active_workers'[q][u] = IF q = p /\ u = t THEN NoWorker ELSE active_workers[q][u]
          /\ active_claims'[q][u] = IF q = p /\ u = t THEN {} ELSE active_claims[q][u]
    BY <2>1 DEF TypeOK
  <2>3. \A v \in Workers : workers'[v] = IF v = w THEN FreeWorker ELSE workers[v]
    BY <2>1
  <2>4. active_workers[p][t] = w /\ FreeWorker.pc = "free"
    BY <2>1 DEF FreeWorker
  <2>5. \A q \in Procs : focus[q] \in Tasks
    BY DEF TypeOK
  <2>6. RegistrationsNameThreads'
    BY <2>1, <2>2, <2>3, <2>4
  <2>7. ThreadsAreRegistered'
    BY <2>2, <2>3, <2>4
  <2>8. NothingRegisteredTwice'
    BY <2>1, <2>2, <2>5
  <2>. QED  BY <2>6, <2>7, <2>8
<1>7. ASSUME NEW p \in Procs, NEW w \in Workers, NEW action \in {"run", "cancel"},
             main_pc[p] \in {"register_run", "register_cancel"},
             Register(p, w, action, IF action = "run" THEN HandlerClaims(desc[focus[p]]) ELSE {})
      PROVE  RegistrationInv'
  <2>. DEFINE t == focus[p]
              C == IF action = "run" THEN HandlerClaims(desc[t]) ELSE {}
              thread == [pc |-> "start", proc |-> p, task |-> t,
                         action |-> action, interrupted |-> FALSE]
  <2>1. /\ t \in Tasks /\ ~HasWorker(p, t) /\ workers[w].pc = "free"
        /\ workers' = [workers EXCEPT ![w] = thread]
        /\ active_workers' = [active_workers EXCEPT ![p][t] = w]
        /\ active_claims' = [active_claims EXCEPT ![p][t] = C]
        /\ main_pc' = [main_pc EXCEPT ![p] = IF startable[p] = {} THEN "idle" ELSE "tick"]
        /\ focus' = [focus EXCEPT ![p] = AnyTask]
    BY <1>7 DEF Register, TypeOK
  <2>2. \A q \in Procs, u \in Tasks :
          /\ active_workers'[q][u] = IF q = p /\ u = t THEN w ELSE active_workers[q][u]
          /\ active_claims'[q][u] = IF q = p /\ u = t THEN C ELSE active_claims[q][u]
    BY <2>1 DEF TypeOK
  <2>3. \A v \in Workers : workers'[v] = IF v = w THEN thread ELSE workers[v]
    BY <2>1
  <2>4. \A q \in Procs : main_pc'[q] \in {"register_run", "register_cancel"} =>
                           q # p /\ main_pc'[q] = main_pc[q] /\ focus'[q] = focus[q]
    BY <2>1 DEF TypeOK
  <2>5. \A q \in Procs : focus[q] \in Tasks
    BY DEF TypeOK
  <2>6. RegistrationsNameThreads'
    BY <2>1, <2>2, <2>3
  <2>7. ThreadsAreRegistered'
    <3>. SUFFICES ASSUME NEW v \in Workers, workers'[v].pc # "free"
                  PROVE  active_workers'[workers'[v].proc][workers'[v].task] = v
      OBVIOUS
    <3>1. CASE v = w
      BY <2>1, <2>2, <2>3, <3>1
    <3>2. CASE v # w
      <4>1. workers'[v] = workers[v] /\ active_workers[workers[v].proc][workers[v].task] = v
        BY <2>3, <3>2
      <4>2. ~(workers[v].proc = p /\ workers[v].task = t)
        BY <2>1, <4>1, WorkersAssumption
      <4>. QED  BY <2>2, <4>1, <4>2
    <3>. QED  BY <3>1, <3>2
  <2>8. NothingRegisteredTwice'
    BY <2>2, <2>4, <2>5
  <2>. QED  BY <2>6, <2>7, <2>8
<1>8. ASSUME NEW p \in Procs, NEW w \in Workers, RegisterRun(p, w) \/ RegisterCancel(p, w)
      PROVE  RegistrationInv'
  BY <1>7, <1>8 DEF RegisterRun, RegisterCancel
<1>. QED  BY <1>1, <1>2, <1>3, <1>4, <1>5, <1>6, <1>8, Steps

\* Two threads of a process that really run tasks never work under claims
\* that conflict: no release path drops the claims of a running thread, as
\* long as no finished event outlives its thread.
THEOREM LiveWorkersNeverConflict ==
  ASSUME ~EventOutlivesWorker
  PROVE  Spec => []LiveWorkersCompatible
<1>1. Init => RegistrationInv
  BY InitRegistered
<1>2. RegistrationInv /\ [Next]_vars => RegistrationInv'
  BY RegistrationStep
<1>3. RegistrationInv => LiveWorkersCompatible
  <2>. SUFFICES ASSUME RegistrationInv, NEW v \in Workers, NEW w \in Workers,
                       v # w, Running(v, "run"), Running(w, "run"),
                       workers[v].proc = workers[w].proc
                PROVE  /\ workers[v].task # workers[w].task
                       /\ ~Conflicts(HandlerClaims(desc[workers[v].task]),
                                     HandlerClaims(desc[workers[w].task]))
    BY DEF LiveWorkersCompatible
  <2>. DEFINE p == workers[v].proc  t == workers[v].task  u == workers[w].task
  <2>1. p \in Procs /\ t \in Tasks /\ u \in Tasks
    BY DEF RegistrationInv, ClaimsInv, TypeOK, Worker
  <2>2. active_workers[p][t] = v /\ active_workers[p][u] = w
    BY DEF RegistrationInv, ThreadsAreRegistered, Running, isRunning
  <2>3. /\ active_claims[p][t] = HandlerClaims(desc[t])
        /\ active_claims[p][u] = HandlerClaims(desc[u])
    BY <2>1, <2>2, WorkersAssumption
       DEF RegistrationInv, RegistrationsNameThreads, HasWorker, Running
  <2>. QED  BY <2>1, <2>2, <2>3 DEF RegistrationInv, ClaimsInv, ClaimsCompatible
<1>. QED  BY <1>1, <1>2, <1>3, PTL DEF Spec

-----------------------------------------------------------------------------
(* One process implements the lock manager of ClaimLocks.                  *)

\* A step in which threads at work only end releases what they held.
LEMMA EndingReleases ==
  ASSUME \A w \in Workers :
           workers'[w].pc \notin {"free", "ended"} /\ workers'[w].action = "run" =>
             Running(w, "run") /\ workers'[w].task = workers[w].task
  PROVE  [Locks!Next]_AtWork
<1>1. AtWork' \subseteq AtWork
  BY DEF AtWork, Running, isRunning
<1>2. CASE AtWork' = AtWork
  BY <1>2
<1>3. CASE AtWork' # AtWork
  <2>. DEFINE S == AtWork \ AtWork'
  <2>1. S # {} /\ S \in SUBSET AtWork /\ AtWork' = AtWork \ S
    BY <1>1, <1>3
  <2>2. Locks!Release(S)
    BY <2>1 DEF Locks!Release
  <2>3. Locks!Next
    BY <2>1, <2>2 DEF Locks!Next
  <2>. QED  BY <2>3
<1>. QED  BY <1>2, <1>3

\* Every step of a lone process is a step of the lock manager, or none.
LEMMA LocksStep ==
  ASSUME NEW p \in Procs, Procs = {p}, RegistrationInv, [Next]_vars
  PROVE  [Locks!Next]_AtWork
<1>0. /\ TypeOK /\ workers \in [Workers -> Worker]
      /\ \A w \in Workers : workers[w].proc = p /\ workers[w].task \in Tasks
  BY DEF RegistrationInv, ClaimsInv, TypeOK, Worker
<1>1. CASE UNCHANGED vars
  BY <1>1, EndingReleases DEF vars, Running, isRunning
<1>2. ASSUME NEW w \in Workers, WorkerStep(w) PROVE [Locks!Next]_AtWork
  <2>1. PICK pc \in WorkerPC \ {"free"} : workers' = [workers EXCEPT ![w].pc = pc]
    BY <1>0, <1>2, WorkerStepShape
  <2>2. workers[w].pc \notin {"free", "ended"}
    BY <1>0, <1>2, WorkerStepShape
  <2>. QED  BY <1>0, <2>1, <2>2, EndingReleases DEF Running, isRunning, Worker
<1>3. ASSUME QuietStep(p) PROVE [Locks!Next]_AtWork
  <2>1. CASE UNCHANGED workers
    BY <2>1, EndingReleases DEF Running, isRunning
  <2>2. CASE CancelMark(p)
    <3>1. \/ UNCHANGED workers
          \/ workers' = [workers EXCEPT ![active_workers[p][focus[p]]].interrupted = TRUE]
      BY <2>2, Zenon DEF CancelMark
    <3>. QED  BY <1>0, <3>1, EndingReleases DEF Running, isRunning, Worker
  <2>3. CASE Close(p)
    BY <1>0, <2>3, EndingReleases DEF Close, Running, isRunning, Worker
  <2>. QED  BY <1>0, <1>3, <2>1, <2>2, <2>3, QuietShape
<1>4. ASSUME Tick(p) \/ Gone(p) PROVE [Locks!Next]_AtWork
  <2>1. \A w \in Workers : workers'[w] = workers[w] \/ workers'[w] = FreeWorker
    BY <1>4 DEF Tick, Gone
  <2>2. FreeWorker.pc = "free"
    BY DEF FreeWorker
  <2>. QED  BY <2>1, <2>2, EndingReleases DEF Running, isRunning
<1>5. ASSUME NEW w \in Workers, OnWorkerFinished(p, w) PROVE [Locks!Next]_AtWork
  <2>1. \A v \in Workers : workers'[v] = workers[v] \/ workers'[v] = FreeWorker
    BY <1>0, <1>5 DEF OnWorkerFinished
  <2>2. FreeWorker.pc = "free"
    BY DEF FreeWorker
  <2>. QED  BY <2>1, <2>2, EndingReleases DEF Running, isRunning
<1>6. ASSUME NEW w \in Workers, RegisterCancel(p, w) PROVE [Locks!Next]_AtWork
  <2>1. \A v \in Workers : workers'[v] = workers[v] \/ workers'[v].action = "cancel"
    BY <1>0, <1>6 DEF RegisterCancel, Register
  <2>. QED  BY <2>1, EndingReleases DEF Running, isRunning
<1>7. ASSUME NEW w \in Workers, RegisterRun(p, w) PROVE [Locks!Next]_AtWork
  <2>. DEFINE t == focus[p]
  <2>1. /\ t \in Tasks /\ main_pc[p] = "register_run" /\ workers[w].pc = "free"
        /\ workers' = [workers EXCEPT ![w] = [pc |-> "start", proc |-> p, task |-> t,
                                              action |-> "run", interrupted |-> FALSE]]
    BY <1>0, <1>7 DEF RegisterRun, Register, TypeOK
  <2>2. /\ ~HasWorker(p, t)
        /\ ~Conflicts(HandlerClaims(desc[t]), AllActive(p))
    BY <2>1 DEF RegistrationInv, NothingRegisteredTwice, ClaimsInv, AuthorizedIsFree
  <2>3. ASSUME NEW u \in AtWork
        PROVE  u # t /\ ~Conflicts(HandlerClaims(desc[t]), HandlerClaims(desc[u]))
    <3>1. PICK v \in Workers : Running(v, "run") /\ workers[v].task = u
      BY DEF AtWork
    <3>2. u \in Tasks /\ active_workers[p][u] = v
      BY <1>0, <3>1 DEF RegistrationInv, ThreadsAreRegistered, Running, isRunning
    <3>3. HasWorker(p, u) /\ active_claims[p][u] = HandlerClaims(desc[u])
      BY <3>1, <3>2, WorkersAssumption
         DEF RegistrationInv, RegistrationsNameThreads, HasWorker, Running
    <3>. QED  BY <2>2, <3>2, <3>3, CompatibleWithEach
  <2>4. AtWork' = AtWork \cup {t}
    BY <1>0, <2>1 DEF AtWork, Running, isRunning
  <2>5. Locks!Acquire(t)
    <3>. DEFINE claims == [u \in Tasks |-> HandlerClaims(desc[u])]
    <3>1. AtWork \subseteq Tasks
      BY DEF AtWork
    <3>2. \A u \in AtWork : ~Locks!Conflicts(claims[t], claims[u])
      BY <2>1, <2>3, <3>1
         DEF Conflicts, ClaimsClash, ModesConflict, READ_SHARED, WRITE_COOPERATIVE, AnyKey,
             Locks!Conflicts, Locks!ClaimsClash, Locks!ModesConflict,
             Locks!READ_SHARED, Locks!WRITE_COOPERATIVE, Locks!AnyKey
    <3>3. Locks!Compatible(t)
      BY <3>2 DEF Locks!Compatible
    <3>. QED  BY <2>3, <2>4, <3>3 DEF Locks!Acquire
  <2>6. Locks!Next
    BY <2>1, <2>5 DEF Locks!Next
  <2>. QED  BY <2>6
<1>. QED  BY <1>1, <1>2, <1>3, <1>4, <1>5, <1>6, <1>7, Steps

\* With a single process, the threads that really run implement the lock
\* manager: a task starts only while nothing at work conflicts with it.
THEOREM EngineImplementsClaimLocks ==
  ASSUME NEW p \in Procs, Procs = {p}, ~EventOutlivesWorker
  PROVE  Spec => ImplementsClaimLocks
<1>1. Init => RegistrationInv
  BY InitRegistered
<1>2. RegistrationInv /\ [Next]_vars => RegistrationInv'
  BY RegistrationStep
<1>3. Init => Locks!Init
  <2>. SUFFICES ASSUME Init PROVE AtWork = {}
    BY DEF Locks!Init
  <2>1. \A w \in Workers : workers[w].pc = "free"
    BY DEF Init, FreeWorker
  <2>. QED  BY <2>1 DEF AtWork, Running, isRunning
<1>4. RegistrationInv /\ [Next]_vars => [Locks!Next]_AtWork
  BY LocksStep
<1>. QED  BY <1>1, <1>2, <1>3, <1>4, PTL DEF Spec, ImplementsClaimLocks, Locks!Spec

-----------------------------------------------------------------------------
(* The rows of the tasks, when one process has opened the library: a row   *)
(* that is shown as running is worked on, a row that is worked on is shown *)
(* as active, and a cancellation is not forgotten.                         *)

-----------------------------------------------------------------------------
(* The invariant.                                                          *)

SelfExclusive(t) == Conflicts(HandlerClaims(desc[t]), HandlerClaims(desc[t]))
Ended(t) == rows[t].status \in TERMINAL_TASK_STATUSES

\* What the thread of a run finds when it first writes the row of its task.
Untouched(t) == IF Batch(t) THEN ~Ended(t) ELSE rows[t].status # "running"
FreshPC == {"start", "checked", "guard", "entry"}
FreshThreads ==
  \A w \in Workers : workers[w].action = "run" /\ workers[w].pc \in FreshPC => Untouched(workers[w].task)

\* Only the thread of a run works.
OnlyRunsWork == \A w \in Workers : workers[w].pc \in {"working", "polling"} => workers[w].action = "run"

\* What a tick found is as it found it until it is started.
StartableRows(p) ==
  /\ main_pc[p] \notin {"tick", "register_run"} => startable[p] = {}
  /\ main_pc[p] = "register_run" => focus[p] \notin startable[p] /\ Untouched(focus[p])
  /\ \A t \in startable[p] : ~HasWorker(p, t) /\ ~Ended(t)

\* Between the queue's look at a row and the start, only a cancellation of the
\* same task can be at work.
StrictRows(p) ==
  main_pc[p] = "strict_start" =>
    /\ HasWorker(p, focus[p]) \/ ~Ended(focus[p])
    /\ SelfExclusive(focus[p]) =>
         \A w \in Workers :
           workers[w].pc # "free" /\ workers[w].task = focus[p] => workers[w].action = "cancel"

\* A local row that is running is worked on, or is about to be recovered.
Recovering(p, t) ==
  main_pc[p] = "down" \/ (main_pc[p] = "recover" /\ \E r \in recovery[p] : r.task = t)
RunningRows(p) ==
  \A t \in Tasks : rows[t].status = "running" /\ ~Batch(t) => t \in AtWork \/ Recovering(p, t)

RecoveryRows(p) ==
  /\ \A r \in recovery[p] : r.status # "running"
  /\ main_pc[p] \in {"down", "recover"} => \A w \in Workers : workers[w].pc = "free"

UnbornRows == \A t \in Tasks : rows[t].status = "unborn" => ~rows[t].cancel_requested

RowsInv(p) ==
  /\ FreshThreads /\ OnlyRunsWork /\ StartableRows(p) /\ StrictRows(p)
  /\ RunningRows(p) /\ RecoveryRows(p) /\ UnbornRows /\ WorkingRowIsActive

-----------------------------------------------------------------------------
(* Lemmas.                                                                 *)

\* A batch translation claims its documents for itself alone.
LEMMA BatchIsExclusive ==
  ASSUME NEW t \in Tasks, Batch(t)
  PROVE  SelfExclusive(t)
<1>1. PICK k \in desc[t].docs : TRUE
  BY BatchScopeAssumption DEF Batch
<1>. DEFINE c == ResourceClaim("doc", desc[t], k, WRITE_EXCLUSIVE)
<1>2. c \in HandlerClaims(desc[t])
  <2>1. HandlerClaims(desc[t]) = TranslationClaims(desc[t])
    BY DEF Batch, HandlerClaims, TranslationTypes, GlossaryRewriteTypes
  <2>. QED  BY <2>1 DEF TranslationClaims, DocClaims
<1>3. ClaimsClash(c, c)
  BY DEF ClaimsClash, ResourceClaim, ModesConflict, READ_SHARED, WRITE_EXCLUSIVE, WRITE_COOPERATIVE
<1>. QED  BY <1>2, <1>3 DEF SelfExclusive, Conflicts

\* What the two updates of the store do, row by row.
LEMMA StoreRows ==
  ASSUME TypeOK, NEW t \in Tasks, NEW s, NEW flag
  PROVE  /\ SetStatus(t, s) \/ SetRow(t, s, flag) =>
              /\ \A u \in Tasks \ {t} : rows'[u] = rows[u]
              /\ ~Exists(t) => rows' = rows
         /\ SetStatus(t, s) /\ Exists(t) =>
              rows'[t].status = s /\ rows'[t].cancel_requested = rows[t].cancel_requested
         /\ SetRow(t, s, flag) /\ Exists(t) =>
              rows'[t].status = s /\ rows'[t].cancel_requested = flag
<1>0. rows \in [Tasks -> Row] /\ rows[t] \in Row
  BY DEF TypeOK
<1>1. /\ [rows[t] EXCEPT !.status = s].status = s
      /\ [rows[t] EXCEPT !.status = s].cancel_requested = rows[t].cancel_requested
      /\ [rows[t] EXCEPT !.status = rows[t].status] = rows[t]
      /\ [rows[t] EXCEPT !.status = s, !.cancel_requested = flag].status = s
      /\ [rows[t] EXCEPT !.status = s, !.cancel_requested = flag].cancel_requested = flag
  BY <1>0 DEF Row
<1>2. CASE Exists(t)
  <2>1. SetStatus(t, s) => rows' = [rows EXCEPT ![t] = [rows[t] EXCEPT !.status = s]]
    BY <1>2 DEF SetStatus
  <2>2. SetRow(t, s, flag) =>
          rows' = [rows EXCEPT ![t] = [rows[t] EXCEPT !.status = s, !.cancel_requested = flag]]
    BY <1>2 DEF SetRow
  <2>. QED  BY <1>0, <1>1, <1>2, <2>1, <2>2
<1>3. CASE ~Exists(t)
  <2>1. SetStatus(t, s) => rows' = [rows EXCEPT ![t] = [rows[t] EXCEPT !.status = rows[t].status]]
    BY <1>3 DEF SetStatus
  <2>2. SetRow(t, s, flag) => rows' = [rows EXCEPT ![t] = rows[t]]
    BY <1>3 DEF SetRow
  <2>. QED  BY <1>0, <1>1, <1>3, <2>1, <2>2
<1>. QED  BY <1>2, <1>3

\* In a lone process two threads never have the same task.
LEMMA OneThread ==
  ASSUME NEW p \in Procs, Procs = {p}, RegistrationInv,
         NEW w \in Workers, workers[w].pc # "free"
  PROVE  /\ workers[w].task \in Tasks /\ workers[w].proc = p /\ workers[w].action \in {"run", "cancel"}
         /\ HasWorker(p, workers[w].task) /\ active_workers[p][workers[w].task] = w
         /\ \A v \in Workers : workers[v].pc # "free" /\ workers[v].task = workers[w].task => v = w
         /\ workers[w].action = "run" =>
              active_claims[p][workers[w].task] = HandlerClaims(desc[workers[w].task])
<1>1. \A v \in Workers : /\ workers[v].proc = p /\ workers[v].task \in Tasks
                         /\ workers[v].action \in {"run", "cancel"}
  BY DEF RegistrationInv, ClaimsInv, TypeOK, Worker
<1>2. \A v \in Workers : workers[v].pc # "free" => active_workers[p][workers[v].task] = v
  BY <1>1 DEF RegistrationInv, ThreadsAreRegistered
<1>3. HasWorker(p, workers[w].task)
  BY <1>2, WorkersAssumption DEF HasWorker
<1>. QED  BY <1>1, <1>2, <1>3 DEF RegistrationInv, RegistrationsNameThreads

\* What a step of a thread does to the rows.
ThreadRows(w) ==
  LET t == workers[w].task IN
  /\ \A u \in Tasks \ {t} : rows'[u] = rows[u]
  /\ rows[t].status \in {"unborn", "deleted"} => rows'[t] = rows[t]
  /\ rows'[t].status = "unborn" => rows[t].status = "unborn"
  /\ workers'[w].pc \in {"working", "polling"} => workers[w].action = "run" /\ rows'[t].status = "running"
  /\ workers'[w].pc \in FreshPC => workers[w].pc \in FreshPC /\ rows'[t] = rows[t]
  /\ ~Batch(t) /\ rows'[t].status = "running" =>
       \/ workers[w].action = "run" /\ workers'[w].pc \in {"checked", "working"}
       \/ workers[w].pc = "start" /\ rows'[t] = rows[t]
  /\ rows[t].cancel_requested /\ ~rows'[t].cancel_requested =>
       \/ rows'[t].status = "cancelled"
       \/ workers[w].pc = "entry" /\ workers[w].action = "run" /\ Batch(t) /\ Ended(t)

LEMMA ThreadStepRows ==
  ASSUME TypeOK, NEW w \in Workers, WorkerStep(w)
  PROVE  ThreadRows(w)
<1>. DEFINE t == workers[w].task
<1>0. t \in Tasks /\ workers \in [Workers -> Worker]
  BY DEF TypeOK, Worker
<1>1. /\ Exists(t) => rows[t].status \notin {"unborn", "deleted"}
      /\ ~Exists(t) => rows[t].status \in {"unborn", "deleted"}
  BY <1>0 DEF TypeOK, Row, Exists, Status, ACTIVE_STATUSES, TERMINAL_TASK_STATUSES
<1>p. ASSUME NEW pc, Continue(w, pc) PROVE workers'[w].pc = pc
  BY <1>0, <1>p DEF Continue, Worker
<1>s. ASSUME NEW s, SetStatus(t, s)
      PROVE  \/ ~Exists(t) /\ rows' = rows
             \/ /\ Exists(t) /\ \A u \in Tasks \ {t} : rows'[u] = rows[u]
                /\ rows'[t].status = s /\ rows'[t].cancel_requested = rows[t].cancel_requested
  BY <1>0, <1>s, StoreRows
<1>f. ASSUME NEW s, NEW flag, SetRow(t, s, flag)
      PROVE  \/ ~Exists(t) /\ rows' = rows
             \/ /\ Exists(t) /\ \A u \in Tasks \ {t} : rows'[u] = rows[u]
                /\ rows'[t].status = s /\ rows'[t].cancel_requested = flag
  BY <1>0, <1>f, StoreRows
<1>. USE <1>0 DEF FreshPC
<1>2. CASE InterruptedAtStart(w)
  <2>1. workers'[w].pc = "ended"
    BY <1>p, <1>2 DEF InterruptedAtStart
  <2>. QED  BY <1>2, <2>1 DEF InterruptedAtStart, storeVars, ThreadRows
<1>3. CASE LocalStep(w)
  <2>1. CASE LocalStart(w)
    <3>1. workers'[w].pc = "checked"
      BY <2>1, <1>p DEF LocalStart
    <3>. QED  BY <2>1, <1>1, <3>1 DEF LocalStart, WorkerAt, ThreadRows, Ended
  <2>2. CASE LocalRunning(w)
    <3>1. \/ ~Exists(t) /\ rows' = rows
          \/ /\ Exists(t) /\ \A u \in Tasks \ {t} : rows'[u] = rows[u]
             /\ rows'[t].status = "running" /\ rows'[t].cancel_requested = rows[t].cancel_requested
      BY <2>2, <1>s DEF LocalRunning
    <3>2. workers'[w].pc = IF Exists(t) THEN "working" ELSE "ended"
      BY <2>2, <1>p DEF LocalRunning
    <3>. QED  BY <2>2, <1>1, <3>1, <3>2 DEF LocalRunning, WorkerAt, ThreadRows, Ended
  <2>3. CASE LocalDone(w)
    <3>1. \/ ~Exists(t) /\ rows' = rows
          \/ /\ Exists(t) /\ \A u \in Tasks \ {t} : rows'[u] = rows[u]
             /\ rows'[t].status \in {"completed", "failed"}
             /\ rows'[t].cancel_requested = rows[t].cancel_requested
          \/ /\ Exists(t) /\ \A u \in Tasks \ {t} : rows'[u] = rows[u]
             /\ rows'[t].status = "cancelled" /\ rows'[t].cancel_requested = FALSE
      BY <2>3, <1>s, <1>f DEF LocalDone
    <3>2. workers'[w].pc = "ended"
      BY <2>3, <1>p DEF LocalDone
    <3>. QED  BY <2>3, <1>1, <3>1, <3>2 DEF LocalDone, WorkerAt, ThreadRows, Ended
  <2>4. CASE LocalCancel(w)
    <3>1. \/ ~Exists(t) /\ rows' = rows
          \/ /\ Exists(t) /\ \A u \in Tasks \ {t} : rows'[u] = rows[u]
             /\ rows'[t].status = "cancelled" /\ rows'[t].cancel_requested = FALSE
      BY <2>4, <1>f DEF LocalCancel
    <3>2. workers'[w].pc = "ended"
      BY <2>4, <1>p DEF LocalCancel
    <3>. QED  BY <2>4, <1>1, <3>1, <3>2 DEF LocalCancel, WorkerAt, ThreadRows, Ended
  <2>. QED  BY <1>3, <2>1, <2>2, <2>3, <2>4 DEF LocalStep
<1>4. CASE BatchStep(w)
  <2>1. CASE BatchStart(w)
    <3>1. workers'[w].pc = "ended" \/ workers'[w].pc = "guard"
      BY <2>1, <1>p DEF BatchStart
    <3>. QED  BY <2>1, <1>1, <3>1 DEF BatchStart, WorkerAt, ThreadRows, Ended
  <2>2. CASE BatchGuard(w)
    <3>1. workers'[w].pc = "ended" \/ workers'[w].pc = "entry"
      BY <2>2, <1>p DEF BatchGuard
    <3>. QED  BY <2>2, <1>1, <3>1 DEF BatchGuard, WorkerAt, ThreadRows, Ended
  <2>3. CASE BatchSnapshotFails(w)
    <3>1. \/ ~Exists(t) /\ rows' = rows
          \/ /\ Exists(t) /\ \A u \in Tasks \ {t} : rows'[u] = rows[u]
             /\ rows'[t].status = "failed" /\ rows'[t].cancel_requested = rows[t].cancel_requested
      BY <2>3, <1>s DEF BatchSnapshotFails
    <3>2. workers'[w].pc = "ended"
      BY <2>3, <1>p DEF BatchSnapshotFails
    <3>. QED  BY <2>3, <1>1, <3>1, <3>2 DEF BatchSnapshotFails, WorkerAt, ThreadRows, Ended
  <2>4. CASE BatchEntry(w)
    <3>1. rows' = rows \/ (Ended(t) /\ (\/ ~Exists(t) /\ rows' = rows
            \/ /\ Exists(t) /\ \A u \in Tasks \ {t} : rows'[u] = rows[u]
               /\ rows'[t].status = "paused" /\ rows'[t].cancel_requested = FALSE))
      BY <2>4, <1>f DEF Ended, RERUNNABLE_TERMINAL_STATUSES, TERMINAL_TASK_STATUSES, BatchEntry
    <3>2. workers'[w].pc \in {"ended", "post", "cancel", "run"}
      BY <2>4, <1>p DEF BatchEntry
    <3>. QED  BY <2>4, <1>1, <3>1, <3>2 DEF BatchEntry, WorkerAt, ThreadRows, Ended
  <2>5. CASE BatchRunning(w)
    <3>1. \/ ~Exists(t) /\ rows' = rows
          \/ /\ Exists(t) /\ \A u \in Tasks \ {t} : rows'[u] = rows[u]
             /\ rows'[t].status = "running" /\ rows'[t].cancel_requested = rows[t].cancel_requested
      BY <2>5, <1>s DEF BatchRunning
    <3>2. workers'[w].pc = IF Exists(t) THEN "polling" ELSE "ended"
      BY <2>5, <1>p DEF BatchRunning
    <3>. QED  BY <2>5, <1>1, <3>1, <3>2 DEF BatchRunning, WorkerAt, ThreadRows, Ended
  <2>6. CASE BatchProgress(w)
    <3>1. \/ ~Exists(t) /\ rows' = rows
          \/ /\ Exists(t) /\ \A u \in Tasks \ {t} : rows'[u] = rows[u]
             /\ rows'[t].status = "running" /\ rows'[t].cancel_requested = rows[t].cancel_requested
      BY <2>6, <1>s DEF BatchProgress
    <3>2. workers'[w].pc = IF Exists(t) THEN "polling" ELSE "ended"
      BY <2>6, <1>p DEF BatchProgress
    <3>. QED  BY <2>6, <1>1, <3>1, <3>2 DEF BatchProgress, WorkerAt, ThreadRows, Ended
  <2>7. CASE BatchPause(w)
    <3>1. rows' = rows \/ (\/ ~Exists(t) /\ rows' = rows
            \/ /\ Exists(t) /\ \A u \in Tasks \ {t} : rows'[u] = rows[u]
               /\ rows'[t].status = "paused" /\ rows'[t].cancel_requested = rows[t].cancel_requested)
      BY <2>7, <1>s DEF BatchPause
    <3>2. workers'[w].pc \in {"ended", "cancel", "post"}
      BY <2>7, <1>p DEF BatchPause
    <3>. QED  BY <2>7, <1>1, <3>1, <3>2 DEF BatchPause, WorkerAt, ThreadRows, Ended
  <2>8. CASE BatchEnds(w)
    <3>1. \/ ~Exists(t) /\ rows' = rows
          \/ /\ Exists(t) /\ \A u \in Tasks \ {t} : rows'[u] = rows[u]
             /\ rows'[t].status \in {"paused", "failed", "completed"}
             /\ rows'[t].cancel_requested = rows[t].cancel_requested
      BY <2>8, <1>s DEF BatchEnds
    <3>2. workers'[w].pc \in {"ended", "post"}
      BY <2>8, <1>p DEF BatchEnds
    <3>. QED  BY <2>8, <1>1, <3>1, <3>2 DEF BatchEnds, WorkerAt, ThreadRows, Ended
  <2>9. CASE BatchFinish(w)
    <3>1. workers'[w].pc \in {"finish_cancelled", "finish_completed"}
      BY <2>9, <1>p DEF BatchFinish
    <3>. QED  BY <2>9, <1>1, <3>1 DEF BatchFinish, WorkerAt, ThreadRows, Ended
  <2>10. CASE BatchFinished(w)
    <3>1. \/ ~Exists(t) /\ rows' = rows
          \/ /\ Exists(t) /\ \A u \in Tasks \ {t} : rows'[u] = rows[u]
             /\ rows'[t].status \in {"cancelled", "completed", "completed_with_errors"} /\ rows'[t].cancel_requested = rows[t].cancel_requested
      BY <2>10, <1>s DEF BatchFinished
    <3>2. workers'[w].pc \in {"ended", "post"}
      BY <2>10, <1>p DEF BatchFinished
    <3>. QED  BY <2>10, <1>1, <3>1, <3>2 DEF BatchFinished, WorkerAt, ThreadRows, Ended
  <2>11. CASE BatchPost(w)
    <3>1. \A u \in Tasks : rows[u] \in Row
      BY DEF TypeOK
    <3>2. \A u \in Tasks \ {t} : rows'[u] = rows[u]
      BY <2>11 DEF BatchPost, TypeOK
    <3>3. rows'[t] = [rows[t] EXCEPT !.remote = IF Exists(t) THEN TRUE ELSE rows[t].remote]
      BY <2>11 DEF BatchPost, TypeOK
    <3>4. /\ rows'[t].status = rows[t].status /\ rows'[t].cancel_requested = rows[t].cancel_requested
          /\ ~Exists(t) => rows'[t] = rows[t]
      <4>1. [rows[t] EXCEPT !.remote = rows[t].remote] = rows[t]
        BY <3>1 DEF Row
      <4>. QED  BY <3>1, <3>3, <4>1 DEF Row
    <3>5. workers'[w].pc = "ended"
      BY <1>p, <2>11 DEF BatchPost
    <3>. QED  BY <2>11, <1>1, <3>2, <3>4, <3>5 DEF BatchPost, WorkerAt, ThreadRows, Ended
  <2>12. CASE BatchCancelStart(w)
    <3>1. workers'[w].pc \in {"ended", "cancel"}
      BY <2>12, <1>p DEF BatchCancelStart
    <3>. QED  BY <2>12, <1>1, <3>1 DEF BatchCancelStart, WorkerAt, ThreadRows, Ended
  <2>13. CASE RequestCancel(w)
    <3>1. (rows' = rows /\ rows[t].status # "running") \/ (\/ ~Exists(t) /\ rows' = rows
            \/ /\ Exists(t) /\ \A u \in Tasks \ {t} : rows'[u] = rows[u]
               /\ rows'[t].status = "cancelling" /\ rows'[t].cancel_requested = TRUE)
      BY <2>13, <1>f DEF TERMINAL_TASK_STATUSES, RequestCancel
    <3>2. workers'[w].pc \in {"ended", "post", "confirm"}
      BY <2>13, <1>p DEF RequestCancel, AfterCancel
    <3>. QED  BY <2>13, <1>1, <3>1, <3>2 DEF RequestCancel, AfterCancel, ThreadRows, Ended
  <2>14. CASE CancelConfirmed(w)
    <3>1. \/ ~Exists(t) /\ rows' = rows
          \/ /\ Exists(t) /\ \A u \in Tasks \ {t} : rows'[u] = rows[u]
             /\ rows'[t].status = "cancelled" /\ rows'[t].cancel_requested = rows[t].cancel_requested
      BY <2>14, <1>s DEF CancelConfirmed
    <3>2. workers'[w].pc \in {"ended", "post", "confirm"}
      BY <2>14, <1>p DEF CancelConfirmed, AfterCancel
    <3>. QED  BY <2>14, <1>1, <3>1, <3>2 DEF CancelConfirmed, AfterCancel, ThreadRows, Ended
  <2>15. CASE CancelUnconfirmed(w)
    <3>1. \/ ~Exists(t) /\ rows' = rows
          \/ /\ Exists(t) /\ \A u \in Tasks \ {t} : rows'[u] = rows[u]
             /\ rows'[t].status = "cancelling" /\ rows'[t].cancel_requested = rows[t].cancel_requested
      BY <2>15, <1>s DEF CancelUnconfirmed
    <3>2. workers'[w].pc \in {"ended", "post", "confirm"}
      BY <2>15, <1>p DEF CancelUnconfirmed, AfterCancel
    <3>. QED  BY <2>15, <1>1, <3>1, <3>2 DEF CancelUnconfirmed, AfterCancel, ThreadRows, Ended
  <2>. QED
    BY <1>4, <2>1, <2>2, <2>3, <2>4, <2>5, <2>6, <2>7, <2>8, <2>9, <2>10, <2>11,
       <2>12, <2>13, <2>14, <2>15 DEF BatchStep
<1>. QED  BY <1>2, <1>3, <1>4 DEF WorkerStep

-----------------------------------------------------------------------------
(* The steps that register and release nothing.                            *)

\* The threads stand where they stood.
QuietThreads ==
  \A w \in Workers : /\ workers'[w].pc = workers[w].pc /\ workers'[w].proc = workers[w].proc
                     /\ workers'[w].task = workers[w].task /\ workers'[w].action = workers[w].action

\* Preflight has found nothing at work against task t.
Unopposed(p, t) == ~Conflicts(HandlerClaims(desc[t]), AllActive(p))

\* What such a step does to the row of task t.
QuietRow(p, t) ==
  \/ rows'[t] = rows[t]
  \/ /\ rows[t].status \in TERMINAL_TASK_STATUSES \cup {"unborn"} /\ rows'[t].status = "queued"
     /\ main_pc[p] = "idle" /\ Unopposed(p, t) /\ ~rows'[t].cancel_requested
  \/ /\ main_pc[p] = "strict_start" /\ focus[p] = t /\ main_pc'[p] = "idle"
     /\ rows'[t].status = "failed" /\ rows'[t].cancel_requested = rows[t].cancel_requested
  \/ rows'[t].status = "cancel_requested" /\ rows'[t].cancel_requested
  \/ ~HasWorker(p, t) /\ rows'[t].status = "cancelling" /\ rows'[t].cancel_requested
  \/ ~HasWorker(p, t) /\ main_pc[p] = "cancel_dispatch" /\ rows'[t].status = "cancelled"
  \/ /\ ~HasWorker(p, t) /\ t \in startable[p] \ startable'[p] /\ rows'[t].status = "failed"
     /\ rows'[t].cancel_requested = rows[t].cancel_requested
  \/ rows'[t].status = "deleted" /\ ~rows'[t].cancel_requested
  \/ main_pc[p] = "recover" /\ \E r \in recovery[p] : rows'[t].status = r.status

\* How it moves the main thread.
QuietMain(p) ==
  /\ main_pc'[p] \in {"down", "recover"} => main_pc[p] \in {"down", "recover"}
  /\ main_pc'[p] = "strict_start" =>
       \/ SameMain(p)
       \/ rows'[focus'[p]].status \notin TERMINAL_TASK_STATUSES /\ Unopposed(p, focus'[p])
  /\ main_pc'[p] = "register_run" =>
       \/ SameMain(p)
       \/ /\ RunAuthorized(p, focus'[p]) /\ rows' = rows /\ focus'[p] \notin startable'[p]
          /\ (main_pc[p] = "strict_start" /\ focus'[p] = focus[p]) \/ focus'[p] \in startable[p]
  /\ startable'[p] \subseteq startable[p]
  /\ main_pc'[p] \notin {"tick", "register_run"} =>
       startable'[p] = {} \/ main_pc[p] \notin {"tick", "register_run"}
  /\ \A r \in recovery'[p] : r \in recovery[p] \/ r.status # "running"
  /\ \A t \in Tasks : Recovering(p, t) /\ rows'[t].status = "running" /\ ~Batch(t) => Recovering(p, t)'

QuietStepRows(p) == QuietThreads /\ (\A t \in Tasks : QuietRow(p, t)) /\ QuietMain(p)

LEMMA QuietRows ==
  ASSUME TypeOK, NEW p \in Procs, StartableRows(p), RecoveryRows(p), QuietStep(p)
  PROVE  QuietStepRows(p)
<1>0. /\ main_pc \in [Procs -> MainPC] /\ focus \in [Procs -> Tasks] /\ focus[p] \in Tasks
      /\ startable \in [Procs -> SUBSET Tasks] /\ recovery[p] \subseteq [task : Tasks, status : Status]
      /\ recovery \in [Procs -> SUBSET [task : Tasks, status : Status]]
      /\ workers \in [Workers -> Worker] /\ rows \in [Tasks -> Row]
  BY DEF TypeOK
<1>1. \A t \in Tasks : Exists(t) <=> rows[t].status \in Status
  BY DEF Exists
<1>2. /\ NewRow("queued").status = "queued" /\ ~NewRow("queued").cancel_requested
      /\ NewRow("deleted").status = "deleted" /\ ~NewRow("deleted").cancel_requested
  BY DEF NewRow
<1>3. UNCHANGED workers => QuietThreads
  BY DEF QuietThreads
<1>4. UNCHANGED rows => \A t \in Tasks : QuietRow(p, t)
  BY DEF QuietRow
<1>s. ASSUME NEW t \in Tasks, NEW s, SetStatus(t, s)
      PROVE  \/ rows' = rows
             \/ /\ \A u \in Tasks \ {t} : rows'[u] = rows[u]
                /\ rows'[t].status = s /\ rows'[t].cancel_requested = rows[t].cancel_requested
  BY <1>0, <1>s, StoreRows
<1>f. ASSUME NEW t \in Tasks, NEW s, NEW flag, SetRow(t, s, flag)
      PROVE  \/ ~Exists(t) /\ rows' = rows
             \/ /\ Exists(t) /\ \A u \in Tasks \ {t} : rows'[u] = rows[u]
                /\ rows'[t].status = s /\ rows'[t].cancel_requested = flag
  BY <1>0, <1>f, StoreRows
<1>. USE <1>0
<1>5. ASSUME UNCHANGED <<startable, recovery>>,
             main_pc'[p] \notin {"down", "recover", "strict_start", "register_run", "tick"},
             main_pc[p] \notin {"down", "recover", "register_run", "tick"}
      PROVE  QuietMain(p)
  BY <1>5 DEF QuietMain, Recovering
<1>6. ASSUME UNCHANGED <<startable, recovery, main_pc, focus>> PROVE QuietMain(p)
  BY <1>6 DEF QuietMain, Recovering, SameMain
<1>7. CASE UserStep(p)
  <2>. PICK t \in Tasks : Submit(p, t) \/ QueueRun(p, t) \/ Cancel(p, t) \/ Delete(p, t)
    BY <1>7 DEF UserStep
  <2>1. ASSUME NEW pc, Operation(p, t, pc)
        PROVE  /\ main_pc[p] = "idle" /\ main_pc'[p] = pc /\ focus'[p] = t
               /\ UNCHANGED <<startable, recovery>>
    BY <2>1 DEF Operation, UserOp
  <2>2. ASSUME Operation(p, t, "strict_start"), rows'[t].status \notin TERMINAL_TASK_STATUSES,
               Unopposed(p, t)
        PROVE  QuietMain(p)
    BY <2>1, <2>2 DEF QuietMain, Recovering
  <2>3. CASE Submit(p, t)
    <3>1. /\ Operation(p, t, "strict_start") /\ UNCHANGED workers /\ Unopposed(p, t)
          /\ rows' = [rows EXCEPT ![t] = NewRow("queued")] /\ rows[t].status = "unborn"
      BY <2>3 DEF Submit, PreflightRun, Unopposed
    <3>2. rows'[t].status = "queued" /\ ~rows'[t].cancel_requested
      BY <1>2, <3>1
    <3>3. rows'[t].status \notin TERMINAL_TASK_STATUSES
      BY <3>2 DEF TERMINAL_TASK_STATUSES
    <3>4. \A u \in Tasks : QuietRow(p, u)
      BY <3>1, <3>2, <2>1 DEF QuietRow
    <3>. QED  BY <1>3, <2>2, <3>1, <3>3, <3>4 DEF QuietStepRows
  <2>4. CASE QueueRun(p, t)
    <3>1. /\ Operation(p, t, "strict_start") /\ UNCHANGED workers /\ Unopposed(p, t)
          /\ IF rows[t].status \in TERMINAL_TASK_STATUSES THEN SetRow(t, "queued", FALSE) ELSE UNCHANGED rows
          /\ Exists(t)
      BY <2>4 DEF QueueRun, PreflightRun, Unopposed
    <3>2. \/ rows' = rows /\ rows[t].status \notin TERMINAL_TASK_STATUSES
          \/ /\ rows[t].status \in TERMINAL_TASK_STATUSES
             /\ \A u \in Tasks \ {t} : rows'[u] = rows[u]
             /\ rows'[t].status = "queued" /\ ~rows'[t].cancel_requested
      BY <1>f, <3>1
    <3>3. rows'[t].status \notin TERMINAL_TASK_STATUSES
      BY <3>2 DEF TERMINAL_TASK_STATUSES
    <3>4. \A u \in Tasks : QuietRow(p, u)
      BY <3>1, <3>2, <2>1 DEF QuietRow
    <3>. QED  BY <1>3, <2>2, <3>1, <3>3, <3>4 DEF QuietStepRows
  <2>5. CASE Cancel(p, t)
    <3>1. Operation(p, t, "cancel_check") /\ UNCHANGED <<rows, workers>>
      BY <2>5 DEF Cancel, storeVars
    <3>2. QuietMain(p)
      BY <1>5, <2>1, <3>1
    <3>. QED  BY <1>3, <1>4, <3>1, <3>2 DEF QuietStepRows
  <2>6. CASE Delete(p, t)
    <3>1. UNCHANGED <<rows, workers, startable, recovery, main_pc, focus>>
      BY <2>6 DEF Delete, storeVars, mainVars
    <3>. QED  BY <1>3, <1>4, <1>6, <3>1 DEF QuietStepRows
  <2>. QED  BY <2>3, <2>4, <2>5, <2>6
<1>8. CASE DeletionStep(p)
  <2>1. PICK t \in Tasks : DeleteCheck(p, t) \/ DeleteCommit(p, t)
    BY <1>8 DEF DeletionStep
  <2>2. UNCHANGED <<workers, startable, recovery, main_pc, focus>>
    BY <2>1 DEF DeleteCheck, DeleteCommit, mainVars
  <2>3. rows' = rows \/ rows' = [rows EXCEPT ![t] = NewRow("deleted")]
    BY <2>1 DEF DeleteCheck, DeleteCommit, storeVars
  <2>4. \A u \in Tasks : QuietRow(p, u)
    BY <1>2, <2>3 DEF QuietRow
  <2>. QED  BY <1>3, <1>6, <2>2, <2>4 DEF QuietStepRows
<1>9. CASE Startup(p)
  <2>. DEFINE stale == {[task |-> t, status |-> RecoveredStatus(t)] : t \in {u \in Tasks : NeedsRecovery(u)}}
  <2>1. /\ main_pc[p] = "down" /\ recovery'[p] = stale
        /\ main_pc'[p] = IF stale = {} THEN "idle" ELSE "recover"
        /\ UNCHANGED <<rows, workers, startable>>
    BY <1>9 DEF Startup, storeVars
  <2>2. \A r \in stale : r.status # "running"
    <3>1. \A t \in Tasks : RecoveredStatus(t) # "running"
      BY DEF RecoveredStatus
    <3>. QED  BY <3>1
  <2>3. ASSUME NEW t \in Tasks, rows[t].status = "running", ~Batch(t)
        PROVE  NeedsRecovery(t)
    BY <2>3, DescAssumption DEF NeedsRecovery, CanAutorun, ACTIVE_STATUSES, Batch
  <2>4. ASSUME NEW t \in Tasks, rows[t].status = "running", ~Batch(t)
        PROVE  [task |-> t, status |-> RecoveredStatus(t)] \in stale
    BY <2>3, <2>4
  <2>5. ASSUME NEW t \in Tasks, rows'[t].status = "running", ~Batch(t)
        PROVE  Recovering(p, t)'
    <3>1. [task |-> t, status |-> RecoveredStatus(t)] \in stale
      BY <2>1, <2>4, <2>5
    <3>2. main_pc'[p] = "recover"
      BY <2>1, <3>1
    <3>. QED  BY <2>1, <3>1, <3>2 DEF Recovering
  <2>6. QuietMain(p)
    BY <2>1, <2>2, <2>5 DEF QuietMain
  <2>. QED  BY <1>3, <1>4, <2>1, <2>6 DEF QuietStepRows
<1>10. CASE Close(p)
  <2>1. main_pc[p] = "idle" /\ main_pc'[p] = "closing" /\ UNCHANGED <<rows, startable, recovery>>
    BY <1>10 DEF Close, Goto, storeVars
  <2>2. QuietThreads
    BY <1>10 DEF Close, QuietThreads, Worker
  <2>. QED  BY <1>4, <1>5, <2>1, <2>2 DEF QuietStepRows
<1>11. CASE StrictStart(p)
  <2>. DEFINE t == focus[p]
  <2>1. main_pc[p] = "strict_start" /\ UNCHANGED <<workers, startable, recovery>>
    BY <1>11 DEF StrictStart
  <2>2. CASE RunAuthorized(p, t) /\ Authorized(p, t, "register_run")
    <3>1. main_pc'[p] = "register_run" /\ focus'[p] = t /\ rows' = rows
      BY <2>2 DEF Authorized
    <3>2. startable'[p] = {}
      BY <2>1 DEF StartableRows
    <3>3. QuietMain(p)
      BY <2>1, <2>2, <3>1, <3>2 DEF QuietMain, Recovering
    <3>. QED  BY <1>3, <1>4, <2>1, <3>1, <3>3 DEF QuietStepRows
  <2>3. CASE SetStatus(t, "failed") /\ Idle(p)
    <3>1. main_pc'[p] = "idle"
      BY <2>3 DEF Idle
    <3>2. QuietMain(p)
      BY <1>5, <2>1, <3>1
    <3>3. \A u \in Tasks : QuietRow(p, u)
      BY <1>s, <2>1, <2>3, <3>1 DEF QuietRow
    <3>. QED  BY <1>3, <2>1, <3>2, <3>3 DEF QuietStepRows
  <2>. QED  BY <1>11, <2>2, <2>3 DEF StrictStart
<1>12. CASE CancelCheck(p)
  <2>1. /\ main_pc[p] = "cancel_check" /\ UNCHANGED <<rows, workers, startable, recovery>>
        /\ main_pc'[p] \in {"cancel_mark", "cancel_dispatch", "idle"}
    BY <1>12 DEF CancelCheck, Goto, Idle, storeVars
  <2>. QED  BY <1>3, <1>4, <1>5, <2>1 DEF QuietStepRows
<1>13. CASE CancelMark(p)
  <2>. DEFINE t == focus[p]
  <2>1. /\ main_pc[p] = "cancel_mark" /\ UNCHANGED <<startable, recovery>>
        /\ main_pc'[p] \in {"cancel_dispatch", "idle"}
    BY <1>13 DEF CancelMark, Goto, Idle
  <2>2. \/ UNCHANGED workers
        \/ workers' = [workers EXCEPT ![active_workers[p][t]].interrupted = TRUE]
    BY <1>13, Zenon DEF CancelMark
  <2>3. QuietThreads
    BY <2>2 DEF QuietThreads, Worker
  <2>4. \A u \in Tasks : QuietRow(p, u)
    <3>1. SetRow(t, "cancel_requested", TRUE)
      BY <1>13 DEF CancelMark
    <3>. QED  BY <1>f, <3>1 DEF QuietRow
  <2>. QED  BY <1>5, <2>1, <2>3, <2>4 DEF QuietStepRows
<1>14. CASE CancelDispatch(p)
  <2>. DEFINE t == focus[p]
  <2>1. /\ main_pc[p] = "cancel_dispatch" /\ UNCHANGED <<workers, startable, recovery>>
        /\ main_pc'[p] \in {"register_cancel", "idle"}
    BY <1>14 DEF CancelDispatch, Authorized, Idle
  <2>2. rows' = rows \/ (~HasWorker(p, t) /\ SettleCancel(t))
    BY <1>14 DEF CancelDispatch, Authorized
  <2>3. \A u \in Tasks : QuietRow(p, u)
    <3>1. CASE ~HasWorker(p, t) /\ (SetRow(t, "cancelling", TRUE) \/ SetRow(t, "cancelled", FALSE))
      <4>1. \/ rows' = rows
            \/ /\ \A u \in Tasks \ {t} : rows'[u] = rows[u]
               /\ \/ rows'[t].status = "cancelling" /\ rows'[t].cancel_requested
                  \/ rows'[t].status = "cancelled"
        BY ZenonT(30), <1>f, <3>1
      <4>. QED  BY <2>1, <3>1, <4>1 DEF QuietRow
    <3>. QED  BY <1>4, <2>2, <3>1 DEF SettleCancel
  <2>. QED  BY <1>3, <1>5, <2>1, <2>3 DEF QuietStepRows
<1>15. ASSUME NEW t \in Tasks, TickStart(p, t) PROVE QuietStepRows(p)
  <2>1. /\ main_pc[p] = "tick" /\ t \in startable[p] /\ startable'[p] = startable[p] \ {t}
        /\ UNCHANGED <<workers, recovery>>
    BY <1>15 DEF TickStart
  <2>2. CASE RunAuthorized(p, t) /\ Authorized(p, t, "register_run")
    <3>1. main_pc'[p] = "register_run" /\ focus'[p] = t /\ rows' = rows
      BY <2>2 DEF Authorized
    <3>2. QuietMain(p)
      BY <2>1, <2>2, <3>1 DEF QuietMain, Recovering
    <3>. QED  BY <1>3, <1>4, <2>1, <3>1, <3>2 DEF QuietStepRows
  <2>3. CASE /\ IF startable[p] \ {t} = {} THEN Idle(p) ELSE UNCHANGED <<main_pc, focus>>
             /\ rows' = rows \/ (RunPermitted(p, t) /\ SetStatus(t, "failed"))
    <3>1. main_pc'[p] = IF startable[p] \ {t} = {} THEN "idle" ELSE "tick"
      BY <2>1, <2>3 DEF Idle
    <3>2. QuietMain(p)
      BY <2>1, <3>1 DEF QuietMain, Recovering
    <3>3. \A u \in Tasks : QuietRow(p, u)
      BY <1>s, <2>1, <2>3 DEF QuietRow, RunPermitted
    <3>. QED  BY <1>3, <2>1, <3>2, <3>3 DEF QuietStepRows
  <2>. QED  BY <1>15, <2>2, <2>3 DEF TickStart
<1>16. ASSUME NEW r \in recovery[p], RecoverRow(p, r) PROVE QuietStepRows(p)
  <2>1. r.task \in Tasks /\ main_pc[p] = "recover" /\ UNCHANGED <<workers, startable>>
    BY <1>16 DEF RecoverRow
  <2>2. /\ Exists(r.task) => /\ recovery'[p] = recovery[p] \ {r}
                             /\ main_pc'[p] = IF recovery[p] \ {r} = {} THEN "idle" ELSE "recover"
        /\ ~Exists(r.task) => recovery'[p] = {} /\ main_pc'[p] = "down"
    BY <1>16 DEF RecoverRow, Goto, Idle
  <2>3. \/ ~Exists(r.task) /\ rows' = rows
        \/ /\ Exists(r.task) /\ \A u \in Tasks \ {r.task} : rows'[u] = rows[u]
           /\ rows'[r.task].status = r.status
    <3>1. SetRow(r.task, r.status, FALSE)
      BY <1>16 DEF RecoverRow
    <3>. QED  BY <1>f, <2>1, <3>1
  <2>4. \A u \in Tasks : QuietRow(p, u)
    BY <2>1, <2>3 DEF QuietRow
  <2>5. ASSUME NEW t \in Tasks, rows'[t].status = "running", Recovering(p, t) PROVE Recovering(p, t)'
    <3>1. CASE ~Exists(r.task)
      BY <2>2, <3>1 DEF Recovering
    <3>2. CASE Exists(r.task)
      <4>1. t # r.task
        BY <2>3, <2>5, <3>2 DEF RecoveryRows
      <4>2. PICK z \in recovery[p] : z.task = t
        BY <2>1, <2>5 DEF Recovering
      <4>3. z \in recovery'[p] /\ main_pc'[p] = "recover"
        BY <2>2, <3>2, <4>1, <4>2
      <4>. QED  BY <4>2, <4>3 DEF Recovering
    <3>. QED  BY <3>1, <3>2
  <2>6. QuietMain(p)
    <3>1. main_pc'[p] \in {"idle", "recover", "down"} /\ recovery'[p] \subseteq recovery[p]
      BY <2>2
    <3>. QED  BY <2>1, <2>5, <3>1 DEF QuietMain
  <2>. QED  BY <1>3, <2>1, <2>4, <2>6 DEF QuietStepRows
<1>17. ASSUME NEW b \in Books, BackoffExpires(p, b) PROVE QuietStepRows(p)
  <2>1. UNCHANGED <<rows, workers, startable, recovery, main_pc, focus>>
    BY <1>17 DEF BackoffExpires, storeVars, mainVars
  <2>. QED  BY <1>3, <1>4, <1>6, <2>1 DEF QuietStepRows
<1>. QED
  BY <1>7, <1>8, <1>9, <1>10, <1>11, <1>12, <1>13, <1>14, <1>15, <1>16, <1>17 DEF QuietStep
\* A run of a task that excludes itself is opposed by its own claims.
LEMMA RunOpposesItself ==
  ASSUME NEW p \in Procs, Procs = {p}, RegistrationInv, NEW t \in Tasks, Unopposed(p, t), SelfExclusive(t),
         NEW w \in Workers, workers[w].pc # "free", workers[w].task = t
  PROVE  workers[w].action = "cancel"
<1>1. workers[w].action = "run" => active_claims[p][t] = HandlerClaims(desc[t])
  BY OneThread
<1>2. ~Conflicts(HandlerClaims(desc[t]), active_claims[p][t])
  BY CompatibleWithEach DEF Unopposed
<1>. QED  BY <1>1, <1>2, OneThread DEF SelfExclusive

\* The steps that register and release nothing preserve the invariant.
LEMMA RowsKeptQuietly ==
  ASSUME NEW p \in Procs, Procs = {p}, RegistrationInv, RowsInv(p), TypeOK', QuietStep(p)
  PROVE  RowsInv(p)'
<1>0. /\ TypeOK /\ QuietStepRows(p) /\ UNCHANGED <<active_workers, active_claims>>
      /\ \A t \in Tasks : HasWorker(p, t)' <=> HasWorker(p, t)
  BY QuietRows, QuietShape DEF RegistrationInv, ClaimsInv, RowsInv, HasWorker
<1>1. /\ QuietThreads /\ (\A t \in Tasks : QuietRow(p, t)) /\ QuietMain(p)
      /\ focus[p] \in Tasks /\ startable[p] \in SUBSET Tasks
      /\ \A w \in Workers : workers[w].task \in Tasks
  BY <1>0 DEF QuietStepRows, TypeOK, Worker
<1>2. \A w \in Workers : workers[w].pc # "free" => HasWorker(p, workers[w].task)
  BY OneThread
<1>3. \A s \in {"queued", "failed", "cancel_requested", "cancelling", "cancelled", "deleted"} :
        s \notin {"running", "unborn"}
  OBVIOUS
<1>4. \A r \in recovery[p] : r.status \in Status \ {"running"}
  BY <1>0 DEF RowsInv, RecoveryRows, TypeOK
<1>5. ASSUME NEW t \in Tasks
      PROVE  /\ rows'[t].status = "running" => rows'[t] = rows[t]
             /\ rows'[t].status = "unborn" => rows'[t] = rows[t]
  BY <1>1, <1>4 DEF QuietRow, Status, TERMINAL_TASK_STATUSES, ACTIVE_STATUSES
<1>6. ASSUME NEW w \in Workers, workers[w].pc # "free"
      PROVE  LET t == workers[w].task IN
             \/ rows'[t] = rows[t]
             \/ rows'[t].status \in {"cancel_requested", "deleted"}
             \/ rows'[t].status = "queued" /\ Unopposed(p, t)
             \/ main_pc[p] = "strict_start" /\ focus[p] = t /\ rows'[t].status = "failed"
  <2>1. main_pc[p] # "recover"
    BY <1>6 DEF RowsInv, RecoveryRows
  <2>. QED  BY <1>1, <1>2, <1>6, <2>1 DEF QuietRow
<1>t. focus'[p] \in Tasks
  BY DEF TypeOK
<1>7. FreshThreads'
  <2>. SUFFICES ASSUME NEW w \in Workers, workers'[w].action = "run", workers'[w].pc \in FreshPC
                PROVE  IF Batch(workers'[w].task)
                       THEN rows'[workers'[w].task].status \notin TERMINAL_TASK_STATUSES
                       ELSE rows'[workers'[w].task].status # "running"
    BY DEF FreshThreads, Untouched, Ended
  <2>. DEFINE t == workers[w].task
  <2>1. /\ workers'[w].task = t /\ workers[w].action = "run" /\ workers[w].pc \in FreshPC
        /\ workers[w].pc # "free" /\ t \in Tasks
    BY <1>1 DEF QuietThreads, FreshPC
  <2>2. Untouched(t)
    BY <2>1 DEF RowsInv, FreshThreads
  <2>3. ~(main_pc[p] = "strict_start" /\ focus[p] = t /\ Batch(t))
    BY <2>1, BatchIsExclusive DEF RowsInv, StrictRows
  <2>. QED  BY <1>6, <2>1, <2>2, <2>3 DEF Untouched, Ended, TERMINAL_TASK_STATUSES
<1>8. OnlyRunsWork'
  BY <1>1 DEF RowsInv, OnlyRunsWork, QuietThreads
<1>9. StartableRows(p)'
  <2>1. main_pc'[p] \notin {"tick", "register_run"} => startable'[p] = {}
    BY <1>1 DEF RowsInv, StartableRows, QuietMain
  <2>2. ASSUME NEW t \in startable'[p]
        PROVE  t \in Tasks /\ ~HasWorker(p, t) /\ rows'[t].status \notin TERMINAL_TASK_STATUSES
    <3>1. /\ t \in startable[p] /\ t \in Tasks /\ ~HasWorker(p, t) /\ ~Ended(t)
          /\ main_pc[p] \in {"tick", "register_run"}
      BY <1>1, <2>2 DEF QuietMain, RowsInv, StartableRows
    <3>. QED  BY <1>1, <2>2, <3>1 DEF QuietRow, Ended, TERMINAL_TASK_STATUSES
  <2>3. ASSUME main_pc'[p] = "register_run"
        PROVE  /\ focus'[p] \notin startable'[p]
               /\ IF Batch(focus'[p]) THEN rows'[focus'[p]].status \notin TERMINAL_TASK_STATUSES
                  ELSE rows'[focus'[p]].status # "running"
    <3>1. CASE SameMain(p)
      <4>. DEFINE t == focus[p]
      <4>1. main_pc[p] = "register_run" /\ focus'[p] = t /\ t \notin startable[p] /\ Untouched(t)
        BY <2>3, <3>1 DEF SameMain, RowsInv, StartableRows
      <4>2. rows'[t] = rows[t] \/ rows'[t].status \in {"cancel_requested", "cancelling", "deleted"}
        BY <1>1, <4>1 DEF QuietRow
      <4>. QED  BY <1>1, <4>1, <4>2 DEF QuietMain, Untouched, Ended, TERMINAL_TASK_STATUSES
    <3>2. CASE ~SameMain(p)
      <4>. DEFINE t == focus'[p]
      <4>1. RunAuthorized(p, t) /\ rows' = rows /\ t \notin startable'[p]
        BY <1>1, <2>3, <3>2 DEF QuietMain
      <4>2. ~Ended(t)
        BY <1>1, <2>3, <3>2, <4>1 DEF QuietMain, RunAuthorized, RunPermitted, RowsInv, StrictRows, StartableRows
      <4>3. ~Batch(t) => rows[t].status # "running"
        BY <4>1, DescAssumption, <1>t DEF RunAuthorized, RunPermitted, CanRun, Batch, RERUNNABLE_TERMINAL_STATUSES
      <4>. QED  BY <4>1, <4>2, <4>3 DEF Ended
    <3>. QED  BY <3>1, <3>2
  <2>. QED  BY <1>0, <2>1, <2>2, <2>3 DEF StartableRows, Untouched, Ended
<1>10. StrictRows(p)'
  <2>. SUFFICES ASSUME main_pc'[p] = "strict_start"
                PROVE  /\ HasWorker(p, focus'[p]) \/ rows'[focus'[p]].status \notin TERMINAL_TASK_STATUSES
                       /\ SelfExclusive(focus'[p]) =>
                            \A w \in Workers : workers[w].pc # "free" /\ workers[w].task = focus'[p]
                                                 => workers[w].action = "cancel"
    BY <1>0, <1>1, <1>t DEF StrictRows, Ended, QuietThreads, SelfExclusive
  <2>1. CASE SameMain(p)
    <3>. DEFINE t == focus[p]
    <3>1. main_pc[p] = "strict_start" /\ focus'[p] = t /\ startable[p] = {}
      BY <2>1 DEF SameMain, RowsInv, StartableRows
    <3>2. rows'[t] = rows[t] \/ rows'[t].status \in {"cancel_requested", "cancelling", "deleted"}
      BY <1>1, <3>1 DEF QuietRow
    <3>. QED  BY <3>1, <3>2 DEF RowsInv, StrictRows, Ended, TERMINAL_TASK_STATUSES
  <2>2. CASE ~SameMain(p)
    BY <1>1, <1>t, <2>2, RunOpposesItself DEF QuietMain
  <2>. QED  BY <2>1, <2>2
<1>11. RunningRows(p)'
  <2>1. AtWork' = AtWork
    BY <1>1 DEF AtWork, Running, isRunning, QuietThreads
  <2>. QED  BY <1>1, <1>5, <2>1 DEF RowsInv, RunningRows, QuietMain, Batch
<1>12. RecoveryRows(p)'
  BY <1>1 DEF RowsInv, RecoveryRows, QuietMain, QuietThreads
<1>13. UnbornRows'
  BY <1>5 DEF RowsInv, UnbornRows
<1>14. WorkingRowIsActive'
  <2>. SUFFICES ASSUME NEW w \in Workers, workers'[w].pc \in {"working", "polling"},
                       SelfExclusive(workers'[w].task)
                PROVE  rows'[workers'[w].task].status \in ACTIVE_STATUSES \cup {"deleted"}
    BY DEF WorkingRowIsActive, SelfExclusive
  <2>. DEFINE t == workers[w].task
  <2>1. /\ workers'[w].task = t /\ workers[w].action = "run" /\ workers[w].pc \in {"working", "polling"}
        /\ workers[w].pc # "free" /\ t \in Tasks
    BY <1>1 DEF QuietThreads, RowsInv, OnlyRunsWork
  <2>2. rows[t].status \in ACTIVE_STATUSES \cup {"deleted"}
    BY <2>1 DEF RowsInv, WorkingRowIsActive, SelfExclusive
  <2>3. ~Unopposed(p, t)
    BY <2>1, RunOpposesItself
  <2>4. ~(main_pc[p] = "strict_start" /\ focus[p] = t)
    BY <2>1 DEF RowsInv, StrictRows
  <2>. QED  BY <1>6, <2>1, <2>2, <2>3, <2>4 DEF ACTIVE_STATUSES
<1>. QED  BY <1>7, <1>8, <1>9, <1>10, <1>11, <1>12, <1>13, <1>14 DEF RowsInv
-----------------------------------------------------------------------------
(* The steps of the threads, and those that register or release one.       *)

\* A thread's step preserves the invariant.
LEMMA RowsKeptByThreads ==
  ASSUME NEW p \in Procs, Procs = {p}, RegistrationInv, RowsInv(p), NEW v \in Workers, WorkerStep(v)
  PROVE  RowsInv(p)'
<1>. DEFINE t == workers[v].task
<1>1. TypeOK /\ workers \in [Workers -> Worker]
  BY DEF RegistrationInv, ClaimsInv, TypeOK
<1>2. /\ UNCHANGED mainState /\ workers[v].pc \notin {"free", "ended"} /\ ThreadRows(v)
      /\ \A w \in Workers : /\ workers'[w].task = workers[w].task /\ workers'[w].action = workers[w].action
                            /\ w # v => workers'[w] = workers[w]
      /\ workers'[v].pc # "free"
  BY <1>1, WorkerStepShape, ThreadStepRows DEF Worker
<1>3. /\ UNCHANGED <<active_workers, active_claims, main_pc, focus, startable, recovery>>
      /\ \A u \in Tasks : HasWorker(p, u)' <=> HasWorker(p, u)
      /\ \A u \in Tasks : Recovering(p, u)' <=> Recovering(p, u)
  BY <1>2 DEF mainState, HasWorker, Recovering
<1>4. /\ t \in Tasks /\ HasWorker(p, t) /\ workers[v].action \in {"run", "cancel"}
      /\ \A w \in Workers : workers[w].pc # "free" /\ workers[w].task = t => w = v
  BY <1>2, OneThread
<1>5. /\ \A w \in Workers : workers[w].task \in Tasks
      /\ focus[p] \in Tasks /\ startable[p] \subseteq Tasks
  BY <1>1 DEF TypeOK, Worker
<1>6. \A u \in Tasks : u # t => rows'[u] = rows[u]
  BY <1>2 DEF ThreadRows
<1>7. main_pc[p] \notin {"down", "recover"}
  BY <1>2 DEF RowsInv, RecoveryRows
<1>8. FreshThreads'
  <2>. SUFFICES ASSUME NEW w \in Workers, workers[w].action = "run", workers'[w].pc \in FreshPC
                PROVE  IF Batch(workers[w].task)
                       THEN rows'[workers[w].task].status \notin TERMINAL_TASK_STATUSES
                       ELSE rows'[workers[w].task].status # "running"
    BY <1>2 DEF FreshThreads, Untouched, Ended
  <2>1. workers[w].pc \in FreshPC /\ rows'[workers[w].task] = rows[workers[w].task]
    <3>1. CASE w = v
      BY <1>2, <3>1 DEF ThreadRows
    <3>2. CASE w # v
      BY <1>2, <1>4, <1>5, <1>6, <3>2 DEF FreshPC
    <3>. QED  BY <3>1, <3>2
  <2>. QED  BY <2>1 DEF RowsInv, FreshThreads, Untouched, Ended
<1>9. OnlyRunsWork'
  BY <1>2 DEF RowsInv, OnlyRunsWork, ThreadRows
<1>10. StartableRows(p)'
  <2>1. t \notin startable[p]
    BY <1>4 DEF RowsInv, StartableRows
  <2>2. main_pc[p] = "register_run" => focus[p] # t
    BY <1>4 DEF RegistrationInv, NothingRegisteredTwice
  <2>. QED  BY <1>3, <1>5, <1>6, <2>1, <2>2 DEF RowsInv, StartableRows, Untouched, Ended
<1>11. StrictRows(p)'
  <2>. SUFFICES ASSUME main_pc[p] = "strict_start"
                PROVE  /\ HasWorker(p, focus[p]) \/ rows'[focus[p]].status \notin TERMINAL_TASK_STATUSES
                       /\ SelfExclusive(focus[p]) =>
                            \A w \in Workers : workers[w].pc # "free" /\ workers[w].task = focus[p]
                                                 => workers[w].action = "cancel"
    BY <1>2, <1>3, <1>5 DEF StrictRows, Ended, SelfExclusive
  <2>. QED  BY <1>4, <1>5, <1>6 DEF RowsInv, StrictRows, Ended
<1>12. RunningRows(p)'
  <2>. SUFFICES ASSUME NEW u \in Tasks, rows'[u].status = "running", ~Batch(u)
                PROVE  \E w \in Workers : /\ workers'[w].pc \notin {"free", "ended"}
                                          /\ workers[w].action = "run" /\ workers[w].task = u
    BY <1>2 DEF RunningRows, AtWork, Running, isRunning
  <2>1. CASE u # t
    <3>1. PICK w \in Workers : Running(w, "run") /\ workers[w].task = u
      BY <1>6, <1>7, <2>1 DEF RowsInv, RunningRows, AtWork, Recovering
    <3>. QED  BY <1>2, <2>1, <3>1 DEF Running, isRunning
  <2>2. CASE u = t /\ workers[v].action = "run" /\ workers'[v].pc \in {"checked", "working"}
    BY <2>2
  <2>3. CASE u = t /\ workers[v].pc = "start" /\ rows'[t] = rows[t]
    <3>1. PICK w \in Workers : Running(w, "run") /\ workers[w].task = t
      BY <1>4, <1>7, <2>3 DEF RowsInv, RunningRows, AtWork, Recovering
    <3>2. w = v /\ workers[v].action = "run"
      BY <1>4, <3>1 DEF Running, isRunning
    <3>. QED  BY <2>3, <3>2 DEF RowsInv, FreshThreads, FreshPC, Untouched
  <2>. QED  BY <1>2, <2>1, <2>2, <2>3 DEF ThreadRows
<1>13. RecoveryRows(p)'
  BY <1>3, <1>7 DEF RowsInv, RecoveryRows
<1>14. UnbornRows'
  BY <1>2, <1>6 DEF RowsInv, UnbornRows, ThreadRows
<1>15. WorkingRowIsActive'
  <2>. SUFFICES ASSUME NEW w \in Workers, workers'[w].pc \in {"working", "polling"},
                       SelfExclusive(workers[w].task)
                PROVE  rows'[workers[w].task].status \in ACTIVE_STATUSES \cup {"deleted"}
    BY <1>2 DEF WorkingRowIsActive, SelfExclusive
  <2>1. CASE w = v
    BY <1>2, <2>1 DEF ThreadRows, ACTIVE_STATUSES
  <2>2. CASE w # v
    <3>1. workers[w].pc \in {"working", "polling"} /\ workers[w].task # t
      BY <1>2, <1>4, <2>2
    <3>. QED  BY <1>5, <1>6, <3>1 DEF RowsInv, WorkingRowIsActive, SelfExclusive
  <2>. QED  BY <2>1, <2>2
<1>. QED  BY <1>8, <1>9, <1>10, <1>11, <1>12, <1>13, <1>14, <1>15 DEF RowsInv

\* What the steps that release threads have in common: the rows stay, a thread
\* that is released had ended or dies with its process.
LEMMA RowsKeptByRelease ==
  ASSUME NEW p \in Procs, Procs = {p}, RegistrationInv, RowsInv(p), rows' = rows,
         \A w \in Workers : workers'[w] = workers[w] \/ workers'[w] = FreeWorker,
         \A w \in Workers : Running(w, "run") => workers'[w] = workers[w] \/ main_pc'[p] = "down",
         \A r \in recovery'[p] : r \in recovery[p],
         StartableRows(p)', main_pc'[p] # "strict_start", main_pc'[p] # "recover",
         main_pc[p] \in {"down", "recover"} => main_pc'[p] = "down",
         main_pc'[p] = "down" => \A w \in Workers : workers'[w].pc = "free"
  PROVE  RowsInv(p)'
<1>1. FreeWorker.pc = "free"
  BY DEF FreeWorker
<1>2. FreshThreads'
  BY <1>1 DEF RowsInv, FreshThreads, FreshPC, Untouched, Ended
<1>3. OnlyRunsWork'
  BY <1>1 DEF RowsInv, OnlyRunsWork
<1>4. StrictRows(p)' /\ RecoveryRows(p)' /\ UnbornRows'
  BY DEF RowsInv, StrictRows, RecoveryRows, UnbornRows
<1>5. RunningRows(p)'
  <2>. SUFFICES ASSUME NEW t \in Tasks, rows[t].status = "running", ~Batch(t), main_pc'[p] # "down"
                PROVE  \E w \in Workers : /\ workers'[w].pc \notin {"free", "ended"}
                                          /\ workers'[w].action = "run" /\ workers'[w].task = t
    BY DEF RunningRows, AtWork, Running, isRunning, Recovering
  <2>. QED  BY DEF RowsInv, RunningRows, AtWork, Running, isRunning, Recovering
<1>6. WorkingRowIsActive'
  BY <1>1 DEF RowsInv, WorkingRowIsActive
<1>. QED  BY <1>2, <1>3, <1>4, <1>5, <1>6 DEF RowsInv

\* Every step preserves the invariant.
LEMMA RowsStep ==
  ASSUME NEW p \in Procs, Procs = {p}, ~EventOutlivesWorker, RegistrationInv, RowsInv(p), [Next]_vars
  PROVE  RowsInv(p)'
<1>0. /\ TypeOK /\ TypeOK' /\ RegistrationInv'
      /\ workers \in [Workers -> Worker] /\ focus[p] \in Tasks /\ startable[p] \subseteq Tasks
      /\ startable \in [Procs -> SUBSET Tasks]
      /\ \A w \in Workers : workers[w].proc = p /\ workers[w].task \in Tasks
      /\ FreeWorker.pc = "free"
  BY StepTyped, RegistrationStep DEF RegistrationInv, ClaimsInv, TypeOK, Worker, FreeWorker
<1>1. CASE UNCHANGED vars
  BY <1>1 DEF vars, RowsInv, FreshThreads, OnlyRunsWork, StartableRows, StrictRows, RunningRows,
              RecoveryRows, UnbornRows, WorkingRowIsActive, Untouched, Ended, HasWorker, AtWork,
              Running, isRunning, Recovering, SelfExclusive
<1>2. ASSUME NEW w \in Workers, WorkerStep(w) PROVE RowsInv(p)'
  BY <1>2, RowsKeptByThreads
<1>3. CASE QuietStep(p)
  BY <1>0, <1>3, RowsKeptQuietly
<1>4. CASE Tick(p)
  <2>1. /\ rows' = rows /\ main_pc[p] = "idle" /\ UNCHANGED recovery
        /\ \A w \in Workers : workers'[w] = workers[w] \/ workers'[w] = FreeWorker
        /\ startable'[p] = ScanAutorunnable(p)
        /\ main_pc'[p] = IF ScanAutorunnable(p) # {} THEN "tick" ELSE "idle"
    BY <1>0, <1>4 DEF Tick, storeVars, Goto, TypeOK
  <2>2. ASSUME NEW w \in Workers, Running(w, "run") PROVE workers'[w] = workers[w]
    <3>1. w \notin ReleasedWorkers(p)
      BY <2>2 DEF ReleasedWorkers, Finished, Running
    <3>. QED  BY <1>4, <3>1 DEF Tick
  <2>3. ASSUME NEW t \in startable'[p] PROVE t \in Tasks /\ ~HasWorker(p, t)' /\ ~Ended(t)
    <3>1. t \in Tasks /\ rows[t].status \notin TERMINAL_TASK_STATUSES /\ (HasWorker(p, t) => t \in Finished(p))
      BY <2>1, <2>3 DEF ScanAutorunnable, CanAutorun
    <3>2. active_workers'[p][t] = IF t \in Finished(p) THEN NoWorker ELSE active_workers[p][t]
      BY <1>0, <1>4, <3>1 DEF Tick, TypeOK
    <3>. QED  BY <3>1, <3>2 DEF HasWorker, Ended
  <2>4. StartableRows(p)'
    BY <2>1, <2>3 DEF StartableRows, Ended
  <2>. QED  BY <2>1, <2>2, <2>4, RowsKeptByRelease
<1>5. CASE Gone(p)
  <2>1. /\ rows' = rows /\ main_pc'[p] = "down" /\ startable'[p] = {} /\ recovery'[p] = {}
        /\ \A w \in Workers : workers'[w] = IF workers[w].pc # "free" THEN FreeWorker ELSE workers[w]
    BY <1>0, <1>5 DEF Gone, storeVars, TypeOK
  <2>2. StartableRows(p)'
    BY <2>1 DEF StartableRows
  <2>. QED  BY <1>0, <2>1, <2>2, RowsKeptByRelease
<1>6. ASSUME NEW w \in Workers, OnWorkerFinished(p, w) PROVE RowsInv(p)'
  <2>1. /\ rows' = rows /\ main_pc[p] = "idle" /\ UNCHANGED <<recovery, startable, main_pc>>
        /\ workers' = [workers EXCEPT ![w] = FreeWorker] /\ workers[w].pc = "ended"
    BY <1>6 DEF OnWorkerFinished, storeVars, mainVars
  <2>2. StartableRows(p)'
    BY <2>1 DEF RowsInv, StartableRows
  <2>. QED  BY <1>0, <2>1, <2>2, RowsKeptByRelease DEF Running, isRunning
<1>7. ASSUME NEW w \in Workers, RegisterRun(p, w) \/ RegisterCancel(p, w) PROVE RowsInv(p)'
  <2>. DEFINE t == focus[p]
  <2>1. PICK action, claims :
          /\ action \in {"run", "cancel"}
          /\ Register(p, w, action, claims) /\ main_pc[p] \in {"register_run", "register_cancel"}
          /\ action = "run" => main_pc[p] = "register_run"
          /\ action = "cancel" => main_pc[p] = "register_cancel"
    BY <1>7 DEF RegisterRun, RegisterCancel
  <2>2. /\ workers[w].pc = "free" /\ UNCHANGED <<rows, startable, recovery>>
        /\ active_workers' = [active_workers EXCEPT ![p][t] = w]
        /\ main_pc'[p] = IF startable[p] = {} THEN "idle" ELSE "tick"
    BY <1>0, <2>1 DEF Register, storeVars, TypeOK
  <2>3. /\ workers'[w].pc = "start" /\ workers'[w].task = t /\ workers'[w].action = action
        /\ \A v \in Workers : v # w => workers'[v] = workers[v]
    BY <1>0, <2>1 DEF Register
  <2>4. \A u \in Tasks : u # t => (HasWorker(p, u)' <=> HasWorker(p, u))
    BY <1>0, <2>2 DEF HasWorker, TypeOK
  <2>5. FreshThreads'
    <3>1. action = "run" => Untouched(t)
      BY <2>1 DEF RowsInv, StartableRows
    <3>. QED  BY <2>2, <2>3, <3>1 DEF RowsInv, FreshThreads, Untouched, Ended
  <2>6. OnlyRunsWork' /\ WorkingRowIsActive'
    BY <2>2, <2>3 DEF RowsInv, OnlyRunsWork, WorkingRowIsActive
  <2>7. StartableRows(p)'
    <3>1. t \notin startable[p]
      BY <2>1 DEF RowsInv, StartableRows
    <3>. QED  BY <1>0, <2>2, <2>4, <3>1 DEF RowsInv, StartableRows, Ended
  <2>8. StrictRows(p)' /\ UnbornRows' /\ RecoveryRows(p)'
    BY <2>2 DEF RowsInv, StrictRows, UnbornRows, RecoveryRows
  <2>9. RunningRows(p)'
    <3>1. AtWork \subseteq AtWork'
      BY <2>2, <2>3 DEF AtWork, Running, isRunning
    <3>2. \A u \in Tasks : ~Recovering(p, u)
      BY <2>1 DEF Recovering
    <3>. QED  BY <2>2, <3>1, <3>2 DEF RowsInv, RunningRows
  <2>. QED  BY <2>5, <2>6, <2>7, <2>8, <2>9 DEF RowsInv
<1>. QED  BY <1>1, <1>2, <1>3, <1>4, <1>5, <1>6, <1>7, Steps
-----------------------------------------------------------------------------
(* The theorems.                                                           *)

\* The two invariants together hold in every behaviour of a lone process.
LEMMA RowsInvariant ==
  ASSUME NEW q \in Procs, Procs = {q}, ~EventOutlivesWorker
  PROVE  Spec => [](RegistrationInv /\ RowsInv(q))
<1>1. Init => RegistrationInv /\ RowsInv(q)
  <2>. SUFFICES ASSUME Init PROVE RowsInv(q)
    BY InitRegistered
  <2>1. /\ \A w \in Workers : workers[w].pc = "free"
        /\ \A t \in Tasks : rows[t].status = "unborn" /\ ~rows[t].cancel_requested
        /\ main_pc[q] = "down" /\ startable[q] = {} /\ recovery[q] = {}
    BY DEF Init, FreeWorker, NewRow
  <2>. QED
    BY <2>1 DEF RowsInv, FreshThreads, FreshPC, OnlyRunsWork, StartableRows, StrictRows,
                RunningRows, RecoveryRows, UnbornRows, WorkingRowIsActive
<1>2. (RegistrationInv /\ RowsInv(q)) /\ [Next]_vars => (RegistrationInv /\ RowsInv(q))'
  BY RegistrationStep, RowsStep
<1>. QED  BY <1>1, <1>2, PTL DEF Spec

\* A local task shown as running is worked on by a thread, or its process is
\* down or recovering: no last write of a worker, no cancellation, no start
\* that fails and no recovery leaves a row running behind.  And while a thread works
\* on a task that excludes itself, the row of the task is active or deleted, so that it
\* can neither be rerun nor run again.
THEOREM RowsTellOfWork ==
  ASSUME NEW q \in Procs, Procs = {q}, ~EventOutlivesWorker
  PROVE  Spec => []RowsTellTheWork
<1>1. RowsInv(q) => RunningHasWorker
  BY DEF RowsInv, RunningRows, RunningHasWorker, AtWork, Recovering
<1>2. RowsInv(q) => WorkingRowIsActive
  BY DEF RowsInv
<1>3. RowsInv(q) => RowsTellTheWork
  BY <1>1, <1>2 DEF RowsTellTheWork
<1>. QED  BY <1>3, RowsInvariant, PTL

\* No step of the engine or of its threads forgets a cancellation.
THEOREM CancelIsKept ==
  ASSUME NEW q \in Procs, Procs = {q}, ~EventOutlivesWorker
  PROVE  Spec => CancelIsNotForgotten
<1>1. RegistrationInv /\ RowsInv(q) /\ [Next]_vars =>
       [\A t \in Tasks :
          (rows[t].cancel_requested /\ ~rows'[t].cancel_requested) =>
            \/ rows'[t].status \in {"cancelled", "deleted"}
            \/ rows[t].status \in TERMINAL_TASK_STATUSES /\ rows'[t].status = "queued"
            \/ \E p \in Procs : main_pc[p] = "recover"]_vars
  <2>. SUFFICES ASSUME RegistrationInv, RowsInv(q), [Next]_vars, NEW t \in Tasks,
                       rows[t].cancel_requested, ~rows'[t].cancel_requested
                PROVE  \/ rows'[t].status \in {"cancelled", "deleted"}
                       \/ rows[t].status \in TERMINAL_TASK_STATUSES /\ rows'[t].status = "queued"
                       \/ main_pc[q] = "recover"
    OBVIOUS
  <2>0. TypeOK
    BY DEF RegistrationInv, ClaimsInv
  <2>1. ASSUME NEW w \in Workers, WorkerStep(w) PROVE rows'[t].status = "cancelled"
    <3>1. ThreadRows(w) /\ workers[w].task = t
      BY <2>0, <2>1, ThreadStepRows DEF ThreadRows
    <3>. QED  BY <3>1 DEF ThreadRows, RowsInv, FreshThreads, FreshPC, Untouched
  <2>2. CASE QuietStep(q)
    <3>1. QuietRow(q, t)
      BY <2>0, <2>2, QuietRows DEF RowsInv, QuietStepRows
    <3>2. rows[t].status # "unborn"
      BY DEF RowsInv, UnbornRows
    <3>. QED  BY <3>1, <3>2 DEF QuietRow
  <2>3. CASE rows' = rows
    BY <2>3
  <2>. QED
    BY <2>1, <2>2, <2>3, Steps DEF vars, Tick, Gone, OnWorkerFinished, RegisterRun, RegisterCancel,
       Register, storeVars
<1>. QED  BY <1>1, RowsInvariant, PTL DEF Spec, CancelIsNotForgotten
-----------------------------------------------------------------------------
(* The claims of the handlers cover what the workers touch (TaskAccess).   *)

\* What a task of the program names: all pages and chunks are of its documents.
Named(d) ==
  /\ d.book = "b" /\ d.type \in TaskTypes
  /\ d.type \notin GlossaryRewriteTypes \cup {"glossary_export"} =>
       d.docs # {} /\ (d.docs \in SUBSET Documents \/ d.docs = AllDocuments)
  /\ d.type \in {"ocr", "chunk_retranslation"} \/ d.sources # {} => \E k \in Documents : d.docs = {k}
  /\ d.type = "chunk_retranslation" => \A k \in d.docs : d.chunk \in ChunksOf[k]
  /\ d.sources # {} => /\ d.type \in {"ocr", "image_reembedding"}
                       /\ \A k \in d.docs : d.sources \subseteq SourcesOf[k]

\* The descriptions of MCTaskAccess are such.
LEMMA PossibleAreNamed ==
  ASSUME NEW d \in Possible
  PROVE  Named(d)
<1>. USE DEF TaskTypes, TranslationTypes, GlossaryRewriteTypes
<1>0. d \in Descriptions /\ (d.sources # {} => \A k \in d.docs : d.sources \subseteq SourcesOf[k])
  BY DEF Possible
<1>. DEFINE Long == TranslationTypes \cup {"glossary_extraction", "translate_and_export", "image_reembedding"}
            Free == GlossaryRewriteTypes \cup {"glossary_export"}
            Paged == {"ocr", "image_reembedding"}
            Some == SUBSET UNION {SourcesOf[j] : j \in Documents}
<1>1. CASE \E docs \in Scopes : d \in Describe(Long, docs, {}, "-")
  <2>1. PICK docs \in Scopes : d.book = "b" /\ d.docs = docs /\ d.sources = {} /\ d.type \in Long
    BY <1>1 DEF Describe
  <2>2. d.docs # {} /\ (d.docs \in SUBSET Documents \/ d.docs = AllDocuments)
    BY <2>1 DEF Scopes, AllDocuments
  <2>. QED  BY <2>1, <2>2 DEF Named
<1>2. CASE d \in Describe(Free, {}, {}, "-")
  BY <1>2 DEF Describe, Named
<1>3. CASE \E k \in Documents : \E sources \in Some : d \in Describe(Paged, {k}, sources, "-")
  <2>1. PICK k \in Documents : d.book = "b" /\ d.docs = {k} /\ d.type \in Paged
    BY <1>3 DEF Describe
  <2>. QED  BY <1>0, <2>1 DEF Named
<1>4. CASE \E k \in Documents : \E c \in ChunksOf[k] : d \in Describe({"chunk_retranslation"}, {k}, {}, c)
  <2>1. PICK k \in Documents : /\ d.book = "b" /\ d.docs = {k} /\ d.sources = {}
                               /\ d.type = "chunk_retranslation" /\ d.chunk \in ChunksOf[k]
    BY <1>4 DEF Describe
  <2>. QED  BY <2>1 DEF Named
<1>5. \/ \E docs \in Scopes : d \in Describe(Long, docs, {}, "-")
      \/ d \in Describe(Free, {}, {}, "-")
      \/ \E k \in Documents : \E sources \in Some : d \in Describe(Paged, {k}, sources, "-")
      \/ \E k \in Documents : \E c \in ChunksOf[k] : d \in Describe({"chunk_retranslation"}, {k}, {}, c)
  <2>. DEFINE A == UNION {Describe(Long, docs, {}, "-") : docs \in Scopes}
              B == Describe(Free, {}, {}, "-")
              Of(k) == UNION {Describe(Paged, {k}, sources, "-") : sources \in Some}
              C == UNION {Of(k) : k \in Documents}
              At(k) == UNION {Describe({"chunk_retranslation"}, {k}, {}, c) : c \in ChunksOf[k]}
              D == UNION {At(k) : k \in Documents}
  <2>1. Descriptions = A \cup B \cup C \cup D
    BY DEF Descriptions
  <2>. HIDE DEF Long, Free, Paged, Some, TranslationTypes, GlossaryRewriteTypes
  <2>2. d \in A => \E docs \in Scopes : d \in Describe(Long, docs, {}, "-")
    BY Zenon
  <2>3. d \in C => \E k \in Documents : \E sources \in Some : d \in Describe(Paged, {k}, sources, "-")
    <3>1. \A k : d \in Of(k) => \E sources \in Some : d \in Describe(Paged, {k}, sources, "-")
      BY Zenon
    <3>. HIDE DEF Of
    <3>. QED  BY <3>1, Zenon
  <2>4. d \in D => \E k \in Documents : \E c \in ChunksOf[k] : d \in Describe({"chunk_retranslation"}, {k}, {}, c)
    <3>1. \A k : d \in At(k) => \E c \in ChunksOf[k] : d \in Describe({"chunk_retranslation"}, {k}, {}, c)
      BY Zenon
    <3>. HIDE DEF At
    <3>. QED  BY <3>1, Zenon
  <2>. HIDE DEF A, C, D
  <2>. QED  BY <1>0, <2>1, <2>2, <2>3, <2>4
<1>. QED  BY <1>1, <1>2, <1>3, <1>4, <1>5

\* A claim of a task on a key, or on all keys
Holds(d, ns, k, mode) == \E key \in {k, AnyKey} : ResourceClaim(ns, d, key, mode) \in HandlerClaims(d)

\* Two such claims on one key conflict when their modes do.
LEMMA ClaimsMeet ==
  ASSUME NEW d, NEW e, d.book = e.book, NEW ns, NEW k, NEW m, NEW n, ModesConflict(m, n),
         Holds(d, ns, k, m), Holds(e, ns, k, n)
  PROVE  Conflicts(HandlerClaims(d), HandlerClaims(e))
<1>1. PICK i \in {k, AnyKey} : ResourceClaim(ns, d, i, m) \in HandlerClaims(d)
  BY DEF Holds
<1>2. PICK j \in {k, AnyKey} : ResourceClaim(ns, e, j, n) \in HandlerClaims(e)
  BY DEF Holds
<1>3. ClaimsClash(ResourceClaim(ns, d, i, m), ResourceClaim(ns, e, j, n))
  BY DEF ClaimsClash, ResourceClaim
<1>. QED  BY <1>1, <1>2, <1>3 DEF Conflicts

\* The documents of a task are claimed: exclusively, or together with others.
Owns(d, k) == Holds(d, "doc", k, WRITE_EXCLUSIVE)
Shares(d, k) == Holds(d, "doc", k, WRITE_COOPERATIVE)

\* The claims of each type, as far as the accesses need them.
LEMMA OwnedDocuments ==
  ASSUME NEW d, Named(d), NEW k \in DocKeys(d)
  PROVE  /\ d.type \in TranslationTypes \cup {"glossary_extraction", "translate_and_export"} => Owns(d, k)
         /\ d.type \in {"ocr", "image_reembedding"} =>
              IF d.sources = {} THEN Owns(d, k)
              ELSE Shares(d, k) /\ \A s \in d.sources : Holds(d, "source", s, WRITE_EXCLUSIVE)
         /\ d.type = "image_reembedding" /\ d.sources # {} =>
              Holds(d, "translation_snapshot", k, READ_SHARED)
         /\ d.type = "chunk_retranslation" =>
              /\ Shares(d, k) /\ Holds(d, "chunk", d.chunk, WRITE_EXCLUSIVE)
              /\ Holds(d, "translation_snapshot", k, WRITE_EXCLUSIVE)
<1>. DEFINE key == IF d.docs = AllDocuments THEN AnyKey ELSE k
<1>1. key \in {k, AnyKey} /\ key \in d.docs
  BY DEF DocKeys, AllDocuments
<1>2. ASSUME d.type \in TranslationTypes \cup {"glossary_extraction", "translate_and_export"}
      PROVE  Owns(d, k)
  <2>1. ResourceClaim("doc", d, key, WRITE_EXCLUSIVE) \in DocClaims(d, WRITE_EXCLUSIVE)
    BY <1>1 DEF DocClaims
  <2>2. DocClaims(d, WRITE_EXCLUSIVE) \subseteq HandlerClaims(d)
    BY <1>2 DEF HandlerClaims, TranslationTypes, GlossaryRewriteTypes, TranslationClaims,
                GlossaryExtractionClaims, TranslateAndExportClaims
  <2>. QED  BY <1>1, <2>1, <2>2 DEF Owns, Holds
<1>3. ASSUME d.type \in {"ocr", "image_reembedding"}, d.sources = {}
      PROVE  Owns(d, k)
  <2>1. ResourceClaim("doc", d, key, WRITE_EXCLUSIVE) \in DocClaims(d, WRITE_EXCLUSIVE)
    BY <1>1 DEF DocClaims
  <2>2. DocClaims(d, WRITE_EXCLUSIVE) \subseteq HandlerClaims(d)
    BY <1>3 DEF HandlerClaims, TranslationTypes, GlossaryRewriteTypes, OcrClaims, ImageReembeddingClaims
  <2>. QED  BY <1>1, <2>1, <2>2 DEF Owns, Holds
<1>4. ASSUME d.type \in {"ocr", "image_reembedding"}, d.sources # {}
      PROVE  Shares(d, k) /\ \A s \in d.sources : Holds(d, "source", s, WRITE_EXCLUSIVE)
  <2>1. ResourceClaim("doc", d, key, WRITE_COOPERATIVE) \in DocClaims(d, WRITE_COOPERATIVE)
    BY <1>1 DEF DocClaims
  <2>2. DocClaims(d, WRITE_COOPERATIVE) \cup SourceClaims(d) \subseteq HandlerClaims(d)
    BY <1>4 DEF HandlerClaims, TranslationTypes, GlossaryRewriteTypes, OcrClaims, ImageReembeddingClaims
  <2>3. \A s \in d.sources : ResourceClaim("source", d, s, WRITE_EXCLUSIVE) \in SourceClaims(d)
    BY DEF SourceClaims
  <2>. QED  BY <1>1, <2>1, <2>2, <2>3 DEF Shares, Holds
<1>5. ASSUME d.type = "image_reembedding", d.sources # {}
      PROVE  Holds(d, "translation_snapshot", k, READ_SHARED)
  <2>1. ResourceClaim("translation_snapshot", d, key, READ_SHARED) \in ImageReembeddingClaims(d)
    BY <1>1, <1>5 DEF ImageReembeddingClaims
  <2>2. HandlerClaims(d) = ImageReembeddingClaims(d)
    BY <1>5 DEF HandlerClaims, TranslationTypes, GlossaryRewriteTypes
  <2>. QED  BY <1>1, <2>1, <2>2 DEF Holds
<1>6. ASSUME d.type = "chunk_retranslation"
      PROVE  /\ Shares(d, k) /\ Holds(d, "chunk", d.chunk, WRITE_EXCLUSIVE)
             /\ Holds(d, "translation_snapshot", k, WRITE_EXCLUSIVE)
  <2>1. HandlerClaims(d) = ChunkRetranslationClaims(d)
    BY <1>6 DEF HandlerClaims, TranslationTypes, GlossaryRewriteTypes
  <2>2. /\ ResourceClaim("doc", d, key, WRITE_COOPERATIVE) \in ChunkRetranslationClaims(d)
        /\ ResourceClaim("translation_snapshot", d, key, WRITE_EXCLUSIVE) \in ChunkRetranslationClaims(d)
        /\ ResourceClaim("chunk", d, d.chunk, WRITE_EXCLUSIVE) \in ChunkRetranslationClaims(d)
    BY <1>1 DEF ChunkRetranslationClaims, DocClaims
  <2>. QED  BY <1>1, <2>1, <2>2 DEF Shares, Holds
<1>. QED  BY <1>2, <1>3, <1>4, <1>5, <1>6

\* The rewrites of the glossary claim every document.
LEMMA RewritesOwnAll ==
  ASSUME NEW d, d.type \in GlossaryRewriteTypes, NEW k
  PROVE  Owns(d, k)
<1>1. ResourceClaim("doc", d, AnyKey, WRITE_EXCLUSIVE) \in GlossaryRewriteClaims(d)
  BY DEF GlossaryRewriteClaims
<1>2. HandlerClaims(d) = GlossaryRewriteClaims(d)
  BY DEF HandlerClaims, TranslationTypes, GlossaryRewriteTypes
<1>. QED  BY <1>1, <1>2 DEF Owns, Holds

\* The four tables.  What a task may do to a chunk of document k ...
WritesChunk(d, k, c) ==
  \/ Owns(d, k)
  \/ /\ Shares(d, k) /\ Holds(d, "chunk", c, WRITE_EXCLUSIVE)
     /\ Holds(d, "translation_snapshot", k, WRITE_EXCLUSIVE)
ReadsChunk(d, k) == Owns(d, k) \/ (Shares(d, k) /\ Holds(d, "translation_snapshot", k, READ_SHARED))
LEMMA ChunkAccess ==
  ASSUME NEW d, Named(d), NEW c
  PROVE  /\ <<"chunk", c>> \in Writes(d) => \E k \in Documents : c \in ChunksOf[k] /\ WritesChunk(d, k, c)
         /\ <<"chunk", c>> \in Reads(d) => \E k \in Documents : c \in ChunksOf[k] /\ ReadsChunk(d, k)
<1>. USE DEF TaskTypes, TranslationTypes, GlossaryRewriteTypes
<1>1. ASSUME <<"chunk", c>> \in ChunkRows(DocKeys(d)), d.type \notin GlossaryRewriteTypes \cup {"glossary_export"}
      PROVE  \E k \in Documents : c \in ChunksOf[k] /\ k \in DocKeys(d)
  BY <1>1 DEF ChunkRows, DocKeys, Named
<1>2. ASSUME <<"chunk", c>> \in ChunkRows(Documents)
      PROVE  \E k \in Documents : c \in ChunksOf[k]
  BY <1>2 DEF ChunkRows
<1>3. ASSUME <<"chunk", c>> \in Writes(d)
      PROVE  \E k \in Documents : c \in ChunksOf[k] /\ WritesChunk(d, k, c)
  <2>1. CASE d.type \in TranslationTypes \cup {"glossary_extraction", "translate_and_export"}
    <3>1. <<"chunk", c>> \in ChunkRows(DocKeys(d))
      BY <1>3, <2>1 DEF Writes, TermRows
    <3>. QED  BY <1>1, <2>1, <3>1, OwnedDocuments DEF WritesChunk
  <2>2. CASE d.type \in GlossaryRewriteTypes
    <3>1. <<"chunk", c>> \in ChunkRows(Documents)
      BY <1>3, <2>2 DEF Writes, TermRows
    <3>. QED  BY <1>2, <2>2, <3>1, RewritesOwnAll DEF WritesChunk
  <2>3. CASE d.type = "chunk_retranslation"
    <3>1. c = d.chunk
      BY <1>3, <2>3 DEF Writes
    <3>2. PICK k \in Documents : d.docs = {k}
      BY <2>3 DEF Named
    <3>3. k \in DocKeys(d) /\ c \in ChunksOf[k]
      BY <2>3, <3>1, <3>2 DEF DocKeys, Named
    <3>. QED  BY <2>3, <3>1, <3>3, OwnedDocuments DEF WritesChunk
  <2>4. CASE d.type \in {"glossary_export", "ocr", "image_reembedding"}
    BY <1>3, <2>4 DEF Writes, Narrowed
  <2>. QED  BY <2>1, <2>2, <2>3, <2>4 DEF Named
<1>4. ASSUME <<"chunk", c>> \in Reads(d)
      PROVE  \E k \in Documents : c \in ChunksOf[k] /\ ReadsChunk(d, k)
  <2>1. d.type = "image_reembedding"
    BY <1>4 DEF Reads, PageTexts, TermRows, Narrowed, Named
  <2>2. <<"chunk", c>> \in ChunkRows(DocKeys(d))
    BY <1>4, <2>1 DEF Reads, PageTexts
  <2>3. PICK k \in Documents : c \in ChunksOf[k] /\ k \in DocKeys(d)
    BY <1>1, <2>1, <2>2
  <2>4. ReadsChunk(d, k)
    <3>1. IF d.sources = {} THEN Owns(d, k)
          ELSE Shares(d, k) /\ Holds(d, "translation_snapshot", k, READ_SHARED)
      BY <2>1, <2>3, OwnedDocuments
    <3>. QED  BY <3>1 DEF ReadsChunk
  <2>. QED  BY <2>3, <2>4
<1>. QED  BY <1>3, <1>4

\* ... to a page of it, or to its image, ...
WritesPage(d, k, s) ==
  \/ Owns(d, k)
  \/ d.sources # {} /\ Shares(d, k) /\ Holds(d, "source", s, WRITE_EXCLUSIVE)
LEMMA PageAccess ==
  ASSUME NEW d, Named(d), NEW s
  PROVE  /\ <<"page", s>> \in Writes(d) =>
              d.type = "ocr" /\ \E k \in Documents : s \in SourcesOf[k] /\ WritesPage(d, k, s)
         /\ <<"image", s>> \in Writes(d) =>
              \E k \in Documents : s \in SourcesOf[k] /\ WritesPage(d, k, s)
         /\ <<"page", s>> \in Reads(d) =>
              \E k \in Documents : /\ s \in SourcesOf[k]
                                   /\ \/ Owns(d, k)
                                      \/ d.type = "image_reembedding" /\ d.sources # {} /\ Shares(d, k)
         /\ <<"image", s>> \in Reads(d) => \E k \in Documents : s \in SourcesOf[k] /\ Owns(d, k)
<1>. USE DEF TaskTypes, TranslationTypes, GlossaryRewriteTypes
<1>1. ASSUME <<"page", s>> \in PageTexts(DocKeys(d)), d.type \notin GlossaryRewriteTypes \cup {"glossary_export"}
      PROVE  \E k \in Documents : s \in SourcesOf[k] /\ k \in DocKeys(d)
  BY <1>1 DEF PageTexts, DocKeys, Named
<1>2. ASSUME NEW table, <<table, s>> \in Narrowed(d, table),
             d.type \notin GlossaryRewriteTypes \cup {"glossary_export"}
      PROVE  \E k \in Documents : /\ s \in SourcesOf[k] /\ k \in DocKeys(d)
                                  /\ d.sources # {} => s \in d.sources
  <2>1. CASE d.sources = {}
    BY <1>2, <2>1 DEF Narrowed, DocKeys, Named
  <2>2. CASE d.sources # {}
    <3>1. PICK k \in Documents : d.docs = {k}
      BY <2>2 DEF Named
    <3>2. s \in d.sources /\ k \in DocKeys(d)
      BY <1>2, <2>2, <3>1 DEF Narrowed, DocKeys
    <3>. QED  BY <2>2, <3>1, <3>2 DEF Named
  <2>. QED  BY <2>1, <2>2
<1>3. ASSUME NEW table, table \in {"page", "image"}, <<table, s>> \in Writes(d)
      PROVE  /\ table = "page" => d.type = "ocr"
             /\ \E k \in Documents : s \in SourcesOf[k] /\ WritesPage(d, k, s)
  <2>1. d.type \in {"ocr", "image_reembedding"} /\ <<table, s>> \in Narrowed(d, table)
           /\ (table = "page" => d.type = "ocr")
    BY <1>3 DEF Writes, ChunkRows, TermRows, Narrowed, Named
  <2>. QED  BY <1>2, <2>1, OwnedDocuments DEF WritesPage
<1>4. ASSUME <<"page", s>> \in Reads(d)
      PROVE  \E k \in Documents : /\ s \in SourcesOf[k]
                                  /\ \/ Owns(d, k)
                                     \/ d.type = "image_reembedding" /\ d.sources # {} /\ Shares(d, k)
  <2>1. CASE d.type \in GlossaryRewriteTypes
    BY <1>4, <2>1, RewritesOwnAll DEF Reads, PageTexts
  <2>2. CASE d.type \notin GlossaryRewriteTypes
    <3>1. /\ d.type \in TranslationTypes \cup {"glossary_extraction", "translate_and_export", "image_reembedding"}
          /\ <<"page", s>> \in PageTexts(DocKeys(d))
      BY <1>4, <2>2 DEF Reads, TermRows, ChunkRows, Narrowed, Named
    <3>. QED  BY <1>1, <3>1, OwnedDocuments
  <2>. QED  BY <2>1, <2>2
<1>5. ASSUME <<"image", s>> \in Reads(d)
      PROVE  \E k \in Documents : s \in SourcesOf[k] /\ Owns(d, k)
  <2>1. d.type = "translate_and_export" /\ <<"image", s>> \in Narrowed(d, "image")
    BY <1>5 DEF Reads, TermRows, ChunkRows, PageTexts, Named
  <2>. QED  BY <1>2, <2>1, OwnedDocuments
<1>. QED  BY <1>3, <1>4, <1>5

\* ... and to the terms.
LEMMA TermAccess ==
  ASSUME NEW d, Named(d), NEW key
  PROVE  /\ <<"terms", key>> \in Writes(d) => Holds(d, "glossary_state", AnyKey, WRITE_EXCLUSIVE)
         /\ <<"terms", key>> \in Reads(d) => Holds(d, "glossary_state", AnyKey, READ_SHARED)
<1>. USE DEF TaskTypes, TranslationTypes, GlossaryRewriteTypes
<1>1. ASSUME NEW mode, Glossary(d, mode) \subseteq HandlerClaims(d)
      PROVE  Holds(d, "glossary_state", AnyKey, mode)
  BY <1>1 DEF Glossary, Holds
<1>2. ASSUME <<"terms", key>> \in Writes(d)
      PROVE  Holds(d, "glossary_state", AnyKey, WRITE_EXCLUSIVE)
  <2>1. d.type \in GlossaryRewriteTypes \cup {"glossary_extraction", "translate_and_export"}
    BY <1>2 DEF Writes, ChunkRows, Narrowed, Named
  <2>2. Glossary(d, WRITE_EXCLUSIVE) \subseteq HandlerClaims(d)
    BY <2>1 DEF HandlerClaims, GlossaryRewriteClaims, GlossaryExtractionClaims, TranslateAndExportClaims
  <2>. QED  BY <1>1, <2>2
<1>3. ASSUME <<"terms", key>> \in Reads(d)
      PROVE  Holds(d, "glossary_state", AnyKey, READ_SHARED)
  <2>1. d.type \in TranslationTypes \cup {"chunk_retranslation", "glossary_export"}
    BY <1>3 DEF Reads, PageTexts, ChunkRows, Narrowed, Named
  <2>2. Glossary(d, READ_SHARED) \subseteq HandlerClaims(d)
    BY <2>1 DEF HandlerClaims, TranslationClaims, ChunkRetranslationClaims, GlossaryExportClaims
  <2>. QED  BY <1>1, <2>2
<1>. QED  BY <1>2, <1>3

\* One of two tasks that own or share a document owns it.
LEMMA OneOwns ==
  ASSUME NEW d, NEW e, d.book = e.book, NEW k, Owns(d, k), Owns(e, k) \/ Shares(e, k)
  PROVE  Conflicts(HandlerClaims(d), HandlerClaims(e)) /\ Conflicts(HandlerClaims(e), HandlerClaims(d))
<1>1. /\ ModesConflict(WRITE_EXCLUSIVE, WRITE_EXCLUSIVE) /\ ModesConflict(WRITE_EXCLUSIVE, WRITE_COOPERATIVE)
  BY DEF ModesConflict, WRITE_EXCLUSIVE, WRITE_COOPERATIVE, READ_SHARED
<1>. QED  BY <1>1, ClaimsMeet, ConflictsSymmetric DEF Owns, Shares

\* What one task writes and another writes or reads is claimed by both.
LEMMA AccessIsClaimed ==
  ASSUME NEW d, Named(d), NEW e, Named(e), NEW a, a \in Writes(d), a \in Reads(e) \cup Writes(e),
         ~PageByPage(d, e)
  PROVE  Conflicts(HandlerClaims(d), HandlerClaims(e))
<1>. USE DEF TaskTypes, TranslationTypes, GlossaryRewriteTypes
<1>0. /\ d.book = e.book
      /\ ModesConflict(WRITE_EXCLUSIVE, WRITE_EXCLUSIVE) /\ ModesConflict(WRITE_EXCLUSIVE, READ_SHARED)
  <2>1. d.book = "b" /\ e.book = "b"
    BY DEF Named
  <2>. QED  BY <2>1 DEF ModesConflict, WRITE_EXCLUSIVE, WRITE_COOPERATIVE, READ_SHARED
<1>1. /\ \A x \in ChunkRows(Documents) \cup ChunkRows(DocKeys(d)) : \E c : x = <<"chunk", c>>
      /\ \A x \in PageTexts(Documents) \cup PageTexts(DocKeys(d)) : \E s : x = <<"page", s>>
      /\ \A table : \A x \in Narrowed(d, table) : \E s : x = <<table, s>>
      /\ \A x \in TermRows : \E key : x = <<"terms", key>>
  BY DEF ChunkRows, PageTexts, Narrowed, TermRows
<1>2. \/ \E c : a = <<"chunk", c>> \/ \E s : a = <<"page", s>>
      \/ \E s : a = <<"image", s>> \/ \E key : a = <<"terms", key>>
  BY <1>1 DEF Writes, Named
<1>3. ASSUME NEW c, a = <<"chunk", c>>
      PROVE  Conflicts(HandlerClaims(d), HandlerClaims(e))
  <2>1. PICK k \in Documents : c \in ChunksOf[k] /\ WritesChunk(d, k, c)
    BY <1>3, ChunkAccess
  <2>2. PICK j \in Documents : c \in ChunksOf[j] /\ (WritesChunk(e, j, c) \/ ReadsChunk(e, j))
    BY <1>3, ChunkAccess
  <2>3. j = k
    BY <2>1, <2>2, AccessAssumption
  <2>4. CASE Owns(d, k) \/ Owns(e, k)
    BY <1>0, <2>1, <2>2, <2>3, <2>4, OneOwns DEF WritesChunk, ReadsChunk
  <2>5. CASE ~Owns(d, k) /\ ~Owns(e, k)
    <3>1. Holds(d, "chunk", c, WRITE_EXCLUSIVE) /\ Holds(d, "translation_snapshot", k, WRITE_EXCLUSIVE)
      BY <2>1, <2>5 DEF WritesChunk
    <3>2. Holds(e, "chunk", c, WRITE_EXCLUSIVE) \/ Holds(e, "translation_snapshot", k, READ_SHARED)
      BY <2>2, <2>3, <2>5 DEF WritesChunk, ReadsChunk
    <3>. QED  BY <1>0, <3>1, <3>2, ClaimsMeet
  <2>. QED  BY <2>4, <2>5
<1>4. ASSUME NEW s, a = <<"page", s>>
      PROVE  Conflicts(HandlerClaims(d), HandlerClaims(e))
  <2>1. PICK k \in Documents : d.type = "ocr" /\ s \in SourcesOf[k] /\ WritesPage(d, k, s)
    BY <1>4, PageAccess
  <2>2. PICK j \in Documents :
          /\ s \in SourcesOf[j]
          /\ \/ WritesPage(e, j, s) \/ Owns(e, j)
             \/ e.type = "image_reembedding" /\ e.sources # {} /\ Shares(e, j)
    BY <1>4, PageAccess
  <2>3. j = k
    BY <2>1, <2>2, AccessAssumption
  <2>4. CASE Owns(d, k) \/ Owns(e, k)
    BY <1>0, <2>1, <2>2, <2>3, <2>4, OneOwns DEF WritesPage
  <2>5. CASE ~Owns(d, k) /\ ~Owns(e, k)
    <3>1. d.sources # {} /\ Holds(d, "source", s, WRITE_EXCLUSIVE)
      BY <2>1, <2>5 DEF WritesPage
    <3>2. ~(e.type = "image_reembedding" /\ e.sources # {})
      BY <2>1, <3>1 DEF PageByPage
    <3>3. Holds(e, "source", s, WRITE_EXCLUSIVE)
      BY <2>2, <2>3, <2>5, <3>2 DEF WritesPage
    <3>. QED  BY <1>0, <3>1, <3>3, ClaimsMeet
  <2>. QED  BY <2>4, <2>5
<1>5. ASSUME NEW s, a = <<"image", s>>
      PROVE  Conflicts(HandlerClaims(d), HandlerClaims(e))
  <2>1. PICK k \in Documents : s \in SourcesOf[k] /\ WritesPage(d, k, s)
    BY <1>5, PageAccess
  <2>2. PICK j \in Documents : s \in SourcesOf[j] /\ (WritesPage(e, j, s) \/ Owns(e, j))
    BY <1>5, PageAccess
  <2>3. j = k
    BY <2>1, <2>2, AccessAssumption
  <2>4. CASE Owns(d, k) \/ Owns(e, k)
    BY <1>0, <2>1, <2>2, <2>3, <2>4, OneOwns DEF WritesPage
  <2>5. CASE ~Owns(d, k) /\ ~Owns(e, k)
    <3>1. Holds(d, "source", s, WRITE_EXCLUSIVE) /\ Holds(e, "source", s, WRITE_EXCLUSIVE)
      BY <2>1, <2>2, <2>3, <2>5 DEF WritesPage
    <3>. QED  BY <1>0, <3>1, ClaimsMeet
  <2>. QED  BY <2>4, <2>5
<1>6. ASSUME NEW key, a = <<"terms", key>>
      PROVE  Conflicts(HandlerClaims(d), HandlerClaims(e))
  <2>1. Holds(d, "glossary_state", AnyKey, WRITE_EXCLUSIVE)
    BY <1>6, TermAccess
  <2>2. Holds(e, "glossary_state", AnyKey, WRITE_EXCLUSIVE) \/ Holds(e, "glossary_state", AnyKey, READ_SHARED)
    BY <1>6, TermAccess
  <2>. QED  BY <1>0, <2>1, <2>2, ClaimsMeet
<1>. QED  BY <1>2, <1>3, <1>4, <1>5, <1>6

\* Whatever documents a book has and however they are cut into pages and chunks:
\* two tasks that may touch the same row, one of them writing it, hold claims
\* that keep them apart, but for an OCR beside a reembedding, page by page.
THEOREM ClaimsCoverAccess == AccessSpec => []DataRacesExcluded
<1>1. ASSUME NEW d \in Possible, NEW e \in Possible, Races(d, e), ~PageByPage(d, e)
      PROVE  Conflicts(HandlerClaims(d), HandlerClaims(e))
  <2>1. Named(d) /\ Named(e)
    BY PossibleAreNamed
  <2>2. CASE Writes(d) \cap (Reads(e) \cup Writes(e)) # {}
    BY <1>1, <2>1, <2>2, AccessIsClaimed
  <2>3. CASE Writes(e) \cap Reads(d) # {}
    <3>1. ~PageByPage(e, d)
      BY <1>1 DEF PageByPage
    <3>2. Conflicts(HandlerClaims(e), HandlerClaims(d))
      BY <2>1, <2>3, <3>1, AccessIsClaimed
    <3>. QED  BY <3>2, ConflictsSymmetric
  <2>. QED  BY <1>1, <2>2, <2>3 DEF Races
<1>2. AccessInit => first \in Possible /\ second \in Possible
  BY DEF AccessInit
<1>3. first \in Possible /\ second \in Possible => DataRacesExcluded
  BY <1>1 DEF DataRacesExcluded
<1>4. first \in Possible /\ second \in Possible /\ [AccessNext]_<<first, second, row>>
        => (first \in Possible /\ second \in Possible)'
  <2>1. ASSUME UNCHANGED <<first, second, row>>, first \in Possible, second \in Possible
        PROVE  (first \in Possible /\ second \in Possible)'
    BY <2>1
  <2>. QED  BY <2>1 DEF AccessNext
<1>. QED  BY <1>2, <1>3, <1>4, PTL DEF AccessSpec
=============================================================================
