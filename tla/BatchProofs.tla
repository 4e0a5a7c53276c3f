----------------------------- MODULE BatchProofs -----------------------------
(***************************************************************************)
(* What TLAPS proves of a batch translation task: its types, that what its *)
(* row says is done is in the chunks, that polished text is not            *)
(* overwritten by a translation, that a request noted as submitted was     *)
(* asked of the job that it names, and that until a job is cancelled no    *)
(* two jobs that are noted ask the same request.                           *)
(***************************************************************************)
EXTENDS BatchTranslation, TLAPS, WellFoundedInduction, NaturalsInduction, FiniteSetTheorems

-----------------------------------------------------------------------------
(* The types.                                                              *)

Payload ==
  [prepared : BOOLEAN, items : [Items -> Item], jobs : [Stages -> Seq(JobEntry)],
   display : [Stages -> SUBSET Hash], enable_polish : BOOLEAN, remote : BOOLEAN]

\* The points at which the worker has its own copy of the payload.
RunPoints ==
  {"prepare", "stage", "jobs", "slice", "submit", "created", "poll", "polling", "timed_out", "validate",
   "fallback", "apply", "applying", "finish", "finished", "interrupted", "pausing", "transient", "permanent",
   "find", "settle", "cancelling", "inspect"}
Points == {"idle", "entry", "begin", "cancel", "post"} \cup RunPoints
RowType == [status : Status, cancel_requested : BOOLEAN, payload : Payload]
WorkerType ==
  [pc : Points, action : {"run", "cancel"}, polish : BOOLEAN, interrupted : BOOLEAN, mem : Payload,
   stage : Stages, job : Nat, hashes : SUBSET Hash, batch : Batches \cup {NoBatch}, inflight : SUBSET Items,
   todo : SUBSET Batches, active : BOOLEAN, outcome : {"completed", "completed_with_errors", "cancelled"}]
Typed ==
  /\ batches \in [Batches -> Job] /\ requests \in [Hash -> LLMBatchRecord]
  /\ row \in RowType /\ chunks \in [Items -> {"none", "translated", "polished"}] /\ w \in WorkerType
  /\ ops \in 0..MaxOps
\* The loop over the listed jobs counts from 1, and what is submitted has a job.
Basics ==
  /\ At("jobs") => w.job # 0
  /\ At("created") => w.batch \in Batches
  /\ \A h \in Hash : Submitted(h) => requests[h].batch_name \in Batches

-----------------------------------------------------------------------------
(* Lemmas: what the operators of the model do to a payload.                *)

\* A set of naturals has a least element, so that Min is it.
LEMMA MinIsLeast ==
  ASSUME NEW S \in SUBSET Nat, S # {}
  PROVE  Min(S) \in S /\ \A x \in S : Min(S) <= x
<1>1. IsWellFoundedOn(OpToRel(<, Nat), Nat)
  BY NatLessThanWellFounded
<1>2. PICK m \in S : \A y \in S : ~(<<y, m>> \in OpToRel(<, Nat))
  BY <1>1, WFMin
<1>3. \A y \in S : m <= y
  <2>. SUFFICES ASSUME NEW y \in S, ~(m <= y) PROVE FALSE
    OBVIOUS
  <2>1. <<y, m>> \in {ss \in Nat \X Nat : ss[1] < ss[2]}
    OBVIOUS
  <2>2. {ss \in Nat \X Nat : ss[1] < ss[2]} = OpToRel(<, Nat)
    BY Zenon DEF OpToRel
  <2>. QED  BY <1>2, <2>1, <2>2
<1>4. \E x \in S : \A y \in S : x =< y
  BY <1>3
<1>. QED  BY <1>4 DEF Min

\* An item one of whose stages was given a state: its other stage and the rest stay.
LEMMA ItemState ==
  ASSUME NEW item \in Item, NEW s \in Stages, NEW state \in StageState
  PROVE  LET new == [item EXCEPT ![s].state = state]
         IN  /\ new \in Item /\ new.applied = item.applied
             /\ new[s].state = state
             /\ \A t \in Stages : new[t].fallback_attempted = item[t].fallback_attempted
             /\ \A t \in Stages \ {s} : new[t] = item[t]
<1>1. CASE s = "translation"
  BY <1>1 DEF Stages, Item, StageItemState
<1>2. CASE s = "polish"
  BY <1>2 DEF Stages, Item, StageItemState
<1>. QED  BY <1>1, <1>2 DEF Stages

\* A payload in which one item's state of one stage was set.
LEMMA WithStateResult ==
  ASSUME NEW mem \in Payload, NEW s \in Stages, NEW subset, NEW state \in StageState
  PROVE  LET new == WithState(mem, s, subset, state)
         IN  /\ new \in Payload
             /\ new.prepared = mem.prepared /\ new.jobs = mem.jobs /\ new.display = mem.display
             /\ new.enable_polish = mem.enable_polish /\ new.remote = mem.remote
             /\ \A i \in Items :
                  /\ new.items[i].applied = mem.items[i].applied
                  /\ \A t \in Stages \ {s} : new.items[i][t] = mem.items[i][t]
                  /\ \A t \in Stages :
                       new.items[i][t].fallback_attempted = mem.items[i][t].fallback_attempted
                  /\ i \in subset => new.items[i][s].state = state
                  /\ i \notin subset => new.items[i] = mem.items[i]
<1>. DEFINE items == [i \in Items |-> IF i \in subset THEN [mem.items[i] EXCEPT ![s].state = state]
                                      ELSE mem.items[i]]
            new == WithState(mem, s, subset, state)
<1>1. new = [mem EXCEPT !.items = items]
  BY DEF WithState, Payload
<1>2. mem.items \in [Items -> Item]
  BY DEF Payload
<1>3. items \in [Items -> Item]
  BY ZenonT(60), <1>2, ItemState
<1>. HIDE DEF items
<1>4. /\ new \in Payload /\ new.items = items
      /\ new.prepared = mem.prepared /\ new.jobs = mem.jobs /\ new.display = mem.display
      /\ new.enable_polish = mem.enable_polish /\ new.remote = mem.remote
  BY <1>1, <1>3 DEF Payload
<1>5. ASSUME NEW i \in Items
      PROVE  /\ items[i].applied = mem.items[i].applied
             /\ \A t \in Stages \ {s} : items[i][t] = mem.items[i][t]
             /\ \A t \in Stages :
                       items[i][t].fallback_attempted = mem.items[i][t].fallback_attempted
             /\ i \in subset => items[i][s].state = state
             /\ i \notin subset => items[i] = mem.items[i]
  <2>1. CASE i \in subset
    <3>1. items[i] = [mem.items[i] EXCEPT ![s].state = state]
      BY <2>1 DEF items
    <3>. QED  BY <1>2, <2>1, <3>1, ItemState
  <2>2. CASE i \notin subset
    BY <2>2 DEF items
  <2>. QED  BY <2>1, <2>2
<1>. QED  BY <1>4, <1>5

\* A job is listed at the end of its stage's list.
LEMMA ListedResult ==
  ASSUME Typed, NEW b \in Batches, NEW hashes \in SUBSET Hash
  PROVE  LET new == Listed(w.mem, b, hashes)
         IN  /\ new \in Payload
             /\ new.prepared = w.mem.prepared /\ new.items = w.mem.items
             /\ new.enable_polish = w.mem.enable_polish /\ new.remote = w.mem.remote
             /\ \A s \in Stages : new.jobs[s] = IF s = w.stage THEN Append(w.mem.jobs[s], NewEntry(b, hashes))
                                                ELSE w.mem.jobs[s]
<1>. DEFINE jobs == [w.mem.jobs EXCEPT ![w.stage] = Append(w.mem.jobs[w.stage], NewEntry(b, hashes))]
            display == [w.mem.display EXCEPT ![w.stage] = hashes]
            new == Listed(w.mem, b, hashes)
<1>1. w.mem \in Payload /\ w.stage \in Stages
  BY DEF Typed, WorkerType
<1>2. w.mem.jobs \in [Stages -> Seq(JobEntry)] /\ w.mem.display \in [Stages -> SUBSET Hash]
  BY <1>1 DEF Payload
<1>3. NewEntry(b, hashes) \in JobEntry
  BY DEF NewEntry, JobEntry
<1>4. Append(w.mem.jobs[w.stage], NewEntry(b, hashes)) \in Seq(JobEntry)
  BY <1>1, <1>2, <1>3
<1>5. jobs \in [Stages -> Seq(JobEntry)] /\ display \in [Stages -> SUBSET Hash]
  BY <1>1, <1>2, <1>4
<1>6. new = [w.mem EXCEPT !.jobs = jobs, !.display = display]
  BY <1>1 DEF Listed, Payload
<1>7. \A s \in Stages : jobs[s] = IF s = w.stage THEN Append(w.mem.jobs[s], NewEntry(b, hashes))
                                  ELSE w.mem.jobs[s]
  BY <1>2
<1>. HIDE DEF jobs, display
<1>8. /\ new \in Payload /\ new.jobs = jobs
      /\ new.prepared = w.mem.prepared /\ new.items = w.mem.items
      /\ new.enable_polish = w.mem.enable_polish /\ new.remote = w.mem.remote
  BY <1>1, <1>5, <1>6 DEF Payload
<1>. QED  BY <1>7, <1>8

\* A payload that another run starts from.
LEMMA RerunResult ==
  ASSUME NEW p \in Payload
  PROVE  LET new == prepare_payload_for_rerun(p)
         IN  /\ new \in Payload /\ new.jobs = NoJobs
             /\ new.prepared = p.prepared /\ new.enable_polish = p.enable_polish /\ new.remote = p.remote
             /\ \A i \in Items :
                  /\ new.items[i].applied = p.items[i].applied
                  /\ p.items[i].applied => new.items[i] = p.items[i]
                  /\ ~p.items[i].applied =>
                       /\ new.items[i].translation = IF Final(p.items[i], "translation")
                                                     THEN p.items[i].translation ELSE new_stage_state
                       /\ new.items[i].polish =
                            IF Final(p.items[i], "translation") /\ Final(p.items[i], "polish")
                            THEN p.items[i].polish ELSE new_stage_state
<1>. DEFINE Reset(item) ==
              [item EXCEPT !.translation = IF Final(item, "translation") THEN item.translation
                                           ELSE new_stage_state,
                           !.polish = IF Final(item, "translation") /\ Final(item, "polish") THEN item.polish
                                      ELSE new_stage_state]
            items == [i \in Items |-> IF p.items[i].applied THEN p.items[i] ELSE Reset(p.items[i])]
            new == prepare_payload_for_rerun(p)
<1>1. p.items \in [Items -> Item]
  BY DEF Payload
<1>2. new_stage_state \in StageItemState
  BY DEF new_stage_state, StageItemState, StageState
<1>3. ASSUME NEW item \in Item
      PROVE  /\ Reset(item) \in Item /\ Reset(item).applied = item.applied
             /\ Reset(item).translation = IF Final(item, "translation") THEN item.translation
                                          ELSE new_stage_state
             /\ Reset(item).polish = IF Final(item, "translation") /\ Final(item, "polish")
                                     THEN item.polish ELSE new_stage_state
  BY <1>2 DEF Item
<1>4. items \in [Items -> Item]
  BY <1>1, <1>3
<1>5. new = [p EXCEPT !.items = items, !.jobs = NoJobs, !.display = NoName]
  BY DEF prepare_payload_for_rerun, Payload
<1>6. NoJobs \in [Stages -> Seq(JobEntry)] /\ NoName \in [Stages -> SUBSET Hash]
  BY DEF NoJobs, NoName
<1>7. ASSUME NEW i \in Items
      PROVE  /\ items[i].applied = p.items[i].applied
             /\ p.items[i].applied => items[i] = p.items[i]
             /\ ~p.items[i].applied => items[i] = Reset(p.items[i])
  BY <1>1, <1>3
<1>. HIDE DEF items
<1>8. /\ new \in Payload /\ new.jobs = NoJobs /\ new.items = items
      /\ new.prepared = p.prepared /\ new.enable_polish = p.enable_polish /\ new.remote = p.remote
  BY <1>4, <1>5, <1>6 DEF Payload
<1>9. ASSUME NEW i \in Items, ~p.items[i].applied
      PROVE  /\ new.items[i].translation = IF Final(p.items[i], "translation")
                                           THEN p.items[i].translation ELSE new_stage_state
             /\ new.items[i].polish =
                  IF Final(p.items[i], "translation") /\ Final(p.items[i], "polish")
                  THEN p.items[i].polish ELSE new_stage_state
  <2>1. p.items[i] \in Item
    BY <1>1
  <2>. QED  BY <1>3, <1>7, <1>8, <1>9, <2>1
<1>. HIDE DEF new
<1>10. \A i \in Items :
         /\ new.items[i].applied = p.items[i].applied
         /\ p.items[i].applied => new.items[i] = p.items[i]
  BY <1>7, <1>8
<1>. QED  BY <1>8, <1>9, <1>10 DEF new

\* The payload of a task just created has the type.
LEMMA NewPayloadTyped ==
  ASSUME NEW polish \in BOOLEAN
  PROVE  NewPayload(polish) \in Payload
BY DEF NewPayload, Payload, NewItem, Item, new_stage_state, StageItemState, StageState, NoJobs, NoName

\* One item of the worker's copy changes: its fallback is noted, it is applied,
\* or its chunk is missing.
ItemPut(p, i, item) == [p EXCEPT !.items[i] = item]
Attempted(item, s) == [item EXCEPT ![s].fallback_attempted = TRUE]
Applied(item) == [item EXCEPT !.applied = TRUE]
Missing(item) == [item EXCEPT !.translation.state = "failed"]

\* A payload in which one item was replaced.
LEMMA ItemPutResult ==
  ASSUME NEW mem \in Payload, NEW i \in Items, NEW item \in Item
  PROVE  LET new == ItemPut(mem, i, item)
         IN  /\ new \in Payload
             /\ new.prepared = mem.prepared /\ new.jobs = mem.jobs /\ new.display = mem.display
             /\ new.enable_polish = mem.enable_polish /\ new.remote = mem.remote
             /\ \A j \in Items : new.items[j] = IF j = i THEN item ELSE mem.items[j]
<1>. DEFINE items == [mem.items EXCEPT ![i] = item]
            new == ItemPut(mem, i, item)
<1>1. mem.items \in [Items -> Item]
  BY DEF Payload
<1>2. items \in [Items -> Item] /\ \A j \in Items : items[j] = IF j = i THEN item ELSE mem.items[j]
  BY <1>1
<1>3. new = [mem EXCEPT !.items = items]
  BY DEF ItemPut, Payload
<1>. HIDE DEF items
<1>4. /\ new \in Payload /\ new.items = items
      /\ new.prepared = mem.prepared /\ new.jobs = mem.jobs /\ new.display = mem.display
      /\ new.enable_polish = mem.enable_polish /\ new.remote = mem.remote
  BY <1>2, <1>3 DEF Payload
<1>. QED  BY <1>2, <1>4

\* The steps that change one item of the worker's copy replace it by ItemPut.
LEMMA OneItem ==
  ASSUME Typed, NEW i \in Items
  PROVE  /\ \A inflight : [w EXCEPT !.inflight = inflight, !.mem.items[i][w.stage].fallback_attempted = TRUE]
              = [w EXCEPT !.inflight = inflight, !.mem = ItemPut(w.mem, i, Attempted(w.mem.items[i], w.stage))]
         /\ [w EXCEPT !.mem.items[i].applied = TRUE]
              = [w EXCEPT !.mem = ItemPut(w.mem, i, Applied(w.mem.items[i]))]
         /\ [w EXCEPT !.mem.items[i].translation.state = "failed"]
              = [w EXCEPT !.mem = ItemPut(w.mem, i, Missing(w.mem.items[i]))]
<1>1. w \in WorkerType /\ w.mem \in Payload /\ w.mem.items \in [Items -> Item] /\ w.stage \in Stages
  BY DEF Typed, WorkerType, Payload
<1>2. w.mem.items[i] \in Item
  BY <1>1
<1>3. \A inflight : [w EXCEPT !.inflight = inflight, !.mem.items[i][w.stage].fallback_attempted = TRUE]
              = [w EXCEPT !.inflight = inflight, !.mem = ItemPut(w.mem, i, Attempted(w.mem.items[i], w.stage))]
  BY <1>1, <1>2 DEF ItemPut, Attempted, WorkerType
<1>4. [w EXCEPT !.mem.items[i].applied = TRUE]
        = [w EXCEPT !.mem = ItemPut(w.mem, i, Applied(w.mem.items[i]))]
  BY <1>1, <1>2 DEF ItemPut, Applied, WorkerType
<1>5. [w EXCEPT !.mem.items[i].translation.state = "failed"]
        = [w EXCEPT !.mem = ItemPut(w.mem, i, Missing(w.mem.items[i]))]
  BY <1>1, <1>2 DEF ItemPut, Missing, WorkerType
<1>. QED  BY <1>3, <1>4, <1>5

\* What each of the three changes of an item leaves in it.
LEMMA OneItemTyped ==
  ASSUME Typed, NEW i \in Items
  PROVE  LET item == w.mem.items[i]
         IN  /\ item \in Item /\ Attempted(item, w.stage) \in Item /\ Applied(item) \in Item
             /\ Missing(item) \in Item
             /\ Attempted(item, w.stage).applied = item.applied
             /\ \A s \in Stages : Attempted(item, w.stage)[s].state = item[s].state
             /\ \A s \in Stages : Attempted(item, w.stage)[s].fallback_attempted
                                    = (s = w.stage \/ item[s].fallback_attempted)
             /\ Applied(item).applied /\ \A s \in Stages : Applied(item)[s] = item[s]
             /\ Missing(item).applied = item.applied /\ Missing(item).polish = item.polish
             /\ Missing(item).translation.state = "failed"
             /\ Missing(item).translation.fallback_attempted = item.translation.fallback_attempted
<1>1. w.mem.items[i] \in Item /\ w.stage \in Stages
  BY DEF Typed, WorkerType, Payload
<1>2. CASE w.stage = "translation"
  BY <1>1, <1>2 DEF Attempted, Applied, Missing, Item, StageItemState, StageState, Stages
<1>3. CASE w.stage = "polish"
  BY <1>1, <1>3 DEF Attempted, Applied, Missing, Item, StageItemState, StageState, Stages
<1>. QED  BY <1>1, <1>2, <1>3 DEF Stages

\* The jobs a payload knows of are jobs.
LEMMA KnownTyped ==
  ASSUME NEW p \in Payload
  PROVE  KnownBatches(p) \subseteq Batches
<1>. SUFFICES ASSUME NEW s \in Stages, NEW k \in DOMAIN p.jobs[s] PROVE p.jobs[s][k].batch \in Batches
  BY DEF KnownBatches, JobEntries, Range
<1>1. p.jobs[s] \in Seq(JobEntry)
  BY DEF Payload
<1>2. p.jobs[s][k] \in JobEntry
  BY <1>1
<1>. QED  BY <1>2 DEF JobEntry

\* The table of requests after a write of each kind.
LEMMA RequestsTyped ==
  ASSUME Typed, NEW hashes, NEW b \in Batches \cup {NoBatch}
  PROVE  /\ \A status \in {"submitted", "failed"}, c \in BOOLEAN :
              Upsert(hashes, status, b, c) \in [Hash -> LLMBatchRecord]
         /\ PersistOutput(b, hashes) \in [Hash -> LLMBatchRecord]
BY DEF Typed, Upsert, PersistOutput, LLMBatchRecord

\* The jobs after one of them was created, cancelled or ended.
LEMMA JobsTyped ==
  ASSUME Typed, NEW b \in Batches \cup {NoBatch}
  PROVE  /\ \A asked \in SUBSET Hash : CreateJob(b, asked) => batches' \in [Batches -> Job]
         /\ CancelJob(b) => batches' \in [Batches -> Job]
         /\ EndJob(b) /\ b \in Batches => batches' \in [Batches -> Job]
<1>. USE DEF Typed, Job, JobState
<1>1. ASSUME NEW asked \in SUBSET Hash, CreateJob(b, asked)
      PROVE  batches' \in [Batches -> Job]
  BY <1>1 DEF CreateJob, Unborn
<1>2. \A state \in JobState :
        batches' = [batches EXCEPT ![b].state = state] => batches' \in [Batches -> Job]
  <2>1. SUFFICES ASSUME NEW state \in JobState, batches' = [batches EXCEPT ![b].state = state]
                 PROVE  batches' \in [Batches -> Job]
    OBVIOUS
  <2>2. CASE b \in Batches
    <3>1. batches[b] \in Job
      BY <2>2
    <3>2. [batches[b] EXCEPT !.state = state] \in Job
      BY <3>1
    <3>3. batches' = [batches EXCEPT ![b] = [batches[b] EXCEPT !.state = state]]
      BY <2>1
    <3>. QED  BY <3>2, <3>3
  <2>3. CASE b \notin Batches
    <3>1. batches' = batches
      BY <2>1, <2>3
    <3>. QED  BY <3>1
  <2>. QED  BY <2>2, <2>3
<1>3. ASSUME EndJob(b), b \in Batches
      PROVE  batches' \in [Batches -> Job]
  <2>1. ASSUME NEW errors \in SUBSET batches[b].asked, NEW missing \in SUBSET batches[b].asked,
               batches' = [batches EXCEPT ![b].state = "succeeded",
                                          ![b].errors = errors, ![b].missing = missing]
        PROVE  batches' \in [Batches -> Job]
    <3>1. batches[b] \in Job
      BY <1>3
    <3>2. errors \in SUBSET Hash /\ missing \in SUBSET Hash
      BY <3>1
    <3>3. [batches[b] EXCEPT !.state = "succeeded", !.errors = errors, !.missing = missing] \in Job
      BY <3>1, <3>2
    <3>4. batches' = [batches EXCEPT ![b] = [batches[b] EXCEPT !.state = "succeeded", !.errors = errors,
                                                              !.missing = missing]]
      BY <1>3, <2>1
    <3>. QED  BY <3>3, <3>4
  <2>. QED  BY <1>2, <1>3, <2>1 DEF EndJob
<1>. QED  BY <1>1, <1>2, <1>3 DEF CancelJob

\* Every step keeps the types.
LEMMA Typing == Typed /\ Basics /\ [Next]_vars => Typed'
<1>. SUFFICES ASSUME Typed, Basics, [Next]_vars PROVE Typed'
  OBVIOUS
<1>a. /\ batches \in [Batches -> Job] /\ requests \in [Hash -> LLMBatchRecord]
      /\ row \in RowType /\ w \in WorkerType /\ chunks \in [Items -> {"none", "translated", "polished"}]
      /\ ops \in 0..MaxOps /\ w.mem \in Payload /\ row.payload \in Payload
      /\ w.stage \in Stages /\ w.batch \in Batches \cup {NoBatch} /\ w.hashes \in SUBSET Hash
  BY DEF Typed, RowType, WorkerType
<1>b. \A p \in Payload : IdleWorker(p) \in WorkerType
  BY DEF IdleWorker, WorkerType, Stages, Points
<1>c. \A status \in Status, flag \in BOOLEAN, p \in Payload :
        [status |-> status, cancel_requested |-> flag, payload |-> p] \in RowType
  BY DEF RowType
<1>d. \A p \in Payload : /\ Persist(p) => row' \in RowType /\ row'.payload = p
                         /\ [row EXCEPT !.status = "running"] \in RowType
  BY <1>a DEF Persist, RowType, Status
<1>e. \A pc \in Points :
        /\ Goto(pc) => w' \in WorkerType
        /\ \A p \in Payload : Proceed(pc, p) => w' \in WorkerType
  BY ZenonT(60), <1>a DEF Goto, Proceed, WorkerType
<1>p. /\ {"idle", "entry", "begin", "cancel", "post", "prepare", "stage", "jobs", "slice", "submit", "created",
          "poll", "polling", "timed_out", "validate", "fallback", "apply", "applying"} \subseteq Points
      /\ {"finish", "finished", "interrupted", "pausing", "transient", "permanent", "find", "settle",
          "cancelling", "inspect"} \subseteq Points
  BY DEF Points, RunPoints
<1>f. \A s \in Stages, state \in StageState : \A sub : WithState(w.mem, s, sub, state) \in Payload
  BY <1>a, WithStateResult
<1>g. \A s \in {"pending", "succeeded", "failed", "skipped"} : s \in StageState
  BY DEF StageState
<1>h. {"translation", "polish"} = Stages
  BY DEF Stages
<1>i. (Pause \/ Raise) => w' \in WorkerType
  BY <1>e, <1>p DEF Pause, Raise
<1>w. /\ w.interrupted \in BOOLEAN /\ w.active \in BOOLEAN /\ w.polish \in BOOLEAN
      /\ w.todo \in SUBSET Batches /\ w.inflight \in SUBSET Items /\ w.job \in Nat
  BY <1>a DEF WorkerType
<1>r. \A next \in WorkerType : Report(next) => w' \in WorkerType
  <2>1. \A next \in WorkerType : [next EXCEPT !.pc = "interrupted"] \in WorkerType
    BY <1>p DEF WorkerType
  <2>. QED  BY <2>1 DEF Report
<1>k. AfterPoll \in WorkerType
  <2>1. [w EXCEPT !.pc = "slice"] \in WorkerType
    BY <1>a, <1>p DEF WorkerType
  <2>2. [w EXCEPT !.pc = "jobs", !.job = w.job + 1] \in WorkerType
    <3>1. \A n \in Nat : [w EXCEPT !.pc = "jobs", !.job = n] \in WorkerType
      BY <1>a, <1>p DEF WorkerType
    <3>2. w.job + 1 \in Nat
      BY <1>w
    <3>. QED  BY <3>1, <3>2
  <2>. QED  BY <2>1, <2>2 DEF AfterPoll
<1>l. \A b, active : active \in BOOLEAN /\ Settled(b, active) => w' \in WorkerType
  <2>1. \A a \in BOOLEAN, t \in SUBSET Batches :
          [w EXCEPT !.pc = "settle", !.todo = t, !.active = a] \in WorkerType
    BY <1>a, <1>p DEF WorkerType
  <2>2. \A active \in BOOLEAN : (w.active \/ active) \in BOOLEAN
    BY <1>w
  <2>3. \A b : w.todo \ {b} \in SUBSET Batches
    BY <1>w
  <2>. QED  BY <2>1, <2>2, <2>3 DEF Settled
<1>1. CASE EnterRun
  <2>1. prepare_payload_for_rerun(row.payload) \in Payload
    BY <1>a, RerunResult
  <2>. QED  BY <1>1, <1>a, <1>b, <1>c, <1>e, <1>p, <2>1 DEF EnterRun, Typed, running, Status
<1>2. CASE BeginRun
  BY <1>2, <1>a, <1>d, <1>e, <1>p DEF BeginRun, PersistProgress, Typed, running
<1>3. CASE Prepare
  <2>1. PreparedPayload \in Payload /\ NewPayload(TRUE) \in Payload
    BY NewPayloadTyped DEF PreparedPayload, Payload
  <2>2. [row EXCEPT !.status = "completed", !.payload = NewPayload(TRUE)] \in RowType
    BY <1>a, <2>1 DEF RowType, Status, TerminalStatuses
  <2>. QED  BY <1>3, <1>a, <1>d, <1>e, <1>p, <1>i, <2>1, <2>2 DEF Prepare, Typed, running
<1>4. CASE DecideOutcome
  BY <1>4, <1>a, <1>p DEF DecideOutcome, Typed, running, WorkerType
<1>5. CASE FinishRun
  <2>1. row' \in RowType
    BY <1>5, <1>a DEF FinishRun, RowType, WorkerType, Status, TerminalStatuses
  <2>. QED  BY <1>5, <1>a, <1>e, <1>p, <2>1 DEF FinishRun, Typed, running
<1>6. CASE HandlePause
  <2>1. row' \in RowType
    BY <1>6, <1>a DEF HandlePause, RowType
  <2>. QED  BY <1>6, <1>a, <1>e, <1>p, <2>1 DEF HandlePause, Typed, running
<1>7. CASE WritePaused
  <2>1. row' \in RowType
    BY <1>7, <1>a DEF WritePaused, RowType, Status
  <2>. QED  BY <1>7, <1>a, <1>e, <1>p, <2>1 DEF WritePaused, Typed, running
<1>8. CASE WriteFailed
  <2>1. row' \in RowType
    BY <1>8, <1>a DEF WriteFailed, RowType, Status, TerminalStatuses
  <2>. QED  BY <1>8, <1>a, <1>e, <1>p, <2>1 DEF WriteFailed, Typed, running
<1>9. CASE NoteRemoteSubmission
  <2>1. [row.payload EXCEPT !.remote = TRUE] \in Payload
    BY <1>a DEF Payload
  <2>2. row' \in RowType
    BY <1>9, <1>a, <2>1 DEF NoteRemoteSubmission, RowType
  <2>3. row'.payload \in Payload
    BY <2>2 DEF RowType
  <2>. QED  BY <1>9, <1>a, <1>b, <2>2, <2>3 DEF NoteRemoteSubmission, Typed, running
<1>10. CASE (StageStep \/ CancelStep) /\ UNCHANGED ops
  <2>1. CASE run_translation_stage
    <3>1. w' \in WorkerType
      BY <2>1, <1>a, <1>p DEF run_translation_stage, WorkerType
    <3>. QED  BY <1>10, <2>1, <1>a, <1>d, <3>1 DEF run_translation_stage, Typed, provider
  <2>2. CASE run_polish_stage
    <3>1. \A state \in StageState : \A sub :
            [w EXCEPT !.pc = "jobs", !.job = 1, !.mem = WithState(w.mem, "polish", sub, state)] \in WorkerType
      BY <1>a, <1>f, <1>h, <1>p DEF WorkerType
    <3>2. \A state \in StageState : \A sub :
            /\ Persist(WithState(w.mem, "polish", sub, state)) => row' \in RowType
            /\ Proceed("apply", WithState(w.mem, "polish", sub, state)) => w' \in WorkerType
      BY <1>d, <1>e, <1>f, <1>h, <1>p
    <3>3. w' \in WorkerType /\ row' \in RowType
      <4>1. CASE ~w.polish
        BY <2>2, <4>1, <1>a, <1>g, <3>2 DEF run_polish_stage
      <4>2. CASE w.polish
        <5>. DEFINE mem == WithState(w.mem, "polish", Items \ Succeeded(w.mem), "skipped")
        <5>1. Persist(mem) /\ w' = [w EXCEPT !.pc = "jobs", !.job = 1, !.mem = mem]
          BY <2>2, <4>2 DEF run_polish_stage
        <5>. QED  BY <5>1, <1>g, <3>1, <3>2
      <4>. QED  BY <4>1, <4>2
    <3>. QED  BY <1>10, <2>2, <1>a, <3>3 DEF run_polish_stage, Typed, provider
  <2>3. CASE ResumeJob
    <3>. DEFINE jobs == w.mem.jobs[w.stage]
                Left(j) == jobs[j].hashes \cap PendingHashes
                unfinished == {j \in w.job..Len(jobs) : Left(j) # {}}
    <3>1. jobs \in Seq(JobEntry)
      BY <1>a DEF Payload
    <3>2. CASE unfinished = {}
      <4>1. w' \in WorkerType /\ UNCHANGED row
        <5>1. w' = [w EXCEPT !.pc = "slice", !.job = 0] /\ UNCHANGED row
          BY <2>3, <3>2 DEF ResumeJob
        <5>. QED  BY <5>1, <1>a, <1>p DEF WorkerType
      <4>. QED  BY <1>10, <2>3, <1>a, <4>1 DEF ResumeJob, Typed, provider
    <3>3. CASE unfinished # {}
      <4>. DEFINE j == Min(unfinished)
                  display == [w.mem.display EXCEPT ![w.stage] = jobs[j].hashes]
                  mem == [w.mem EXCEPT !.display[w.stage] = jobs[j].hashes]
      <4>1. j \in unfinished
        <5>1. unfinished \subseteq Nat
          BY <1>a DEF WorkerType
        <5>. QED  BY <3>3, <5>1, MinIsLeast
      <4>2. j \in 1..Len(jobs) /\ j \in Nat
        <5>1. w.job \in Nat /\ w.job # 0
          BY <2>3, <1>a DEF WorkerType, Basics, ResumeJob
        <5>2. Len(jobs) \in Nat
          BY <3>1
        <5>3. unfinished \subseteq w.job..Len(jobs)
          OBVIOUS
        <5>. HIDE DEF unfinished, jobs, j
        <5>. QED  BY <4>1, <5>1, <5>2, <5>3
      <4>3. jobs[j] \in JobEntry
        <5>. HIDE DEF jobs, j
        <5>. QED  BY <3>1, <4>2
      <4>4. jobs[j].batch \in Batches /\ jobs[j].hashes \in SUBSET Hash
        BY <4>3 DEF JobEntry
      <4>5. display \in [Stages -> SUBSET Hash]
        BY <1>a, <4>4 DEF Payload
      <4>6. mem = [w.mem EXCEPT !.display = display]
        BY <1>a DEF Payload
      <4>7. mem \in Payload
        BY <1>a, <4>5, <4>6 DEF Payload
      <4>8. /\ Persist(mem)
            /\ w' = [w EXCEPT !.pc = "poll", !.mem = mem, !.job = j, !.batch = jobs[j].batch,
                              !.hashes = Left(j)]
            /\ UNCHANGED <<provider, chunks>>
        BY <2>3, <3>3 DEF ResumeJob
      <4>9. Left(j) \in SUBSET Hash
        BY <4>4
      <4>. HIDE DEF mem, display, j, jobs, Left, unfinished
      <4>10. w' \in WorkerType /\ w'.pc = "poll"
        BY <1>a, <1>p, <4>2, <4>4, <4>7, <4>8, <4>9 DEF WorkerType
      <4>. QED  BY <1>10, <1>a, <1>d, <4>7, <4>8, <4>10 DEF Typed, provider
    <3>. QED  BY <3>2, <3>3
  <2>4. CASE NextSlice
    <3>. DEFINE slice == SliceHashes
    <3>1. slice \in SUBSET Hash
      BY <1>a, ItemsAssumption DEF SliceHashes, PendingHashes, HashOf, Hash, ItemsIn
    <3>2. CASE Persist(w.mem) /\ Goto("validate") /\ UNCHANGED requests
      BY <1>10, <2>4, <3>2, <1>a, <1>d, <1>e, <1>p DEF NextSlice, Typed
    <3>3. CASE Goto("permanent") /\ UNCHANGED <<row, requests>>
      BY <1>10, <2>4, <3>3, <1>a, <1>e, <1>p DEF NextSlice, Typed
    <3>4. ASSUME NEW b \in SubmittedTo(slice),
                 requests' = Upsert({h \in slice : ~Submitted(h)}, "submitted", b, FALSE),
                 Persist(Listed(w.mem, b, slice)),
                 w' = [w EXCEPT !.pc = "poll", !.mem = Listed(w.mem, b, slice), !.batch = b, !.hashes = slice]
          PROVE  Typed'
      <4>1. b \in Batches
        BY <3>1 DEF SubmittedTo, Basics
      <4>2. requests' \in [Hash -> LLMBatchRecord]
        BY <3>4, <4>1, <1>a, RequestsTyped
      <4>3. Listed(w.mem, b, slice) \in Payload
        BY <3>1, <4>1, <1>a, ListedResult
      <4>4. w' \in WorkerType
        BY <3>1, <3>4, <4>1, <4>3, <1>a, <1>p DEF WorkerType
      <4>. QED  BY <1>10, <2>4, <3>4, <1>a, <1>d, <4>2, <4>3, <4>4 DEF NextSlice, Typed
    <3>5. CASE w' = [w EXCEPT !.pc = "submit", !.hashes = slice] /\ UNCHANGED <<row, requests>>
      <4>1. w' \in WorkerType
        BY <3>1, <3>5, <1>a, <1>p DEF WorkerType
      <4>. QED  BY <1>10, <2>4, <3>5, <1>a, <4>1 DEF NextSlice, Typed
    <3>. QED  BY <2>4, <3>2, <3>3, <3>4, <3>5 DEF NextSlice
  <2>5. CASE SubmitSlice
    <3>1. CASE Raise /\ UNCHANGED batches
      BY <1>10, <2>5, <3>1, <1>a, <1>i DEF SubmitSlice, Typed
    <3>2. ASSUME NEW b \in Batches, CreateJob(b, w.hashes),
                 \/ w' = [w EXCEPT !.pc = "created", !.batch = b, !.mem = Listed(w.mem, b, w.hashes)]
                 \/ Goto("transient")
          PROVE  Typed'
      <4>1. Listed(w.mem, b, w.hashes) \in Payload
        BY <1>a, ListedResult
      <4>2. w' \in WorkerType
        BY ZenonT(60), <3>2, <4>1, <1>a, <1>e, <1>p DEF WorkerType
      <4>3. batches' \in [Batches -> Job]
        BY <3>2, <1>a, JobsTyped
      <4>. QED  BY <1>10, <2>5, <1>a, <4>2, <4>3 DEF SubmitSlice, Typed
    <3>. QED  BY <2>5, <3>1, <3>2 DEF SubmitSlice
  <2>6. CASE RecordSubmission
    <3>1. CASE \E h \in w.hashes : requests' = Upsert({h}, "submitted", w.batch, FALSE)
                                  /\ UNCHANGED <<row, w>>
      <4>1. PICK h \in w.hashes : requests' = Upsert({h}, "submitted", w.batch, FALSE)
        BY <3>1
      <4>2. requests' \in [Hash -> LLMBatchRecord]
        BY <4>1, <1>a, RequestsTyped
      <4>. QED  BY <1>10, <2>6, <3>1, <1>a, <4>2 DEF RecordSubmission, Typed
    <3>2. CASE Persist(w.mem) /\ Goto("poll") /\ UNCHANGED requests
      BY <1>10, <2>6, <3>2, <1>a, <1>d, <1>e, <1>p DEF RecordSubmission, Typed
    <3>. QED  BY <2>6, <3>1, <3>2 DEF RecordSubmission
  <2>7. CASE CheckBeforePoll
    BY <1>10, <2>7, <1>a, <1>e, <1>p, <1>i DEF CheckBeforePoll, Typed, provider
  <2>8. CASE PollFails
    <3>1. PersistOutput(w.batch, w.hashes) \in [Hash -> LLMBatchRecord]
      BY <1>a, RequestsTyped
    <3>. QED  BY <1>10, <2>8, <1>a, <1>e, <1>p, <1>i, <3>1 DEF PollFails, Typed
  <2>9. CASE PollPending
    <3>1. [w EXCEPT !.pc = "poll"] \in WorkerType /\ [w EXCEPT !.pc = "timed_out"] \in WorkerType
      BY <1>a, <1>p DEF WorkerType
    <3>2. w' \in WorkerType
      BY <2>9, <1>r, <3>1 DEF PollPending
    <3>. QED  BY <1>10, <2>9, <1>a, <1>d, <3>2 DEF PollPending, PersistProgress, Typed, provider
  <2>10. CASE CancelAfterTimeout
    <3>1. w' \in WorkerType
      BY <2>10, <1>k DEF CancelAfterTimeout
    <3>2. batches' \in [Batches -> Job]
      BY <2>10, <1>a, JobsTyped DEF CancelAfterTimeout
    <3>. QED  BY <1>10, <2>10, <1>a, <3>1, <3>2 DEF CancelAfterTimeout, Typed
  <2>11. CASE PollEnds
    <3>1. w' \in WorkerType
      BY <2>11, <1>k, <1>r DEF PollEnds
    <3>2. requests' \in [Hash -> LLMBatchRecord]
      <4>1. (batches[w.batch].state = "cancelled") \in BOOLEAN
        OBVIOUS
      <4>2. /\ \A hashes : Upsert(hashes, "failed", w.batch, batches[w.batch].state = "cancelled")
                            \in [Hash -> LLMBatchRecord]
            /\ PersistOutput(w.batch, w.hashes) \in [Hash -> LLMBatchRecord]
        BY <1>a, <4>1, RequestsTyped
      <4>. QED  BY <2>11, <1>a, <4>2 DEF PollEnds
    <3>. QED  BY <1>10, <2>11, <1>a, <1>d, <3>1, <3>2 DEF PollEnds, PersistProgress, Typed
  <2>12. ASSUME NEW i \in Items, StartValidation(i)
         PROVE  Typed'
    <3>1. Interrupted \in WorkerType /\ [w EXCEPT !.inflight = @ \cup {i}] \in WorkerType
      BY <1>a, <1>p DEF Interrupted, WorkerType
    <3>. QED  BY <1>10, <2>12, <1>a, <1>d, <1>e, <1>p, <1>f, <1>g, <3>1 DEF StartValidation, Typed, provider
  <2>13. ASSUME NEW i \in Items, StartFallback(i)
         PROVE  Typed'
    <3>1. Interrupted \in WorkerType
      BY <1>a, <1>p DEF Interrupted, WorkerType
    <3>2. [w EXCEPT !.inflight = @ \cup {i}, !.mem.items[i][w.stage].fallback_attempted = TRUE]
            \in WorkerType
      <4>1. ItemPut(w.mem, i, Attempted(w.mem.items[i], w.stage)) \in Payload
        BY <1>a, OneItemTyped, ItemPutResult
      <4>2. \A inflight \in SUBSET Items :
              [w EXCEPT !.inflight = inflight, !.mem = ItemPut(w.mem, i, Attempted(w.mem.items[i], w.stage))]
                \in WorkerType
        BY <1>a, <4>1 DEF WorkerType
      <4>3. w.inflight \cup {i} \in SUBSET Items
        BY <1>a DEF WorkerType
      <4>. QED  BY <4>2, <4>3, OneItem
    <3>. QED  BY <1>10, <2>13, <1>a, <3>1, <3>2 DEF StartFallback, Typed, provider
  <2>14. ASSUME NEW i \in Items, FinishItem(i)
         PROVE  Typed'
    <3>1. PICK state \in {"succeeded", "failed"} :
            /\ Persist(WithState(w.mem, w.stage, {i}, state))
            /\ w' = [w EXCEPT !.mem = WithState(w.mem, w.stage, {i}, state), !.inflight = @ \ {i}]
      BY <2>14 DEF FinishItem
    <3>2. WithState(w.mem, w.stage, {i}, state) \in Payload
      BY <1>a, <1>f, <1>g
    <3>3. w' \in WorkerType
      BY <3>1, <3>2, <1>a DEF WorkerType
    <3>. QED  BY <1>10, <2>14, <1>a, <1>d, <3>1, <3>2, <3>3 DEF FinishItem, Typed, provider
  <2>15. CASE InterruptItem
    <3>1. w' \in WorkerType
      BY <2>15, <1>a, <1>p DEF InterruptItem, Interrupted, WorkerType
    <3>. QED  BY <1>10, <2>15, <1>a, <3>1 DEF InterruptItem, Typed, provider
  <2>16. CASE EndValidation
    BY <1>10, <2>16, <1>a, <1>d, <1>e, <1>p DEF EndValidation, Typed, provider
  <2>17. CASE EndFallback
    <3>1. w' \in WorkerType
      BY ZenonT(60), <2>17, <1>a, <1>p, <1>h DEF EndFallback, WorkerType
    <3>. QED  BY <1>10, <2>17, <1>a, <1>d, <3>1 DEF EndFallback, Typed, provider
  <2>18. CASE BeginApply
    BY <1>10, <2>18, <1>a, <1>d, <1>e, <1>p DEF BeginApply, Typed, provider
  <2>19. ASSUME NEW i \in Items, ApplyItem(i)
         PROVE  Typed'
    <3>1. /\ [w EXCEPT !.mem.items[i].applied = TRUE] \in WorkerType
          /\ [w EXCEPT !.mem.items[i].translation.state = "failed"] \in WorkerType
      <4>1. /\ ItemPut(w.mem, i, Applied(w.mem.items[i])) \in Payload
            /\ ItemPut(w.mem, i, Missing(w.mem.items[i])) \in Payload
        BY <1>a, OneItemTyped, ItemPutResult
      <4>2. \A p \in Payload : [w EXCEPT !.mem = p] \in WorkerType
        BY <1>a DEF WorkerType
      <4>. QED  BY <4>1, <4>2, OneItem
    <3>3. w' \in WorkerType
      BY <2>19, <3>1, <1>r DEF ApplyItem
    <3>4. chunks' \in [Items -> {"none", "translated", "polished"}]
      BY <2>19, <1>a DEF ApplyItem
    <3>. QED  BY <1>10, <2>19, <1>a, <3>3, <3>4 DEF ApplyItem, Typed, provider
  <2>20. CASE EndApply
    BY <1>10, <2>20, <1>a, <1>e, <1>p DEF EndApply, Typed, provider
  <2>21. CASE BeginCancel
    <3>1. [row EXCEPT !.status = "cancelling", !.cancel_requested = TRUE] \in RowType
      BY <1>a DEF RowType, Status
    <3>. QED  BY <1>10, <2>21, <1>a, <1>e, <1>p, <3>1 DEF BeginCancel, Typed, provider
  <2>22. CASE FindBatches
    <3>1. \A todo \in SUBSET Batches : [w EXCEPT !.pc = "settle", !.todo = todo, !.active = FALSE]
                                        \in WorkerType
      BY <1>a, <1>p DEF WorkerType
    <3>2. KnownBatches(w.mem) \in SUBSET Batches
      BY <1>a, KnownTyped
    <3>3. \A asked : FindBatchNames(asked) \in SUBSET Batches
      BY DEF FindBatchNames
    <3>4. w' \in WorkerType
      <4>. DEFINE Found(s) == IF w.mem.display[s] = {} THEN {} ELSE FindBatchNames(w.mem.display[s])
      <4>1. UNION {Found(s) : s \in Stages} \in SUBSET Batches
        BY <3>3
      <4>2. KnownBatches(w.mem) \cup UNION {Found(s) : s \in Stages} \in SUBSET Batches
        BY <3>2, <4>1
      <4>3. \E todo \in SUBSET Batches : w' = [w EXCEPT !.pc = "settle", !.todo = todo, !.active = FALSE]
        <5>1. \/ w' = [w EXCEPT !.pc = "settle", !.todo = KnownBatches(w.mem) \cup UNION {Found(s) : s \in Stages},
                                !.active = FALSE]
              \/ w' = [w EXCEPT !.pc = "settle", !.todo = KnownBatches(w.mem), !.active = FALSE]
              \/ w' = [w EXCEPT !.pc = "settle", !.todo = {}, !.active = FALSE]
          BY <2>22 DEF FindBatches
        <5>. HIDE DEF Found
        <5>. QED  BY <3>2, <4>2, <5>1
      <4>. QED  BY <3>1, <4>3
    <3>. QED  BY <1>10, <2>22, <1>a, <3>4 DEF FindBatches, Typed, provider
  <2>23. ASSUME NEW b \in w.todo, SettleBatch(b)
         PROVE  Typed'
    <3>1. b \in Batches
      BY <1>a DEF WorkerType
    <3>2. Settled(b, FALSE) \/ Settled(b, TRUE) => w' \in WorkerType
      BY <1>l
    <3>3. [w EXCEPT !.pc = "cancelling", !.batch = b] \in WorkerType
      BY <1>a, <1>p, <3>1 DEF WorkerType
    <3>4. requests' \in [Hash -> LLMBatchRecord]
      BY <2>23, <3>1, <1>a, RequestsTyped DEF SettleBatch
    <3>. QED  BY <1>10, <2>23, <1>a, <3>2, <3>3, <3>4 DEF SettleBatch, Typed
  <2>24. CASE CancelBatch
    <3>1. batches' \in [Batches -> Job]
      BY <2>24, <1>a, JobsTyped DEF CancelBatch
    <3>. QED  BY <1>10, <2>24, <1>a, <1>e, <1>p, <3>1 DEF CancelBatch, Typed
  <2>25. CASE InspectBatch
    <3>1. IsActive(w.batch) \in BOOLEAN
      BY DEF IsActive
    <3>2. w' \in WorkerType
      BY <2>25, <3>1, <1>l DEF InspectBatch
    <3>. QED  BY <1>10, <2>25, <1>a, <3>2 DEF InspectBatch, Typed, provider
  <2>26. CASE EndCancel
    <3>1. row' \in RowType
      BY <2>26, <1>a DEF EndCancel, RowType, Status, TerminalStatuses
    <3>. QED  BY <1>10, <2>26, <1>a, <1>e, <1>p, <3>1 DEF EndCancel, Typed, provider
  <2>. QED  BY <1>10, <2>1, <2>2, <2>3, <2>4, <2>5, <2>6, <2>7, <2>8, <2>9, <2>10, <2>11, <2>12, <2>13, <2>14,
               <2>15, <2>16, <2>17, <2>18, <2>19, <2>20, <2>21, <2>22, <2>23, <2>24, <2>25, <2>26
            DEF StageStep, CancelStep
<1>s. ASSUME NEW action \in {"run", "cancel"} PROVE Worker(action) \in WorkerType
  <2>1. IdleWorker(row.payload) \in WorkerType /\ row.payload.enable_polish \in BOOLEAN
    BY <1>a, <1>b DEF Payload
  <2>2. \A pc \in Points, p \in BOOLEAN :
          [IdleWorker(row.payload) EXCEPT !.pc = pc, !.action = action, !.polish = p] \in WorkerType
    BY <2>1 DEF WorkerType
  <2>. QED  BY <2>1, <2>2, <1>p DEF Worker
<1>o. \A event : Occurs(event) => ops' \in 0..MaxOps
  BY <1>a, OptionsAssumption DEF Occurs
<1>11. CASE StartRun
  BY <1>11, <1>a, <1>s DEF StartRun, Typed, running
<1>12. CASE ProviderStep
  <2>1. batches' \in [Batches -> Job]
    BY <1>12, <1>a, JobsTyped DEF ProviderStep
  <2>. QED  BY <1>12, <1>a, <2>1 DEF ProviderStep, Typed, EndJob
<1>13. CASE UserCancel
  <2>1. row' \in RowType
    BY <1>13, <1>a DEF UserCancel, CancelRequested, RowType, Status
  <2>2. w' \in WorkerType
    BY <1>13, <1>s DEF UserCancel
  <2>. QED  BY <1>13, <1>a, <1>o, <2>1, <2>2 DEF UserCancel, Typed, running
<1>14. CASE MarkCancelRequested
  <2>1. row' \in RowType
    BY <1>14, <1>a DEF MarkCancelRequested, CancelRequested, RowType, Status
  <2>. QED  BY <1>14, <1>a, <1>o, <2>1 DEF MarkCancelRequested, Typed, running
<1>15. CASE UserRerun
  <2>1. row' \in RowType
    BY <1>15, <1>a DEF UserRerun, RowType, Status
  <2>. QED  BY <1>15, <1>a, <1>o, <2>1 DEF UserRerun, Typed, running
<1>16. CASE InterruptWorker \/ Shutdown
  <2>1. w' \in WorkerType
    BY <1>16, <1>a DEF InterruptWorker, Shutdown, WorkerType
  <2>. QED  BY <1>16, <1>a, <1>o, <2>1 DEF InterruptWorker, Shutdown, Typed, running
<1>17. CASE Crash \/ EndInterrupted
  BY <1>17, <1>a, <1>b, <1>o DEF Crash, EndInterrupted, Typed, running
<1>18. CASE UNCHANGED vars
  BY <1>18 DEF vars, Typed
<1>. QED  BY <1>1, <1>2, <1>3, <1>4, <1>5, <1>6, <1>7, <1>8, <1>9, <1>10, <1>11, <1>12, <1>13, <1>14, <1>15,
             <1>16, <1>17, <1>18 DEF Next, WorkerStep, RunStep, Environment

\* What the worker may submit next is a set of requests.
LEMMA SliceTyped ==
  ASSUME Typed
  PROVE  SliceHashes \in SUBSET Hash
<1>1. w.stage \in Stages
  BY DEF Typed, WorkerType
<1>. QED  BY <1>1, ItemsAssumption DEF SliceHashes, PendingHashes, HashOf, Hash, ItemsIn

\* Steps that keep what Basics says.
LEMMA BasicsFrame ==
  ASSUME Typed, Basics,
         \/ UNCHANGED requests \/ (\E b, hs : requests' = PersistOutput(b, hs))
         \/ (\E hs, b, c : requests' = Upsert(hs, "failed", b, c)),
         w'.pc \notin {"jobs", "created"} \/ UNCHANGED w
  PROVE  Basics'
<1>1. ASSUME NEW h \in Hash, Submitted(h)'
      PROVE  requests'[h].batch_name \in Batches
  BY <1>1 DEF Typed, Basics, Submitted, PersistOutput, Upsert
<1>2. At("jobs")' => w'.job # 0
  BY DEF At, Basics
<1>3. At("created")' => w'.batch \in Batches
  BY DEF At, Basics
<1>. QED  BY <1>1, <1>2, <1>3 DEF Basics

\* What becomes of the worker when it writes, or fails to write, one chunk.
LEMMA ApplyForms ==
  ASSUME Typed, NEW i \in Items, ApplyItem(i)
  PROVE  /\ \A f \in {"action", "polish", "interrupted", "stage", "job", "hashes", "batch", "inflight", "todo",
                       "active", "outcome"} : w'[f] = w[f]
         /\ w'.pc \in {"applying", "interrupted"}
         /\ UNCHANGED <<provider, row>>
         /\ \/ /\ w'.mem = ItemPut(w.mem, i, Applied(w.mem.items[i]))
               /\ chunks' = [chunks EXCEPT ![i] = IF w.mem.items[i].polish.state = "succeeded"
                                                 THEN "polished" ELSE "translated"]
            \/ /\ May("chunk_missing") /\ UNCHANGED chunks /\ w'.pc = "applying"
               /\ w'.mem = ItemPut(w.mem, i, Missing(w.mem.items[i]))
<1>a. w \in WorkerType /\ w.pc = "applying"
  BY DEF Typed, ApplyItem, At
<1>1. CASE Report([w EXCEPT !.mem.items[i].applied = TRUE])
           /\ chunks' = [chunks EXCEPT ![i] = IF w.mem.items[i].polish.state = "succeeded"
                                              THEN "polished" ELSE "translated"]
  <2>. DEFINE mem == ItemPut(w.mem, i, Applied(w.mem.items[i]))
  <2>1. w' = IF w.interrupted THEN [[w EXCEPT !.mem = mem] EXCEPT !.pc = "interrupted"]
             ELSE [w EXCEPT !.mem = mem]
    BY <1>1, OneItem DEF Report
  <2>. HIDE DEF mem
  <2>2. /\ \A f \in {"action", "polish", "interrupted", "stage", "job", "hashes", "batch", "inflight", "todo",
                      "active", "outcome"} : w'[f] = w[f]
        /\ w'.pc \in {"applying", "interrupted"} /\ w'.mem = mem
    BY <2>1, <1>a DEF WorkerType
  <2>. QED  BY <1>1, <2>2 DEF mem, ApplyItem
<1>2. CASE May("chunk_missing") /\ w' = [w EXCEPT !.mem.items[i].translation.state = "failed"]
           /\ UNCHANGED chunks
  <2>. DEFINE mem == ItemPut(w.mem, i, Missing(w.mem.items[i]))
  <2>1. w' = [w EXCEPT !.mem = mem]
    BY <1>2, OneItem
  <2>. HIDE DEF mem
  <2>2. /\ \A f \in {"action", "polish", "interrupted", "stage", "job", "hashes", "batch", "inflight", "todo",
                      "active", "outcome"} : w'[f] = w[f]
        /\ w'.pc = "applying" /\ w'.mem = mem
    BY <2>1, <1>a DEF WorkerType
  <2>. QED  BY <1>2, <2>2 DEF mem, ApplyItem
<1>. QED  BY <1>1, <1>2 DEF ApplyItem

\* Every step keeps what Basics says.
LEMMA BasicsKept == Typed /\ Basics /\ [Next]_vars => Basics'
<1>. SUFFICES ASSUME Typed, Basics, [Next]_vars PROVE Basics'
  OBVIOUS
<1>a. w \in WorkerType
  BY DEF Typed
<1>c. Pause \/ Raise => w'.pc \in {"interrupted", "transient", "permanent"}
  BY <1>a DEF Pause, Raise, Goto, WorkerType
<1>d. \A p : IdleWorker(p).pc = "idle"
  BY DEF IdleWorker
<1>1. CASE EnterRun
  BY <1>1, <1>a, <1>c, <1>d, BasicsFrame DEF EnterRun, running, Goto, Proceed, WorkerType
<1>2. CASE BeginRun
  BY <1>2, <1>a, <1>c, <1>d, BasicsFrame DEF BeginRun, running, Goto, Proceed, WorkerType
<1>3. CASE Prepare
  BY <1>3, <1>a, <1>c, <1>d, BasicsFrame DEF Prepare, running, Goto, Proceed, WorkerType
<1>4. CASE DecideOutcome
  BY <1>4, <1>a, <1>c, <1>d, BasicsFrame DEF DecideOutcome, running, WorkerType, Goto, Proceed
<1>5. CASE FinishRun
  BY <1>5, <1>a, <1>c, <1>d, BasicsFrame DEF FinishRun, running, Goto, Proceed, WorkerType
<1>6. CASE HandlePause
  BY <1>6, <1>a, <1>c, <1>d, BasicsFrame DEF HandlePause, running, Goto, Proceed, WorkerType
<1>7. CASE WritePaused
  BY <1>7, <1>a, <1>c, <1>d, BasicsFrame DEF WritePaused, running, Goto, Proceed, WorkerType
<1>8. CASE WriteFailed
  BY <1>8, <1>a, <1>c, <1>d, BasicsFrame DEF WriteFailed, running, Goto, Proceed, WorkerType
<1>9. CASE NoteRemoteSubmission
  BY <1>9, <1>a, <1>c, <1>d, BasicsFrame DEF NoteRemoteSubmission, running, Goto, Proceed, WorkerType
<1>10. CASE StageStep \/ CancelStep
  <2>1. CASE run_translation_stage
    BY <2>1, <1>a DEF run_translation_stage, Basics, At, WorkerType, provider, Submitted
  <2>2. CASE run_polish_stage
    <3>1. w'.pc \in {"jobs", "apply"} /\ (w'.pc = "jobs" => w'.job # 0)
      <4>1. CASE w.polish
        <5>1. PICK mem : w' = [w EXCEPT !.pc = "jobs", !.job = 1, !.mem = mem]
          BY <2>2, <4>1 DEF run_polish_stage
        <5>. QED  BY <5>1, <1>a DEF WorkerType
      <4>2. CASE ~w.polish
        BY <2>2, <4>2, <1>a DEF run_polish_stage, WorkerType, Proceed
      <4>. QED  BY <4>1, <4>2
    <3>. QED  BY <2>2, <3>1 DEF run_polish_stage, Basics, At, Submitted, provider
  <2>3. CASE ResumeJob
    <3>1. w'.pc \in {"slice", "poll"}
      BY <2>3, <1>a DEF ResumeJob, WorkerType
    <3>. QED  BY <2>3, <3>1, BasicsFrame DEF ResumeJob, provider
  <2>4. CASE NextSlice
    <3>1. w'.pc \in {"validate", "permanent", "poll", "submit"}
      BY <2>4, <1>a DEF NextSlice, WorkerType, Goto, Proceed
    <3>2. CASE UNCHANGED requests
      BY <3>1, <3>2, BasicsFrame
    <3>3. ASSUME NEW b \in SubmittedTo(SliceHashes), NEW hs, requests' = Upsert(hs, "submitted", b, FALSE)
          PROVE  Basics'
      <4>1. b \in Batches
        BY SliceTyped DEF SubmittedTo, Basics
      <4>2. \A h \in Hash : Submitted(h)' => requests'[h].batch_name \in Batches
        BY <3>3, <4>1 DEF Submitted, Upsert, Basics
      <4>. QED  BY <3>1, <4>2 DEF Basics, At
    <3>. QED  BY <2>4, <3>2, <3>3 DEF NextSlice
  <2>5. CASE SubmitSlice
    <3>1. CASE Raise
      BY <2>5, <3>1, <1>c, BasicsFrame DEF SubmitSlice
    <3>2. CASE Goto("transient")
      BY <2>5, <3>2, <1>a, BasicsFrame DEF SubmitSlice, Goto, WorkerType
    <3>3. ASSUME NEW b \in Batches,
                 w' = [w EXCEPT !.pc = "created", !.batch = b, !.mem = Listed(w.mem, b, w.hashes)]
          PROVE  Basics'
      BY <2>5, <3>3, <1>a DEF SubmitSlice, Basics, At, WorkerType, Submitted
    <3>. QED  BY <2>5, <3>1, <3>2, <3>3 DEF SubmitSlice
  <2>6. CASE RecordSubmission
    <3>1. CASE UNCHANGED requests /\ Goto("poll")
      BY <3>1, <1>a, BasicsFrame DEF Goto, WorkerType
    <3>2. ASSUME NEW hs, requests' = Upsert(hs, "submitted", w.batch, FALSE), UNCHANGED w
          PROVE  Basics'
      <4>1. \A h \in Hash : Submitted(h)' => requests'[h].batch_name \in Batches
        BY <2>6, <3>2 DEF Submitted, Upsert, Basics, RecordSubmission, At
      <4>. QED  BY <3>2, <4>1 DEF Basics, At
    <3>. QED  BY <2>6, <3>1, <3>2 DEF RecordSubmission
  <2>7. CASE CheckBeforePoll
    <3>1. w'.pc \notin {"jobs", "created"}
      BY <2>7, <1>a, <1>c DEF CheckBeforePoll, provider, Goto, Proceed, WorkerType
    <3>2. UNCHANGED requests
      BY <2>7 DEF CheckBeforePoll, provider
    <3>. QED  BY <3>1, <3>2, BasicsFrame
  <2>8. CASE PollFails
    <3>1. w'.pc \notin {"jobs", "created"}
      BY <2>8, <1>a, <1>c DEF PollFails, Goto, Proceed, WorkerType
    <3>2. UNCHANGED requests \/ (\E b_1, hs : requests' = PersistOutput(b_1, hs))
      BY <2>8 DEF PollFails
    <3>. QED  BY <3>1, <3>2, BasicsFrame
  <2>9. CASE PollPending
    <3>1. w'.pc \notin {"jobs", "created"}
      BY <2>9, <1>a, <1>c DEF PollPending, WorkerType, Report, Goto, Proceed
    <3>2. UNCHANGED requests
      BY <2>9 DEF PollPending, provider
    <3>. QED  BY <3>1, <3>2, BasicsFrame
  <2>10. CASE CancelAfterTimeout
    <3>1. /\ w'.pc \in {"slice", "jobs"}
          /\ w'.pc = "jobs" => w'.job # 0
      BY <2>10, <1>a DEF CancelAfterTimeout, AfterPoll, WorkerType
    <3>. QED  BY <2>10, <3>1 DEF CancelAfterTimeout, Basics, At, Submitted
  <2>11. CASE PollEnds
    <3>1. /\ w'.pc \in {"slice", "jobs", "interrupted"}
          /\ w'.pc = "jobs" => w'.job # 0
      BY <2>11, <1>a DEF PollEnds, AfterPoll, Report, WorkerType
    <3>2. \A h \in Hash : Submitted(h)' => requests'[h].batch_name \in Batches
      BY <2>11 DEF PollEnds, Submitted, Upsert, PersistOutput, Basics
    <3>. QED  BY <3>1, <3>2 DEF Basics, At
  <2>12. ASSUME NEW i \in Items, StartValidation(i)
        PROVE  Basics'
    <3>1. w'.pc \notin {"jobs", "created"}
      BY <2>12, <1>a, <1>c DEF StartValidation, WorkerType, Interrupted, provider, At, Goto, Proceed
    <3>2. UNCHANGED requests
      BY <2>12 DEF StartValidation, provider
    <3>. QED  BY <3>1, <3>2, BasicsFrame
  <2>13. ASSUME NEW i \in Items, StartFallback(i)
        PROVE  Basics'
    <3>1. w'.pc \notin {"jobs", "created"}
      BY <2>13, <1>a, <1>c DEF StartFallback, WorkerType, Interrupted, provider, At, Goto, Proceed
    <3>2. UNCHANGED requests
      BY <2>13 DEF StartFallback, provider
    <3>. QED  BY <3>1, <3>2, BasicsFrame
  <2>14. ASSUME NEW i \in Items, FinishItem(i)
        PROVE  Basics'
    <3>1. w'.pc \notin {"jobs", "created"}
      BY <2>14, <1>a, <1>c DEF FinishItem, WorkerType, provider, At, Goto, Proceed
    <3>2. UNCHANGED requests
      BY <2>14 DEF FinishItem, provider
    <3>. QED  BY <3>1, <3>2, BasicsFrame
  <2>15. CASE InterruptItem
    <3>1. w'.pc \notin {"jobs", "created"}
      BY <2>15, <1>a, <1>c DEF InterruptItem, WorkerType, Interrupted, provider, Goto, Proceed
    <3>2. UNCHANGED requests
      BY <2>15 DEF InterruptItem, provider
    <3>. QED  BY <3>1, <3>2, BasicsFrame
  <2>16. CASE EndValidation
    <3>1. w'.pc \notin {"jobs", "created"}
      BY <2>16, <1>a, <1>c DEF EndValidation, provider, Goto, Proceed, WorkerType
    <3>2. UNCHANGED requests
      BY <2>16 DEF EndValidation, provider
    <3>. QED  BY <3>1, <3>2, BasicsFrame
  <2>17. CASE EndFallback
    <3>1. w'.pc \notin {"jobs", "created"}
      BY <2>17, <1>a, <1>c DEF EndFallback, WorkerType, provider, Goto, Proceed
    <3>2. UNCHANGED requests
      BY <2>17 DEF EndFallback, provider
    <3>. QED  BY <3>1, <3>2, BasicsFrame
  <2>18. CASE BeginApply
    <3>1. w'.pc \notin {"jobs", "created"}
      BY <2>18, <1>a, <1>c DEF BeginApply, provider, Goto, Proceed, WorkerType
    <3>2. UNCHANGED requests
      BY <2>18 DEF BeginApply, provider
    <3>. QED  BY <3>1, <3>2, BasicsFrame
  <2>19. ASSUME NEW i \in Items, ApplyItem(i)
        PROVE  Basics'
    <3>1. w'.pc \notin {"jobs", "created"}
      BY <2>19, ApplyForms
    <3>2. UNCHANGED requests
      BY <2>19 DEF ApplyItem, provider
    <3>. QED  BY <3>1, <3>2, BasicsFrame
  <2>20. CASE EndApply
    <3>1. w'.pc \notin {"jobs", "created"}
      BY <2>20, <1>a, <1>c DEF EndApply, provider, Goto, Proceed, WorkerType
    <3>2. UNCHANGED requests
      BY <2>20 DEF EndApply, provider
    <3>. QED  BY <3>1, <3>2, BasicsFrame
  <2>21. CASE BeginCancel
    <3>1. w'.pc \notin {"jobs", "created"}
      BY <2>21, <1>a, <1>c DEF BeginCancel, provider, Goto, Proceed, WorkerType
    <3>2. UNCHANGED requests
      BY <2>21 DEF BeginCancel, provider
    <3>. QED  BY <3>1, <3>2, BasicsFrame
  <2>22. CASE FindBatches
    <3>1. w'.pc \notin {"jobs", "created"}
      BY <2>22, <1>a, <1>c DEF FindBatches, WorkerType, provider, Goto, Proceed
    <3>2. UNCHANGED requests
      BY <2>22 DEF FindBatches, provider
    <3>. QED  BY <3>1, <3>2, BasicsFrame
  <2>23. ASSUME NEW b \in w.todo, SettleBatch(b)
        PROVE  Basics'
    <3>1. w'.pc \notin {"jobs", "created"}
      BY <2>23, <1>a, <1>c DEF SettleBatch, WorkerType, Settled, Goto, Proceed
    <3>2. UNCHANGED requests \/ (\E b_1, hs : requests' = PersistOutput(b_1, hs))
      BY <2>23 DEF SettleBatch
    <3>. QED  BY <3>1, <3>2, BasicsFrame
  <2>24. CASE CancelBatch
    <3>1. w'.pc \notin {"jobs", "created"}
      BY <2>24, <1>a, <1>c DEF CancelBatch, Goto, Proceed, WorkerType
    <3>2. UNCHANGED requests
      BY <2>24 DEF CancelBatch, provider
    <3>. QED  BY <3>1, <3>2, BasicsFrame
  <2>25. CASE InspectBatch
    <3>1. w'.pc \notin {"jobs", "created"}
      BY <2>25, <1>a, <1>c DEF InspectBatch, WorkerType, Settled, provider, Goto, Proceed
    <3>2. UNCHANGED requests
      BY <2>25 DEF InspectBatch, provider
    <3>. QED  BY <3>1, <3>2, BasicsFrame
  <2>26. CASE EndCancel
    <3>1. w'.pc \notin {"jobs", "created"}
      BY <2>26, <1>a, <1>c DEF EndCancel, provider, Goto, Proceed, WorkerType
    <3>2. UNCHANGED requests
      BY <2>26 DEF EndCancel, provider
    <3>. QED  BY <3>1, <3>2, BasicsFrame
  <2>. QED  BY <1>10, <2>1, <2>2, <2>3, <2>4, <2>5, <2>6, <2>7, <2>8, <2>9, <2>10, <2>11, <2>12, <2>13, <2>14, <2>15, <2>16, <2>17, <2>18, <2>19, <2>20, <2>21, <2>22, <2>23, <2>24, <2>25, <2>26 DEF StageStep, CancelStep
<1>11. CASE StartRun
  BY <1>11, <1>d, BasicsFrame DEF StartRun, running, Worker, WorkerType, IdleWorker
<1>12. CASE ProviderStep
  BY <1>12, <1>d, BasicsFrame DEF ProviderStep, running, EndJob
<1>13. CASE UserCancel
  BY <1>13, BasicsFrame DEF UserCancel, running, Worker, IdleWorker
<1>14. CASE MarkCancelRequested
  BY <1>14, <1>d, BasicsFrame DEF MarkCancelRequested, running
<1>15. CASE UserRerun
  BY <1>15, <1>d, BasicsFrame DEF UserRerun, running
<1>16. CASE InterruptWorker \/ Shutdown
  BY <1>16, <1>a DEF InterruptWorker, Shutdown, running, Basics, At, WorkerType, Submitted
<1>17. CASE Crash \/ EndInterrupted
  BY <1>17, <1>d, BasicsFrame DEF Crash, EndInterrupted, running
<1>18. CASE UNCHANGED vars
  BY <1>18, BasicsFrame DEF vars
<1>. QED  BY <1>1, <1>2, <1>3, <1>4, <1>5, <1>6, <1>7, <1>8, <1>9, <1>10, <1>11, <1>12, <1>13, <1>14, <1>15, <1>16, <1>17, <1>18 DEF Next, WorkerStep, RunStep, Environment

-----------------------------------------------------------------------------
(* What is done is in the chunks.                                          *)

\* An item that is applied has its text, and a run that ends as completed has
\* applied all of them.
Written(p) == \A i \in Items : p.items[i].applied => chunks[i] # "none"
AllWritten == \A i \in Items : chunks[i] # "none"
DoneInv ==
  /\ Written(row.payload) /\ Written(w.mem)
  /\ row.status = "completed" => AllWritten
  /\ At("finish") => \A i \in Succeeded(w.mem) : w.mem.items[i].applied
  /\ At("finished") /\ w.outcome = "completed" => AllWritten

\* A payload whose applied items are those of the row or of the worker's copy.
AppliedFrom(p) ==
  \A i \in Items : p.items[i].applied => row.payload.items[i].applied \/ w.mem.items[i].applied

\* Every payload a step builds from the row's or the worker's applies no item anew.
LEMMA PayloadsFrom ==
  ASSUME Typed
  PROVE  /\ AppliedFrom(row.payload) /\ AppliedFrom(w.mem)
         /\ \A s \in Stages, state \in StageState : \A sub : AppliedFrom(WithState(w.mem, s, sub, state))
         /\ AppliedFrom(prepare_payload_for_rerun(row.payload))
         /\ \A polish : AppliedFrom(NewPayload(polish))
         /\ \A p : p.items = w.mem.items \/ p.items = row.payload.items => AppliedFrom(p)
<1>1. row.payload \in Payload /\ w.mem \in Payload
  BY DEF Typed, RowType, WorkerType
<1>2. \A s \in Stages, state \in StageState : \A sub : AppliedFrom(WithState(w.mem, s, sub, state))
  BY <1>1, WithStateResult DEF AppliedFrom
<1>3. AppliedFrom(prepare_payload_for_rerun(row.payload))
  BY <1>1, RerunResult DEF AppliedFrom
<1>4. \A polish : AppliedFrom(NewPayload(polish))
  BY DEF NewPayload, NewItem, AppliedFrom
<1>. QED  BY <1>2, <1>3, <1>4 DEF AppliedFrom

\* Steps that write no chunk and apply no item.
LEMMA DoneFrame ==
  ASSUME Typed, DoneInv, UNCHANGED chunks, AppliedFrom(row'.payload), AppliedFrom(w'.mem),
         row'.status # "completed" \/ UNCHANGED row.status \/ AllWritten,
         w'.pc \notin {"finish", "finished"} \/ (UNCHANGED <<w.pc, w.mem, w.outcome>>)
  PROVE  DoneInv'
BY DEF DoneInv, AppliedFrom, Written, AllWritten, At, Succeeded, ItemsIn

\* Every step keeps that done work is written: one step per action.
LEMMA DoneKept == Typed /\ DoneInv /\ [Next]_vars => DoneInv'
<1>. SUFFICES ASSUME Typed, DoneInv, [Next]_vars PROVE DoneInv'
  OBVIOUS
<1>a. w \in WorkerType /\ row \in RowType /\ w.mem \in Payload /\ row.payload \in Payload /\ w.stage \in Stages
  BY DEF Typed, RowType, WorkerType
<1>b. Pause \/ Raise => w'.pc \in {"interrupted", "transient", "permanent"} /\ w'.mem = w.mem
  BY <1>a DEF Pause, Raise, Goto, WorkerType
<1>c. \A p : IdleWorker(p).pc = "idle" /\ IdleWorker(p).mem = p
  BY DEF IdleWorker
<1>d. \A p : Persist(p) => row'.payload = p /\ row'.status = "running"
  BY <1>a DEF Persist, RowType
<1>e. PersistProgress => row'.payload = row.payload /\ row'.status = "running"
  BY <1>a DEF PersistProgress, RowType
<1>f. {"pending", "succeeded", "failed", "skipped"} = StageState /\ {"translation", "polish"} = Stages
  BY DEF StageState, Stages
<1>1. CASE EnterRun
  <2>1. AppliedFrom(w'.mem) /\ w'.pc \notin {"finish", "finished"}
    BY <1>1, <1>a, <1>b, <1>c, <1>f, PayloadsFrom DEF EnterRun, Goto, Proceed, WorkerType
  <2>2. AppliedFrom(row'.payload) /\ (row'.status # "completed" \/ row'.status = row.status)
    BY <1>1, <1>a, <1>d, <1>e, <1>f, PayloadsFrom DEF EnterRun, RowType, provider, running
  <2>3. UNCHANGED chunks
    BY <1>1 DEF EnterRun, provider, running
  <2>. QED  BY <2>1, <2>2, <2>3, DoneFrame
<1>2. CASE BeginRun
  <2>1. AppliedFrom(w'.mem) /\ w'.pc \notin {"finish", "finished"}
    BY <1>2, <1>a, <1>b, <1>c, <1>f, PayloadsFrom DEF BeginRun, Goto, Proceed, WorkerType
  <2>2. AppliedFrom(row'.payload) /\ (row'.status # "completed" \/ row'.status = row.status)
    BY <1>2, <1>a, <1>d, <1>e, <1>f, PayloadsFrom DEF BeginRun, RowType, provider, running
  <2>3. UNCHANGED chunks
    BY <1>2 DEF BeginRun, provider, running
  <2>. QED  BY <2>1, <2>2, <2>3, DoneFrame
<1>3. CASE Prepare
  <2>1. CASE w.mem.prepared
    BY <1>3, <2>1, <1>a, <1>d, DoneFrame, PayloadsFrom DEF Prepare, Goto, WorkerType, running
  <2>2. CASE (Pause \/ Raise) /\ UNCHANGED row
    BY <1>3, <2>2, <1>a, <1>b, DoneFrame, PayloadsFrom DEF Prepare, running
  <2>3. CASE Persist(PreparedPayload) /\ Proceed("stage", PreparedPayload)
    <3>1. AppliedFrom(PreparedPayload)
      BY PayloadsFrom DEF PreparedPayload, NewPayload, AppliedFrom, NewItem
    <3>2. w'.pc = "stage" /\ w'.mem = PreparedPayload
      BY <2>3, <1>a DEF Proceed, WorkerType
    <3>. QED  BY <1>3, <2>3, <1>d, <3>1, <3>2, DoneFrame DEF Prepare, running
  <2>4. CASE /\ \A i \in Items : chunks[i] # "none"
             /\ row' = [row EXCEPT !.status = "completed", !.payload = NewPayload(TRUE)]
             /\ Goto("post")
    <3>1. row'.payload = NewPayload(TRUE)
      BY <2>4, <1>a DEF RowType
    <3>2. w'.pc = "post" /\ w'.mem = w.mem
      BY <2>4, <1>a DEF Goto, WorkerType
    <3>. QED  BY <1>3, <2>4, <3>1, <3>2, DoneFrame, PayloadsFrom DEF Prepare, AllWritten, running
  <2>. QED  BY <1>3, <2>1, <2>2, <2>3, <2>4 DEF Prepare
<1>4. CASE DecideOutcome
  <2>1. Succeeded(w.mem) = Items => AllWritten
    BY <1>4 DEF DecideOutcome, DoneInv, AllWritten, Written
  <2>2. w'.pc = "finished" /\ w'.mem = w.mem /\ (w'.outcome = "completed" => Succeeded(w.mem) = Items)
    BY <1>4, <1>a DEF DecideOutcome, WorkerType
  <2>3. UNCHANGED <<row, chunks>>
    BY <1>4 DEF DecideOutcome, running
  <2>. QED  BY <2>1, <2>2, <2>3 DEF DoneInv, At, AllWritten, Written
<1>5. CASE FinishRun
  <2>1. row'.payload = w.mem /\ row'.status = w.outcome /\ w'.pc = "post" /\ w'.mem = w.mem
    BY <1>5, <1>a DEF FinishRun, RowType, WorkerType, Goto
  <2>2. row'.status = "completed" => AllWritten
    BY <1>5, <2>1 DEF FinishRun, DoneInv
  <2>. QED  BY <1>5, <2>1, <2>2, DoneFrame, PayloadsFrom DEF FinishRun, running
<1>6. CASE HandlePause
  <2>1. AppliedFrom(w'.mem) /\ w'.pc \notin {"finish", "finished"}
    BY <1>6, <1>a, <1>b, <1>c, <1>f, PayloadsFrom DEF HandlePause, Goto, Proceed, WorkerType
  <2>2. AppliedFrom(row'.payload) /\ (row'.status # "completed" \/ row'.status = row.status)
    BY <1>6, <1>a, <1>d, <1>e, <1>f, PayloadsFrom DEF HandlePause, RowType, provider, running
  <2>3. UNCHANGED chunks
    BY <1>6 DEF HandlePause, provider, running
  <2>. QED  BY <2>1, <2>2, <2>3, DoneFrame
<1>7. CASE WritePaused
  <2>1. AppliedFrom(w'.mem) /\ w'.pc \notin {"finish", "finished"}
    BY <1>7, <1>a, <1>b, <1>c, <1>f, PayloadsFrom DEF WritePaused, Goto, Proceed, WorkerType
  <2>2. AppliedFrom(row'.payload) /\ (row'.status # "completed" \/ row'.status = row.status)
    BY <1>7, <1>a, <1>d, <1>e, <1>f, PayloadsFrom DEF WritePaused, RowType, provider, running
  <2>3. UNCHANGED chunks
    BY <1>7 DEF WritePaused, provider, running
  <2>. QED  BY <2>1, <2>2, <2>3, DoneFrame
<1>8. CASE WriteFailed
  <2>1. AppliedFrom(w'.mem) /\ w'.pc \notin {"finish", "finished"}
    BY <1>8, <1>a, <1>b, <1>c, <1>f, PayloadsFrom DEF WriteFailed, Goto, Proceed, WorkerType
  <2>2. AppliedFrom(row'.payload) /\ (row'.status # "completed" \/ row'.status = row.status)
    BY <1>8, <1>a, <1>d, <1>e, <1>f, PayloadsFrom DEF WriteFailed, RowType, provider, running
  <2>3. UNCHANGED chunks
    BY <1>8 DEF WriteFailed, provider, running
  <2>. QED  BY <2>1, <2>2, <2>3, DoneFrame
<1>9. CASE NoteRemoteSubmission
  <2>1. row'.payload.items = row.payload.items /\ row'.status = row.status
    BY <1>9, <1>a DEF NoteRemoteSubmission, RowType, Payload
  <2>2. w'.pc = "idle" /\ w'.mem = row'.payload
    BY <1>9, <1>c DEF NoteRemoteSubmission
  <2>. QED  BY <1>9, <2>1, <2>2, DoneFrame, PayloadsFrom DEF NoteRemoteSubmission, running
<1>10. CASE StageStep \/ CancelStep
  <2>1. CASE run_translation_stage
    <3>1. AppliedFrom(w'.mem) /\ w'.pc \notin {"finish", "finished"}
      BY <2>1, <1>a, <1>b, <1>c, <1>f, PayloadsFrom DEF run_translation_stage, Goto, Proceed, WorkerType, At
    <3>2. AppliedFrom(row'.payload) /\ (row'.status # "completed" \/ row'.status = row.status)
      BY <2>1, <1>a, <1>d, <1>e, <1>f, PayloadsFrom DEF run_translation_stage, RowType, provider, running
    <3>3. UNCHANGED chunks
      BY <2>1 DEF run_translation_stage, provider, running
    <3>. QED  BY <3>1, <3>2, <3>3, DoneFrame
  <2>2. CASE run_polish_stage
    <3>1. \E mem : /\ AppliedFrom(mem)
                   /\ w'.mem = mem /\ w'.pc \in {"jobs", "apply"}
                   /\ row' = row \/ Persist(mem)
      <4>1. CASE w.polish
        <5>. DEFINE mem == WithState(w.mem, "polish", Items \ Succeeded(w.mem), "skipped")
        <5>1. Persist(mem) /\ w' = [w EXCEPT !.pc = "jobs", !.job = 1, !.mem = mem]
          BY <2>2, <4>1 DEF run_polish_stage
        <5>2. AppliedFrom(mem)
          BY <1>f, PayloadsFrom
        <5>. HIDE DEF mem
        <5>. QED  BY <5>1, <5>2, <1>a DEF WorkerType
      <4>2. CASE ~w.polish
        <5>. DEFINE mem == WithState(w.mem, "polish", Succeeded(w.mem), "skipped")
        <5>1. UNCHANGED row /\ w' = [w EXCEPT !.pc = "apply", !.mem = mem]
          BY <2>2, <4>2 DEF run_polish_stage, Proceed
        <5>2. AppliedFrom(mem)
          BY <1>f, PayloadsFrom
        <5>. HIDE DEF mem
        <5>. QED  BY <5>1, <5>2, <1>a DEF WorkerType
      <4>. QED  BY <4>1, <4>2
    <3>. QED  BY <2>2, <3>1, <1>d, DoneFrame, PayloadsFrom DEF run_polish_stage, provider
  <2>3. CASE ResumeJob
    <3>1. \E mem : /\ mem.items = w.mem.items
                   /\ w'.mem = mem /\ w'.pc \in {"slice", "poll"}
                   /\ row' = row \/ Persist(mem)
      <4>1. CASE w' = [w EXCEPT !.pc = "slice", !.job = 0] /\ UNCHANGED row
        BY <4>1, <1>a DEF WorkerType
      <4>2. ASSUME NEW j, NEW left,
                   LET jobs == w.mem.jobs[w.stage]
                       mem == [w.mem EXCEPT !.display[w.stage] = jobs[j].hashes]
                   IN  /\ Persist(mem)
                       /\ w' = [w EXCEPT !.pc = "poll", !.mem = mem, !.job = j, !.batch = jobs[j].batch,
                                         !.hashes = left]
            PROVE  \E mem : /\ mem.items = w.mem.items
                            /\ w'.mem = mem /\ w'.pc \in {"slice", "poll"}
                            /\ row' = row \/ Persist(mem)
        <5>. DEFINE jobs == w.mem.jobs[w.stage]
                    mem == [w.mem EXCEPT !.display[w.stage] = jobs[j].hashes]
        <5>1. mem.items = w.mem.items
          BY <1>a DEF Payload
        <5>2. Persist(mem) /\ w' = [w EXCEPT !.pc = "poll", !.mem = mem, !.job = j, !.batch = jobs[j].batch,
                                             !.hashes = left]
          BY <4>2
        <5>. HIDE DEF mem
        <5>. QED  BY <5>1, <5>2, <1>a DEF WorkerType
      <4>. QED  BY <2>3, <4>1, <4>2 DEF ResumeJob
    <3>. QED  BY <2>3, <3>1, <1>d, DoneFrame, PayloadsFrom DEF ResumeJob, provider
  <2>4. CASE NextSlice
    <3>1. CASE w'.mem = w.mem /\ w'.pc \in {"validate", "permanent", "submit"} /\ (UNCHANGED row \/ Persist(w.mem))
      BY <2>4, <3>1, <1>d, DoneFrame, PayloadsFrom DEF NextSlice
    <3>2. ASSUME NEW b,
                 LET mem == Listed(w.mem, b, SliceHashes)
                 IN  /\ Persist(mem)
                     /\ w' = [w EXCEPT !.pc = "poll", !.mem = mem, !.batch = b, !.hashes = SliceHashes]
          PROVE  DoneInv'
      <4>. DEFINE mem == Listed(w.mem, b, SliceHashes)
      <4>1. mem.items = w.mem.items
        BY <1>a DEF Listed, Payload
      <4>2. Persist(mem) /\ w' = [w EXCEPT !.pc = "poll", !.mem = mem, !.batch = b, !.hashes = SliceHashes]
        BY <3>2
      <4>. HIDE DEF mem
      <4>3. w'.mem = mem /\ w'.pc = "poll"
        BY <4>2, <1>a DEF WorkerType
      <4>. QED  BY <2>4, <4>1, <4>2, <4>3, <1>d, DoneFrame, PayloadsFrom DEF NextSlice
    <3>3. \/ w'.mem = w.mem /\ w'.pc \in {"validate", "permanent", "submit"} /\ (UNCHANGED row \/ Persist(w.mem))
          \/ \E b : LET mem == Listed(w.mem, b, SliceHashes)
                    IN  /\ Persist(mem)
                        /\ w' = [w EXCEPT !.pc = "poll", !.mem = mem, !.batch = b, !.hashes = SliceHashes]
      <4>1. CASE Goto("validate") \/ Goto("permanent")
        BY <2>4, <4>1, <1>a DEF NextSlice, Goto, WorkerType
      <4>2. CASE w' = [w EXCEPT !.pc = "submit", !.hashes = SliceHashes] /\ UNCHANGED row
        BY <4>2, <1>a DEF WorkerType
      <4>. QED  BY <2>4, <4>1, <4>2 DEF NextSlice
    <3>. QED  BY <3>1, <3>2, <3>3
  <2>5. CASE SubmitSlice
    <3>1. AppliedFrom(w'.mem) /\ w'.pc \notin {"finish", "finished"}
      <4>1. CASE Raise \/ Goto("transient")
        BY <4>1, <1>a, <1>b, PayloadsFrom DEF Goto, WorkerType
      <4>2. ASSUME NEW b \in Batches,
                   w' = [w EXCEPT !.pc = "created", !.batch = b, !.mem = Listed(w.mem, b, w.hashes)]
            PROVE  AppliedFrom(w'.mem) /\ w'.pc \notin {"finish", "finished"}
        <5>. DEFINE mem == Listed(w.mem, b, w.hashes)
        <5>1. mem.items = w.mem.items
          BY <1>a DEF Listed, Payload
        <5>. HIDE DEF mem
        <5>. QED  BY <4>2, <5>1, <1>a, PayloadsFrom DEF WorkerType, mem
      <4>. QED  BY <2>5, <4>1, <4>2 DEF SubmitSlice
    <3>. QED  BY <2>5, <3>1, DoneFrame, PayloadsFrom DEF SubmitSlice
  <2>6. CASE RecordSubmission
    <3>1. AppliedFrom(w'.mem) /\ w'.pc \notin {"finish", "finished"}
      BY <2>6, <1>a, <1>b, <1>c, <1>f, PayloadsFrom DEF RecordSubmission, Goto, Proceed, WorkerType, At
    <3>2. AppliedFrom(row'.payload) /\ (row'.status # "completed" \/ row'.status = row.status)
      BY <2>6, <1>a, <1>d, <1>e, <1>f, PayloadsFrom DEF RecordSubmission, RowType, provider, running
    <3>3. UNCHANGED chunks
      BY <2>6 DEF RecordSubmission, provider, running
    <3>. QED  BY <3>1, <3>2, <3>3, DoneFrame
  <2>7. CASE CheckBeforePoll
    <3>1. AppliedFrom(w'.mem) /\ w'.pc \notin {"finish", "finished"}
      BY <2>7, <1>a, <1>b, <1>c, <1>f, PayloadsFrom DEF CheckBeforePoll, Goto, Proceed, WorkerType, At
    <3>2. AppliedFrom(row'.payload) /\ (row'.status # "completed" \/ row'.status = row.status)
      BY <2>7, <1>a, <1>d, <1>e, <1>f, PayloadsFrom DEF CheckBeforePoll, RowType, provider, running
    <3>3. UNCHANGED chunks
      BY <2>7 DEF CheckBeforePoll, provider, running
    <3>. QED  BY <3>1, <3>2, <3>3, DoneFrame
  <2>8. CASE PollFails
    <3>1. AppliedFrom(w'.mem) /\ w'.pc \notin {"finish", "finished"}
      BY <2>8, <1>a, <1>b, <1>c, <1>f, PayloadsFrom DEF PollFails, Goto, Proceed, WorkerType, At
    <3>2. AppliedFrom(row'.payload) /\ (row'.status # "completed" \/ row'.status = row.status)
      BY <2>8, <1>a, <1>d, <1>e, <1>f, PayloadsFrom DEF PollFails, RowType, provider, running
    <3>3. UNCHANGED chunks
      BY <2>8 DEF PollFails, provider, running
    <3>. QED  BY <3>1, <3>2, <3>3, DoneFrame
  <2>9. CASE PollPending
    <3>1. AppliedFrom(w'.mem) /\ w'.pc \notin {"finish", "finished"}
      BY ZenonT(60), <2>9, <1>a, <1>b, <1>c, <1>f, PayloadsFrom DEF PollPending, Goto, Proceed, WorkerType, Report, At
    <3>2. AppliedFrom(row'.payload) /\ (row'.status # "completed" \/ row'.status = row.status)
      BY <2>9, <1>a, <1>d, <1>e, <1>f, PayloadsFrom DEF PollPending, RowType, provider, running
    <3>3. UNCHANGED chunks
      BY <2>9 DEF PollPending, provider, running
    <3>. QED  BY <3>1, <3>2, <3>3, DoneFrame
  <2>10. CASE CancelAfterTimeout
    <3>1. AppliedFrom(w'.mem) /\ w'.pc \notin {"finish", "finished"}
      BY <2>10, <1>a, <1>b, <1>c, <1>f, PayloadsFrom DEF CancelAfterTimeout, Goto, Proceed, WorkerType, AfterPoll, At
    <3>2. AppliedFrom(row'.payload) /\ (row'.status # "completed" \/ row'.status = row.status)
      BY <2>10, <1>a, <1>d, <1>e, <1>f, PayloadsFrom DEF CancelAfterTimeout, RowType, provider, running
    <3>3. UNCHANGED chunks
      BY <2>10 DEF CancelAfterTimeout, provider, running
    <3>. QED  BY <3>1, <3>2, <3>3, DoneFrame
  <2>11. CASE PollEnds
    <3>1. AppliedFrom(w'.mem) /\ w'.pc \notin {"finish", "finished"}
      BY <2>11, <1>a, <1>b, <1>c, <1>f, PayloadsFrom DEF PollEnds, Goto, Proceed, WorkerType, AfterPoll, Report, At
    <3>2. AppliedFrom(row'.payload) /\ (row'.status # "completed" \/ row'.status = row.status)
      BY <2>11, <1>a, <1>d, <1>e, <1>f, PayloadsFrom DEF PollEnds, RowType, provider, running
    <3>3. UNCHANGED chunks
      BY <2>11 DEF PollEnds, provider, running
    <3>. QED  BY <3>1, <3>2, <3>3, DoneFrame
  <2>12. ASSUME NEW i \in Items, StartValidation(i)
        PROVE  DoneInv'
    <3>1. CASE w' = Interrupted /\ UNCHANGED row
      BY <2>12, <3>1, <1>a, DoneFrame, PayloadsFrom DEF StartValidation, Interrupted, WorkerType, provider
    <3>2. CASE w' = [w EXCEPT !.inflight = @ \cup {i}] /\ UNCHANGED row
      BY <2>12, <3>2, <1>a, DoneFrame, PayloadsFrom DEF StartValidation, At, WorkerType, provider
    <3>3. CASE LET mem == WithState(w.mem, w.stage, {i}, "failed") IN Persist(mem) /\ Proceed("validate", mem)
      <4>. DEFINE mem == WithState(w.mem, w.stage, {i}, "failed")
      <4>1. AppliedFrom(mem)
        BY <1>a, <1>f, PayloadsFrom
      <4>. HIDE DEF mem
      <4>2. w'.mem = mem /\ w'.pc = "validate"
        BY <3>3, <1>a DEF Proceed, WorkerType, mem
      <4>. QED  BY <2>12, <3>3, <4>1, <4>2, <1>d, DoneFrame DEF StartValidation, mem, provider
    <3>. QED  BY <2>12, <3>1, <3>2, <3>3 DEF StartValidation
  <2>13. ASSUME NEW i \in Items, StartFallback(i)
        PROVE  DoneInv'
    <3>1. CASE w' = Interrupted
      BY <2>13, <3>1, <1>a, DoneFrame, PayloadsFrom DEF StartFallback, Interrupted, WorkerType, provider
    <3>2. CASE w' = [w EXCEPT !.inflight = @ \cup {i}, !.mem.items[i][w.stage].fallback_attempted = TRUE]
      <4>. DEFINE item == Attempted(w.mem.items[i], w.stage)
                  mem == ItemPut(w.mem, i, item)
      <4>1. w' = [w EXCEPT !.inflight = w.inflight \cup {i}, !.mem = mem]
        BY <3>2, OneItem
      <4>2. item \in Item /\ item.applied = w.mem.items[i].applied
        BY OneItemTyped
      <4>3. AppliedFrom(mem)
        BY <4>2, <1>a, ItemPutResult DEF AppliedFrom
      <4>. HIDE DEF mem
      <4>4. w'.mem = mem /\ w'.pc = "fallback"
        BY <2>13, <4>1, <1>a DEF StartFallback, At, WorkerType
      <4>. QED  BY <2>13, <4>3, <4>4, DoneFrame, PayloadsFrom DEF StartFallback, provider
    <3>. QED  BY <2>13, <3>1, <3>2 DEF StartFallback
  <2>14. ASSUME NEW i \in Items, FinishItem(i)
        PROVE  DoneInv'
    <3>1. PICK state \in {"succeeded", "failed"} :
            /\ Persist(WithState(w.mem, w.stage, {i}, state))
            /\ w' = [w EXCEPT !.mem = WithState(w.mem, w.stage, {i}, state), !.inflight = @ \ {i}]
      BY <2>14 DEF FinishItem
    <3>. DEFINE mem == WithState(w.mem, w.stage, {i}, state)
    <3>2. AppliedFrom(mem)
      BY <1>a, <1>f, PayloadsFrom
    <3>. HIDE DEF mem
    <3>3. w'.mem = mem /\ w'.pc \in {"validate", "fallback"}
      BY <2>14, <3>1, <1>a DEF FinishItem, WorkerType, mem
    <3>. QED  BY <2>14, <3>1, <3>2, <3>3, <1>d, DoneFrame DEF FinishItem, mem, provider
  <2>15. CASE InterruptItem
    <3>1. AppliedFrom(w'.mem) /\ w'.pc \notin {"finish", "finished"}
      BY <2>15, <1>a, <1>b, <1>c, <1>f, PayloadsFrom DEF InterruptItem, Goto, Proceed, WorkerType, Interrupted, At
    <3>2. AppliedFrom(row'.payload) /\ (row'.status # "completed" \/ row'.status = row.status)
      BY <2>15, <1>a, <1>d, <1>e, <1>f, PayloadsFrom DEF InterruptItem, RowType, provider, running
    <3>3. UNCHANGED chunks
      BY <2>15 DEF InterruptItem, provider, running
    <3>. QED  BY <3>1, <3>2, <3>3, DoneFrame
  <2>16. CASE EndValidation
    <3>1. AppliedFrom(w'.mem) /\ w'.pc \notin {"finish", "finished"}
      BY <2>16, <1>a, <1>b, <1>c, <1>f, PayloadsFrom DEF EndValidation, Goto, Proceed, WorkerType, At
    <3>2. AppliedFrom(row'.payload) /\ (row'.status # "completed" \/ row'.status = row.status)
      BY <2>16, <1>a, <1>d, <1>e, <1>f, PayloadsFrom DEF EndValidation, RowType, provider, running
    <3>3. UNCHANGED chunks
      BY <2>16 DEF EndValidation, provider, running
    <3>. QED  BY <3>1, <3>2, <3>3, DoneFrame
  <2>17. CASE EndFallback
    <3>1. AppliedFrom(w'.mem) /\ w'.pc \notin {"finish", "finished"}
      BY <2>17, <1>a, <1>b, <1>c, <1>f, PayloadsFrom DEF EndFallback, Goto, Proceed, WorkerType, At
    <3>2. AppliedFrom(row'.payload) /\ (row'.status # "completed" \/ row'.status = row.status)
      BY <2>17, <1>a, <1>d, <1>e, <1>f, PayloadsFrom DEF EndFallback, RowType, provider, running
    <3>3. UNCHANGED chunks
      BY <2>17 DEF EndFallback, provider, running
    <3>. QED  BY <3>1, <3>2, <3>3, DoneFrame
  <2>18. CASE BeginApply
    <3>1. AppliedFrom(w'.mem) /\ w'.pc \notin {"finish", "finished"}
      BY <2>18, <1>a, <1>b, <1>c, <1>f, PayloadsFrom DEF BeginApply, Goto, Proceed, WorkerType, At
    <3>2. AppliedFrom(row'.payload) /\ (row'.status # "completed" \/ row'.status = row.status)
      BY <2>18, <1>a, <1>d, <1>e, <1>f, PayloadsFrom DEF BeginApply, RowType, provider, running
    <3>3. UNCHANGED chunks
      BY <2>18 DEF BeginApply, provider, running
    <3>. QED  BY <3>1, <3>2, <3>3, DoneFrame
  <2>19. ASSUME NEW i \in Items, ApplyItem(i)
        PROVE  DoneInv'
    <3>1. /\ UNCHANGED row /\ w'.pc \in {"applying", "interrupted"}
          /\ w.mem.items[i] \in Item /\ Applied(w.mem.items[i]) \in Item /\ Missing(w.mem.items[i]) \in Item
          /\ Missing(w.mem.items[i]).applied = w.mem.items[i].applied
      BY <2>19, ApplyForms, OneItemTyped
    <3>2. CASE /\ w'.mem = ItemPut(w.mem, i, Applied(w.mem.items[i]))
               /\ chunks' = [chunks EXCEPT ![i] = IF w.mem.items[i].polish.state = "succeeded"
                                                 THEN "polished" ELSE "translated"]
      <4>1. \A j \in Items : /\ j # i => w'.mem.items[j] = w.mem.items[j]
                             /\ j # i => chunks'[j] = chunks[j]
                             /\ chunks'[i] # "none"
        <5>. DEFINE item == Applied(w.mem.items[i])
        <5>0. item \in Item
          BY <3>1
        <5>. HIDE DEF item
        <5>1. \A j \in Items : ItemPut(w.mem, i, item).items[j] = IF j = i THEN item ELSE w.mem.items[j]
          BY <5>0, <1>a, ItemPutResult
        <5>. QED  BY <3>2, <5>1 DEF Typed, item
      <4>. QED  BY <3>1, <4>1 DEF DoneInv, Written, AllWritten, At
    <3>3. CASE UNCHANGED chunks /\ w'.mem = ItemPut(w.mem, i, Missing(w.mem.items[i]))
      <4>1. AppliedFrom(w'.mem)
        <5>. DEFINE item == Missing(w.mem.items[i])
        <5>0. item \in Item
          BY <3>1
        <5>. HIDE DEF item
        <5>1. \A j \in Items : ItemPut(w.mem, i, item).items[j] = IF j = i THEN item ELSE w.mem.items[j]
          BY <5>0, <1>a, ItemPutResult
        <5>. QED  BY <3>1, <3>3, <5>1 DEF AppliedFrom, item
      <4>. QED  BY <3>1, <3>3, <4>1, DoneFrame, PayloadsFrom
    <3>. QED  BY <2>19, <3>2, <3>3, ApplyForms
  <2>20. CASE EndApply
    <3>1. w'.pc = "finish" /\ w'.mem = w.mem /\ UNCHANGED <<row, chunks>>
      BY <2>20, <1>a DEF EndApply, Goto, WorkerType, provider
    <3>2. \A i \in Succeeded(w.mem) : w.mem.items[i].applied
      BY <2>20 DEF EndApply, Applicable
    <3>. QED  BY <3>1, <3>2 DEF DoneInv, At, Written, AllWritten, Succeeded, ItemsIn
  <2>21. CASE BeginCancel
    <3>1. AppliedFrom(w'.mem) /\ w'.pc \notin {"finish", "finished"}
      BY <2>21, <1>a, <1>b, <1>c, <1>f, PayloadsFrom DEF BeginCancel, Goto, Proceed, WorkerType, At
    <3>2. AppliedFrom(row'.payload) /\ (row'.status # "completed" \/ row'.status = row.status)
      BY <2>21, <1>a, <1>d, <1>e, <1>f, PayloadsFrom DEF BeginCancel, RowType, provider, running
    <3>3. UNCHANGED chunks
      BY <2>21 DEF BeginCancel, provider, running
    <3>. QED  BY <3>1, <3>2, <3>3, DoneFrame
  <2>22. CASE FindBatches
    <3>1. \E todo : w' = [w EXCEPT !.pc = "settle", !.todo = todo, !.active = FALSE]
      BY <2>22 DEF FindBatches
    <3>2. w'.mem = w.mem /\ w'.pc = "settle"
      BY <3>1, <1>a DEF WorkerType
    <3>. QED  BY <2>22, <3>2, DoneFrame, PayloadsFrom DEF FindBatches, provider
  <2>23. ASSUME NEW b \in w.todo, SettleBatch(b)
        PROVE  DoneInv'
    <3>1. AppliedFrom(w'.mem) /\ w'.pc \notin {"finish", "finished"}
      BY <2>23, <1>a, <1>b, <1>c, <1>f, PayloadsFrom DEF SettleBatch, Goto, Proceed, WorkerType, Settled, At
    <3>2. AppliedFrom(row'.payload) /\ (row'.status # "completed" \/ row'.status = row.status)
      BY <2>23, <1>a, <1>d, <1>e, <1>f, PayloadsFrom DEF SettleBatch, RowType, provider, running
    <3>3. UNCHANGED chunks
      BY <2>23 DEF SettleBatch, provider, running
    <3>. QED  BY <3>1, <3>2, <3>3, DoneFrame
  <2>24. CASE CancelBatch
    <3>1. AppliedFrom(w'.mem) /\ w'.pc \notin {"finish", "finished"}
      BY <2>24, <1>a, <1>b, <1>c, <1>f, PayloadsFrom DEF CancelBatch, Goto, Proceed, WorkerType, At
    <3>2. AppliedFrom(row'.payload) /\ (row'.status # "completed" \/ row'.status = row.status)
      BY <2>24, <1>a, <1>d, <1>e, <1>f, PayloadsFrom DEF CancelBatch, RowType, provider, running
    <3>3. UNCHANGED chunks
      BY <2>24 DEF CancelBatch, provider, running
    <3>. QED  BY <3>1, <3>2, <3>3, DoneFrame
  <2>25. CASE InspectBatch
    <3>1. AppliedFrom(w'.mem) /\ w'.pc \notin {"finish", "finished"}
      BY <2>25, <1>a, <1>b, <1>c, <1>f, PayloadsFrom DEF InspectBatch, Goto, Proceed, WorkerType, Settled, At
    <3>2. AppliedFrom(row'.payload) /\ (row'.status # "completed" \/ row'.status = row.status)
      BY <2>25, <1>a, <1>d, <1>e, <1>f, PayloadsFrom DEF InspectBatch, RowType, provider, running
    <3>3. UNCHANGED chunks
      BY <2>25 DEF InspectBatch, provider, running
    <3>. QED  BY <3>1, <3>2, <3>3, DoneFrame
  <2>26. CASE EndCancel
    <3>1. AppliedFrom(w'.mem) /\ w'.pc \notin {"finish", "finished"}
      BY <2>26, <1>a, <1>b, <1>c, <1>f, PayloadsFrom DEF EndCancel, Goto, Proceed, WorkerType, At
    <3>2. AppliedFrom(row'.payload) /\ (row'.status # "completed" \/ row'.status = row.status)
      BY <2>26, <1>a, <1>d, <1>e, <1>f, PayloadsFrom DEF EndCancel, RowType, provider, running
    <3>3. UNCHANGED chunks
      BY <2>26 DEF EndCancel, provider, running
    <3>. QED  BY <3>1, <3>2, <3>3, DoneFrame
  <2>. QED  BY <1>10, <2>1, <2>2, <2>3, <2>4, <2>5, <2>6, <2>7, <2>8, <2>9, <2>10, <2>11, <2>12, <2>13, <2>14, <2>15, <2>16, <2>17, <2>18, <2>19, <2>20, <2>21, <2>22, <2>23, <2>24, <2>25, <2>26 DEF StageStep, CancelStep
<1>g. /\ Worker("run").mem = row.payload /\ Worker("run").pc = "entry"
      /\ Worker("cancel").mem = row.payload /\ Worker("cancel").pc = "cancel"
  BY DEF Worker, IdleWorker
<1>11. CASE StartRun
  BY <1>11, <1>g, DoneFrame, PayloadsFrom DEF StartRun, running
<1>12. CASE ProviderStep
  BY <1>12, DoneFrame, PayloadsFrom DEF ProviderStep
<1>13. CASE UserCancel
  <2>1. row'.payload = row.payload /\ row'.status = "cancel_requested" /\ UNCHANGED chunks
    BY <1>13, <1>a DEF UserCancel, CancelRequested, RowType, running
  <2>. QED  BY <1>13, <2>1, <1>g, DoneFrame, PayloadsFrom DEF UserCancel
<1>14. CASE MarkCancelRequested
  <2>1. row'.payload = row.payload /\ row'.status # "completed" /\ UNCHANGED <<w, chunks>>
    BY <1>14, <1>a DEF MarkCancelRequested, CancelRequested, RowType, running
  <2>. QED  BY <2>1, DoneFrame, PayloadsFrom
<1>15. CASE UserRerun
  <2>1. row'.payload = row.payload /\ row'.status # "completed" /\ UNCHANGED <<w, chunks>>
    BY <1>15, <1>a DEF UserRerun, RowType, running
  <2>. QED  BY <2>1, DoneFrame, PayloadsFrom
<1>16. CASE InterruptWorker \/ Shutdown
  <2>1. UNCHANGED <<row, chunks>> /\ UNCHANGED <<w.pc, w.mem, w.outcome>>
    BY <1>16, <1>a DEF InterruptWorker, Shutdown, running, WorkerType
  <2>. QED  BY <2>1, DoneFrame, PayloadsFrom
<1>17. CASE Crash \/ EndInterrupted
  BY <1>17, <1>c, DoneFrame, PayloadsFrom DEF Crash, EndInterrupted, running
<1>18. CASE UNCHANGED vars
  BY <1>18, DoneFrame, PayloadsFrom DEF vars
<1>. QED  BY <1>1, <1>2, <1>3, <1>4, <1>5, <1>6, <1>7, <1>8, <1>9, <1>10, <1>11, <1>12, <1>13, <1>14, <1>15, <1>16, <1>17, <1>18 DEF Next, WorkerStep, RunStep, Environment

\* The types of this module are those the runs check.
LEMMA TypedIsOK == Typed => TypeOK
<1>. SUFFICES ASSUME Typed PROVE TypeOK
  OBVIOUS
<1>1. ASSUME NEW p \in Payload
      PROVE  PayloadOK(p)
  <2>1. \A s \in Stages : Range(p.jobs[s]) \subseteq JobEntry
    BY DEF Payload, Range
  <2>. QED  BY <2>1 DEF Payload, PayloadOK
<1>. QED  BY <1>1 DEF Typed, TypeOK, RowType, WorkerType

\* What the initial states satisfy.
LEMMA BatchInit == Init => Typed /\ Basics /\ DoneInv
<1>. SUFFICES ASSUME Init PROVE Typed /\ Basics /\ DoneInv
  OBVIOUS
<1>1. PICK enable_polish \in EnablePolish :
        row = [status |-> "queued", cancel_requested |-> FALSE, payload |-> NewPayload(enable_polish)]
  BY DEF Init
<1>2. NewPayload(enable_polish) \in Payload
  BY OptionsAssumption, NewPayloadTyped
<1>3. row \in RowType /\ row.payload = NewPayload(enable_polish) /\ row.status = "queued"
  BY <1>1, <1>2 DEF RowType, Status
<1>4. w = IdleWorker(row.payload)
  BY DEF Init
<1>5. w \in WorkerType /\ w.pc = "idle" /\ w.mem = row.payload
  BY <1>2, <1>3, <1>4 DEF IdleWorker, WorkerType, Points, Stages
<1>6. batches \in [Batches -> Job] /\ requests \in [Hash -> LLMBatchRecord] /\ \A h \in Hash : ~Submitted(h)
  BY DEF Init, ProviderInit, Unborn, Job, JobState, NoRecord, LLMBatchRecord, Submitted
<1>7. chunks \in [Items -> {"none", "translated", "polished"}] /\ ops \in 0..MaxOps
  BY OptionsAssumption DEF Init
<1>8. \A i \in Items : ~row.payload.items[i].applied
  BY <1>3 DEF NewPayload, NewItem
<1>. QED  BY <1>3, <1>5, <1>6, <1>7, <1>8 DEF Typed, Basics, DoneInv, Written, At

\* The types hold in every state.
THEOREM BatchTypes == Spec => []TypeOK
<1>1. Init => Typed /\ Basics
  BY BatchInit
<1>2. Typed /\ Basics /\ [Next]_vars => Typed' /\ Basics'
  BY Typing, BasicsKept
<1>3. Typed => TypeOK
  BY TypedIsOK
<1>. QED  BY <1>1, <1>2, <1>3, PTL DEF Spec

\* What the row says is applied is in the chunks, and a task that is completed
\* has a text in every chunk, whatever interrupted its runs.
THEOREM DoneWorkIsWritten == Spec => []DoneIsInChunks
<1>1. Init => Typed /\ Basics /\ DoneInv
  BY BatchInit
<1>2. Typed /\ Basics /\ DoneInv /\ [Next]_vars => Typed' /\ Basics' /\ DoneInv'
  BY Typing, BasicsKept, DoneKept
<1>3. DoneInv => DoneIsInChunks
  BY DEF DoneInv, DoneIsInChunks, AppliedIsInChunks, CompletedMeansTranslated, Written, AllWritten
<1>. QED  BY <1>1, <1>2, <1>3, PTL DEF Spec

-----------------------------------------------------------------------------
(* Polished text is not overwritten.                                       *)

\* A chunk that was missing makes the item's translation fail after all; then a
\* cancellation may leave it to a run that starts the item again, unpolished.
PolishAssumption == "chunk_missing" \notin Faults \/ "cancel" \notin Events

Polished == {i \in Items : chunks[i] = "polished"}
\* What a payload says of an item whose chunk is polished: both stages have
\* succeeded, or its chunk was missing since and one more call at most is left.
Keeps(item) ==
  \/ item.translation.state = "succeeded" /\ item.polish.state = "succeeded"
  \/ /\ item.translation.state = "failed" /\ May("chunk_missing")
     /\ \/ item.polish.state = "succeeded"
        \/ item.polish.state = "skipped" /\ item.translation.fallback_attempted
PayloadKeeps(p) ==
  /\ \A i \in Polished : Keeps(p.items[i])
  /\ ~p.prepared => Polished = {}
  /\ ~p.enable_polish => ~p.prepared

\* From the first stage to the end of a run the payload is prepared.
AskPoints == {"jobs", "slice", "submit", "created", "poll", "polling", "timed_out", "validate", "fallback"}
WorkPoints == AskPoints \cup {"stage", "apply", "applying", "finish", "finished"}
WorkPrepared == w.pc \in WorkPoints => w.mem.prepared /\ row.payload.prepared

\* Who does not polish finds no polished text, asks for none and makes none.
Unpolished ==
  ~w.polish =>
    /\ Polished = {} /\ (w.stage = "polish" => w.pc \notin AskPoints)
    /\ w.pc \in {"apply", "applying"} => \A i \in Succeeded(w.mem) : w.mem.items[i].polish.state = "skipped"

\* Where chunks may be missing nobody cancels.
NotCancelled ==
  May("chunk_missing") =>
    /\ ~row.cancel_requested /\ ~At("cancel")
    /\ At("entry") => row.status \notin TerminalStatuses

\* A polished item that is being translated again keeps its polish.
Inflight ==
  /\ w.inflight # {} => w.pc \in {"validate", "fallback"}
  /\ \A i \in w.inflight : w.mem.items[i][w.stage].state = (IF At("validate") THEN "pending" ELSE "failed")
  /\ \A i \in w.inflight \cap Polished : w.stage = "translation" /\ w.mem.items[i].polish.state = "succeeded"

StageBegins ==
  /\ w.pc \in {"entry", "begin", "prepare"} => w.stage = "translation"
  /\ At("stage") /\ w.stage = "polish" =>
       \A i \in Polished \ Succeeded(w.mem) : w.mem.items[i].translation.fallback_attempted

\* What is being applied is in the row.
ApplyingIsStored ==
  At("applying") => \A i \in Succeeded(w.mem) :
    /\ row.payload.items[i].translation = w.mem.items[i].translation
    /\ row.payload.items[i].polish = w.mem.items[i].polish

PolishInv ==
  /\ PayloadKeeps(row.payload) /\ (w.pc \in RunPoints => PayloadKeeps(w.mem))
  /\ WorkPrepared /\ Unpolished /\ NotCancelled /\ Inflight /\ StageBegins /\ ApplyingIsStored

\* Two payloads that say the same of the items.
SameItems(p, q) == p.items = q.items /\ p.prepared = q.prepared /\ p.enable_polish = q.enable_polish

\* Two payloads with the same items keep polished text alike.
LEMMA SameKeeps ==
  ASSUME NEW p, NEW q, SameItems(p, q), PayloadKeeps(q)
  PROVE  PayloadKeeps(p)
BY DEF SameItems, PayloadKeeps

\* Steps that change neither chunks nor items, and begin no phase of a run
\* that has something of its own to say.
MovesOn ==
  /\ UNCHANGED <<chunks, w.polish, w.stage>>
  /\ SameItems(row'.payload, row.payload) \/ (w.pc \in RunPoints /\ SameItems(row'.payload, w.mem))
  /\ w'.pc \in RunPoints => w.pc \in RunPoints /\ SameItems(w'.mem, w.mem)
  /\ row'.cancel_requested = row.cancel_requested \/ ~May("chunk_missing")
  /\ w'.inflight = {} \/ (w'.inflight = w.inflight /\ (w.pc \in {"validate", "fallback"} => w'.pc = w.pc))
  /\ w'.pc \in WorkPoints => w.pc \in WorkPoints
  /\ w'.pc \in AskPoints => w.pc \in AskPoints \/ w.stage = "translation"
  /\ w'.pc \notin {"entry", "cancel", "stage", "prepare", "apply"}
  /\ w'.pc = "applying" => w.pc = "applying"
  /\ w'.pc = "begin" => w.pc = "entry"

\* A step in which the worker moves on with the items it had.
LEMMA MovesOnKeeps ==
  ASSUME Typed, PolishInv, MovesOn
  PROVE  PolishInv'
<1>1. PayloadKeeps(row.payload)' /\ (w'.pc \in RunPoints => PayloadKeeps(w.mem)')
  <2>1. PayloadKeeps(row'.payload) /\ (w'.pc \in RunPoints => PayloadKeeps(w'.mem))
    BY SameKeeps DEF PolishInv, MovesOn
  <2>. QED  BY <2>1 DEF MovesOn, PayloadKeeps, Polished
<1>2. WorkPrepared'
  <2>. SUFFICES ASSUME w'.pc \in WorkPoints PROVE w'.mem.prepared /\ row'.payload.prepared
    BY DEF WorkPrepared
  <2>1. w'.pc \in RunPoints
    BY DEF WorkPoints, AskPoints, RunPoints
  <2>. QED  BY <2>1 DEF PolishInv, WorkPrepared, MovesOn, SameItems
<1>3. Unpolished'
  <2>. SUFFICES ASSUME ~w'.polish PROVE Unpolished'
    BY DEF Unpolished
  <2>1. Polished' = Polished /\ Polished = {}
    BY DEF PolishInv, Unpolished, MovesOn, Polished
  <2>2. w'.stage = "polish" => w'.pc \notin AskPoints
    BY DEF PolishInv, Unpolished, MovesOn
  <2>3. w'.pc \in {"apply", "applying"} => \A i \in Succeeded(w'.mem) : w'.mem.items[i].polish.state = "skipped"
    <3>. SUFFICES ASSUME w'.pc = "applying" PROVE \A i \in Succeeded(w'.mem) : w'.mem.items[i].polish.state = "skipped"
      BY DEF MovesOn
    <3>1. w'.pc \in RunPoints /\ w.pc = "applying"
      BY DEF RunPoints, MovesOn
    <3>2. w'.mem.items = w.mem.items
      BY <3>1 DEF MovesOn, SameItems
    <3>. QED  BY <3>1, <3>2 DEF PolishInv, Unpolished, MovesOn, Succeeded, ItemsIn
  <2>. QED  BY <2>1, <2>2, <2>3 DEF Unpolished, Succeeded, ItemsIn
<1>4. NotCancelled'
  BY DEF PolishInv, NotCancelled, MovesOn, At
<1>5. Inflight'
  <2>. SUFFICES ASSUME w'.inflight # {} PROVE Inflight'
    BY DEF Inflight
  <2>1. w.inflight # {} /\ w'.inflight = w.inflight /\ w.pc \in {"validate", "fallback"} /\ w'.pc = w.pc
    BY DEF PolishInv, Inflight, MovesOn
  <2>2. w'.mem.items = w.mem.items /\ w'.stage = w.stage /\ Polished' = Polished
    BY <2>1 DEF MovesOn, SameItems, RunPoints, Polished
  <2>. QED  BY <2>1, <2>2 DEF PolishInv, Inflight, At
<1>6. StageBegins'
  BY DEF PolishInv, StageBegins, MovesOn, At
<1>7. ApplyingIsStored'
  <2>. SUFFICES ASSUME w'.pc = "applying" PROVE ApplyingIsStored'
    BY DEF ApplyingIsStored, At
  <2>1. w.pc = "applying" /\ w'.mem.items = w.mem.items
    BY DEF MovesOn, SameItems, RunPoints
  <2>2. row'.payload.items = row.payload.items \/ row'.payload.items = w.mem.items
    BY DEF MovesOn, SameItems
  <2>. QED  BY <2>1, <2>2 DEF PolishInv, ApplyingIsStored, At, Succeeded, ItemsIn
<1>. QED  BY <1>1, <1>2, <1>3, <1>4, <1>5, <1>6, <1>7 DEF PolishInv

\* The worker that starts, or that no longer runs.
Rests ==
  /\ UNCHANGED chunks /\ SameItems(row'.payload, row.payload)
  /\ w'.inflight = {} /\ w'.stage = "translation" /\ w'.pc \in {"idle", "entry", "cancel"}
  /\ w'.polish \/ ~row.payload.enable_polish
  /\ May("chunk_missing") =>
       /\ row'.cancel_requested = FALSE /\ w'.pc # "cancel"
       /\ w'.pc = "entry" => row'.status \notin TerminalStatuses

\* A step that ends a call of the worker, with the row it leaves.
LEMMA RestsKeeps ==
  ASSUME Typed, PolishInv, Rests
  PROVE  PolishInv'
<1>0. w'.pc \notin RunPoints /\ w'.pc \notin WorkPoints /\ w'.pc \notin AskPoints /\ w'.pc \notin {"apply", "applying"}
  BY DEF Rests, RunPoints, WorkPoints, AskPoints
<1>1. PayloadKeeps(row.payload)'
  <2>1. PayloadKeeps(row'.payload)
    BY SameKeeps DEF PolishInv, Rests
  <2>. QED  BY <2>1 DEF Rests, PayloadKeeps, Polished
<1>2. WorkPrepared' /\ ApplyingIsStored'
  BY <1>0 DEF WorkPrepared, ApplyingIsStored, At
<1>3. Unpolished'
  <2>1. ~w'.polish => Polished' = {}
    BY DEF Rests, PolishInv, PayloadKeeps, Polished
  <2>. QED  BY <1>0, <2>1 DEF Unpolished
<1>4. NotCancelled'
  BY DEF NotCancelled, Rests, At
<1>5. Inflight' /\ StageBegins'
  BY DEF Inflight, StageBegins, Rests, At
<1>. QED  BY <1>0, <1>1, <1>2, <1>3, <1>4, <1>5 DEF PolishInv

\* Every step keeps the invariant behind PolishNotLost: one step per action.
LEMMA PolishKept ==
  ASSUME PolishAssumption
  PROVE  Typed /\ PolishInv /\ [Next]_vars => PolishInv'
<1>. SUFFICES ASSUME Typed, PolishInv, [Next]_vars PROVE PolishInv'
  OBVIOUS
<1>a. w \in WorkerType /\ row \in RowType /\ w.mem \in Payload /\ row.payload \in Payload /\ w.stage \in Stages
  BY DEF Typed, RowType, WorkerType
<1>b. (Pause \/ Raise) => w'.pc \in {"interrupted", "transient", "permanent"} /\ w' = [w EXCEPT !.pc = w'.pc]
  BY <1>a DEF Pause, Raise, Goto, WorkerType
<1>c. \A p : Persist(p) => row'.payload = p /\ row'.cancel_requested = row.cancel_requested
  BY <1>a DEF Persist, RowType
<1>d. PersistProgress => row'.payload = row.payload /\ row'.cancel_requested = row.cancel_requested
  BY <1>a DEF PersistProgress, RowType
<1>e. \A p : SameItems(p, p)
  BY DEF SameItems
<1>f. {"pending", "succeeded", "failed", "skipped"} = StageState /\ {"translation", "polish"} = Stages
  BY DEF StageState, Stages
<1>1. CASE EnterRun
  <2>1. CASE w' = IdleWorker(row.payload) /\ UNCHANGED row
    <3>1. Rests
      BY <1>1, <2>1, <1>e DEF EnterRun, Rests, IdleWorker, running, PolishInv, NotCancelled
    <3>. QED  BY <3>1, RestsKeeps
  <2>2. CASE (Goto("post") \/ Goto("begin")) /\ UNCHANGED row
    <3>1. MovesOn
      BY <1>1, <2>2, <1>a, <1>e
         DEF EnterRun, MovesOn, Goto, WorkerType, running, RunPoints, WorkPoints, AskPoints, At
    <3>. QED  BY <3>1, MovesOnKeeps
  <2>3. CASE Goto("cancel") /\ UNCHANGED row /\ row.cancel_requested
    <3>1. ~May("chunk_missing") /\ w.inflight = {} /\ w.stage = "translation"
      BY <1>1, <2>3 DEF EnterRun, PolishInv, NotCancelled, Inflight, StageBegins, At
    <3>2. w'.pc = "cancel" /\ UNCHANGED <<w.polish, w.stage, w.inflight, row, chunks>>
      BY <1>1, <2>3, <1>a DEF EnterRun, Goto, WorkerType, running
    <3>3. w'.polish \/ Polished = {}
      BY <3>2 DEF PolishInv, Unpolished
    <3>. QED  BY <3>1, <3>2, <3>3 DEF PolishInv, PayloadKeeps, Polished, WorkPrepared, Unpolished, NotCancelled, Inflight,
                                     StageBegins, ApplyingIsStored, RunPoints, WorkPoints, AskPoints, At
  <2>4. CASE /\ ~w.interrupted /\ row.status \in TerminalStatuses \ {"completed"}
             /\ row' = [status |-> "paused", cancel_requested |-> FALSE,
                        payload |-> prepare_payload_for_rerun(row.payload)]
             /\ Goto("begin")
    <3>. DEFINE new == prepare_payload_for_rerun(row.payload)
    <3>1. /\ w'.pc = "begin" /\ UNCHANGED <<w.polish, w.stage, w.inflight, chunks>>
          /\ row'.payload = new /\ row'.cancel_requested = FALSE
      BY <1>1, <2>4, <1>a DEF EnterRun, Goto, WorkerType, running
    <3>2. ~May("chunk_missing") /\ w.inflight = {} /\ w.stage = "translation"
      BY <1>1, <2>4 DEF EnterRun, PolishInv, NotCancelled, Inflight, StageBegins, At
    <3>3. /\ new.prepared = row.payload.prepared /\ new.enable_polish = row.payload.enable_polish
          /\ \A i \in Polished : Keeps(new.items[i])
      <4>1. ASSUME NEW i \in Polished
            PROVE  Keeps(new.items[i])
        <5>1. i \in Items /\ Keeps(row.payload.items[i])
          BY DEF Polished, PolishInv, PayloadKeeps
        <5>2. /\ row.payload.items[i].translation.state = "succeeded"
              /\ row.payload.items[i].polish.state = "succeeded"
          BY <3>2, <5>1 DEF Keeps
        <5>3. /\ new.items[i].translation = row.payload.items[i].translation
              /\ new.items[i].polish = row.payload.items[i].polish
          BY <5>1, <5>2, <1>a, RerunResult DEF Final
        <5>. QED  BY <5>2, <5>3 DEF Keeps
      <4>. QED  BY <4>1, <1>a, RerunResult
    <3>. HIDE DEF new
    <3>4. PayloadKeeps(row.payload)'
      BY <3>1, <3>3 DEF PolishInv, PayloadKeeps, Polished
    <3>5. Unpolished'
      BY <3>1 DEF PolishInv, Unpolished, Polished, AskPoints
    <3>. QED  BY <3>1, <3>2, <3>4, <3>5 DEF PolishInv, WorkPrepared, NotCancelled, Inflight, StageBegins, ApplyingIsStored,
                                           RunPoints, WorkPoints, AskPoints, At
  <2>. QED  BY <1>1, <2>1, <2>2, <2>3, <2>4 DEF EnterRun
<1>2. CASE BeginRun
  <2>1. /\ w'.pc = "prepare" /\ w'.mem = row.payload /\ row'.payload = row.payload
        /\ row'.cancel_requested = row.cancel_requested /\ UNCHANGED <<w.polish, w.stage, w.inflight, chunks>>
    BY <1>2, <1>a, <1>d DEF BeginRun, Proceed, WorkerType, running
  <2>2. w.inflight = {} /\ w.stage = "translation"
    BY <1>2 DEF BeginRun, PolishInv, Inflight, StageBegins, At
  <2>3. PayloadKeeps(row.payload)' /\ PayloadKeeps(w.mem)'
    BY <2>1 DEF PolishInv, PayloadKeeps, Polished
  <2>4. Unpolished'
    BY <2>1, <2>2 DEF PolishInv, Unpolished, Polished
  <2>. QED  BY <2>1, <2>2, <2>3, <2>4 DEF PolishInv, WorkPrepared, NotCancelled, Inflight, StageBegins, ApplyingIsStored,
                                         WorkPoints, AskPoints, At
<1>3. CASE Prepare
  <2>0. w.inflight = {} /\ w.stage = "translation" /\ PayloadKeeps(w.mem) /\ w.pc = "prepare"
    BY <1>3 DEF Prepare, PolishInv, Inflight, StageBegins, At, RunPoints
  <2>1. ASSUME NEW p, p.prepared, PayloadKeeps(p), Persist(p), w'.pc = "stage", w'.mem = p,
               UNCHANGED <<w.polish, w.stage, w.inflight, chunks>>
        PROVE  PolishInv'
    <3>1. row'.payload = p /\ row'.cancel_requested = row.cancel_requested
      BY <2>1, <1>c
    <3>2. PayloadKeeps(row.payload)' /\ PayloadKeeps(w.mem)'
      BY <2>1, <3>1 DEF PayloadKeeps, Polished
    <3>3. Unpolished'
      BY <2>1, <2>0 DEF PolishInv, Unpolished, Polished
    <3>. QED  BY <2>1, <2>0, <3>1, <3>2, <3>3 DEF PolishInv, WorkPrepared, NotCancelled, Inflight, StageBegins,
                                                 ApplyingIsStored, At
  <2>2. CASE w.mem.prepared
    <3>1. Persist(w.mem) /\ w' = [w EXCEPT !.pc = "stage"] /\ UNCHANGED chunks
      BY <1>3, <2>2 DEF Prepare, Goto, running
    <3>2. w'.pc = "stage" /\ w'.mem = w.mem /\ UNCHANGED <<w.polish, w.stage, w.inflight>>
      BY <3>1, <1>a DEF WorkerType
    <3>. QED  BY <2>0, <2>1, <2>2, <3>1, <3>2
  <2>3. CASE (Pause \/ Raise) /\ UNCHANGED row
    <3>1. MovesOn
      BY <1>3, <2>3, <1>a, <1>b, <1>e
         DEF Prepare, MovesOn, Goto, WorkerType, running, RunPoints, WorkPoints, AskPoints, At
    <3>. QED  BY <3>1, MovesOnKeeps
  <2>4. CASE ~w.mem.prepared /\ Persist(PreparedPayload) /\ Proceed("stage", PreparedPayload)
    <3>1. PreparedPayload.prepared /\ PreparedPayload.enable_polish
      BY DEF PreparedPayload, NewPayload
    <3>2. PayloadKeeps(PreparedPayload)
      BY <2>0, <2>4, <3>1 DEF PayloadKeeps
    <3>3. w'.pc = "stage" /\ w'.mem = PreparedPayload /\ UNCHANGED <<w.polish, w.stage, w.inflight, chunks>>
      BY <1>3, <2>4, <1>a DEF Prepare, Proceed, WorkerType, running
    <3>. QED  BY <2>1, <2>4, <3>1, <3>2, <3>3
  <2>5. CASE /\ ~w.mem.prepared
             /\ row' = [row EXCEPT !.status = "completed", !.payload = NewPayload(TRUE)]
             /\ Goto("post")
    <3>1. /\ w'.pc = "post" /\ UNCHANGED <<w.polish, w.stage, w.inflight, chunks>>
          /\ row'.payload = NewPayload(TRUE) /\ row'.cancel_requested = row.cancel_requested
      BY <1>3, <2>5, <1>a DEF Prepare, Goto, WorkerType, RowType, running
    <3>2. NewPayload(TRUE).enable_polish /\ ~NewPayload(TRUE).prepared
      BY DEF NewPayload
    <3>3. PayloadKeeps(row.payload)'
      BY <2>0, <2>5, <3>1, <3>2 DEF PayloadKeeps, Polished
    <3>4. Unpolished'
      BY <2>0, <3>1 DEF PolishInv, Unpolished, Polished, AskPoints
    <3>. QED  BY <2>0, <3>1, <3>3, <3>4 DEF PolishInv, WorkPrepared, NotCancelled, Inflight, StageBegins, ApplyingIsStored,
                                           RunPoints, WorkPoints, AskPoints, At
  <2>. QED  BY <1>3, <2>2, <2>3, <2>4, <2>5 DEF Prepare
<1>4. CASE DecideOutcome
  <2>1. MovesOn
    <3>1. UNCHANGED <<chunks, w.polish, w.stage>> /\ w'.mem = w.mem
      BY <1>4, <1>a, <1>b DEF DecideOutcome, Goto, Proceed, WorkerType, provider, running
    <3>2. /\ row'.payload = row.payload \/ (w.pc \in RunPoints /\ row'.payload = w.mem)
          /\ row'.cancel_requested = row.cancel_requested \/ ~May("chunk_missing")
      BY <1>4, <1>a, <1>c, <1>d DEF DecideOutcome, RowType, RunPoints, At, provider, running
    <3>3. /\ w'.inflight = {} \/ (w'.inflight = w.inflight /\ (w.pc \in {"validate", "fallback"} => w'.pc = w.pc))
          /\ w'.pc \in RunPoints => w.pc \in RunPoints
          /\ w'.pc \in WorkPoints => w.pc \in WorkPoints
          /\ w'.pc \in AskPoints => w.pc \in AskPoints \/ w.stage = "translation"
          /\ w'.pc \notin {"entry", "cancel", "stage", "prepare", "apply"}
          /\ w'.pc = "applying" => w.pc = "applying"
          /\ w'.pc = "begin" => w.pc = "entry"
      BY <1>4, <1>a, <1>b DEF DecideOutcome, Goto, Proceed, WorkerType, RunPoints, WorkPoints, AskPoints, At
    <3>. QED  BY <1>e, <3>1, <3>2, <3>3 DEF MovesOn
  <2>. QED  BY <2>1, MovesOnKeeps
<1>5. CASE FinishRun
  <2>1. MovesOn
    <3>1. UNCHANGED <<chunks, w.polish, w.stage>> /\ w'.mem = w.mem
      BY <1>5, <1>a, <1>b DEF FinishRun, Goto, Proceed, WorkerType, provider, running
    <3>2. /\ row'.payload = row.payload \/ (w.pc \in RunPoints /\ row'.payload = w.mem)
          /\ row'.cancel_requested = row.cancel_requested \/ ~May("chunk_missing")
      BY <1>5, <1>a, <1>c, <1>d DEF FinishRun, RowType, RunPoints, At, provider, running
    <3>3. /\ w'.inflight = {} \/ (w'.inflight = w.inflight /\ (w.pc \in {"validate", "fallback"} => w'.pc = w.pc))
          /\ w'.pc \in RunPoints => w.pc \in RunPoints
          /\ w'.pc \in WorkPoints => w.pc \in WorkPoints
          /\ w'.pc \in AskPoints => w.pc \in AskPoints \/ w.stage = "translation"
          /\ w'.pc \notin {"entry", "cancel", "stage", "prepare", "apply"}
          /\ w'.pc = "applying" => w.pc = "applying"
          /\ w'.pc = "begin" => w.pc = "entry"
      BY <1>5, <1>a, <1>b DEF FinishRun, Goto, Proceed, WorkerType, RunPoints, WorkPoints, AskPoints, At
    <3>. QED  BY <1>e, <3>1, <3>2, <3>3 DEF MovesOn
  <2>. QED  BY <2>1, MovesOnKeeps
<1>6. CASE HandlePause
  <2>1. CASE Goto("pausing") /\ UNCHANGED row
    <3>1. MovesOn
      BY <1>6, <2>1, <1>a, <1>e
         DEF HandlePause, MovesOn, Goto, WorkerType, running, RunPoints, WorkPoints, AskPoints, At
    <3>. QED  BY <3>1, MovesOnKeeps
  <2>2. CASE row.cancel_requested /\ row' = [row EXCEPT !.payload = w.mem] /\ Goto("cancel")
    <3>1. /\ w'.pc = "cancel" /\ UNCHANGED <<w.polish, w.inflight, chunks>>
          /\ row'.payload = w.mem /\ w.pc = "interrupted"
      BY <1>6, <2>2, <1>a DEF HandlePause, Goto, WorkerType, RowType, running, At
    <3>2. ~May("chunk_missing") /\ w.inflight = {}
      BY <2>2, <3>1 DEF PolishInv, NotCancelled, Inflight
    <3>3. PayloadKeeps(row.payload)'
      BY <3>1 DEF PolishInv, PayloadKeeps, Polished, RunPoints
    <3>4. Unpolished'
      BY <3>1 DEF PolishInv, Unpolished, Polished, AskPoints
    <3>. QED  BY <3>1, <3>2, <3>3, <3>4 DEF PolishInv, WorkPrepared, NotCancelled, Inflight, StageBegins, ApplyingIsStored,
                                           RunPoints, WorkPoints, AskPoints, At
  <2>. QED  BY <1>6, <2>1, <2>2 DEF HandlePause
<1>7. CASE WritePaused
  <2>1. MovesOn
    <3>1. UNCHANGED <<chunks, w.polish, w.stage>> /\ w'.mem = w.mem
      BY <1>7, <1>a, <1>b DEF WritePaused, Goto, Proceed, WorkerType, provider, running
    <3>2. /\ row'.payload = row.payload \/ (w.pc \in RunPoints /\ row'.payload = w.mem)
          /\ row'.cancel_requested = row.cancel_requested \/ ~May("chunk_missing")
      BY <1>7, <1>a, <1>c, <1>d DEF WritePaused, RowType, RunPoints, At, provider, running
    <3>3. /\ w'.inflight = {} \/ (w'.inflight = w.inflight /\ (w.pc \in {"validate", "fallback"} => w'.pc = w.pc))
          /\ w'.pc \in RunPoints => w.pc \in RunPoints
          /\ w'.pc \in WorkPoints => w.pc \in WorkPoints
          /\ w'.pc \in AskPoints => w.pc \in AskPoints \/ w.stage = "translation"
          /\ w'.pc \notin {"entry", "cancel", "stage", "prepare", "apply"}
          /\ w'.pc = "applying" => w.pc = "applying"
          /\ w'.pc = "begin" => w.pc = "entry"
      BY <1>7, <1>a, <1>b DEF WritePaused, Goto, Proceed, WorkerType, RunPoints, WorkPoints, AskPoints, At
    <3>. QED  BY <1>e, <3>1, <3>2, <3>3 DEF MovesOn
  <2>. QED  BY <2>1, MovesOnKeeps
<1>8. CASE WriteFailed
  <2>1. MovesOn
    <3>1. UNCHANGED <<chunks, w.polish, w.stage>> /\ w'.mem = w.mem
      BY <1>8, <1>a, <1>b DEF WriteFailed, Goto, Proceed, WorkerType, provider, running
    <3>2. /\ row'.payload = row.payload \/ (w.pc \in RunPoints /\ row'.payload = w.mem)
          /\ row'.cancel_requested = row.cancel_requested \/ ~May("chunk_missing")
      BY <1>8, <1>a, <1>c, <1>d DEF WriteFailed, RowType, RunPoints, At, provider, running
    <3>3. /\ w'.inflight = {} \/ (w'.inflight = w.inflight /\ (w.pc \in {"validate", "fallback"} => w'.pc = w.pc))
          /\ w'.pc \in RunPoints => w.pc \in RunPoints
          /\ w'.pc \in WorkPoints => w.pc \in WorkPoints
          /\ w'.pc \in AskPoints => w.pc \in AskPoints \/ w.stage = "translation"
          /\ w'.pc \notin {"entry", "cancel", "stage", "prepare", "apply"}
          /\ w'.pc = "applying" => w.pc = "applying"
          /\ w'.pc = "begin" => w.pc = "entry"
      BY <1>8, <1>a, <1>b DEF WriteFailed, Goto, Proceed, WorkerType, RunPoints, WorkPoints, AskPoints, At
    <3>. QED  BY <1>e, <3>1, <3>2, <3>3 DEF MovesOn
  <2>. QED  BY <2>1, MovesOnKeeps
<1>9. CASE NoteRemoteSubmission
  <2>1. SameItems(row'.payload, row.payload) /\ row'.cancel_requested = row.cancel_requested
    BY <1>9, <1>a DEF NoteRemoteSubmission, RowType, Payload, SameItems
  <2>2. Rests
    BY <1>9, <2>1, <1>a DEF NoteRemoteSubmission, Rests, IdleWorker, running, PolishInv, NotCancelled, RowType
  <2>. QED  BY <2>2, RestsKeeps
<1>10. CASE StageStep \/ CancelStep
  <2>1. CASE run_translation_stage
    <3>1. MovesOn
      <4>1. UNCHANGED <<chunks, w.polish, w.stage>> /\ w'.mem = w.mem
        BY <2>1, <1>a, <1>b DEF run_translation_stage, Goto, Proceed, WorkerType, provider, running
      <4>2. /\ row'.payload = row.payload \/ (w.pc \in RunPoints /\ row'.payload = w.mem)
            /\ row'.cancel_requested = row.cancel_requested \/ ~May("chunk_missing")
        BY <2>1, <1>a, <1>c, <1>d DEF run_translation_stage, RowType, RunPoints, At, provider, running
      <4>3. /\ w'.inflight = {} \/ (w'.inflight = w.inflight /\ (w.pc \in {"validate", "fallback"} => w'.pc = w.pc))
            /\ w'.pc \in RunPoints => w.pc \in RunPoints
            /\ w'.pc \in WorkPoints => w.pc \in WorkPoints
            /\ w'.pc \in AskPoints => w.pc \in AskPoints \/ w.stage = "translation"
            /\ w'.pc \notin {"entry", "cancel", "stage", "prepare", "apply"}
            /\ w'.pc = "applying" => w.pc = "applying"
            /\ w'.pc = "begin" => w.pc = "entry"
        BY <2>1, <1>a, <1>b DEF run_translation_stage, Goto, Proceed, WorkerType, RunPoints, WorkPoints, AskPoints, At
      <4>. QED  BY <1>e, <4>1, <4>2, <4>3 DEF MovesOn
    <3>. QED  BY <3>1, MovesOnKeeps
  <2>2. CASE run_polish_stage
    <3>0. w.inflight = {} /\ PayloadKeeps(w.mem) /\ w.mem.prepared /\ row.payload.prepared /\ w.pc = "stage"
      BY <2>2 DEF run_polish_stage, PolishInv, Inflight, WorkPrepared, WorkPoints, RunPoints, At
    <3>1. CASE w.polish
      <4>. DEFINE mem == WithState(w.mem, "polish", Items \ Succeeded(w.mem), "skipped")
      <4>1. Persist(mem) /\ w' = [w EXCEPT !.pc = "jobs", !.job = 1, !.mem = mem] /\ UNCHANGED chunks
        BY <2>2, <3>1 DEF run_polish_stage
      <4>2. /\ mem.prepared = w.mem.prepared /\ mem.enable_polish = w.mem.enable_polish
            /\ \A i \in Items : mem.items[i].translation = w.mem.items[i].translation
            /\ \A i \in Succeeded(w.mem) : mem.items[i] = w.mem.items[i]
            /\ \A i \in Items \ Succeeded(w.mem) : mem.items[i].polish.state = "skipped"
        <5>1. Succeeded(w.mem) \subseteq Items
          BY DEF Succeeded, ItemsIn
        <5>. QED  BY <5>1, <1>a, <1>f, WithStateResult
      <4>. HIDE DEF mem
      <4>3. /\ w'.pc = "jobs" /\ w'.mem = mem /\ UNCHANGED <<w.polish, w.stage, w.inflight>> /\ row'.payload = mem
            /\ row'.cancel_requested = row.cancel_requested
        BY <4>1, <1>a, <1>c DEF WorkerType
      <4>4. \A i \in Polished : Keeps(mem.items[i])
        <5>. SUFFICES ASSUME NEW i \in Polished PROVE Keeps(mem.items[i])
          OBVIOUS
        <5>1. i \in Items /\ Keeps(w.mem.items[i])
          BY <3>0 DEF Polished, PayloadKeeps
        <5>2. CASE i \in Succeeded(w.mem)
          BY <4>2, <5>1, <5>2
        <5>3. CASE i \notin Succeeded(w.mem)
          <6>1. w.mem.items[i].translation.fallback_attempted
            BY <2>2, <5>3 DEF run_polish_stage, PolishInv, StageBegins, At
          <6>2. w.mem.items[i].translation.state = "failed" /\ May("chunk_missing")
            BY <5>1, <5>3 DEF Keeps, Succeeded, ItemsIn
          <6>. QED  BY <4>2, <5>1, <5>3, <6>1, <6>2 DEF Keeps
        <5>. QED  BY <5>2, <5>3
      <4>5. PayloadKeeps(row.payload)' /\ PayloadKeeps(w.mem)'
        BY <3>0, <4>1, <4>2, <4>3, <4>4 DEF PayloadKeeps, Polished
      <4>. QED  BY <3>0, <3>1, <4>1, <4>2, <4>3, <4>5 DEF PolishInv, WorkPrepared, Unpolished, NotCancelled, Inflight,
                                                         StageBegins, ApplyingIsStored, At
    <3>2. CASE ~w.polish
      <4>. DEFINE mem == WithState(w.mem, "polish", Succeeded(w.mem), "skipped")
      <4>1. UNCHANGED row /\ w' = [w EXCEPT !.pc = "apply", !.mem = mem] /\ UNCHANGED chunks
        BY <2>2, <3>2 DEF run_polish_stage, Proceed
      <4>2. /\ mem.prepared = w.mem.prepared /\ mem.enable_polish = w.mem.enable_polish
            /\ \A i \in Items : mem.items[i].translation = w.mem.items[i].translation
            /\ \A i \in Succeeded(w.mem) : mem.items[i].polish.state = "skipped"
        <5>1. Succeeded(w.mem) \subseteq Items
          BY DEF Succeeded, ItemsIn
        <5>. QED  BY <5>1, <1>a, <1>f, WithStateResult
      <4>. HIDE DEF mem
      <4>3. w'.pc = "apply" /\ w'.mem = mem /\ UNCHANGED <<w.polish, w.stage, w.inflight>>
        BY <4>1, <1>a DEF WorkerType
      <4>4. Polished = {}
        BY <3>2 DEF PolishInv, Unpolished
      <4>5. PayloadKeeps(row.payload)' /\ PayloadKeeps(w.mem)'
        BY <3>0, <4>1, <4>2, <4>3, <4>4 DEF PolishInv, PayloadKeeps, Polished
      <4>6. Unpolished'
        BY <4>1, <4>2, <4>3, <4>4 DEF Unpolished, Polished, AskPoints, Succeeded, ItemsIn
      <4>. QED  BY <3>0, <4>1, <4>2, <4>3, <4>5, <4>6 DEF PolishInv, WorkPrepared, NotCancelled, Inflight,
                                                         StageBegins, ApplyingIsStored, At
    <3>. QED  BY <3>1, <3>2
  <2>3. CASE ResumeJob
    <3>1. CASE w' = [w EXCEPT !.pc = "slice", !.job = 0] /\ UNCHANGED row
      <4>1. MovesOn
        BY <2>3, <3>1, <1>a, <1>e
           DEF ResumeJob, MovesOn, WorkerType, provider, RunPoints, WorkPoints, AskPoints, At
      <4>. QED  BY <4>1, MovesOnKeeps
    <3>2. ASSUME NEW j, NEW left,
                 LET jobs == w.mem.jobs[w.stage]
                     mem == [w.mem EXCEPT !.display[w.stage] = jobs[j].hashes]
                 IN  /\ Persist(mem)
                     /\ w' = [w EXCEPT !.pc = "poll", !.mem = mem, !.job = j, !.batch = jobs[j].batch,
                                       !.hashes = left]
          PROVE  PolishInv'
      <4>. DEFINE jobs == w.mem.jobs[w.stage]
                  mem == [w.mem EXCEPT !.display[w.stage] = jobs[j].hashes]
      <4>1. SameItems(mem, w.mem)
        BY <1>a DEF Payload, SameItems
      <4>2. Persist(mem) /\ w' = [w EXCEPT !.pc = "poll", !.mem = mem, !.job = j, !.batch = jobs[j].batch,
                                           !.hashes = left]
        BY <3>2
      <4>. HIDE DEF mem
      <4>4. /\ w'.pc = "poll" /\ w'.mem = mem /\ UNCHANGED <<w.polish, w.stage, w.inflight, chunks>>
            /\ row'.payload = mem /\ row'.cancel_requested = row.cancel_requested /\ w.pc = "jobs"
        BY <2>3, <4>2, <1>a, <1>c DEF ResumeJob, WorkerType, At, provider
      <4>3. MovesOn
        BY <4>1, <4>4 DEF MovesOn, RunPoints, WorkPoints, AskPoints
      <4>. QED  BY <4>3, MovesOnKeeps
    <3>. QED  BY <2>3, <3>1, <3>2 DEF ResumeJob
  <2>4. CASE NextSlice
    <3>1. CASE \/ Persist(w.mem) /\ Goto("validate")
               \/ Goto("permanent") /\ UNCHANGED row
               \/ w' = [w EXCEPT !.pc = "submit", !.hashes = SliceHashes] /\ UNCHANGED row
      <4>1. MovesOn
        BY ZenonT(120), <2>4, <3>1, <1>a, <1>c, <1>e
           DEF NextSlice, MovesOn, Goto, WorkerType, RunPoints, WorkPoints, AskPoints, At
      <4>. QED  BY <4>1, MovesOnKeeps
    <3>2. ASSUME NEW b,
                 LET mem == Listed(w.mem, b, SliceHashes)
                 IN  /\ Persist(mem)
                     /\ w' = [w EXCEPT !.pc = "poll", !.mem = mem, !.batch = b, !.hashes = SliceHashes]
          PROVE  PolishInv'
      <4>. DEFINE mem == Listed(w.mem, b, SliceHashes)
      <4>1. SameItems(mem, w.mem)
        BY <1>a DEF Listed, Payload, SameItems
      <4>2. Persist(mem) /\ w' = [w EXCEPT !.pc = "poll", !.mem = mem, !.batch = b, !.hashes = SliceHashes]
        BY <3>2
      <4>. HIDE DEF mem
      <4>4. /\ w'.pc = "poll" /\ w'.mem = mem /\ UNCHANGED <<w.polish, w.stage, w.inflight, chunks>>
            /\ row'.payload = mem /\ row'.cancel_requested = row.cancel_requested /\ w.pc = "slice"
        BY <2>4, <4>2, <1>a, <1>c DEF NextSlice, WorkerType, At
      <4>3. MovesOn
        BY <4>1, <4>4 DEF MovesOn, RunPoints, WorkPoints, AskPoints
      <4>. QED  BY <4>3, MovesOnKeeps
    <3>. QED  BY <2>4, <3>1, <3>2 DEF NextSlice
  <2>5. CASE SubmitSlice
    <3>1. CASE Raise \/ Goto("transient")
      <4>1. MovesOn
        BY <2>5, <3>1, <1>a, <1>b, <1>e
           DEF SubmitSlice, MovesOn, Goto, WorkerType, RunPoints, WorkPoints, AskPoints, At
      <4>. QED  BY <4>1, MovesOnKeeps
    <3>2. ASSUME NEW b \in Batches,
                 w' = [w EXCEPT !.pc = "created", !.batch = b, !.mem = Listed(w.mem, b, w.hashes)]
          PROVE  PolishInv'
      <4>. DEFINE mem == Listed(w.mem, b, w.hashes)
      <4>1. SameItems(mem, w.mem)
        BY <1>a DEF Listed, Payload, SameItems
      <4>. HIDE DEF mem
      <4>2. MovesOn
        BY <2>5, <3>2, <4>1, <1>a, <1>e
           DEF SubmitSlice, MovesOn, WorkerType, RunPoints, WorkPoints, AskPoints, At, mem
      <4>. QED  BY <4>2, MovesOnKeeps
    <3>. QED  BY <2>5, <3>1, <3>2 DEF SubmitSlice
  <2>6. CASE RecordSubmission
    <3>1. MovesOn
      <4>1. CASE UNCHANGED <<row, w>>
        BY <2>6, <4>1, <1>e DEF RecordSubmission, MovesOn, RunPoints, At
      <4>2. CASE Persist(w.mem) /\ Goto("poll")
        BY <2>6, <4>2, <1>a, <1>c, <1>e
           DEF RecordSubmission, MovesOn, Goto, WorkerType, RunPoints, WorkPoints, AskPoints, At
      <4>. QED  BY <2>6, <4>1, <4>2 DEF RecordSubmission
    <3>. QED  BY <3>1, MovesOnKeeps
  <2>7. CASE CheckBeforePoll
    <3>1. MovesOn
      <4>1. UNCHANGED <<chunks, w.polish, w.stage>> /\ w'.mem = w.mem
        BY <2>7, <1>a, <1>b DEF CheckBeforePoll, Goto, Proceed, WorkerType, provider, running
      <4>2. /\ row'.payload = row.payload \/ (w.pc \in RunPoints /\ row'.payload = w.mem)
            /\ row'.cancel_requested = row.cancel_requested \/ ~May("chunk_missing")
        BY <2>7, <1>a, <1>c, <1>d DEF CheckBeforePoll, RowType, RunPoints, At, provider, running
      <4>3. /\ w'.inflight = {} \/ (w'.inflight = w.inflight /\ (w.pc \in {"validate", "fallback"} => w'.pc = w.pc))
            /\ w'.pc \in RunPoints => w.pc \in RunPoints
            /\ w'.pc \in WorkPoints => w.pc \in WorkPoints
            /\ w'.pc \in AskPoints => w.pc \in AskPoints \/ w.stage = "translation"
            /\ w'.pc \notin {"entry", "cancel", "stage", "prepare", "apply"}
            /\ w'.pc = "applying" => w.pc = "applying"
            /\ w'.pc = "begin" => w.pc = "entry"
        BY <2>7, <1>a, <1>b DEF CheckBeforePoll, Goto, Proceed, WorkerType, RunPoints, WorkPoints, AskPoints, At
      <4>. QED  BY <1>e, <4>1, <4>2, <4>3 DEF MovesOn
    <3>. QED  BY <3>1, MovesOnKeeps
  <2>8. CASE PollFails
    <3>1. MovesOn
      <4>1. UNCHANGED <<chunks, w.polish, w.stage>> /\ w'.mem = w.mem
        BY <2>8, <1>a, <1>b DEF PollFails, Goto, Proceed, WorkerType, provider, running
      <4>2. /\ row'.payload = row.payload \/ (w.pc \in RunPoints /\ row'.payload = w.mem)
            /\ row'.cancel_requested = row.cancel_requested \/ ~May("chunk_missing")
        BY <2>8, <1>a, <1>c, <1>d DEF PollFails, RowType, RunPoints, At, provider, running
      <4>3. /\ w'.inflight = {} \/ (w'.inflight = w.inflight /\ (w.pc \in {"validate", "fallback"} => w'.pc = w.pc))
            /\ w'.pc \in RunPoints => w.pc \in RunPoints
            /\ w'.pc \in WorkPoints => w.pc \in WorkPoints
            /\ w'.pc \in AskPoints => w.pc \in AskPoints \/ w.stage = "translation"
            /\ w'.pc \notin {"entry", "cancel", "stage", "prepare", "apply"}
            /\ w'.pc = "applying" => w.pc = "applying"
            /\ w'.pc = "begin" => w.pc = "entry"
        BY <2>8, <1>a, <1>b DEF PollFails, Goto, Proceed, WorkerType, RunPoints, WorkPoints, AskPoints, At
      <4>. QED  BY <1>e, <4>1, <4>2, <4>3 DEF MovesOn
    <3>. QED  BY <3>1, MovesOnKeeps
  <2>9. CASE PollPending
    <3>1. MovesOn
      <4>1. UNCHANGED <<chunks, w.polish, w.stage>> /\ w'.mem = w.mem
        BY <2>9, <1>a, <1>b DEF PollPending, Goto, Proceed, WorkerType, provider, running, Report
      <4>2. /\ row'.payload = row.payload \/ (w.pc \in RunPoints /\ row'.payload = w.mem)
            /\ row'.cancel_requested = row.cancel_requested \/ ~May("chunk_missing")
        BY <2>9, <1>a, <1>c, <1>d DEF PollPending, RowType, RunPoints, At, provider, running
      <4>3. /\ w'.inflight = {} \/ (w'.inflight = w.inflight /\ (w.pc \in {"validate", "fallback"} => w'.pc = w.pc))
            /\ w'.pc \in RunPoints => w.pc \in RunPoints
            /\ w'.pc \in WorkPoints => w.pc \in WorkPoints
            /\ w'.pc \in AskPoints => w.pc \in AskPoints \/ w.stage = "translation"
            /\ w'.pc \notin {"entry", "cancel", "stage", "prepare", "apply"}
            /\ w'.pc = "applying" => w.pc = "applying"
            /\ w'.pc = "begin" => w.pc = "entry"
        BY <2>9, <1>a, <1>b DEF PollPending, Goto, Proceed, WorkerType, RunPoints, WorkPoints, AskPoints, At, Report
      <4>. QED  BY <1>e, <4>1, <4>2, <4>3 DEF MovesOn
    <3>. QED  BY <3>1, MovesOnKeeps
  <2>10. CASE CancelAfterTimeout
    <3>1. MovesOn
      <4>1. UNCHANGED <<chunks, w.polish, w.stage>> /\ w'.mem = w.mem
        BY <2>10, <1>a, <1>b DEF CancelAfterTimeout, Goto, Proceed, WorkerType, provider, running, AfterPoll
      <4>2. /\ row'.payload = row.payload \/ (w.pc \in RunPoints /\ row'.payload = w.mem)
            /\ row'.cancel_requested = row.cancel_requested \/ ~May("chunk_missing")
        BY <2>10, <1>a, <1>c, <1>d DEF CancelAfterTimeout, RowType, RunPoints, At, provider, running
      <4>3. /\ w'.inflight = {} \/ (w'.inflight = w.inflight /\ (w.pc \in {"validate", "fallback"} => w'.pc = w.pc))
            /\ w'.pc \in RunPoints => w.pc \in RunPoints
            /\ w'.pc \in WorkPoints => w.pc \in WorkPoints
            /\ w'.pc \in AskPoints => w.pc \in AskPoints \/ w.stage = "translation"
            /\ w'.pc \notin {"entry", "cancel", "stage", "prepare", "apply"}
            /\ w'.pc = "applying" => w.pc = "applying"
            /\ w'.pc = "begin" => w.pc = "entry"
        BY <2>10, <1>a, <1>b DEF CancelAfterTimeout, Goto, Proceed, WorkerType, RunPoints, WorkPoints, AskPoints, At, AfterPoll
      <4>. QED  BY <1>e, <4>1, <4>2, <4>3 DEF MovesOn
    <3>. QED  BY <3>1, MovesOnKeeps
  <2>11. CASE PollEnds
    <3>1. MovesOn
      <4>1. UNCHANGED <<chunks, w.polish, w.stage>> /\ w'.mem = w.mem
        BY <2>11, <1>a, <1>b DEF PollEnds, Goto, Proceed, WorkerType, provider, running, AfterPoll, Report
      <4>2. /\ row'.payload = row.payload \/ (w.pc \in RunPoints /\ row'.payload = w.mem)
            /\ row'.cancel_requested = row.cancel_requested \/ ~May("chunk_missing")
        BY <2>11, <1>a, <1>c, <1>d DEF PollEnds, RowType, RunPoints, At, provider, running
      <4>3. /\ w'.inflight = {} \/ (w'.inflight = w.inflight /\ (w.pc \in {"validate", "fallback"} => w'.pc = w.pc))
            /\ w'.pc \in RunPoints => w.pc \in RunPoints
            /\ w'.pc \in WorkPoints => w.pc \in WorkPoints
            /\ w'.pc \in AskPoints => w.pc \in AskPoints \/ w.stage = "translation"
            /\ w'.pc \notin {"entry", "cancel", "stage", "prepare", "apply"}
            /\ w'.pc = "applying" => w.pc = "applying"
            /\ w'.pc = "begin" => w.pc = "entry"
        BY <2>11, <1>a, <1>b DEF PollEnds, Goto, Proceed, WorkerType, RunPoints, WorkPoints, AskPoints, At, AfterPoll, Report
      <4>. QED  BY <1>e, <4>1, <4>2, <4>3 DEF MovesOn
    <3>. QED  BY <3>1, MovesOnKeeps
  <2>12. ASSUME NEW i \in Items, StartValidation(i)
        PROVE  PolishInv'
    <3>0. /\ w.pc = "validate" /\ PayloadKeeps(w.mem) /\ w.mem.prepared /\ row.payload.prepared
          /\ w.mem.items[i][w.stage].state = "pending" /\ i \notin Polished /\ i \notin w.inflight
      <4>1. i \in ItemsIn(w.mem, w.stage, "pending") \ w.inflight
        <5>1. ItemsIn(w.mem, w.stage, "pending") \ w.inflight \in SUBSET Nat
          BY DEF ItemsIn, Items
        <5>. QED  BY <2>12, <5>1, MinIsLeast DEF StartValidation, Start
      <4>2. w.pc = "validate" /\ PayloadKeeps(w.mem) /\ w.mem.prepared /\ row.payload.prepared
        BY <2>12 DEF StartValidation, PolishInv, WorkPrepared, WorkPoints, AskPoints, RunPoints, At
      <4>. QED  BY <4>1, <4>2, <1>a DEF ItemsIn, PayloadKeeps, Keeps, Stages
    <3>1. CASE w' = Interrupted /\ UNCHANGED row
      <4>1. MovesOn
        BY <2>12, <3>1, <1>a, <1>e
           DEF StartValidation, MovesOn, Interrupted, WorkerType, provider, RunPoints, WorkPoints, AskPoints, At
      <4>. QED  BY <4>1, MovesOnKeeps
    <3>2. CASE w' = [w EXCEPT !.inflight = @ \cup {i}] /\ UNCHANGED row
      <4>1. /\ w'.inflight = w.inflight \cup {i} /\ UNCHANGED <<w.pc, w.mem, w.polish, w.stage, row, chunks>>
        BY <2>12, <3>2, <1>a DEF StartValidation, WorkerType, provider
      <4>2. Inflight'
        BY <3>0, <4>1 DEF PolishInv, Inflight, Polished, At
      <4>. QED  BY <3>0, <4>1, <4>2 DEF PolishInv, PayloadKeeps, Polished, WorkPrepared, Unpolished, NotCancelled,
                                       StageBegins, ApplyingIsStored, Succeeded, ItemsIn, At
    <3>3. CASE LET mem == WithState(w.mem, w.stage, {i}, "failed") IN Persist(mem) /\ Proceed("validate", mem)
      <4>. DEFINE mem == WithState(w.mem, w.stage, {i}, "failed")
      <4>1. /\ mem.prepared = w.mem.prepared /\ mem.enable_polish = w.mem.enable_polish
            /\ \A j \in Items \ {i} : mem.items[j] = w.mem.items[j]
        BY <1>a, <1>f, WithStateResult
      <4>. HIDE DEF mem
      <4>2. /\ w'.mem = mem /\ w'.pc = "validate" /\ UNCHANGED <<w.polish, w.stage, w.inflight, chunks>>
            /\ row'.payload = mem /\ row'.cancel_requested = row.cancel_requested
        BY <2>12, <3>3, <1>a, <1>c DEF StartValidation, Proceed, WorkerType, provider, mem
      <4>3. PayloadKeeps(row.payload)' /\ PayloadKeeps(w.mem)'
        BY <3>0, <4>1, <4>2 DEF PayloadKeeps, Polished
      <4>4. Inflight'
        <5>1. w.inflight \subseteq Items
          BY <1>a DEF WorkerType
        <5>. QED  BY <3>0, <4>1, <4>2, <5>1 DEF PolishInv, Inflight, Polished, At
      <4>. QED  BY ZenonT(60), <3>0, <4>1, <4>2, <4>3, <4>4 DEF PolishInv, WorkPrepared, Unpolished, NotCancelled,
                                                   StageBegins, ApplyingIsStored, Polished, At
    <3>. QED  BY <2>12, <3>1, <3>2, <3>3 DEF StartValidation
  <2>13. ASSUME NEW i \in Items, StartFallback(i)
        PROVE  PolishInv'
    <3>0. /\ w.pc = "fallback" /\ PayloadKeeps(w.mem) /\ w.mem.prepared /\ row.payload.prepared
          /\ w.mem.items[i][w.stage].state = "failed"
          /\ i \in Polished => w.stage = "translation" /\ w.mem.items[i].polish.state = "succeeded"
      <4>1. i \in FallbackCandidates
        <5>1. FallbackCandidates \in SUBSET Nat
          BY DEF FallbackCandidates, ItemsIn, Items
        <5>. QED  BY <2>13, <5>1, MinIsLeast DEF StartFallback, Start
      <4>2. w.pc = "fallback" /\ PayloadKeeps(w.mem) /\ w.mem.prepared /\ row.payload.prepared
        BY <2>13 DEF StartFallback, PolishInv, WorkPrepared, WorkPoints, AskPoints, RunPoints, At
      <4>3. w.mem.items[i][w.stage].state = "failed" /\ ~w.mem.items[i][w.stage].fallback_attempted
        BY <4>1 DEF FallbackCandidates, ItemsIn
      <4>4. ASSUME i \in Polished
            PROVE  w.stage = "translation" /\ w.mem.items[i].polish.state = "succeeded"
        <5>1. Keeps(w.mem.items[i])
          BY <4>2, <4>4 DEF PayloadKeeps
        <5>2. CASE w.stage = "polish"
          BY <4>3, <5>1, <5>2 DEF Keeps
        <5>3. CASE w.stage = "translation"
          BY <4>3, <5>1, <5>3 DEF Keeps
        <5>. QED  BY <5>2, <5>3, <1>a DEF Stages
      <4>. QED  BY <4>2, <4>3, <4>4
    <3>1. CASE w' = Interrupted
      <4>1. MovesOn
        BY <2>13, <3>1, <1>a, <1>e
           DEF StartFallback, MovesOn, Interrupted, WorkerType, provider, RunPoints, WorkPoints, AskPoints, At
      <4>. QED  BY <4>1, MovesOnKeeps
    <3>2. CASE w' = [w EXCEPT !.inflight = @ \cup {i}, !.mem.items[i][w.stage].fallback_attempted = TRUE]
      <4>. DEFINE item == Attempted(w.mem.items[i], w.stage)
                  mem == ItemPut(w.mem, i, item)
      <4>1. w' = [w EXCEPT !.inflight = w.inflight \cup {i}, !.mem = mem]
        BY <3>2, OneItem
      <4>2. /\ item \in Item /\ \A s \in Stages : item[s].state = w.mem.items[i][s].state
            /\ \A s \in Stages : w.mem.items[i][s].fallback_attempted => item[s].fallback_attempted
        BY OneItemTyped
      <4>. HIDE DEF item
      <4>3. /\ mem.prepared = w.mem.prepared /\ mem.enable_polish = w.mem.enable_polish
            /\ \A j \in Items : mem.items[j] = IF j = i THEN item ELSE w.mem.items[j]
        BY <4>2, <1>a, ItemPutResult
      <4>. HIDE DEF mem
      <4>4. /\ w'.mem = mem /\ w'.pc = "fallback" /\ w'.inflight = w.inflight \cup {i}
            /\ UNCHANGED <<w.polish, w.stage, row, chunks>>
        BY <2>13, <3>0, <4>1, <1>a DEF StartFallback, WorkerType, provider
      <4>5. \A j \in Items : /\ \A s \in Stages : mem.items[j][s].state = w.mem.items[j][s].state
                             /\ w.mem.items[j].translation.fallback_attempted =>
                                  mem.items[j].translation.fallback_attempted
        BY <4>2, <4>3, <1>f
      <4>6. \A j \in Polished : Keeps(mem.items[j])
        <5>. SUFFICES ASSUME NEW j \in Polished PROVE Keeps(mem.items[j])
          OBVIOUS
        <5>1. j \in Items /\ Keeps(w.mem.items[j])
          BY <3>0 DEF PayloadKeeps, Polished
        <5>2. /\ mem.items[j].translation.state = w.mem.items[j].translation.state
              /\ mem.items[j].polish.state = w.mem.items[j].polish.state
          BY <4>5, <5>1, <1>f
        <5>. QED  BY <4>5, <5>1, <5>2 DEF Keeps
      <4>7. PayloadKeeps(row.payload)' /\ PayloadKeeps(w.mem)'
        BY <3>0, <4>3, <4>4, <4>6 DEF PolishInv, PayloadKeeps, Polished
      <4>8. Inflight'
        <5>1. w.inflight \subseteq Items
          BY <1>a DEF WorkerType
        <5>2. \A j \in w'.inflight : mem.items[j][w.stage].state = "failed"
          BY <3>0, <4>4, <4>5, <5>1, <1>a DEF PolishInv, Inflight, At
        <5>3. \A j \in w'.inflight \cap Polished : w.stage = "translation" /\ mem.items[j].polish.state = "succeeded"
          BY <3>0, <4>4, <4>5, <5>1, <1>f DEF PolishInv, Inflight, At
        <5>. QED  BY <4>4, <5>2, <5>3 DEF Inflight, Polished, At
      <4>. QED  BY <3>0, <4>3, <4>4, <4>7, <4>8 DEF PolishInv, WorkPrepared, Unpolished, NotCancelled,
                                                   StageBegins, ApplyingIsStored, Polished, At
    <3>. QED  BY <2>13, <3>1, <3>2 DEF StartFallback
  <2>14. ASSUME NEW i \in Items, FinishItem(i)
        PROVE  PolishInv'
    <3>0. /\ w.pc \in {"validate", "fallback"} /\ PayloadKeeps(w.mem) /\ w.mem.prepared /\ row.payload.prepared
          /\ w.mem.items[i][w.stage].state = (IF w.pc = "validate" THEN "pending" ELSE "failed")
          /\ i \in Polished => w.stage = "translation" /\ w.mem.items[i].polish.state = "succeeded"
      BY <2>14 DEF FinishItem, PolishInv, Inflight, WorkPrepared, WorkPoints, AskPoints, RunPoints, At
    <3>1. PICK state \in {"succeeded", "failed"} :
            /\ Persist(WithState(w.mem, w.stage, {i}, state))
            /\ w' = [w EXCEPT !.mem = WithState(w.mem, w.stage, {i}, state), !.inflight = @ \ {i}]
      BY <2>14 DEF FinishItem
    <3>. DEFINE mem == WithState(w.mem, w.stage, {i}, state)
    <3>2. /\ mem.prepared = w.mem.prepared /\ mem.enable_polish = w.mem.enable_polish
          /\ \A j \in Items \ {i} : mem.items[j] = w.mem.items[j]
          /\ mem.items[i][w.stage].state = state
          /\ \A s \in Stages \ {w.stage} : mem.items[i][s] = w.mem.items[i][s]
      BY <1>a, <1>f, WithStateResult
    <3>. HIDE DEF mem
    <3>3. /\ w'.mem = mem /\ w'.inflight = w.inflight \ {i} /\ UNCHANGED <<w.pc, w.polish, w.stage, chunks>>
          /\ row'.payload = mem /\ row'.cancel_requested = row.cancel_requested
      BY <2>14, <3>1, <1>a, <1>c DEF FinishItem, WorkerType, provider, mem
    <3>4. i \in Polished => Keeps(mem.items[i])
      <4>. SUFFICES ASSUME i \in Polished PROVE Keeps(mem.items[i])
        OBVIOUS
      <4>1. w.stage = "translation" /\ w.mem.items[i].polish.state = "succeeded" /\ Keeps(w.mem.items[i])
        BY <3>0 DEF PayloadKeeps
      <4>2. w.mem.items[i].translation.state \in {"pending", "failed"}
        BY <3>0, <4>1
      <4>3. May("chunk_missing")
        BY <4>1, <4>2 DEF Keeps
      <4>4. mem.items[i].translation.state = state /\ mem.items[i].polish = w.mem.items[i].polish
        BY <3>2, <4>1, <1>f
      <4>. QED  BY <4>1, <4>3, <4>4 DEF Keeps
    <3>5. PayloadKeeps(row.payload)' /\ PayloadKeeps(w.mem)'
      <4>1. \A j \in Polished : Keeps(mem.items[j])
        BY <3>0, <3>2, <3>4 DEF PayloadKeeps, Polished
      <4>. QED  BY <3>0, <3>2, <3>3, <4>1 DEF PayloadKeeps, Polished
    <3>6. Inflight'
      <4>1. w.inflight \subseteq Items
        BY <1>a DEF WorkerType
      <4>. QED  BY <3>0, <3>2, <3>3, <4>1 DEF PolishInv, Inflight, Polished, At
    <3>. QED  BY ZenonT(60), <3>0, <3>2, <3>3, <3>5, <3>6 DEF PolishInv, WorkPrepared, Unpolished, NotCancelled,
                                                 StageBegins, ApplyingIsStored, Polished, At
  <2>15. CASE InterruptItem
    <3>1. MovesOn
      <4>1. UNCHANGED <<chunks, w.polish, w.stage>> /\ w'.mem = w.mem
        BY <2>15, <1>a, <1>b DEF InterruptItem, Goto, Proceed, WorkerType, provider, running, Interrupted
      <4>2. /\ row'.payload = row.payload \/ (w.pc \in RunPoints /\ row'.payload = w.mem)
            /\ row'.cancel_requested = row.cancel_requested \/ ~May("chunk_missing")
        BY <2>15, <1>a, <1>c, <1>d DEF InterruptItem, RowType, RunPoints, At, provider, running
      <4>3. /\ w'.inflight = {} \/ (w'.inflight = w.inflight /\ (w.pc \in {"validate", "fallback"} => w'.pc = w.pc))
            /\ w'.pc \in RunPoints => w.pc \in RunPoints
            /\ w'.pc \in WorkPoints => w.pc \in WorkPoints
            /\ w'.pc \in AskPoints => w.pc \in AskPoints \/ w.stage = "translation"
            /\ w'.pc \notin {"entry", "cancel", "stage", "prepare", "apply"}
            /\ w'.pc = "applying" => w.pc = "applying"
            /\ w'.pc = "begin" => w.pc = "entry"
        BY <2>15, <1>a, <1>b DEF InterruptItem, Goto, Proceed, WorkerType, RunPoints, WorkPoints, AskPoints, At, Interrupted
      <4>. QED  BY <1>e, <4>1, <4>2, <4>3 DEF MovesOn
    <3>. QED  BY <3>1, MovesOnKeeps
  <2>16. CASE EndValidation
    <3>1. MovesOn
      <4>1. UNCHANGED <<chunks, w.polish, w.stage>> /\ w'.mem = w.mem
        BY <2>16, <1>a, <1>b DEF EndValidation, Goto, Proceed, WorkerType, provider, running
      <4>2. /\ row'.payload = row.payload \/ (w.pc \in RunPoints /\ row'.payload = w.mem)
            /\ row'.cancel_requested = row.cancel_requested \/ ~May("chunk_missing")
        BY <2>16, <1>a, <1>c, <1>d DEF EndValidation, RowType, RunPoints, At, provider, running
      <4>3. /\ w'.inflight = {} \/ (w'.inflight = w.inflight /\ (w.pc \in {"validate", "fallback"} => w'.pc = w.pc))
            /\ w'.pc \in RunPoints => w.pc \in RunPoints
            /\ w'.pc \in WorkPoints => w.pc \in WorkPoints
            /\ w'.pc \in AskPoints => w.pc \in AskPoints \/ w.stage = "translation"
            /\ w'.pc \notin {"entry", "cancel", "stage", "prepare", "apply"}
            /\ w'.pc = "applying" => w.pc = "applying"
            /\ w'.pc = "begin" => w.pc = "entry"
        BY <2>16, <1>a, <1>b DEF EndValidation, Goto, Proceed, WorkerType, RunPoints, WorkPoints, AskPoints, At
      <4>. QED  BY <1>e, <4>1, <4>2, <4>3 DEF MovesOn
    <3>. QED  BY <3>1, MovesOnKeeps
  <2>17. CASE EndFallback
    <3>0. w.inflight = {} /\ PayloadKeeps(w.mem) /\ w.mem.prepared /\ w.pc = "fallback" /\ Persist(w.mem)
      BY <2>17 DEF EndFallback, PolishInv, WorkPrepared, WorkPoints, AskPoints, RunPoints, At
    <3>1. /\ UNCHANGED <<w.mem, w.polish, w.inflight, chunks>> /\ row'.payload = w.mem
          /\ row'.cancel_requested = row.cancel_requested
          /\ \/ w'.pc = "stage"
             \/ w'.pc = "apply" /\ w.stage = "polish"
      BY <2>17, <3>0, <1>a, <1>c DEF EndFallback, WorkerType, provider, Stages
    <3>2. PayloadKeeps(row.payload)' /\ PayloadKeeps(w.mem)'
      BY <3>0, <3>1 DEF PayloadKeeps, Polished
    <3>3. Unpolished'
      BY <3>0, <3>1 DEF PolishInv, Unpolished, Polished, AskPoints
    <3>4. \A i \in Polished \ Succeeded(w.mem) : w.mem.items[i].translation.fallback_attempted \/ w'.pc = "apply"
      <4>. SUFFICES ASSUME NEW i \in Polished, i \notin Succeeded(w.mem), w'.pc = "stage"
                    PROVE  w.mem.items[i].translation.fallback_attempted
        BY <3>1
      <4>1. i \in Items /\ Keeps(w.mem.items[i])
        BY <3>0 DEF PayloadKeeps, Polished
      <4>2. w.mem.items[i].translation.state = "failed" /\ May("chunk_missing")
        BY <4>1 DEF Keeps, Succeeded, ItemsIn
      <4>3. w.stage = "translation" /\ FallbackCandidates = {}
        BY <2>17, <4>2, <1>a DEF EndFallback, PolishInv, NotCancelled, WorkerType
      <4>4. i \notin FallbackCandidates
        BY <4>3
      <4>. QED  BY <4>1, <4>2, <4>3, <4>4 DEF FallbackCandidates, ItemsIn
    <3>. QED  BY <3>0, <3>1, <3>2, <3>3, <3>4 DEF PolishInv, WorkPrepared, NotCancelled, Inflight, StageBegins,
                                                 ApplyingIsStored, Polished, Succeeded, ItemsIn, At
  <2>18. CASE BeginApply
    <3>0. w.inflight = {} /\ PayloadKeeps(w.mem) /\ w.mem.prepared /\ w.pc = "apply" /\ Persist(w.mem)
      BY <2>18 DEF BeginApply, PolishInv, Inflight, WorkPrepared, WorkPoints, RunPoints, At
    <3>1. /\ UNCHANGED <<w.mem, w.polish, w.stage, w.inflight, chunks>> /\ row'.payload = w.mem /\ w'.pc = "applying"
          /\ row'.cancel_requested = row.cancel_requested
      BY <2>18, <3>0, <1>a, <1>c DEF BeginApply, Goto, WorkerType, provider
    <3>2. PayloadKeeps(row.payload)' /\ PayloadKeeps(w.mem)'
      BY <3>0, <3>1 DEF PayloadKeeps, Polished
    <3>3. Unpolished'
      BY <3>0, <3>1 DEF PolishInv, Unpolished, Polished, AskPoints, Succeeded, ItemsIn
    <3>. QED  BY <3>0, <3>1, <3>2, <3>3 DEF PolishInv, WorkPrepared, NotCancelled, Inflight, StageBegins,
                                           ApplyingIsStored, At
  <2>19. ASSUME NEW i \in Items, ApplyItem(i)
        PROVE  PolishInv'
    <3>0. /\ w.inflight = {} /\ PayloadKeeps(w.mem) /\ w.mem.prepared /\ row.payload.prepared /\ w.pc = "applying"
          /\ i \in Succeeded(w.mem)
      <4>1. i \in Applicable
        <5>1. Applicable \in SUBSET Nat
          BY DEF Applicable, Succeeded, ItemsIn, Items
        <5>. QED  BY <2>19, <5>1, MinIsLeast DEF ApplyItem
      <4>. QED  BY <2>19, <4>1 DEF ApplyItem, Applicable, PolishInv, Inflight, WorkPrepared, WorkPoints, RunPoints, At
    <3>1. /\ UNCHANGED <<row, w.polish, w.stage, w.inflight>> /\ w'.pc \in {"applying", "interrupted"}
      BY <2>19, ApplyForms
    <3>2. /\ row.payload.items[i].translation = w.mem.items[i].translation
          /\ row.payload.items[i].polish = w.mem.items[i].polish
          /\ w.mem.items[i].translation.state = "succeeded"
      BY <3>0 DEF PolishInv, ApplyingIsStored, At, Succeeded, ItemsIn
    <3>3. CASE /\ w'.mem = ItemPut(w.mem, i, Applied(w.mem.items[i]))
               /\ chunks' = [chunks EXCEPT ![i] = IF w.mem.items[i].polish.state = "succeeded"
                                                 THEN "polished" ELSE "translated"]
      <4>. DEFINE item == Applied(w.mem.items[i])
                  mem == ItemPut(w.mem, i, item)
      <4>1. item \in Item /\ \A s \in Stages : item[s] = w.mem.items[i][s]
        BY OneItemTyped
      <4>. HIDE DEF item
      <4>2. /\ mem.prepared = w.mem.prepared /\ mem.enable_polish = w.mem.enable_polish
            /\ \A j \in Items : mem.items[j] = IF j = i THEN item ELSE w.mem.items[j]
        BY <4>1, <1>a, ItemPutResult
      <4>3. w'.mem = mem
        BY <3>3 DEF item
      <4>. HIDE DEF mem
      <4>4. \A j \in Items : /\ mem.items[j].translation = w.mem.items[j].translation
                             /\ mem.items[j].polish = w.mem.items[j].polish
        BY <4>1, <4>2, <1>f
      <4>5. Succeeded(mem) = Succeeded(w.mem)
        BY <4>4 DEF Succeeded, ItemsIn
      <4>6. /\ \A j \in Polished' : j \in Items /\ (j \in Polished \/ (j = i /\ w.mem.items[i].polish.state = "succeeded"))
            /\ ~w.polish => Polished' = {}
        <5>1. \A j \in Items : j # i => chunks'[j] = chunks[j]
          BY <3>3 DEF Typed
        <5>2. chunks'[i] = "polished" => w.mem.items[i].polish.state = "succeeded"
          BY <3>3 DEF Typed
        <5>3. ~w.polish => Polished = {} /\ w.mem.items[i].polish.state = "skipped"
          BY <3>0 DEF PolishInv, Unpolished
        <5>. QED  BY <5>1, <5>2, <5>3 DEF Polished
      <4>7. \A j \in Polished' : Keeps(row.payload.items[j]) /\ Keeps(mem.items[j])
        <5>. SUFFICES ASSUME NEW j \in Polished' PROVE Keeps(row.payload.items[j]) /\ Keeps(mem.items[j])
          OBVIOUS
        <5>1. CASE j = i /\ w.mem.items[i].polish.state = "succeeded"
          BY <3>2, <4>4, <5>1 DEF Keeps
        <5>2. CASE j \in Polished
          <6>1. j \in Items /\ Keeps(row.payload.items[j]) /\ Keeps(w.mem.items[j])
            BY <3>0, <5>2 DEF PolishInv, PayloadKeeps, Polished
          <6>. QED  BY <4>4, <6>1 DEF Keeps
        <5>. QED  BY <4>6, <5>1, <5>2
      <4>8. PayloadKeeps(row.payload)' /\ PayloadKeeps(w.mem)'
        BY <3>0, <3>1, <4>2, <4>3, <4>7 DEF PolishInv, PayloadKeeps
      <4>9. Unpolished'
        <5>1. w.stage = "polish" /\ ~w.polish => w'.pc \notin AskPoints
          BY <3>1 DEF AskPoints
        <5>. QED  BY <3>0, <3>1, <4>3, <4>4, <4>5, <4>6, <5>1 DEF PolishInv, Unpolished, Succeeded, ItemsIn
      <4>10. ApplyingIsStored'
        <5>. SUFFICES ASSUME NEW j \in Succeeded(mem)
                      PROVE  /\ row.payload.items[j].translation = mem.items[j].translation
                             /\ row.payload.items[j].polish = mem.items[j].polish
          BY <3>1, <4>3 DEF ApplyingIsStored, Succeeded, ItemsIn
        <5>. QED  BY <3>0, <4>4, <4>5 DEF PolishInv, ApplyingIsStored, At, Succeeded, ItemsIn
      <4>. QED  BY <3>0, <3>1, <4>2, <4>3, <4>8, <4>9, <4>10 DEF PolishInv, WorkPrepared, NotCancelled, Inflight, StageBegins,
                                                                At
    <3>4. CASE /\ May("chunk_missing") /\ UNCHANGED chunks /\ w'.pc = "applying"
               /\ w'.mem = ItemPut(w.mem, i, Missing(w.mem.items[i]))
      <4>. DEFINE item == Missing(w.mem.items[i])
                  mem == ItemPut(w.mem, i, item)
      <4>1. /\ item \in Item /\ item.polish = w.mem.items[i].polish /\ item.translation.state = "failed"
        BY OneItemTyped
      <4>. HIDE DEF item
      <4>2. /\ mem.prepared = w.mem.prepared /\ mem.enable_polish = w.mem.enable_polish
            /\ \A j \in Items : mem.items[j] = IF j = i THEN item ELSE w.mem.items[j]
        BY <4>1, <1>a, ItemPutResult
      <4>3. w'.mem = mem
        BY <3>4 DEF item
      <4>. HIDE DEF mem
      <4>4. Succeeded(mem) \subseteq Succeeded(w.mem) /\ \A j \in Succeeded(mem) : mem.items[j] = w.mem.items[j]
        BY <4>1, <4>2 DEF Succeeded, ItemsIn
      <4>5. \A j \in Polished : Keeps(mem.items[j])
        <5>. SUFFICES ASSUME NEW j \in Polished PROVE Keeps(mem.items[j])
          OBVIOUS
        <5>1. j \in Items /\ Keeps(w.mem.items[j])
          BY <3>0 DEF PayloadKeeps, Polished
        <5>2. CASE j = i
          BY <3>2, <3>4, <4>1, <4>2, <5>1, <5>2 DEF Keeps
        <5>3. CASE j # i
          BY <4>2, <5>1, <5>3
        <5>. QED  BY <5>2, <5>3
      <4>6. PayloadKeeps(row.payload)' /\ PayloadKeeps(w.mem)'
        BY <3>0, <3>1, <3>4, <4>2, <4>3, <4>5 DEF PolishInv, PayloadKeeps, Polished
      <4>7. Unpolished'
        BY <3>0, <3>1, <3>4, <4>3, <4>4 DEF PolishInv, Unpolished, Polished, AskPoints, Succeeded, ItemsIn
      <4>8. ApplyingIsStored'
        <5>. SUFFICES ASSUME NEW j \in Succeeded(mem)
                      PROVE  /\ row.payload.items[j].translation = mem.items[j].translation
                             /\ row.payload.items[j].polish = mem.items[j].polish
          BY <3>1, <4>3 DEF ApplyingIsStored, Succeeded, ItemsIn
        <5>. QED  BY <3>0, <4>4 DEF PolishInv, ApplyingIsStored, At
      <4>. QED  BY <3>0, <3>1, <3>4, <4>2, <4>3, <4>6, <4>7, <4>8 DEF PolishInv, WorkPrepared, NotCancelled, Inflight,
                                                                     StageBegins, At
    <3>. QED  BY <2>19, <3>3, <3>4, ApplyForms
  <2>20. CASE EndApply
    <3>1. MovesOn
      <4>1. UNCHANGED <<chunks, w.polish, w.stage>> /\ w'.mem = w.mem
        BY <2>20, <1>a, <1>b DEF EndApply, Goto, Proceed, WorkerType, provider, running
      <4>2. /\ row'.payload = row.payload \/ (w.pc \in RunPoints /\ row'.payload = w.mem)
            /\ row'.cancel_requested = row.cancel_requested \/ ~May("chunk_missing")
        BY <2>20, <1>a, <1>c, <1>d DEF EndApply, RowType, RunPoints, At, provider, running
      <4>3. /\ w'.inflight = {} \/ (w'.inflight = w.inflight /\ (w.pc \in {"validate", "fallback"} => w'.pc = w.pc))
            /\ w'.pc \in RunPoints => w.pc \in RunPoints
            /\ w'.pc \in WorkPoints => w.pc \in WorkPoints
            /\ w'.pc \in AskPoints => w.pc \in AskPoints \/ w.stage = "translation"
            /\ w'.pc \notin {"entry", "cancel", "stage", "prepare", "apply"}
            /\ w'.pc = "applying" => w.pc = "applying"
            /\ w'.pc = "begin" => w.pc = "entry"
        BY <2>20, <1>a, <1>b DEF EndApply, Goto, Proceed, WorkerType, RunPoints, WorkPoints, AskPoints, At
      <4>. QED  BY <1>e, <4>1, <4>2, <4>3 DEF MovesOn
    <3>. QED  BY <3>1, MovesOnKeeps
  <2>21. CASE BeginCancel
    <3>0. w.inflight = {} /\ ~May("chunk_missing")
      BY <2>21 DEF BeginCancel, PolishInv, Inflight, NotCancelled, At
    <3>1. CASE Goto("post") /\ UNCHANGED row
      <4>1. MovesOn
        BY <2>21, <3>1, <1>a, <1>e
           DEF BeginCancel, MovesOn, Goto, WorkerType, provider, RunPoints, WorkPoints, AskPoints, At
      <4>. QED  BY <4>1, MovesOnKeeps
    <3>2. CASE row' = [row EXCEPT !.status = "cancelling", !.cancel_requested = TRUE] /\ Proceed("find", row.payload)
      <4>1. /\ w'.pc = "find" /\ w'.mem = row.payload /\ row'.payload = row.payload
            /\ UNCHANGED <<w.polish, w.stage, w.inflight, chunks>>
        BY <2>21, <3>2, <1>a DEF BeginCancel, Proceed, WorkerType, RowType, provider
      <4>2. PayloadKeeps(row.payload)' /\ PayloadKeeps(w.mem)'
        BY <4>1 DEF PolishInv, PayloadKeeps, Polished
      <4>3. Unpolished'
        BY <4>1 DEF PolishInv, Unpolished, Polished, AskPoints
      <4>. QED  BY <3>0, <4>1, <4>2, <4>3 DEF PolishInv, WorkPrepared, NotCancelled, Inflight, StageBegins,
                                             ApplyingIsStored, WorkPoints, AskPoints, At
    <3>. QED  BY <2>21, <3>1, <3>2 DEF BeginCancel
  <2>22. CASE FindBatches
    <3>1. \E todo : w' = [w EXCEPT !.pc = "settle", !.todo = todo, !.active = FALSE]
      BY <2>22 DEF FindBatches
    <3>2. MovesOn
      BY <2>22, <3>1, <1>a, <1>e DEF FindBatches, MovesOn, WorkerType, provider, RunPoints, WorkPoints, AskPoints, At
    <3>. QED  BY <3>2, MovesOnKeeps
  <2>23. ASSUME NEW b \in w.todo, SettleBatch(b)
        PROVE  PolishInv'
    <3>1. MovesOn
      <4>1. UNCHANGED <<chunks, w.polish, w.stage>> /\ w'.mem = w.mem
        BY <2>23, <1>a, <1>b DEF SettleBatch, Goto, Proceed, WorkerType, provider, running, Settled
      <4>2. /\ row'.payload = row.payload \/ (w.pc \in RunPoints /\ row'.payload = w.mem)
            /\ row'.cancel_requested = row.cancel_requested \/ ~May("chunk_missing")
        BY <2>23, <1>a, <1>c, <1>d DEF SettleBatch, RowType, RunPoints, At, provider, running
      <4>3. /\ w'.inflight = {} \/ (w'.inflight = w.inflight /\ (w.pc \in {"validate", "fallback"} => w'.pc = w.pc))
            /\ w'.pc \in RunPoints => w.pc \in RunPoints
            /\ w'.pc \in WorkPoints => w.pc \in WorkPoints
            /\ w'.pc \in AskPoints => w.pc \in AskPoints \/ w.stage = "translation"
            /\ w'.pc \notin {"entry", "cancel", "stage", "prepare", "apply"}
            /\ w'.pc = "applying" => w.pc = "applying"
            /\ w'.pc = "begin" => w.pc = "entry"
        BY ZenonT(60), <2>23, <1>a, <1>b DEF SettleBatch, Goto, Proceed, WorkerType, RunPoints, WorkPoints, AskPoints, At, Settled
      <4>. QED  BY <1>e, <4>1, <4>2, <4>3 DEF MovesOn
    <3>. QED  BY <3>1, MovesOnKeeps
  <2>24. CASE CancelBatch
    <3>1. MovesOn
      <4>1. UNCHANGED <<chunks, w.polish, w.stage>> /\ w'.mem = w.mem
        BY <2>24, <1>a, <1>b DEF CancelBatch, Goto, Proceed, WorkerType, provider, running
      <4>2. /\ row'.payload = row.payload \/ (w.pc \in RunPoints /\ row'.payload = w.mem)
            /\ row'.cancel_requested = row.cancel_requested \/ ~May("chunk_missing")
        BY <2>24, <1>a, <1>c, <1>d DEF CancelBatch, RowType, RunPoints, At, provider, running
      <4>3. /\ w'.inflight = {} \/ (w'.inflight = w.inflight /\ (w.pc \in {"validate", "fallback"} => w'.pc = w.pc))
            /\ w'.pc \in RunPoints => w.pc \in RunPoints
            /\ w'.pc \in WorkPoints => w.pc \in WorkPoints
            /\ w'.pc \in AskPoints => w.pc \in AskPoints \/ w.stage = "translation"
            /\ w'.pc \notin {"entry", "cancel", "stage", "prepare", "apply"}
            /\ w'.pc = "applying" => w.pc = "applying"
            /\ w'.pc = "begin" => w.pc = "entry"
        BY <2>24, <1>a, <1>b DEF CancelBatch, Goto, Proceed, WorkerType, RunPoints, WorkPoints, AskPoints, At
      <4>. QED  BY <1>e, <4>1, <4>2, <4>3 DEF MovesOn
    <3>. QED  BY <3>1, MovesOnKeeps
  <2>25. CASE InspectBatch
    <3>1. MovesOn
      <4>1. UNCHANGED <<chunks, w.polish, w.stage>> /\ w'.mem = w.mem
        BY <2>25, <1>a, <1>b DEF InspectBatch, Goto, Proceed, WorkerType, provider, running, Settled
      <4>2. /\ row'.payload = row.payload \/ (w.pc \in RunPoints /\ row'.payload = w.mem)
            /\ row'.cancel_requested = row.cancel_requested \/ ~May("chunk_missing")
        BY <2>25, <1>a, <1>c, <1>d DEF InspectBatch, RowType, RunPoints, At, provider, running
      <4>3. /\ w'.inflight = {} \/ (w'.inflight = w.inflight /\ (w.pc \in {"validate", "fallback"} => w'.pc = w.pc))
            /\ w'.pc \in RunPoints => w.pc \in RunPoints
            /\ w'.pc \in WorkPoints => w.pc \in WorkPoints
            /\ w'.pc \in AskPoints => w.pc \in AskPoints \/ w.stage = "translation"
            /\ w'.pc \notin {"entry", "cancel", "stage", "prepare", "apply"}
            /\ w'.pc = "applying" => w.pc = "applying"
            /\ w'.pc = "begin" => w.pc = "entry"
        BY ZenonT(60), <2>25, <1>a, <1>b DEF InspectBatch, Goto, Proceed, WorkerType, RunPoints, WorkPoints, AskPoints, At, Settled
      <4>. QED  BY <1>e, <4>1, <4>2, <4>3 DEF MovesOn
    <3>. QED  BY <3>1, MovesOnKeeps
  <2>26. CASE EndCancel
    <3>1. MovesOn
      <4>1. UNCHANGED <<chunks, w.polish, w.stage>> /\ w'.mem = w.mem
        BY <2>26, <1>a, <1>b DEF EndCancel, Goto, Proceed, WorkerType, provider, running
      <4>2. /\ row'.payload = row.payload \/ (w.pc \in RunPoints /\ row'.payload = w.mem)
            /\ row'.cancel_requested = row.cancel_requested \/ ~May("chunk_missing")
        BY <2>26, <1>a, <1>c, <1>d DEF EndCancel, RowType, RunPoints, At, provider, running
      <4>3. /\ w'.inflight = {} \/ (w'.inflight = w.inflight /\ (w.pc \in {"validate", "fallback"} => w'.pc = w.pc))
            /\ w'.pc \in RunPoints => w.pc \in RunPoints
            /\ w'.pc \in WorkPoints => w.pc \in WorkPoints
            /\ w'.pc \in AskPoints => w.pc \in AskPoints \/ w.stage = "translation"
            /\ w'.pc \notin {"entry", "cancel", "stage", "prepare", "apply"}
            /\ w'.pc = "applying" => w.pc = "applying"
            /\ w'.pc = "begin" => w.pc = "entry"
        BY <2>26, <1>a, <1>b DEF EndCancel, Goto, Proceed, WorkerType, RunPoints, WorkPoints, AskPoints, At
      <4>. QED  BY <1>e, <4>1, <4>2, <4>3 DEF MovesOn
    <3>. QED  BY <3>1, MovesOnKeeps
  <2>. QED  BY <1>10, <2>1, <2>2, <2>3, <2>4, <2>5, <2>6, <2>7, <2>8, <2>9, <2>10, <2>11, <2>12, <2>13, <2>14, <2>15, <2>16, <2>17, <2>18, <2>19, <2>20, <2>21, <2>22, <2>23, <2>24, <2>25, <2>26 DEF StageStep, CancelStep
<1>g. Occurs("cancel") => ~May("chunk_missing")
  BY DEF Occurs, PolishAssumption, May
<1>h. \A action : LET new == Worker(action)
                  IN  /\ new.inflight = {} /\ new.stage = "translation" /\ new.polish = row.payload.enable_polish
                      /\ new.pc = IF action = "run" THEN "entry" ELSE "cancel"
  BY DEF Worker, IdleWorker
<1>11. CASE StartRun
  <2>1. w'.pc = "entry" /\ w'.polish = row.payload.enable_polish /\ w'.inflight = {} /\ w'.stage = "translation"
    BY <1>11, <1>h DEF StartRun
  <2>2. Rests
    BY <1>11, <2>1, <1>a, <1>e DEF StartRun, Rests, running, PolishInv, NotCancelled, RowType
  <2>. QED  BY <2>2, RestsKeeps
<1>12. CASE ProviderStep
  BY SMTT(30), <1>12 DEF ProviderStep, PolishInv, PayloadKeeps, Polished, WorkPrepared, Unpolished, NotCancelled, Inflight,
               StageBegins, ApplyingIsStored, Succeeded, ItemsIn, At
<1>s. ASSUME UNCHANGED <<w.pc, w.mem, w.polish, w.stage, w.inflight, row.payload, chunks>>,
             May("chunk_missing") => row'.cancel_requested = row.cancel_requested
                                       /\ (At("entry") => row'.status = row.status)
      PROVE  PolishInv'
  BY SMTT(60), <1>s DEF PolishInv, PayloadKeeps, Polished, WorkPrepared, Unpolished, NotCancelled, Inflight,
              StageBegins, ApplyingIsStored, Succeeded, ItemsIn, At
<1>13. CASE UserCancel
  <2>0. ~May("chunk_missing") /\ row'.payload = row.payload /\ UNCHANGED chunks
    BY <1>13, <1>a, <1>g DEF UserCancel, CancelRequested, RowType, running
  <2>1. w'.pc = "cancel" /\ w'.polish = row.payload.enable_polish /\ w'.inflight = {} /\ w'.stage = "translation"
    BY <1>13, <1>h DEF UserCancel
  <2>2. Rests
    BY <2>0, <2>1, <1>a, <1>e DEF Rests
  <2>. QED  BY <2>2, RestsKeeps
<1>14. CASE MarkCancelRequested
  <2>1. ~May("chunk_missing") /\ row'.payload = row.payload /\ UNCHANGED <<w, chunks>>
    BY <1>14, <1>a, <1>g DEF MarkCancelRequested, CancelRequested, RowType, running
  <2>. QED  BY <2>1, <1>s
<1>15. CASE UserRerun
  <2>1. /\ row'.payload = row.payload /\ row'.cancel_requested = FALSE /\ UNCHANGED <<w, chunks>> /\ At("idle")
    BY <1>15, <1>a DEF UserRerun, RowType, running
  <2>2. May("chunk_missing") => row.cancel_requested = FALSE
    BY <1>a DEF PolishInv, NotCancelled, RowType
  <2>. QED  BY <2>1, <2>2, <1>s DEF At
<1>16. CASE InterruptWorker \/ Shutdown
  <2>1. UNCHANGED <<w.pc, w.mem, w.polish, w.stage, w.inflight, row, chunks>>
    BY <1>16, <1>a DEF InterruptWorker, Shutdown, WorkerType, running
  <2>. QED  BY <2>1, <1>s
<1>17. CASE Crash \/ EndInterrupted
  <2>1. Rests
    BY <1>17, <1>a, <1>e DEF Crash, EndInterrupted, Rests, IdleWorker, running, PolishInv, NotCancelled, RowType
  <2>. QED  BY <2>1, RestsKeeps
<1>18. CASE UNCHANGED vars
  BY <1>18, <1>s DEF vars
<1>. QED  BY <1>1, <1>2, <1>3, <1>4, <1>5, <1>6, <1>7, <1>8, <1>9, <1>10, <1>11, <1>12, <1>13, <1>14, <1>15, <1>16, <1>17, <1>18 DEF Next, WorkerStep, RunStep, Environment

\* No step writes a chunk that is polished already, unless with the polished text.
LEMMA ChunkWrites ==
  ASSUME Typed, PolishInv, [Next]_vars
  PROVE  [\A i \in Items : chunks[i] = "polished" => chunks'[i] = "polished"]_chunks
<1>1. CASE UNCHANGED chunks
  BY <1>1
<1>2. ASSUME NEW i \in Items, ApplyItem(i), chunks' # chunks, NEW j \in Items, chunks[j] = "polished"
      PROVE  chunks'[j] = "polished"
  <2>1. chunks' = [chunks EXCEPT ![i] = IF w.mem.items[i].polish.state = "succeeded"
                                       THEN "polished" ELSE "translated"]
    BY <1>2 DEF ApplyItem
  <2>2. CASE j # i
    BY <1>2, <2>1, <2>2 DEF Typed
  <2>3. CASE j = i
    <3>1. i \in Succeeded(w.mem)
      <4>1. Applicable \in SUBSET Nat
        BY DEF Applicable, Succeeded, ItemsIn, Items
      <4>. QED  BY <1>2, <4>1, MinIsLeast DEF ApplyItem, Applicable
    <3>2. Keeps(w.mem.items[i])
      BY <1>2, <2>3 DEF ApplyItem, PolishInv, PayloadKeeps, Polished, RunPoints, At
    <3>3. w.mem.items[i].polish.state = "succeeded"
      BY <3>1, <3>2 DEF Keeps, Succeeded, ItemsIn
    <3>. QED  BY <2>1, <2>3, <3>3 DEF Typed
  <2>. QED  BY <2>2, <2>3
<1>3. UNCHANGED chunks \/ \E i \in Items : ApplyItem(i)
  <2>1. CASE StageStep
    BY <2>1 DEF StageStep, run_translation_stage, run_polish_stage, ResumeJob, NextSlice, SubmitSlice, RecordSubmission,
                CheckBeforePoll, PollFails, PollPending, CancelAfterTimeout, PollEnds, StartValidation, StartFallback,
                FinishItem, InterruptItem, EndValidation, EndFallback, BeginApply, EndApply, provider
  <2>2. CASE CancelStep
    BY <2>2 DEF CancelStep, BeginCancel, FindBatches, SettleBatch, CancelBatch, InspectBatch, EndCancel, provider
  <2>3. CASE RunStep
    BY <2>3 DEF RunStep, EndInterrupted, EnterRun, BeginRun, Prepare, DecideOutcome, FinishRun, HandlePause, WritePaused, WriteFailed,
                NoteRemoteSubmission, running
  <2>4. CASE StartRun \/ ProviderStep \/ Environment \/ UNCHANGED vars
    BY <2>4 DEF StartRun, ProviderStep, Environment, UserCancel, MarkCancelRequested, InterruptWorker, UserRerun, Shutdown, Crash, running, vars
  <2>. QED  BY <2>1, <2>2, <2>3, <2>4 DEF Next, WorkerStep
<1>. QED  BY <1>1, <1>2, <1>3

\* A resumed, repeated or cancelled run never puts an unpolished text where a
\* polished one is (apply_results), unless a chunk was missing and the run that
\* noticed was cancelled.
THEOREM PolishedTextStays ==
  ASSUME PolishAssumption
  PROVE  Spec => PolishNotLost
<1>1. Init => Typed /\ Basics /\ PolishInv
  <2>. SUFFICES ASSUME Init PROVE PolishInv
    BY BatchInit
  <2>1. /\ \A i \in Items : chunks[i] # "polished"
        /\ w = IdleWorker(row.payload) /\ ~row.payload.prepared /\ row.cancel_requested = FALSE
    BY DEF Init, NewPayload
  <2>2. w.pc = "idle" /\ w.inflight = {} /\ w.polish /\ w.stage = "translation"
    BY <2>1 DEF IdleWorker
  <2>. QED  BY <2>1, <2>2 DEF PolishInv, PayloadKeeps, Polished, WorkPrepared, Unpolished, NotCancelled, Inflight,
                              StageBegins, ApplyingIsStored, At, RunPoints, WorkPoints, AskPoints
<1>2. Typed /\ Basics /\ PolishInv /\ [Next]_vars => Typed' /\ Basics' /\ PolishInv'
  BY Typing, BasicsKept, PolishKept
<1>3. Typed /\ PolishInv /\ [Next]_vars =>
        [\A i \in Items : chunks[i] = "polished" => chunks'[i] = "polished"]_chunks
  BY ChunkWrites
<1>. QED  BY <1>1, <1>2, <1>3, PTL DEF Spec, PolishNotLost

-----------------------------------------------------------------------------
(* What is noted as submitted was asked of its job: what the invariant     *)
(* says of a stage.  jobs is the stage's list, waiting its items that are  *)
(* still to be answered, k the worker.                                     *)

Of(s) == {h \in Hash : h[1] = s}
Answered(req) ==
  {h \in Hash : req[h].status = "completed" \/ (req[h].status = "failed" /\ ~req[h].cancellation)}
Sent(req) == {h \in Hash : req[h].status = "submitted"}
Refused(req) == {h \in Hash : req[h].status = "failed" /\ req[h].cancellation}
Born(bat, b) == b \in Batches /\ bat[b].state # "unborn"

\* What the waiting items still ask, and the first of it: the next slice.
Open(s, waiting, req) == {HashOf(s, i) : i \in waiting} \ Answered(req)
Place(s, waiting, h) == Min({i \in waiting : HashOf(s, i) = h})
FirstOf(s, waiting, open) ==
  {h \in open : Cardinality({g \in open : Place(s, waiting, g) < Place(s, waiting, h)}) < BatchSize}
Slice(s, waiting, req) == FirstOf(s, waiting, Open(s, waiting, req))

\* The phases of a stage.  A run has passed the listed jobs before first.
Polling(k) == k.pc \in {"poll", "polling", "timed_out"}
InSlices(k, s) == k.stage = s /\ (k.pc \in {"slice", "submit", "created"} \/ (Polling(k) /\ k.job = 0))
InJobs(k, s) == k.stage = s /\ (k.pc = "jobs" \/ (Polling(k) /\ k.job # 0))
InResults(k, s) == k.stage = s /\ k.pc \in {"validate", "fallback"}
First(k, s) == IF InJobs(k, s) THEN (IF k.pc = "timed_out" THEN k.job + 1 ELSE k.job) ELSE 1

\* The listed jobs, but for those that are over, and the submitted requests of
\* the stage are all of one set c.
Accounted(s, c, jobs, req, bat) ==
  /\ \A n \in DOMAIN jobs : jobs[n].hashes = c \/ jobs[n].hashes \subseteq Answered(req)
  /\ \A h \in Of(s) \cap Sent(req) :
       h \in c /\ Born(bat, req[h].batch_name) /\ bat[req[h].batch_name].asked = c
\* A listed job that was not passed yet has succeeded without some answers.
Torn(s, c, first, jobs, waiting, req, bat) ==
  /\ c \ Answered(req) \subseteq Open(s, waiting, req)
  /\ \E n \in DOMAIN jobs :
       /\ first <= n /\ jobs[n].hashes = c /\ bat[jobs[n].batch].state = "succeeded"
       /\ c \ Answered(req) \subseteq bat[jobs[n].batch].missing
StageOK(s, k, jobs, waiting, req, bat) ==
  \/ Accounted(s, {}, jobs, req, bat)
  \/ ~InResults(k, s) /\ Accounted(s, Slice(s, waiting, req), jobs, req, bat)
  \/ /\ ~InResults(k, s) /\ ~InSlices(k, s)
     /\ \E c \in SUBSET Of(s) : Accounted(s, c, jobs, req, bat) /\ Torn(s, c, First(k, s), jobs, waiting, req, bat)

\* A listed job is one that was asked for what the list says.
ListOK(s, jobs, bat) ==
  \A n \in DOMAIN jobs : /\ jobs[n].hashes \subseteq Of(s) /\ Born(bat, jobs[n].batch)
                         /\ bat[jobs[n].batch].asked = jobs[n].hashes

\* The listed jobs that are not over: the first of them was cancelled, or they are
\* one job.  Once a run has passed one of them, all that they ask is refused.
Lead(jobs, req) == {n \in DOMAIN jobs : ~(jobs[n].hashes \subseteq Answered(req))}
FirstCancelled(jobs, req, bat) ==
  \A n \in Lead(jobs, req) : (\A m \in Lead(jobs, req) : n <= m) => bat[jobs[n].batch].state = "cancelled"
OneBatch(jobs, req) ==
  \E b \in Batches : \A n \in Lead(jobs, req) :
    /\ jobs[n].batch = b
    /\ \A h \in jobs[n].hashes \ Answered(req) : h \in Sent(req) /\ req[h].batch_name = b
AllRefused(jobs, req) ==
  \A n \in Lead(jobs, req) : jobs[n].hashes \subseteq Answered(req) \cup Refused(req)
LeadOK(s, k, jobs, req, bat) ==
  /\ FirstCancelled(jobs, req, bat) \/ OneBatch(jobs, req)
  /\ (\E n \in Lead(jobs, req) : n < First(k, s)) => AllRefused(jobs, req) \/ OneBatch(jobs, req)

\* What the worker is about to ask, has asked or polls.
WorkOK(s, k, jobs, waiting, req, bat) ==
  k.stage = s =>
    /\ k.pc \in {"slice", "submit", "created"} => k.job = 0
    /\ k.pc \in {"submit", "created"} =>
         k.hashes = Slice(s, waiting, req) /\ FirstCancelled(jobs, req, bat)
    /\ k.pc = "created" => Born(bat, k.batch) /\ bat[k.batch].asked = k.hashes
    /\ Polling(k) /\ k.job = 0 =>
         /\ k.hashes = Slice(s, waiting, req) /\ k.hashes \subseteq Sent(req)
         /\ \E n \in DOMAIN jobs : jobs[n].batch = k.batch /\ jobs[n].hashes = k.hashes
    /\ Polling(k) /\ k.job # 0 =>
         /\ k.job \in DOMAIN jobs /\ k.batch = jobs[k.job].batch
         /\ k.hashes = jobs[k.job].hashes \cap Open(s, waiting, req)

SendsOK(s, k, jobs, waiting, req, bat) ==
  /\ StageOK(s, k, jobs, waiting, req, bat) /\ ListOK(s, jobs, bat)
  /\ LeadOK(s, k, jobs, req, bat) /\ WorkOK(s, k, jobs, waiting, req, bat)

Waiting(p, s) == ItemsIn(p, s, "pending")

-----------------------------------------------------------------------------
(* What the worker's copy of the payload has in common with the row's, and *)
(* what the phases of a run know of it.  r is the row, k the worker.       *)

NoneListed(p) == \A s \in Stages : p.jobs[s] = <<>>
PolishReady(p) == Waiting(p, "polish") \subseteq Succeeded(p)
Used(s, p, req) == p.jobs[s] # <<>> \/ Of(s) \cap Sent(req) # {}
ApplyPoints == {"apply", "applying", "finish", "finished"}

Agree(r, k) ==
  k.pc \in RunPoints =>
    /\ k.mem.prepared = r.payload.prepared
    /\ \A s \in Stages :
         k.mem.jobs[s] = IF k.pc = "created" /\ s = k.stage
                         THEN Append(r.payload.jobs[s], NewEntry(k.batch, k.hashes))
                         ELSE r.payload.jobs[s]
    /\ \A s \in Stages :
         Waiting(k.mem, s) = Waiting(r.payload, s) \/ (k.pc = "apply" /\ s = "polish" /\ ~k.polish)
    /\ k.pc \in AskPoints \cup {"stage"} => Succeeded(k.mem) = Succeeded(r.payload)

\* Polish is only asked for items that are translated, and when it is wanted.
PolishWorks(r, k, req) ==
  /\ Used("polish", r.payload, req) => PolishReady(r.payload) /\ (k.pc \in RunPoints => PolishReady(k.mem))
  /\ k.stage = "polish" /\ k.pc \in AskPoints => k.polish /\ PolishReady(r.payload)
  /\ ~k.polish => ~Used("polish", r.payload, req)
  /\ k.polish /\ k.pc \in ApplyPoints => Waiting(k.mem, "polish") = {}

\* Without a listed job nothing has been answered.
NothingListed(r, k, req) ==
  /\ NoneListed(r.payload) => Answered(req) = {} /\ \A s \in Stages : Waiting(r.payload, s) = Items
  /\ Polling(k) \/ k.pc \in {"validate", "fallback"} \/ k.stage = "polish" => ~NoneListed(r.payload)
  /\ k.pc = "entry" /\ r.status \in TerminalStatuses => NoneListed(r.payload)

PreparedWorks(r, k, req) ==
  /\ ~r.payload.prepared => NoneListed(r.payload) /\ \A h \in Hash : req[h].status = "none"
  /\ ~r.payload.enable_polish => ~r.payload.prepared
  /\ k.pc \in RunPoints => (~k.mem.enable_polish => ~k.mem.prepared)
  /\ k.pc \in WorkPoints => r.payload.prepared
  /\ k.pc \in {"entry", "begin", "prepare"} => k.stage = "translation"
  /\ k.pc \in ApplyPoints => k.stage = "polish"

ResultsWork(k) ==
  /\ k.inflight # {} => k.pc \in {"validate", "fallback"}
  /\ \A i \in k.inflight : k.mem.items[i][k.stage].state = (IF k.pc = "validate" THEN "pending" ELSE "failed")
  /\ k.pc = "fallback" => Waiting(k.mem, k.stage) = {}

RunOK(r, k, req) ==
  Agree(r, k) /\ PolishWorks(r, k, req) /\ NothingListed(r, k, req) /\ PreparedWorks(r, k, req) /\ ResultsWork(k)

-----------------------------------------------------------------------------
(* Lemmas: the set of requests a stage has under way.                      *)

\* The next slice is asked by waiting items, and is only empty when nothing is open.
LEMMA SliceFacts ==
  ASSUME NEW s \in Stages, NEW waiting \in SUBSET Items, NEW req
  PROVE  /\ Open(s, waiting, req) \subseteq Of(s) /\ Open(s, waiting, req) \cap Answered(req) = {}
         /\ Slice(s, waiting, req) \subseteq Open(s, waiting, req)
         /\ Open(s, waiting, req) # {} => Slice(s, waiting, req) # {}
<1>. DEFINE open == Open(s, waiting, req)
            ItemsOf(h) == {i \in waiting : HashOf(s, i) = h}
            places == {Place(s, waiting, h) : h \in open}
<1>1. open \subseteq Of(s) /\ open \cap Answered(req) = {}
  BY ItemsAssumption DEF Open, HashOf, Of, Hash, Stages
<1>2. Slice(s, waiting, req) \subseteq open
  BY DEF Slice, FirstOf
<1>3. ASSUME open # {}
      PROVE  Slice(s, waiting, req) # {}
  <2>1. \A h \in open : Place(s, waiting, h) \in Nat
    <3>. SUFFICES ASSUME NEW h \in open PROVE Place(s, waiting, h) \in Nat
      OBVIOUS
    <3>1. ItemsOf(h) \in SUBSET Nat /\ ItemsOf(h) # {}
      BY ItemsAssumption DEF Open, Items
    <3>. HIDE DEF ItemsOf
    <3>2. Min(ItemsOf(h)) \in Nat
      BY <3>1, MinIsLeast
    <3>. QED  BY <3>2 DEF Place, ItemsOf
  <2>2. places \in SUBSET Nat /\ places # {}
    BY <1>3, <2>1
  <2>. HIDE DEF places
  <2>3. Min(places) \in places /\ \A x \in places : Min(places) <= x
    BY <2>2, MinIsLeast
  <2>4. PICK h \in open : Place(s, waiting, h) = Min(places)
    BY <2>3 DEF places
  <2>5. \A g \in open : Place(s, waiting, h) <= Place(s, waiting, g)
    BY <2>3, <2>4 DEF places
  <2>6. {g \in open : Place(s, waiting, g) < Place(s, waiting, h)} = {}
    BY <2>1, <2>5
  <2>7. Cardinality({g \in open : Place(s, waiting, g) < Place(s, waiting, h)}) = 0
    BY <2>6, FS_EmptySet
  <2>. QED  BY <2>4, <2>7, SizesAssumption DEF Slice, FirstOf
<1>. QED  BY <1>1, <1>2, <1>3

\* The worker's next slice is that of its copy of the payload.
LEMMA SliceOfWorker ==
  ASSUME Typed
  PROVE  /\ PendingHashes = Open(w.stage, Waiting(w.mem, w.stage), requests)
         /\ SliceHashes = Slice(w.stage, Waiting(w.mem, w.stage), requests)
<1>1. PendingHashes = Open(w.stage, Waiting(w.mem, w.stage), requests)
  <2>1. w.stage \in Stages
    BY DEF Typed, WorkerType
  <2>2. \A i \in ItemsIn(w.mem, w.stage, "pending") : HashOf(w.stage, i) \in Hash
    BY <2>1, ItemsAssumption DEF HashOf, Hash, ItemsIn
  <2>. QED  BY <2>2 DEF PendingHashes, Open, Waiting, Answered, Resolved, Completed
<1>2. \A h : Position(h) = Place(w.stage, Waiting(w.mem, w.stage), h)
  BY DEF Position, Place, Waiting
<1>. QED  BY <1>1, <1>2 DEF SliceHashes, Slice, FirstOf

\* Jobs that end, are cancelled or are new.
BatchesGrow(bat, bat2) ==
  \A b \in Batches : bat[b].state # "unborn" =>
    /\ bat2[b].state # "unborn" /\ bat2[b].asked = bat[b].asked
    /\ bat[b].state = "succeeded" => bat2[b].state = "succeeded" /\ bat2[b].missing = bat[b].missing
    /\ bat[b].state = "cancelled" => bat2[b].state = "cancelled"
\* The requests of a stage are as answered, submitted and refused as before.
SameRequests(s, req, req2) ==
  /\ \A h \in Of(s) : /\ (h \in Answered(req2)) <=> (h \in Answered(req))
                      /\ (h \in Sent(req2)) <=> (h \in Sent(req))
                      /\ (h \in Refused(req2)) <=> (h \in Refused(req))
  /\ \A h \in Of(s) \cap Sent(req) : req2[h].batch_name = req[h].batch_name

\* What stays of a stage when none of its requests changes.
LEMMA SameSets ==
  ASSUME NEW s \in Stages, NEW waiting \in SUBSET Items, NEW req, NEW req2, SameRequests(s, req, req2)
  PROVE  /\ Open(s, waiting, req2) = Open(s, waiting, req) /\ Slice(s, waiting, req2) = Slice(s, waiting, req)
         /\ \A c \in SUBSET Of(s) : c \ Answered(req2) = c \ Answered(req)
         /\ \A c \in SUBSET Of(s) : (c \subseteq Answered(req2)) <=> (c \subseteq Answered(req))
         /\ Of(s) \cap Sent(req2) = Of(s) \cap Sent(req)
         /\ \A c \in SUBSET Of(s) : c \cap Refused(req2) = c \cap Refused(req)
<1>1. \A h \in Of(s) : /\ (h \in Answered(req2)) <=> (h \in Answered(req))
                       /\ (h \in Sent(req2)) <=> (h \in Sent(req))
                       /\ (h \in Refused(req2)) <=> (h \in Refused(req))
  BY DEF SameRequests
<1>2. {HashOf(s, i) : i \in waiting} \subseteq Of(s)
  BY ItemsAssumption DEF HashOf, Of, Hash, Stages
<1>3. Open(s, waiting, req2) = Open(s, waiting, req)
  BY <1>1, <1>2 DEF Open
<1>4. Slice(s, waiting, req2) = Slice(s, waiting, req)
  BY <1>3 DEF Slice
<1>. QED  BY <1>1, <1>3, <1>4

\* Requests accounted for stay so.
LEMMA AccountedStays ==
  ASSUME NEW s \in Stages, NEW jobs, NEW req, NEW req2, NEW bat, NEW bat2, NEW c,
         SameRequests(s, req, req2), BatchesGrow(bat, bat2), ListOK(s, jobs, bat), Accounted(s, c, jobs, req, bat)
  PROVE  Accounted(s, c, jobs, req2, bat2)
<1>1. \A n \in DOMAIN jobs : jobs[n].hashes = c \/ jobs[n].hashes \subseteq Answered(req2)
  BY DEF Accounted, ListOK, SameRequests
<1>2. \A h \in Of(s) \cap Sent(req2) :
        h \in c /\ Born(bat2, req2[h].batch_name) /\ bat2[req2[h].batch_name].asked = c
  <2>. SUFFICES ASSUME NEW h \in Of(s) \cap Sent(req2)
                PROVE  h \in c /\ Born(bat2, req2[h].batch_name) /\ bat2[req2[h].batch_name].asked = c
    OBVIOUS
  <2>1. req2[h].batch_name = req[h].batch_name /\ h \in Of(s) \cap Sent(req)
    BY DEF SameRequests
  <2>2. h \in c /\ Born(bat, req[h].batch_name) /\ bat[req[h].batch_name].asked = c
    BY <2>1 DEF Accounted
  <2>. QED  BY <2>1, <2>2 DEF Born, BatchesGrow
<1>. QED  BY <1>1, <1>2 DEF Accounted

-----------------------------------------------------------------------------
(* Lemmas: what each kind of step does to a stage.                         *)

\* A worker that knows no more of the stage than before.
Later(s, k, k2) ==
  k2.stage = s =>
    /\ First(k2, s) = 1 \/ First(k2, s) = First(k, s)
    /\ InResults(k2, s) => InResults(k, s)
    /\ InSlices(k2, s) => InSlices(k, s)
    /\ k2.pc = "slice" => k2.job = 0
    /\ k2.pc \in {"submit", "created"} =>
         k.stage = s /\ k2.pc = k.pc /\ k2.job = k.job /\ k2.hashes = k.hashes /\ k2.batch = k.batch
    /\ Polling(k2) => k.stage = s /\ Polling(k) /\ k2.job = k.job /\ k2.hashes = k.hashes /\ k2.batch = k.batch
Unused(s, jobs, req) == jobs = <<>> /\ Of(s) \cap Sent(req) = {}
\* Items may stop to wait while responses are looked at, or before anything was asked.
MayStopWaiting(s, k, k2, jobs, req) ==
  /\ InResults(k, s) \/ Unused(s, jobs, req)
  /\ k2.stage = s => k2.pc \notin {"submit", "created"} /\ ~Polling(k2)

\* A stage of which no request changes.
LEMMA SendsFrame ==
  ASSUME NEW s \in Stages, NEW jobs \in Seq(JobEntry), NEW waiting \in SUBSET Items, NEW waiting2 \in SUBSET Items,
         NEW req, NEW req2, NEW bat, NEW bat2, NEW k, NEW k2,
         SendsOK(s, k, jobs, waiting, req, bat),
         BatchesGrow(bat, bat2), SameRequests(s, req, req2), Later(s, k, k2),
         waiting2 = waiting \/ MayStopWaiting(s, k, k2, jobs, req)
  PROVE  SendsOK(s, k2, jobs, waiting2, req2, bat2)
<1>1. ListOK(s, jobs, bat) /\ ListOK(s, jobs, bat2)
  BY DEF SendsOK, ListOK, Born, BatchesGrow
<1>2. \A c : Accounted(s, c, jobs, req, bat) => Accounted(s, c, jobs, req2, bat2)
  BY <1>1, AccountedStays
<1>3. Slice(s, waiting, req2) = Slice(s, waiting, req) /\ Open(s, waiting, req2) = Open(s, waiting, req)
  BY SameSets
<1>4. \A c \in SUBSET Of(s) : c \ Answered(req2) = c \ Answered(req)
  BY SameSets
<1>5. Lead(jobs, req2) = Lead(jobs, req)
  <2>1. \A h \in Of(s) : (h \in Answered(req2)) <=> (h \in Answered(req))
    BY DEF SameRequests
  <2>2. \A n \in DOMAIN jobs : (jobs[n].hashes \subseteq Answered(req2)) <=> (jobs[n].hashes \subseteq Answered(req))
    BY <1>1, <2>1 DEF ListOK
  <2>. QED  BY <2>2 DEF Lead
<1>6. ASSUME NEW c \in SUBSET Of(s), Torn(s, c, First(k, s), jobs, waiting, req, bat), k2.stage = s
      PROVE  Torn(s, c, First(k2, s), jobs, waiting, req2, bat2)
  <2>1. \A n \in DOMAIN jobs : First(k, s) <= n => First(k2, s) <= n
    BY <1>6 DEF Later
  <2>2. PICK n \in DOMAIN jobs :
               /\ First(k, s) <= n /\ jobs[n].hashes = c /\ bat[jobs[n].batch].state = "succeeded"
               /\ c \ Answered(req) \subseteq bat[jobs[n].batch].missing
    BY <1>6 DEF Torn
  <2>3. bat2[jobs[n].batch].state = "succeeded" /\ bat2[jobs[n].batch].missing = bat[jobs[n].batch].missing
    BY <1>1, <2>2 DEF ListOK, Born, BatchesGrow
  <2>. QED  BY <1>3, <1>4, <1>6, <2>1, <2>2, <2>3 DEF Torn
<1>7. ASSUME NEW c \in SUBSET Of(s), Torn(s, c, First(k, s), jobs, waiting, req, bat), k2.stage # s
      PROVE  Torn(s, c, First(k2, s), jobs, waiting, req2, bat2)
  <2>1. \A n \in DOMAIN jobs : First(k2, s) <= n
    BY <1>7 DEF First, InJobs
  <2>2. PICK n \in DOMAIN jobs :
               /\ jobs[n].hashes = c /\ bat[jobs[n].batch].state = "succeeded"
               /\ c \ Answered(req) \subseteq bat[jobs[n].batch].missing
    BY <1>7 DEF Torn
  <2>3. bat2[jobs[n].batch].state = "succeeded" /\ bat2[jobs[n].batch].missing = bat[jobs[n].batch].missing
    BY <1>1, <2>2 DEF ListOK, Born, BatchesGrow
  <2>. QED  BY <1>3, <1>4, <1>7, <2>1, <2>2, <2>3 DEF Torn
<1>8. Unused(s, jobs, req) => Accounted(s, {}, jobs, req, bat)
  BY DEF Unused, Accounted
<1>9. /\ InResults(k2, s) => InResults(k, s)
      /\ InSlices(k2, s) => InSlices(k, s)
  BY DEF Later, InResults, InSlices
<1>10. StageOK(s, k2, jobs, waiting2, req2, bat2)
  <2>1. CASE Accounted(s, {}, jobs, req, bat)
    BY <1>2, <2>1 DEF StageOK
  <2>2. CASE ~Accounted(s, {}, jobs, req, bat)
    <3>1. ~InResults(k, s) /\ waiting2 = waiting
      BY <1>8, <2>2 DEF SendsOK, StageOK, MayStopWaiting
    <3>2. CASE Accounted(s, Slice(s, waiting, req), jobs, req, bat)
      BY <1>2, <1>3, <1>9, <3>1, <3>2 DEF StageOK
    <3>3. CASE /\ ~InSlices(k, s)
               /\ \E c \in SUBSET Of(s) :
                    Accounted(s, c, jobs, req, bat) /\ Torn(s, c, First(k, s), jobs, waiting, req, bat)
      <4>1. PICK c \in SUBSET Of(s) :
                   Accounted(s, c, jobs, req, bat) /\ Torn(s, c, First(k, s), jobs, waiting, req, bat)
        BY <3>3
      <4>2. Accounted(s, c, jobs, req2, bat2) /\ Torn(s, c, First(k2, s), jobs, waiting, req2, bat2)
        BY <1>2, <1>6, <1>7, <4>1
      <4>. QED  BY <1>9, <3>1, <3>3, <4>2 DEF StageOK
    <3>. QED  BY <2>2, <3>2, <3>3 DEF SendsOK, StageOK
  <2>. QED  BY <2>1, <2>2
<1>11. FirstCancelled(jobs, req, bat) => FirstCancelled(jobs, req2, bat2)
  BY <1>1, <1>5 DEF FirstCancelled, ListOK, Born, BatchesGrow, Lead
<1>12. OneBatch(jobs, req) => OneBatch(jobs, req2)
  <2>. SUFFICES ASSUME OneBatch(jobs, req) PROVE OneBatch(jobs, req2)
    OBVIOUS
  <2>1. PICK b \in Batches : \A n \in Lead(jobs, req) :
               /\ jobs[n].batch = b
               /\ \A h \in jobs[n].hashes \ Answered(req) : h \in Sent(req) /\ req[h].batch_name = b
    BY DEF OneBatch
  <2>2. \A n \in Lead(jobs, req) : jobs[n].hashes \subseteq Of(s)
    BY <1>1 DEF Lead, ListOK
  <2>3. \A h \in Of(s) : h \in Sent(req) => h \in Sent(req2) /\ req2[h].batch_name = req[h].batch_name
    BY DEF SameRequests
  <2>4. \A n \in Lead(jobs, req) : \A h \in jobs[n].hashes \ Answered(req2) : h \in Sent(req2) /\ req2[h].batch_name = b
    BY <1>4, <2>1, <2>2, <2>3
  <2>. QED  BY <1>5, <2>1, <2>4 DEF OneBatch
<1>13. AllRefused(jobs, req) => AllRefused(jobs, req2)
  <2>1. \A h \in Of(s) : (h \in Answered(req) \cup Refused(req)) => (h \in Answered(req2) \cup Refused(req2))
    BY DEF SameRequests
  <2>2. \A n \in Lead(jobs, req) : jobs[n].hashes \subseteq Of(s)
    BY <1>1 DEF Lead, ListOK
  <2>. QED  BY <1>5, <2>1, <2>2 DEF AllRefused
<1>14. LeadOK(s, k2, jobs, req2, bat2)
  <2>1. \A n \in DOMAIN jobs : n < First(k2, s) => n < First(k, s)
    BY DEF Later, First, InJobs
  <2>. QED  BY <1>5, <1>11, <1>12, <1>13, <2>1 DEF SendsOK, LeadOK, Lead
<1>15. WorkOK(s, k2, jobs, waiting2, req2, bat2)
  <2>. SUFFICES ASSUME k2.stage = s PROVE WorkOK(s, k2, jobs, waiting2, req2, bat2)
    BY DEF WorkOK
  <2>1. k2.pc \in {"submit", "created"} \/ Polling(k2) => waiting2 = waiting /\ k.stage = s
    BY DEF MayStopWaiting, Later
  <2>2. k2.pc \in {"slice", "submit", "created"} => k2.job = 0
    BY DEF SendsOK, WorkOK, Later
  <2>3. k2.pc \in {"submit", "created"} => k2.hashes = Slice(s, waiting2, req2) /\ FirstCancelled(jobs, req2, bat2)
    BY <1>3, <1>11, <2>1 DEF SendsOK, WorkOK, Later
  <2>4. k2.pc = "created" => Born(bat2, k2.batch) /\ bat2[k2.batch].asked = k2.hashes
    BY <2>1 DEF SendsOK, WorkOK, Later, Born, BatchesGrow
  <2>5. Polling(k2) /\ k2.job = 0 =>
          /\ k2.hashes = Slice(s, waiting2, req2) /\ k2.hashes \subseteq Sent(req2)
          /\ \E n \in DOMAIN jobs : jobs[n].batch = k2.batch /\ jobs[n].hashes = k2.hashes
    <3>1. Slice(s, waiting, req) \subseteq Of(s)
      BY SliceFacts
    <3>. QED  BY SMTT(30), <1>3, <2>1, <3>1, SameSets DEF SendsOK, WorkOK, Later
  <2>6. Polling(k2) /\ k2.job # 0 =>
          /\ k2.job \in DOMAIN jobs /\ k2.batch = jobs[k2.job].batch
          /\ k2.hashes = jobs[k2.job].hashes \cap Open(s, waiting2, req2)
    BY <1>3, <2>1 DEF SendsOK, WorkOK, Later
  <2>. QED  BY <2>2, <2>3, <2>4, <2>5, <2>6 DEF WorkOK
<1>. QED  BY <1>1, <1>10, <1>14, <1>15 DEF SendsOK

\* A stage of which everything asked is over.
LEMMA OverIsSound ==
  ASSUME NEW s \in Stages, NEW jobs \in Seq(JobEntry), NEW waiting, NEW req, NEW bat, NEW k,
         Accounted(s, {}, jobs, req, bat), ListOK(s, jobs, bat),
         k.stage = s => k.pc \notin {"submit", "created"} /\ ~Polling(k) /\ (k.pc = "slice" => k.job = 0)
  PROVE  SendsOK(s, k, jobs, waiting, req, bat)
<1>1. Lead(jobs, req) = {}
  BY DEF Lead, Accounted
<1>. QED  BY <1>1 DEF SendsOK, StageOK, LeadOK, FirstCancelled, WorkOK

\* The set a stage has under way is still open, as far as it is not answered.
LEMMA UnderWay ==
  ASSUME NEW s \in Stages, NEW jobs, NEW waiting \in SUBSET Items, NEW req, NEW bat, NEW k,
         StageOK(s, k, jobs, waiting, req, bat), ~Accounted(s, {}, jobs, req, bat)
  PROVE  \E c \in SUBSET Of(s) :
           /\ Accounted(s, c, jobs, req, bat) /\ c \ Answered(req) \subseteq Open(s, waiting, req)
           /\ \/ c = Slice(s, waiting, req)
              \/ ~InSlices(k, s) /\ Torn(s, c, First(k, s), jobs, waiting, req, bat)
BY SliceFacts DEF StageOK, Torn

\* What is accounted for and over leaves nothing to account for.
LEMMA OverAccounted ==
  ASSUME NEW s \in Stages, NEW jobs, NEW req, NEW bat, NEW c,
         Accounted(s, c, jobs, req, bat), c \subseteq Answered(req)
  PROVE  Accounted(s, {}, jobs, req, bat)
<1>1. \A h \in c : h \notin Sent(req)
  BY DEF Answered, Sent
<1>. QED  BY <1>1 DEF Accounted

\* Whatever a listed job still lacks is open.
LEMMA LeadIsOpen ==
  ASSUME NEW s \in Stages, NEW jobs, NEW waiting \in SUBSET Items, NEW req, NEW bat, NEW k,
         StageOK(s, k, jobs, waiting, req, bat), NEW n \in DOMAIN jobs
  PROVE  jobs[n].hashes \ Answered(req) \subseteq Open(s, waiting, req)
<1>1. CASE Accounted(s, {}, jobs, req, bat)
  BY <1>1 DEF Accounted
<1>2. CASE ~Accounted(s, {}, jobs, req, bat)
  BY <1>2, UnderWay DEF Accounted
<1>. QED  BY <1>1, <1>2

\* While the slices are asked, the set under way is the next slice.
LEMMA SliceAccounted ==
  ASSUME NEW s \in Stages, NEW jobs, NEW waiting \in SUBSET Items, NEW req, NEW bat, NEW k,
         StageOK(s, k, jobs, waiting, req, bat), InSlices(k, s)
  PROVE  Accounted(s, Slice(s, waiting, req), jobs, req, bat)
BY DEF StageOK, Accounted

\* The first of the listed jobs that are not over.
LEMMA FirstLead ==
  ASSUME NEW jobs \in Seq(JobEntry), NEW req, Lead(jobs, req) # {}
  PROVE  \E n \in Lead(jobs, req) : \A m \in Lead(jobs, req) : n <= m
<1>1. Lead(jobs, req) \in SUBSET Nat
  BY DEF Lead
<1>. QED  BY <1>1, MinIsLeast

\* The next listed job to poll is found, or there is none.
LEMMA ResumeKeeps ==
  ASSUME NEW s \in Stages, NEW jobs \in Seq(JobEntry), NEW waiting \in SUBSET Items, NEW req, NEW bat,
         NEW k, NEW k2, SendsOK(s, k, jobs, waiting, req, bat),
         k.stage = s, k.pc = "jobs", k.job \in Nat, k2.stage = s,
         \/ /\ k2.pc = "slice" /\ k2.job = 0
            /\ \A n \in DOMAIN jobs : k.job <= n => jobs[n].hashes \cap Open(s, waiting, req) = {}
         \/ /\ k2.pc = "poll" /\ k2.job \in DOMAIN jobs /\ k.job <= k2.job /\ k2.batch = jobs[k2.job].batch
            /\ k2.hashes = jobs[k2.job].hashes \cap Open(s, waiting, req)
            /\ \A n \in DOMAIN jobs :
                 k.job <= n /\ n < k2.job => jobs[n].hashes \cap Open(s, waiting, req) = {}
  PROVE  SendsOK(s, k2, jobs, waiting, req, bat)
<1>1. First(k, s) = k.job /\ First(k2, s) = (IF k2.pc = "poll" THEN k2.job ELSE 1) /\ DOMAIN jobs \subseteq Nat \ {0}
  BY DEF First, InJobs, Polling
<1>2. \A n \in DOMAIN jobs :
        jobs[n].hashes \cap Open(s, waiting, req) = {} => jobs[n].hashes \subseteq Answered(req)
  BY LeadIsOpen DEF SendsOK
<1>3. StageOK(s, k2, jobs, waiting, req, bat)
  <2>. SUFFICES ASSUME ~Accounted(s, {}, jobs, req, bat) PROVE StageOK(s, k2, jobs, waiting, req, bat)
    BY DEF StageOK
  <2>0. ~InResults(k2, s)
    BY DEF InResults
  <2>1. CASE Accounted(s, Slice(s, waiting, req), jobs, req, bat)
    BY <2>0, <2>1 DEF StageOK
  <2>2. CASE ~Accounted(s, Slice(s, waiting, req), jobs, req, bat)
    <3>1. PICK c \in SUBSET Of(s) : Accounted(s, c, jobs, req, bat) /\ Torn(s, c, k.job, jobs, waiting, req, bat)
      BY <1>1, <2>2 DEF SendsOK, StageOK
    <3>2. PICK n \in DOMAIN jobs :
                 /\ k.job <= n /\ jobs[n].hashes = c /\ bat[jobs[n].batch].state = "succeeded"
                 /\ c \ Answered(req) \subseteq bat[jobs[n].batch].missing
      BY <3>1 DEF Torn
    <3>3. ~(c \subseteq Answered(req))
      BY <3>1, OverAccounted
    <3>4. k2.pc = "poll" /\ k2.job <= n
      BY <1>1, <1>2, <3>2, <3>3
    <3>5. Torn(s, c, First(k2, s), jobs, waiting, req, bat) /\ ~InSlices(k2, s)
      BY <1>1, <3>1, <3>2, <3>4 DEF Torn, InSlices, Polling
    <3>. QED  BY <2>0, <3>1, <3>5 DEF StageOK
  <2>. QED  BY <2>1, <2>2
<1>4. LeadOK(s, k2, jobs, req, bat)
  <2>1. ASSUME NEW n \in Lead(jobs, req), n < First(k2, s) PROVE n < First(k, s)
    BY <1>1, <1>2, <2>1 DEF Lead
  <2>. QED  BY <2>1 DEF SendsOK, LeadOK
<1>5. WorkOK(s, k2, jobs, waiting, req, bat)
  BY <1>1 DEF WorkOK, Polling
<1>. QED  BY <1>3, <1>4, <1>5 DEF SendsOK

\* Nothing is left to ask: the responses are looked at.
LEMMA ValidateKeeps ==
  ASSUME NEW s \in Stages, NEW jobs \in Seq(JobEntry), NEW waiting \in SUBSET Items, NEW req, NEW bat,
         NEW k, NEW k2, SendsOK(s, k, jobs, waiting, req, bat),
         k.stage = s, k.pc = "slice", k2.stage = s, k2.pc = "validate", Slice(s, waiting, req) = {}
  PROVE  SendsOK(s, k2, jobs, waiting, req, bat)
<1>1. Accounted(s, {}, jobs, req, bat)
  BY SliceAccounted DEF SendsOK, InSlices
<1>. QED  BY <1>1, OverIsSound DEF SendsOK, Polling

\* The next slice is to be submitted.
LEMMA SubmitKeeps ==
  ASSUME NEW s \in Stages, NEW jobs \in Seq(JobEntry), NEW waiting \in SUBSET Items, NEW req, NEW bat,
         NEW k, NEW k2, SendsOK(s, k, jobs, waiting, req, bat),
         k.stage = s, k.pc = "slice", k2.stage = s, k2.pc = "submit", k2.job = k.job,
         k2.hashes = Slice(s, waiting, req), Slice(s, waiting, req) \cap Sent(req) = {}
  PROVE  SendsOK(s, k2, jobs, waiting, req, bat)
<1>1. Accounted(s, Slice(s, waiting, req), jobs, req, bat)
  BY SliceAccounted DEF SendsOK, InSlices
<1>2. FirstCancelled(jobs, req, bat)
  <2>. SUFFICES ASSUME OneBatch(jobs, req) PROVE Lead(jobs, req) = {}
    BY DEF SendsOK, LeadOK, FirstCancelled
  <2>. SUFFICES ASSUME NEW n \in Lead(jobs, req) PROVE FALSE
    OBVIOUS
  <2>1. jobs[n].hashes = Slice(s, waiting, req)
    BY <1>1 DEF Accounted, Lead
  <2>. QED  BY <2>1 DEF OneBatch, Lead
<1>3. First(k2, s) = First(k, s) /\ ~InResults(k2, s)
  BY DEF First, InJobs, InResults, Polling
<1>4. StageOK(s, k2, jobs, waiting, req, bat)
  BY <1>1, <1>3 DEF StageOK
<1>5. WorkOK(s, k2, jobs, waiting, req, bat)
  BY <1>2 DEF SendsOK, WorkOK, Polling
<1>. QED  BY <1>3, <1>4, <1>5 DEF SendsOK, LeadOK

\* The job was created.
LEMMA CreatedKeeps ==
  ASSUME NEW s \in Stages, NEW jobs \in Seq(JobEntry), NEW waiting \in SUBSET Items, NEW req, NEW bat,
         NEW k, NEW k2, SendsOK(s, k, jobs, waiting, req, bat),
         k.stage = s, k.pc = "submit", k2.stage = s, k2.pc = "created", k2.job = k.job, k2.hashes = k.hashes,
         Born(bat, k2.batch), bat[k2.batch].asked = k.hashes
  PROVE  SendsOK(s, k2, jobs, waiting, req, bat)
<1>1. First(k2, s) = First(k, s) /\ ~InResults(k2, s) /\ InSlices(k, s)
  BY DEF First, InJobs, InResults, InSlices, Polling
<1>2. StageOK(s, k2, jobs, waiting, req, bat)
  BY <1>1 DEF SendsOK, StageOK
<1>3. WorkOK(s, k2, jobs, waiting, req, bat)
  BY DEF SendsOK, WorkOK, Polling
<1>. QED  BY <1>1, <1>2, <1>3 DEF SendsOK, LeadOK

\* Requests of the slice are noted as submitted to a job that was asked for it.
Submits(req, req2, sent, b) ==
  /\ \A h \in sent : h \in Sent(req2) /\ req2[h].batch_name = b
  /\ \A h \in Hash \ sent : req2[h] = req[h]

\* The slice is submitted to a job that was asked for it: what the stage says of its requests goes on.
LEMMA SentKeeps ==
  ASSUME NEW s \in Stages, NEW jobs \in Seq(JobEntry), NEW waiting \in SUBSET Items, NEW req, NEW req2, NEW bat,
         NEW k, NEW b, NEW sent, SendsOK(s, k, jobs, waiting, req, bat),
         k.stage = s, k.pc \in {"slice", "created"}, sent \subseteq Slice(s, waiting, req),
         Born(bat, b), bat[b].asked = Slice(s, waiting, req), Submits(req, req2, sent, b),
         sent \cap Sent(req) = {} \/ FirstCancelled(jobs, req, bat)
  PROVE  SendsOK(s, k, jobs, waiting, req2, bat)
<1>1. /\ sent \cap Answered(req) = {} /\ sent \subseteq Of(s) /\ Of(s) \subseteq Hash
      /\ sent \cap Answered(req2) = {}
  BY SliceFacts DEF Of, Submits, Sent, Answered
<1>2. Answered(req2) = Answered(req)
  BY <1>1 DEF Submits, Answered
<1>3. Open(s, waiting, req2) = Open(s, waiting, req)
  BY <1>2 DEF Open
<1>4. Slice(s, waiting, req2) = Slice(s, waiting, req)
  BY <1>3 DEF Slice
<1>5. InSlices(k, s) /\ ~InResults(k, s) /\ First(k, s) = 1 /\ ~Polling(k)
  BY DEF InSlices, InResults, First, InJobs, Polling
<1>6. Accounted(s, Slice(s, waiting, req), jobs, req, bat)
  BY <1>5, SliceAccounted DEF SendsOK
<1>7. Accounted(s, Slice(s, waiting, req2), jobs, req2, bat)
  <2>1. ASSUME NEW h \in Of(s) \cap Sent(req2)
        PROVE  /\ h \in Slice(s, waiting, req)
               /\ Born(bat, req2[h].batch_name) /\ bat[req2[h].batch_name].asked = Slice(s, waiting, req)
    <3>1. CASE h \in sent
      BY <3>1 DEF Submits
    <3>2. CASE h \notin sent
      BY <1>1, <1>6, <3>2 DEF Submits, Accounted, Sent
    <3>. QED  BY <3>1, <3>2
  <2>. QED  BY <1>2, <1>4, <1>6, <2>1 DEF Accounted
<1>8. Lead(jobs, req2) = Lead(jobs, req)
  BY <1>2 DEF Lead
<1>9. FirstCancelled(jobs, req, bat) => FirstCancelled(jobs, req2, bat)
  BY <1>8 DEF FirstCancelled
<1>10. sent \cap Sent(req) = {} /\ OneBatch(jobs, req) => OneBatch(jobs, req2)
  <2>. SUFFICES ASSUME sent \cap Sent(req) = {}, OneBatch(jobs, req) PROVE OneBatch(jobs, req2)
    OBVIOUS
  <2>1. \A h \in Sent(req) : req2[h] = req[h] /\ h \in Sent(req2)
    BY DEF Submits, Sent
  <2>. QED  BY <1>2, <1>8, <2>1 DEF OneBatch
<1>11. LeadOK(s, k, jobs, req2, bat)
  BY <1>5, <1>8, <1>9, <1>10 DEF SendsOK, LeadOK, Lead
<1>12. WorkOK(s, k, jobs, waiting, req2, bat)
  BY <1>4, <1>5, <1>9 DEF SendsOK, WorkOK
<1>. QED  BY <1>5, <1>7, <1>11, <1>12 DEF SendsOK, StageOK

\* The job of the slice is listed, once all of the slice is noted as submitted to it.
LEMMA ListedKeeps ==
  ASSUME NEW s \in Stages, NEW jobs \in Seq(JobEntry), NEW waiting \in SUBSET Items, NEW req, NEW bat,
         NEW k, NEW k2, NEW b \in Batches, SendsOK(s, k, jobs, waiting, req, bat),
         k.stage = s, k.pc \in {"slice", "created"},
         Born(bat, b), bat[b].asked = Slice(s, waiting, req), Slice(s, waiting, req) \subseteq Sent(req),
         \A h \in Slice(s, waiting, req) : req[h].batch_name = b,
         k2.stage = s, k2.pc = "poll", k2.job = 0, k2.hashes = Slice(s, waiting, req), k2.batch = b
  PROVE  SendsOK(s, k2, Append(jobs, NewEntry(b, Slice(s, waiting, req))), waiting, req, bat)
<1>. DEFINE slice == Slice(s, waiting, req)
            new == Append(jobs, NewEntry(b, slice))
            last == Len(jobs) + 1
<1>1. /\ DOMAIN new = DOMAIN jobs \cup {last} /\ DOMAIN jobs \subseteq Nat /\ last \in Nat
      /\ \A n \in DOMAIN jobs : new[n] = jobs[n] /\ n < last
      /\ new[last].batch = b /\ new[last].hashes = slice
  <2>1. slice \in SUBSET Hash
    BY SliceFacts DEF Of
  <2>2. NewEntry(b, slice) \in JobEntry
    BY <2>1 DEF NewEntry, JobEntry
  <2>. HIDE DEF slice
  <2>. QED  BY <2>2 DEF NewEntry
<1>. HIDE DEF new, last
<1>2. InSlices(k, s) /\ ~InResults(k2, s) /\ First(k2, s) = 1
  BY DEF InSlices, InResults, First, InJobs, Polling
<1>3. Accounted(s, slice, jobs, req, bat)
  BY <1>2, SliceAccounted DEF SendsOK
<1>4. Accounted(s, slice, new, req, bat)
  BY <1>1, <1>3 DEF Accounted
<1>5. ListOK(s, new, bat)
  <2>1. slice \subseteq Of(s)
    BY SliceFacts
  <2>. QED  BY <1>1, <2>1 DEF SendsOK, ListOK
<1>6. Lead(jobs, req) \subseteq Lead(new, req) /\ Lead(new, req) \subseteq Lead(jobs, req) \cup {last}
  BY <1>1 DEF Lead
<1>7. \A n \in Lead(new, req) : new[n].hashes = slice
  BY <1>4 DEF Accounted, Lead
<1>8. OneBatch(new, req) \/ FirstCancelled(new, req, bat)
  <2>1. CASE \A n \in Lead(jobs, req) : jobs[n].batch = b
    <3>1. \A n \in Lead(new, req) : new[n].batch = b
      BY <1>1, <1>6, <2>1 DEF Lead
    <3>. QED  BY <1>7, <3>1 DEF OneBatch
  <2>2. CASE ~(\A n \in Lead(jobs, req) : jobs[n].batch = b)
    <3>1. PICK n \in Lead(jobs, req) : jobs[n].batch # b
      BY <2>2
    <3>2. PICK h \in slice : h \notin Answered(req) /\ jobs[n].hashes = slice
      BY <1>1, <1>6, <1>7 DEF Lead
    <3>3. ~OneBatch(jobs, req)
      BY <3>1, <3>2 DEF OneBatch
    <3>4. FirstCancelled(jobs, req, bat)
      BY <3>3 DEF SendsOK, LeadOK
    <3>5. FirstCancelled(new, req, bat)
      <4>. SUFFICES ASSUME NEW m \in Lead(new, req), \A l \in Lead(new, req) : m <= l
                    PROVE  bat[new[m].batch].state = "cancelled"
        BY DEF FirstCancelled
      <4>1. n \in DOMAIN jobs /\ m <= n
        BY <1>6 DEF Lead
      <4>2. m # last
        BY <1>1, <4>1
      <4>3. m \in Lead(jobs, req) /\ \A l \in Lead(jobs, req) : m <= l
        BY <1>6, <4>2
      <4>4. new[m] = jobs[m]
        BY <1>1, <4>3 DEF Lead
      <4>. QED  BY <3>4, <4>3, <4>4 DEF FirstCancelled
    <3>. QED  BY <3>5
  <2>. QED  BY <2>1, <2>2
<1>9. LeadOK(s, k2, new, req, bat)
  <2>1. \A n \in Lead(new, req) : ~(n < First(k2, s))
    BY <1>1, <1>2 DEF Lead, last
  <2>. QED  BY <1>8, <2>1 DEF LeadOK
<1>10. WorkOK(s, k2, new, waiting, req, bat)
  BY <1>1 DEF WorkOK, Polling
<1>. QED  BY <1>2, <1>4, <1>5, <1>9, <1>10 DEF SendsOK, StageOK, new

\* Answers for some requests, and a cancellation noted for others.
Answers(req, req2, rows) ==
  /\ Answered(req2) = Answered(req) \cup rows /\ Sent(req2) = Sent(req) \ rows
  /\ \A h \in Sent(req2) : req2[h].batch_name = req[h].batch_name
  /\ \A h \in Hash \ rows : req2[h] = req[h]
Refuses(req, req2, hashes) ==
  /\ Answered(req2) = Answered(req) /\ Sent(req2) = Sent(req) \ hashes
  /\ Refused(req) \cup hashes \subseteq Refused(req2)
  /\ \A h \in Sent(req2) : req2[h].batch_name = req[h].batch_name

\* Answers account for what was accounted for.
LEMMA AnswersAccounted ==
  ASSUME NEW s \in Stages, NEW jobs, NEW req, NEW req2, NEW bat, NEW c, NEW rows,
         Accounted(s, c, jobs, req, bat), Answers(req, req2, rows)
  PROVE  Accounted(s, c, jobs, req2, bat)
BY DEF Accounted, Answers

\* Answers that were known before, or of another stage, change nothing.
LEMMA AnswersFrame ==
  ASSUME NEW s \in Stages, NEW req, NEW req2, NEW rows \in SUBSET Hash, Answers(req, req2, rows),
         rows \subseteq Answered(req) \/ rows \cap Of(s) = {}
  PROVE  SameRequests(s, req, req2)
<1>1. Of(s) \subseteq Hash /\ \A h \in Hash : ~(h \in Answered(req) /\ h \in Refused(req))
  BY DEF Of, Answered, Refused
<1>2. \A h \in Hash : ~(h \in Answered(req2) /\ h \in Refused(req2)) /\ ~(h \in Answered(req) /\ h \in Sent(req))
  BY DEF Answered, Refused, Sent
<1>3. \A h \in Of(s) \ rows : (h \in Refused(req2)) <=> (h \in Refused(req))
  BY <1>1 DEF Answers, Refused
<1>4. \A h \in Of(s) \cap rows : h \notin Refused(req2) /\ h \notin Refused(req)
  BY <1>1, <1>2 DEF Answers
<1>5. \A h \in Of(s) : ((h \in Answered(req2)) <=> (h \in Answered(req))) /\ ((h \in Sent(req2)) <=> (h \in Sent(req)))
  BY <1>1, <1>2 DEF Answers
<1>6. \A h \in Of(s) \cap Sent(req) : req2[h].batch_name = req[h].batch_name
  BY <1>5 DEF Answers
<1>. QED  BY <1>3, <1>4, <1>5, <1>6 DEF SameRequests

\* The worker stops polling and does not come back to it.
Leaves(s, k2) ==
  k2.stage = s => /\ ~InJobs(k2, s) /\ ~InResults(k2, s) /\ ~InSlices(k2, s)
PollDone(s, k, k2) ==
  k2.stage = s /\ \/ k2.pc = "interrupted"
                  \/ k.job = 0 /\ k2.pc = "slice" /\ k2.job = 0
                  \/ k.job # 0 /\ k2.pc = "jobs" /\ k2.job = k.job + 1

\* A listed job is passed, at its end or after a timeout.
LEMMA PassedKeeps ==
  ASSUME NEW s \in Stages, NEW jobs \in Seq(JobEntry), NEW waiting \in SUBSET Items, NEW req, NEW bat,
         NEW k, NEW k2, SendsOK(s, k, jobs, waiting, req, bat),
         k.stage = s, k.pc = "polling", k.job \in Nat, k.job # 0, k2.stage = s,
         \/ k2.pc = "jobs" /\ k2.job = k.job + 1
         \/ k2.pc = "timed_out" /\ k2.job = k.job /\ k2.hashes = k.hashes /\ k2.batch = k.batch,
         bat[k.batch].state # "succeeded" \/ jobs[k.job].hashes \subseteq Answered(req),
         \/ jobs[k.job].hashes \subseteq Answered(req)
         \/ bat[k.batch].state # "cancelled"
         \/ AllRefused(jobs, req)
  PROVE  SendsOK(s, k2, jobs, waiting, req, bat)
<1>1. /\ First(k, s) = k.job /\ First(k2, s) = k.job + 1 /\ DOMAIN jobs \subseteq Nat
      /\ ~InResults(k2, s) /\ ~InSlices(k2, s)
  BY DEF First, InJobs, InResults, InSlices, Polling
<1>2. k.job \in DOMAIN jobs /\ k.batch = jobs[k.job].batch
  BY DEF SendsOK, WorkOK, Polling
<1>3. StageOK(s, k2, jobs, waiting, req, bat)
  <2>1. CASE \/ Accounted(s, {}, jobs, req, bat)
             \/ Accounted(s, Slice(s, waiting, req), jobs, req, bat)
    BY <1>1, <2>1 DEF StageOK
  <2>2. ASSUME NEW c \in SUBSET Of(s), Accounted(s, c, jobs, req, bat), Torn(s, c, k.job, jobs, waiting, req, bat),
               ~Accounted(s, {}, jobs, req, bat)
        PROVE  StageOK(s, k2, jobs, waiting, req, bat)
    <3>1. PICK n \in DOMAIN jobs :
                 /\ k.job <= n /\ jobs[n].hashes = c /\ bat[jobs[n].batch].state = "succeeded"
                 /\ c \ Answered(req) \subseteq bat[jobs[n].batch].missing
      BY <2>2 DEF Torn
    <3>2. ~(c \subseteq Answered(req))
      BY <2>2, OverAccounted
    <3>3. n # k.job
      BY <1>2, <3>1, <3>2
    <3>4. k.job + 1 <= n
      BY <1>1, <3>1, <3>3
    <3>5. Torn(s, c, First(k2, s), jobs, waiting, req, bat)
      BY <1>1, <2>2, <3>1, <3>4 DEF Torn
    <3>. QED  BY <1>1, <2>2, <3>5 DEF StageOK
  <2>. QED  BY <1>1, <2>1, <2>2 DEF SendsOK, StageOK
<1>4. LeadOK(s, k2, jobs, req, bat)
  <2>. SUFFICES ASSUME NEW n \in Lead(jobs, req), n < k.job + 1, ~AllRefused(jobs, req), ~OneBatch(jobs, req)
                PROVE  FALSE
    BY <1>1 DEF SendsOK, LeadOK
  <2>1. \A m \in Lead(jobs, req) : m \in Nat /\ ~(m < k.job)
    BY <1>1 DEF SendsOK, LeadOK, Lead
  <2>2. n = k.job /\ bat[k.batch].state # "cancelled"
    BY <2>1 DEF Lead
  <2>3. FirstCancelled(jobs, req, bat)
    BY DEF SendsOK, LeadOK
  <2>4. \A m \in Lead(jobs, req) : n <= m
    BY <2>1, <2>2
  <2>. QED  BY <1>2, <2>2, <2>3, <2>4 DEF FirstCancelled
<1>5. WorkOK(s, k2, jobs, waiting, req, bat)
  BY DEF SendsOK, WorkOK, Polling
<1>. QED  BY <1>3, <1>4, <1>5 DEF SendsOK

\* All that was polled for is answered.
LEMMA PollOver ==
  ASSUME NEW s \in Stages, NEW jobs \in Seq(JobEntry), NEW waiting \in SUBSET Items, NEW req, NEW req2, NEW bat,
         NEW k, NEW k2, NEW rows \in SUBSET Hash, SendsOK(s, k, jobs, waiting, req, bat),
         k.stage = s, k.pc = "polling", k.job \in Nat, PollDone(s, k, k2),
         Answers(req, req2, rows), rows \subseteq k.hashes, k.hashes \subseteq Answered(req2)
  PROVE  SendsOK(s, k2, jobs, waiting, req2, bat)
<1>0. k2.pc \notin {"submit", "created"} /\ ~Polling(k2) /\ (k2.pc = "slice" => k2.job = 0) /\ Polling(k)
  BY DEF PollDone, Polling
<1>1. ASSUME NEW c, Accounted(s, c, jobs, req, bat), c \subseteq Answered(req2)
      PROVE  SendsOK(s, k2, jobs, waiting, req2, bat)
  <2>1. Accounted(s, {}, jobs, req2, bat)
    BY <1>1, AnswersAccounted, OverAccounted
  <2>. QED  BY <1>0, <2>1, OverIsSound DEF SendsOK
<1>2. CASE Accounted(s, {}, jobs, req, bat)
  BY <1>1, <1>2
<1>3. CASE ~Accounted(s, {}, jobs, req, bat) /\ k.job = 0
  <2>1. InSlices(k, s)
    BY <1>0, <1>3 DEF InSlices
  <2>2. Accounted(s, Slice(s, waiting, req), jobs, req, bat) /\ k.hashes = Slice(s, waiting, req)
    BY <1>0, <1>3, <2>1, SliceAccounted DEF SendsOK, WorkOK
  <2>. QED  BY <1>1, <2>2
<1>4. CASE ~Accounted(s, {}, jobs, req, bat) /\ k.job # 0
  <2>1. PICK c \in SUBSET Of(s) :
               Accounted(s, c, jobs, req, bat) /\ c \ Answered(req) \subseteq Open(s, waiting, req)
    BY <1>4, UnderWay DEF SendsOK
  <2>2. k.job \in DOMAIN jobs /\ k.hashes = jobs[k.job].hashes \cap Open(s, waiting, req)
    BY <1>0, <1>4 DEF SendsOK, WorkOK
  <2>3. CASE jobs[k.job].hashes = c
    <3>1. c \subseteq Answered(req2)
      BY <2>1, <2>2, <2>3 DEF Answers
    <3>. QED  BY <1>1, <2>1, <3>1
  <2>4. CASE jobs[k.job].hashes \subseteq Answered(req)
    <3>1. rows = {}
      BY <2>2, <2>4, SliceFacts
    <3>2. SameRequests(s, req, req2)
      BY <3>1, AnswersFrame
    <3>3. BatchesGrow(bat, bat) /\ Later(s, k, k)
      BY <1>0 DEF BatchesGrow, Later, SendsOK, WorkOK, Polling
    <3>4. SendsOK(s, k, jobs, waiting, req2, bat)
      BY <3>2, <3>3, SendsFrame
    <3>5. CASE k2.pc = "interrupted"
      <4>1. Later(s, k, k2)
        BY <1>0, <3>5 DEF Later, First, InJobs, InResults, InSlices
      <4>. QED  BY <3>2, <3>3, <4>1, SendsFrame
    <3>6. CASE k2.pc = "jobs" /\ k2.job = k.job + 1
      <4>1. jobs[k.job].hashes \subseteq Answered(req2)
        BY <2>4 DEF Answers
      <4>. QED  BY <1>4, <3>4, <3>6, <4>1, PassedKeeps DEF PollDone
    <3>. QED  BY <1>4, <3>5, <3>6 DEF PollDone
  <2>. QED  BY <2>1, <2>2, <2>3, <2>4 DEF Accounted
<1>. QED  BY <1>2, <1>3, <1>4

\* All that was polled for, and not answered before, is refused: the job was cancelled.
LEMMA PollRefused ==
  ASSUME NEW s \in Stages, NEW jobs \in Seq(JobEntry), NEW waiting \in SUBSET Items, NEW req, NEW req2, NEW bat,
         NEW k, NEW k2, NEW hashes, SendsOK(s, k, jobs, waiting, req, bat),
         k.stage = s, k.pc = "polling", k.job \in Nat, PollDone(s, k, k2), k2.pc # "interrupted",
         bat[k.batch].state = "cancelled", Refuses(req, req2, hashes), hashes \subseteq k.hashes,
         k.hashes \subseteq hashes \cup Refused(req)
  PROVE  SendsOK(s, k2, jobs, waiting, req2, bat)
<1>0. /\ k2.pc \notin {"submit", "created"} /\ ~Polling(k2) /\ (k2.pc = "slice" => k2.job = 0) /\ Polling(k)
      /\ ~InResults(k2, s)
  BY DEF PollDone, Polling, InResults
<1>1. Open(s, waiting, req2) = Open(s, waiting, req)
  BY DEF Refuses, Open
<1>2. Slice(s, waiting, req2) = Slice(s, waiting, req)
  BY <1>1 DEF Slice
<1>3. Lead(jobs, req2) = Lead(jobs, req) /\ DOMAIN jobs \subseteq Nat \ {0}
  BY DEF Lead, Refuses
<1>4. \A c : Accounted(s, c, jobs, req, bat) => Accounted(s, c, jobs, req2, bat)
  BY DEF Accounted, Refuses
<1>5. FirstCancelled(jobs, req2, bat) <=> FirstCancelled(jobs, req, bat)
  BY <1>3 DEF FirstCancelled
<1>6. ListOK(s, jobs, bat)
  BY DEF SendsOK
<1>7. CASE k.job = 0
  <2>1. k2.pc = "slice" /\ k2.job = 0 /\ k2.stage = s /\ First(k2, s) = 1
    BY <1>7 DEF PollDone, First, InJobs, Polling
  <2>2. Accounted(s, Slice(s, waiting, req), jobs, req, bat) /\ k.hashes = Slice(s, waiting, req)
    BY <1>0, <1>7, SliceAccounted DEF SendsOK, WorkOK, InSlices
  <2>3. StageOK(s, k2, jobs, waiting, req2, bat)
    BY <1>0, <1>2, <1>4, <2>2 DEF StageOK
  <2>4. FirstCancelled(jobs, req, bat)
    <3>. SUFFICES ASSUME OneBatch(jobs, req), Lead(jobs, req) # {} PROVE FirstCancelled(jobs, req, bat)
      BY DEF SendsOK, LeadOK, FirstCancelled
    <3>1. PICK b \in Batches : \A n \in Lead(jobs, req) : jobs[n].batch = b
      BY DEF OneBatch
    <3>2. PICK n \in DOMAIN jobs : jobs[n].batch = k.batch /\ jobs[n].hashes = k.hashes
      BY <1>0, <1>7 DEF SendsOK, WorkOK
    <3>3. n \in Lead(jobs, req)
      BY <2>2, <3>2 DEF Lead, Accounted
    <3>. QED  BY <3>1, <3>2, <3>3 DEF FirstCancelled
  <2>5. LeadOK(s, k2, jobs, req2, bat)
    BY <1>3, <1>5, <2>1, <2>4 DEF LeadOK, Lead
  <2>6. WorkOK(s, k2, jobs, waiting, req2, bat)
    BY <1>0, <2>1 DEF WorkOK
  <2>. QED  BY <1>6, <2>3, <2>5, <2>6 DEF SendsOK
<1>8. CASE k.job # 0
  <2>1. /\ k2.pc = "jobs" /\ k2.job = k.job + 1 /\ k2.stage = s /\ First(k2, s) = k.job + 1
        /\ First(k, s) = k.job /\ ~InSlices(k2, s)
    BY <1>0, <1>8 DEF PollDone, First, InJobs, InSlices, Polling
  <2>2. /\ k.job \in DOMAIN jobs /\ k.batch = jobs[k.job].batch
        /\ k.hashes = jobs[k.job].hashes \cap Open(s, waiting, req)
    BY <1>0, <1>8 DEF SendsOK, WorkOK
  <2>3. StageOK(s, k2, jobs, waiting, req2, bat)
    <3>1. CASE \/ Accounted(s, {}, jobs, req, bat)
               \/ Accounted(s, Slice(s, waiting, req), jobs, req, bat)
      BY <1>0, <1>2, <1>4, <3>1 DEF StageOK
    <3>2. ASSUME NEW c \in SUBSET Of(s), Accounted(s, c, jobs, req, bat), Torn(s, c, k.job, jobs, waiting, req, bat)
          PROVE  StageOK(s, k2, jobs, waiting, req2, bat)
      <4>1. PICK n \in DOMAIN jobs :
                   /\ k.job <= n /\ jobs[n].hashes = c /\ bat[jobs[n].batch].state = "succeeded"
                   /\ c \ Answered(req) \subseteq bat[jobs[n].batch].missing
        BY <3>2 DEF Torn
      <4>2. n # k.job
        BY <2>2, <4>1
      <4>3. k.job + 1 <= n
        BY <1>3, <4>1, <4>2
      <4>4. Torn(s, c, First(k2, s), jobs, waiting, req2, bat)
        BY <1>1, <2>1, <3>2, <4>1, <4>3 DEF Torn, Refuses
      <4>. QED  BY <1>0, <1>4, <2>1, <3>2, <4>4 DEF StageOK
    <3>. QED  BY <2>1, <3>1, <3>2 DEF SendsOK, StageOK
  <2>4. CASE k.job \in Lead(jobs, req)
    <3>1. \A n \in Lead(jobs, req) : jobs[n].hashes = jobs[k.job].hashes
      <4>1. PICK c \in SUBSET Of(s) : Accounted(s, c, jobs, req, bat)
        BY UnderWay DEF SendsOK
      <4>. QED  BY <2>4, <4>1 DEF Accounted, Lead
    <3>2. jobs[k.job].hashes \ Answered(req) \subseteq k.hashes
      BY <2>2, LeadIsOpen DEF SendsOK
    <3>3. AllRefused(jobs, req2)
      BY <1>3, <3>1, <3>2 DEF AllRefused, Refuses
    <3>4. OneBatch(jobs, req) => FirstCancelled(jobs, req, bat)
      BY <2>2, <2>4 DEF OneBatch, FirstCancelled
    <3>. QED  BY <1>0, <1>5, <1>6, <2>1, <2>3, <3>3, <3>4 DEF SendsOK, LeadOK, WorkOK
  <2>5. CASE k.job \notin Lead(jobs, req)
    <3>1. k.hashes = {}
      BY <2>2, <2>5, SliceFacts DEF Lead
    <3>2. Sent(req2) = Sent(req)
      BY <3>1 DEF Refuses
    <3>3. OneBatch(jobs, req) => OneBatch(jobs, req2)
      BY <1>3, <3>2 DEF OneBatch, Refuses
    <3>4. AllRefused(jobs, req) => AllRefused(jobs, req2)
      BY <1>3 DEF AllRefused, Refuses
    <3>5. \A n \in Lead(jobs, req) : n < k.job + 1 => n < k.job
      BY <1>3, <2>5 DEF Lead
    <3>6. LeadOK(s, k2, jobs, req2, bat)
      BY <1>3, <1>5, <2>1, <3>3, <3>4, <3>5 DEF SendsOK, LeadOK
    <3>. QED  BY <1>0, <1>6, <2>1, <2>3, <3>6 DEF SendsOK, WorkOK
  <2>. QED  BY <2>4, <2>5
<1>. QED  BY <1>7, <1>8

\* A listed job failed although everything that it was asked for had been refused.
LEMMA FailedJob ==
  ASSUME NEW s \in Stages, NEW jobs \in Seq(JobEntry), NEW waiting \in SUBSET Items, NEW req, NEW bat,
         NEW k, SendsOK(s, k, jobs, waiting, req, bat), k.stage = s, k.pc = "polling", k.job \in Nat,
         bat[k.batch].state # "cancelled"
  PROVE  k.hashes \subseteq Sent(req) \/ (k.job # 0 /\ k.hashes \subseteq Refused(req) /\ AllRefused(jobs, req))
<1>1. CASE k.job = 0
  BY <1>1 DEF SendsOK, WorkOK, Polling
<1>2. CASE k.job # 0
  <2>1. /\ k.job \in DOMAIN jobs /\ k.batch = jobs[k.job].batch
        /\ k.hashes = jobs[k.job].hashes \cap Open(s, waiting, req) /\ k.hashes \cap Answered(req) = {}
        /\ First(k, s) = k.job
    BY <1>2, SliceFacts DEF SendsOK, WorkOK, Polling, First, InJobs
  <2>2. CASE k.job \notin Lead(jobs, req)
    BY <2>1, <2>2 DEF Lead
  <2>3. CASE k.job \in Lead(jobs, req)
    <3>1. AllRefused(jobs, req) \/ OneBatch(jobs, req)
      <4>. SUFFICES ASSUME FirstCancelled(jobs, req, bat) PROVE AllRefused(jobs, req) \/ OneBatch(jobs, req)
        BY DEF SendsOK, LeadOK
      <4>1. PICK n \in Lead(jobs, req) : \A m \in Lead(jobs, req) : n <= m
        BY <2>3, FirstLead
      <4>2. bat[jobs[n].batch].state = "cancelled"
        BY <4>1 DEF FirstCancelled
      <4>3. n \in Nat /\ n # k.job /\ n <= k.job
        BY <2>1, <2>3, <4>1, <4>2 DEF Lead
      <4>. QED  BY <2>1, <4>3 DEF SendsOK, LeadOK
    <3>2. OneBatch(jobs, req) => k.hashes \subseteq Sent(req)
      BY <2>1, <2>3 DEF OneBatch
    <3>3. AllRefused(jobs, req) => k.hashes \subseteq Refused(req)
      BY <2>1, <2>3 DEF AllRefused
    <3>. QED  BY <1>2, <3>1, <3>2, <3>3
  <2>. QED  BY <2>2, <2>3
<1>. QED  BY <1>1, <1>2

\* A job that succeeded is listed, and what it did not answer is missing in its output.
LEMMA TornKeeps ==
  ASSUME NEW s \in Stages, NEW jobs \in Seq(JobEntry), NEW waiting \in SUBSET Items, NEW req, NEW req2, NEW bat,
         NEW k, NEW k2, NEW n \in DOMAIN jobs, NEW rows \in SUBSET Hash, SendsOK(s, k, jobs, waiting, req, bat),
         Leaves(s, k2), bat[jobs[n].batch].state = "succeeded", Answers(req, req2, rows), rows \subseteq jobs[n].hashes,
         jobs[n].hashes \ Answered(req) \subseteq rows \cup bat[jobs[n].batch].missing
  PROVE  SendsOK(s, k2, jobs, waiting, req2, bat)
<1>0. /\ k2.stage = s => k2.pc \notin {"slice", "submit", "created"} /\ ~Polling(k2)
      /\ ~InResults(k2, s) /\ ~InSlices(k2, s) /\ ~InJobs(k2, s) /\ First(k2, s) = 1
  BY DEF Leaves, InJobs, InSlices, InResults, First
<1>1. CASE jobs[n].hashes \subseteq Answered(req)
  <2>1. SameRequests(s, req, req2) /\ BatchesGrow(bat, bat)
    BY <1>1, AnswersFrame DEF BatchesGrow
  <2>2. Later(s, k, k2)
    BY <1>0 DEF Later
  <2>. QED  BY <2>1, <2>2, SendsFrame
<1>2. CASE ~(jobs[n].hashes \subseteq Answered(req))
  <2>1. ~Accounted(s, {}, jobs, req, bat)
    BY <1>2 DEF Accounted
  <2>2. PICK c \in SUBSET Of(s) :
               Accounted(s, c, jobs, req, bat) /\ c \ Answered(req) \subseteq Open(s, waiting, req)
    BY <2>1, UnderWay DEF SendsOK
  <2>3. jobs[n].hashes = c
    BY <1>2, <2>2 DEF Accounted
  <2>4. Accounted(s, c, jobs, req2, bat)
    BY <2>2, AnswersAccounted
  <2>5. c \ Answered(req2) \subseteq Open(s, waiting, req2)
    BY <2>2 DEF Open, Answers
  <2>6. Torn(s, c, 1, jobs, waiting, req2, bat)
    BY <2>3, <2>5 DEF Torn, Answers
  <2>7. StageOK(s, k2, jobs, waiting, req2, bat)
    BY <1>0, <2>4, <2>6 DEF StageOK
  <2>8. Lead(jobs, req2) = {} \/ Lead(jobs, req2) = Lead(jobs, req)
    <3>1. \A m \in Lead(jobs, req) : jobs[m].hashes = c
      BY <2>2 DEF Accounted, Lead
    <3>. QED  BY <3>1 DEF Lead, Answers
  <2>9. FirstCancelled(jobs, req, bat) => FirstCancelled(jobs, req2, bat)
    BY <2>8 DEF FirstCancelled
  <2>10. OneBatch(jobs, req) => OneBatch(jobs, req2)
    <3>. SUFFICES ASSUME OneBatch(jobs, req) PROVE OneBatch(jobs, req2)
      OBVIOUS
    <3>1. PICK b \in Batches : \A m \in Lead(jobs, req) :
                 /\ jobs[m].batch = b
                 /\ \A h \in jobs[m].hashes \ Answered(req) : h \in Sent(req) /\ req[h].batch_name = b
      BY DEF OneBatch
    <3>2. \A m \in Lead(jobs, req2) : \A h \in jobs[m].hashes \ Answered(req2) :
            h \in Sent(req2) /\ req2[h].batch_name = b
      BY <2>8, <3>1 DEF Answers
    <3>. QED  BY <2>8, <3>1, <3>2 DEF OneBatch
  <2>11. LeadOK(s, k2, jobs, req2, bat)
    BY <1>0, <2>9, <2>10 DEF SendsOK, LeadOK, Lead
  <2>. QED  BY <1>0, <2>7, <2>11 DEF SendsOK, WorkOK
<1>. QED  BY <1>1, <1>2

-----------------------------------------------------------------------------
(* Lemmas: what the phases of a run know is kept.                          *)

\* Two copies of the payload that the stages cannot tell apart.
Alike(p, q) ==
  /\ p.prepared = q.prepared /\ p.enable_polish = q.enable_polish /\ Succeeded(p) = Succeeded(q)
  /\ \A s \in Stages : p.jobs[s] = q.jobs[s] /\ Waiting(p, s) = Waiting(q, s)

\* The requests change: nothing is answered before a job is listed, polish is
\* asked when it is wanted, and nothing is asked of a payload without items.
LEMMA RequestsKeep ==
  ASSUME NEW r, NEW k, NEW req, NEW req2, RunOK(r, k, req),
         NoneListed(r.payload) => Answered(req2) \subseteq Answered(req),
         Of("polish") \cap Sent(req2) \subseteq Sent(req) \/ (k.stage = "polish" /\ k.pc \in AskPoints),
         r.payload.prepared \/ req2 = req
  PROVE  RunOK(r, k, req2)
<1>1. Used("polish", r.payload, req2) =>
        Used("polish", r.payload, req) \/ (k.stage = "polish" /\ k.pc \in AskPoints)
  BY DEF Used
<1>2. k.stage = "polish" /\ k.pc \in AskPoints => k.polish /\ PolishReady(r.payload) /\ PolishReady(k.mem)
  BY DEF RunOK, PolishWorks, Agree, PolishReady, AskPoints, RunPoints, Stages
<1>3. PolishWorks(r, k, req2)
  BY <1>1, <1>2 DEF RunOK, PolishWorks
<1>4. NothingListed(r, k, req2)
  BY DEF RunOK, NothingListed
<1>5. PreparedWorks(r, k, req2)
  BY DEF RunOK, PreparedWorks
<1>. QED  BY <1>3, <1>4, <1>5 DEF RunOK

\* How a worker may move from one phase to another: r and k before, r2 and k2 after.
Follows(r, k, r2, k2) ==
  /\ \/ k2.inflight = {} \/ (k2.inflight = k.inflight /\ k2.pc = k.pc /\ k2.mem.items = k.mem.items)
     \/ /\ k2.pc \in {"validate", "fallback"}
        /\ \A i \in k2.inflight :
             k2.mem.items[i][k2.stage].state = (IF k2.pc = "validate" THEN "pending" ELSE "failed")
  /\ k2.pc \in RunPoints /\ k.pc = "created" =>
       k2.pc = "created" /\ k2.batch = k.batch /\ k2.hashes = k.hashes
  /\ k2.pc \in RunPoints /\ k.pc = "apply" => k2.pc = "apply" \/ Alike(r2.payload, k.mem)
  /\ k2.pc \in {"created", "apply"} => k2.pc = k.pc
  /\ k2.pc \in AskPoints => k.pc \in AskPoints \/ (k.pc = "stage" /\ k.stage = "translation")
  /\ k2.pc = "stage" => k.pc = "stage" \/ (k.pc = "prepare" /\ Alike(r2.payload, k.mem) /\ k.mem.prepared)
  /\ k2.pc \in WorkPoints => k.pc \in WorkPoints \/ k2.pc = "stage"
  /\ k2.pc \in {"entry", "begin", "prepare"} => k.pc \in {"entry", "begin", "prepare"}
  /\ k2.pc \in ApplyPoints => k.pc \in ApplyPoints
  /\ Polling(k2) \/ k2.pc \in {"validate", "fallback"} =>
       Polling(k) \/ k.pc \in {"validate", "fallback"} \/ ~NoneListed(r2.payload)
  /\ k2.pc = "fallback" => k.pc = "fallback" \/ Waiting(k.mem, k.stage) = {}
  /\ k2.pc = "entry" /\ r2.status \in TerminalStatuses =>
       (k.pc = "entry" /\ r.status \in TerminalStatuses) \/ NoneListed(r2.payload)

\* A step that leaves the payloads as they are, as far as the stages see.
CarriesOn(r, k, r2, k2) ==
  /\ \/ Alike(r2.payload, r.payload)
     \/ k.pc \in RunPoints \ {"created"} /\ Alike(r2.payload, k.mem)
  /\ k2.pc \in RunPoints => k.pc \in RunPoints /\ Alike(k2.mem, k.mem)
  /\ k2.polish = k.polish /\ k2.stage = k.stage
  /\ Follows(r, k, r2, k2)

\* A run that goes on has the payload it had, or has written its own copy.
LEMMA CarriesOnKeeps ==
  ASSUME NEW r, NEW k, NEW r2, NEW k2, NEW req, RunOK(r, k, req), CarriesOn(r, k, r2, k2), k.stage \in Stages
  PROVE  RunOK(r2, k2, req)
<1>1. ASSUME NEW s \in Stages
      PROVE  r2.payload.jobs[s] = r.payload.jobs[s]
  BY <1>1 DEF CarriesOn, Follows, Alike, RunOK, Agree
<1>2. Used("polish", r2.payload, req) <=> Used("polish", r.payload, req)
  BY <1>1 DEF Used, Stages
<1>3. NoneListed(r2.payload) <=> NoneListed(r.payload)
  BY <1>1 DEF NoneListed
<1>4. r2.payload.prepared = r.payload.prepared
  BY DEF CarriesOn, Follows, Alike, RunOK, Agree
<1>5. Agree(r2, k2)
  <2>. SUFFICES ASSUME k2.pc \in RunPoints PROVE Agree(r2, k2)
    BY DEF Agree
  <2>1. k2.mem.prepared = r2.payload.prepared
    BY <1>4 DEF CarriesOn, Follows, Alike, RunOK, Agree
  <2>2. ASSUME NEW s \in Stages
        PROVE  k2.mem.jobs[s] = IF k2.pc = "created" /\ s = k2.stage
                                THEN Append(r2.payload.jobs[s], NewEntry(k2.batch, k2.hashes))
                                ELSE r2.payload.jobs[s]
    BY <1>1, <2>2 DEF CarriesOn, Follows, Alike, RunOK, Agree
  <2>3. ASSUME NEW s \in Stages
        PROVE  Waiting(k2.mem, s) = Waiting(r2.payload, s) \/ (k2.pc = "apply" /\ s = "polish" /\ ~k2.polish)
    BY <2>3 DEF CarriesOn, Follows, Alike, RunOK, Agree
  <2>4. k2.pc \in AskPoints \cup {"stage"} => Succeeded(k2.mem) = Succeeded(r2.payload)
    BY DEF CarriesOn, Follows, Alike, RunOK, Agree
  <2>. QED  BY <2>1, <2>2, <2>3, <2>4 DEF Agree
<1>6. PolishWorks(r2, k2, req)
  <2>1. ASSUME Used("polish", r2.payload, req)
        PROVE  PolishReady(r2.payload) /\ (k2.pc \in RunPoints => PolishReady(k2.mem))
    BY <1>2, <2>1 DEF CarriesOn, Follows, Alike, RunOK, PolishWorks, PolishReady, Stages
  <2>2. ASSUME k2.stage = "polish", k2.pc \in AskPoints
        PROVE  k2.polish /\ PolishReady(r2.payload)
    <3>1. k.stage = "polish" /\ k.pc \in AskPoints /\ k.pc \in RunPoints /\ k.pc # "apply"
      BY <2>2 DEF CarriesOn, Follows, AskPoints, RunPoints
    <3>2. Waiting(k.mem, "polish") = Waiting(r.payload, "polish") /\ Succeeded(k.mem) = Succeeded(r.payload)
      BY <3>1 DEF RunOK, Agree, Stages
    <3>3. Waiting(r2.payload, "polish") = Waiting(r.payload, "polish") /\ Succeeded(r2.payload) = Succeeded(r.payload)
      BY <3>2 DEF CarriesOn, Follows, Alike, Stages
    <3>. QED  BY <3>1, <3>3 DEF CarriesOn, Follows, RunOK, PolishWorks, PolishReady
  <2>3. ~k2.polish => ~Used("polish", r2.payload, req)
    BY <1>2 DEF CarriesOn, Follows, RunOK, PolishWorks
  <2>4. k2.polish /\ k2.pc \in ApplyPoints => Waiting(k2.mem, "polish") = {}
    <3>1. ApplyPoints \subseteq RunPoints /\ "polish" \in Stages
      BY DEF ApplyPoints, RunPoints, Stages
    <3>. QED  BY <3>1 DEF CarriesOn, Follows, Alike, RunOK, PolishWorks
  <2>. QED  BY <2>1, <2>2, <2>3, <2>4 DEF PolishWorks
<1>7. NothingListed(r2, k2, req)
  <2>1. ASSUME NoneListed(r2.payload), NEW s \in Stages
        PROVE  Waiting(r2.payload, s) = Items
    <3>1. NoneListed(r.payload) /\ Waiting(r.payload, s) = Items
      BY <1>3, <2>1 DEF RunOK, NothingListed
    <3>2. k.pc # "apply"
      BY <3>1 DEF RunOK, NothingListed, PreparedWorks, ApplyPoints
    <3>. QED  BY <3>1, <3>2 DEF CarriesOn, Follows, Alike, RunOK, Agree
  <2>2. NoneListed(r2.payload) => Answered(req) = {}
    BY <1>3 DEF RunOK, NothingListed
  <2>3. Polling(k2) \/ k2.pc \in {"validate", "fallback"} \/ k2.stage = "polish" => ~NoneListed(r2.payload)
    BY <1>3 DEF CarriesOn, Follows, RunOK, NothingListed
  <2>4. k2.pc = "entry" /\ r2.status \in TerminalStatuses => NoneListed(r2.payload)
    BY <1>3 DEF CarriesOn, Follows, RunOK, NothingListed
  <2>. QED  BY <2>1, <2>2, <2>3, <2>4 DEF NothingListed
<1>8. PreparedWorks(r2, k2, req)
  <2>1. ~r2.payload.enable_polish => ~r2.payload.prepared
    BY DEF CarriesOn, Follows, Alike, RunOK, PreparedWorks
  <2>2. k2.pc \in RunPoints => (~k2.mem.enable_polish => ~k2.mem.prepared)
    BY DEF CarriesOn, Follows, Alike, RunOK, PreparedWorks
  <2>3. k2.pc \in WorkPoints => r2.payload.prepared
    BY <1>4 DEF CarriesOn, Follows, Alike, RunOK, PreparedWorks, WorkPoints, AskPoints
  <2>4. k2.pc \in {"entry", "begin", "prepare"} => k2.stage = "translation"
    BY DEF CarriesOn, Follows, RunOK, PreparedWorks
  <2>5. k2.pc \in ApplyPoints => k2.stage = "polish"
    BY DEF CarriesOn, Follows, RunOK, PreparedWorks
  <2>. QED  BY <1>3, <1>4, <2>1, <2>2, <2>3, <2>4, <2>5 DEF PreparedWorks, RunOK
<1>9. ResultsWork(k2)
  <2>1. k2.pc = "fallback" => Waiting(k2.mem, k2.stage) = {}
    <3>1. k2.pc = "fallback" => k2.pc \in RunPoints
      BY DEF RunPoints
    <3>. QED  BY <3>1 DEF CarriesOn, Follows, Alike, RunOK, ResultsWork
  <2>. QED  BY <2>1 DEF CarriesOn, Follows, RunOK, ResultsWork
<1>. QED  BY <1>5, <1>6, <1>7, <1>8, <1>9 DEF RunOK

\* A worker that starts, or that no longer runs.
Resting(r, r2, k2) ==
  /\ Alike(r2.payload, r.payload)
  /\ k2.pc \in {"idle", "entry", "cancel"} /\ k2.inflight = {} /\ k2.stage = "translation"
  /\ k2.polish \/ ~r.payload.enable_polish
  /\ k2.pc = "entry" => r2.status \notin TerminalStatuses

\* A worker that stops, or that is new, leaves the payload of the row as it was.
LEMMA RestingKeeps ==
  ASSUME NEW r, NEW k, NEW r2, NEW k2, NEW req, RunOK(r, k, req), Resting(r, r2, k2)
  PROVE  RunOK(r2, k2, req)
<1>1. /\ k2.pc \notin RunPoints /\ k2.pc \notin AskPoints /\ k2.pc \notin WorkPoints /\ k2.pc \notin ApplyPoints
      /\ ~Polling(k2) /\ k2.pc \notin {"validate", "fallback", "begin", "prepare"}
  BY DEF Resting, RunPoints, AskPoints, WorkPoints, ApplyPoints, Polling
<1>2. Used("polish", r2.payload, req) <=> Used("polish", r.payload, req)
  BY DEF Resting, Alike, Used, Stages
<1>3. NoneListed(r2.payload) <=> NoneListed(r.payload)
  BY DEF Resting, Alike, NoneListed
<1>4. ~k2.polish => ~Used("polish", r.payload, req)
  <2>. SUFFICES ASSUME ~k2.polish PROVE ~Used("polish", r.payload, req)
    OBVIOUS
  <2>1. NoneListed(r.payload) /\ \A h \in Hash : req[h].status = "none"
    BY DEF Resting, RunOK, PreparedWorks
  <2>. QED  BY <2>1 DEF NoneListed, Used, Sent, Stages
<1>5. Agree(r2, k2) /\ ResultsWork(k2)
  BY <1>1 DEF Agree, ResultsWork, Resting
<1>6. PolishWorks(r2, k2, req)
  BY <1>1, <1>2, <1>4 DEF PolishWorks, PolishReady, Resting, RunOK, Alike, Stages
<1>7. NothingListed(r2, k2, req)
  BY <1>1, <1>3 DEF NothingListed, Resting, RunOK, Alike
<1>8. PreparedWorks(r2, k2, req)
  BY <1>1, <1>3 DEF PreparedWorks, Resting, RunOK, Alike
<1>. QED  BY <1>5, <1>6, <1>7, <1>8 DEF RunOK

\* A worker that takes its copy of the payload.
Copies(r, k, r2, k2) ==
  /\ Alike(r2.payload, r.payload) /\ k2.mem = r.payload
  /\ k2.pc = "find" \/ (k2.pc = "prepare" /\ k.pc = "begin")
  /\ k2.stage = k.stage /\ k2.polish = k.polish
  /\ k2.inflight = {}

\* A worker that reads the row has a copy of its payload.
LEMMA CopyKeeps ==
  ASSUME NEW r, NEW k, NEW r2, NEW k2, NEW req, RunOK(r, k, req), Copies(r, k, r2, k2)
  PROVE  RunOK(r2, k2, req)
<1>1. /\ k2.pc \in RunPoints /\ k2.pc \notin AskPoints /\ k2.pc \notin WorkPoints /\ k2.pc \notin ApplyPoints
      /\ ~Polling(k2) /\ k2.pc \notin {"created", "stage", "validate", "fallback", "entry", "begin"}
  BY DEF Copies, RunPoints, AskPoints, WorkPoints, ApplyPoints, Polling
<1>2. Used("polish", r2.payload, req) <=> Used("polish", r.payload, req)
  BY DEF Copies, Alike, Used, Stages
<1>3. NoneListed(r2.payload) <=> NoneListed(r.payload)
  BY DEF Copies, Alike, NoneListed
<1>4. Agree(r2, k2) /\ ResultsWork(k2)
  BY <1>1 DEF Agree, ResultsWork, Copies, Alike
<1>5. PolishWorks(r2, k2, req)
  BY <1>1, <1>2 DEF PolishWorks, PolishReady, Copies, RunOK, Alike, Stages
<1>6. NothingListed(r2, k2, req)
  BY <1>1, <1>3 DEF NothingListed, Copies, RunOK, Alike
<1>7. PreparedWorks(r2, k2, req)
  BY <1>1, <1>3 DEF PreparedWorks, Copies, RunOK, Alike
<1>. QED  BY <1>4, <1>5, <1>6, <1>7 DEF RunOK

-----------------------------------------------------------------------------
(* Lemmas: steps in which no request changes.                              *)

Sends(s, r, k, req, bat) == SendsOK(s, k, r.payload.jobs[s], Waiting(r.payload, s), req, bat)
Holds(r, k, req, bat) == RunOK(r, k, req) /\ \A s \in Stages : Sends(s, r, k, req, bat)

\* Requests that do not change are the same.
LEMMA Unchanged ==
  ASSUME NEW req, NEW bat
  PROVE  /\ \A s \in Stages : SameRequests(s, req, req)
         /\ BatchesGrow(bat, bat)
BY DEF SameRequests, BatchesGrow

\* A worker that does not ask, or only goes on to, knows no more.
LEMMA LaterWhen ==
  ASSUME NEW k, NEW k2,
         \/ k2.pc \notin AskPoints
         \/ k2.stage = k.stage /\ k2.pc = k.pc /\ k2.job = k.job /\ k2.hashes = k.hashes /\ k2.batch = k.batch
              /\ (k2.pc = "slice" => k2.job = 0)
  PROVE  \A s \in Stages : Later(s, k, k2)
<1>. SUFFICES ASSUME NEW s \in Stages PROVE Later(s, k, k2)
  OBVIOUS
<1>1. CASE k2.pc \notin AskPoints
  BY <1>1 DEF Later, First, InJobs, InResults, InSlices, Polling, AskPoints
<1>2. CASE k2.pc \in AskPoints
  BY <1>2 DEF Later, First, InJobs, InResults, InSlices, Polling
<1>. QED  BY <1>1, <1>2

\* The payloads stay as they are.
LEMMA QuietKeeps ==
  ASSUME NEW r, NEW k, NEW r2, NEW k2, NEW req, NEW bat, NEW bat2, k.stage \in Stages, r.payload \in Payload,
         Holds(r, k, req, bat), CarriesOn(r, k, r2, k2), \A s \in Stages : Later(s, k, k2), BatchesGrow(bat, bat2)
  PROVE  Holds(r2, k2, req, bat2)
<1>1. RunOK(r2, k2, req)
  BY CarriesOnKeeps DEF Holds
<1>2. ASSUME NEW s \in Stages
      PROVE  Sends(s, r2, k2, req, bat2)
  <2>1. r2.payload.jobs[s] = r.payload.jobs[s]
    BY <1>2 DEF CarriesOn, Follows, Alike, RunOK, Agree, Holds
  <2>2. \/ Waiting(r2.payload, s) = Waiting(r.payload, s)
        \/ k.pc = "apply" /\ s = "polish" /\ ~k.polish
    BY <1>2 DEF CarriesOn, Follows, Alike, RunOK, Agree, Holds
  <2>3. ASSUME k.pc = "apply", s = "polish", ~k.polish
        PROVE  MayStopWaiting(s, k, k2, r.payload.jobs[s], req)
    <3>1. Unused(s, r.payload.jobs[s], req)
      BY <2>3 DEF Holds, RunOK, PolishWorks, Used, Unused
    <3>2. k2.pc \notin AskPoints
      BY <2>3 DEF CarriesOn, Follows, AskPoints
    <3>. QED  BY <3>1, <3>2 DEF MayStopWaiting, Polling, AskPoints
  <2>4. r.payload.jobs[s] \in Seq(JobEntry)
    BY <1>2 DEF Payload
  <2>5. Waiting(r.payload, s) \in SUBSET Items /\ Waiting(r2.payload, s) \in SUBSET Items
    BY DEF Waiting, ItemsIn
  <2>6. SendsOK(s, k, r.payload.jobs[s], Waiting(r.payload, s), req, bat) /\ SameRequests(s, req, req) /\ Later(s, k, k2)
    BY <1>2, Unchanged DEF Holds, Sends
  <2>. QED  BY <1>2, <2>1, <2>2, <2>3, <2>4, <2>5, <2>6, SendsFrame DEF Sends
<1>. QED  BY <1>1, <1>2 DEF Holds

\* The payload stays as it is, and the worker does not ask.
LEMMA AlikeSends ==
  ASSUME NEW r, NEW k, NEW r2, NEW k2, NEW req, NEW bat, r.payload \in Payload,
         Holds(r, k, req, bat), k2.pc \notin AskPoints,
         \A s \in Stages : r2.payload.jobs[s] = r.payload.jobs[s] /\ Waiting(r2.payload, s) = Waiting(r.payload, s)
  PROVE  \A s \in Stages : Sends(s, r2, k2, req, bat)
<1>. SUFFICES ASSUME NEW s \in Stages PROVE Sends(s, r2, k2, req, bat)
  OBVIOUS
<1>1. r.payload.jobs[s] \in Seq(JobEntry)
  BY DEF Payload
<1>2. Waiting(r.payload, s) \in SUBSET Items
  BY DEF Waiting, ItemsIn
<1>3. Later(s, k, k2) /\ SameRequests(s, req, req) /\ BatchesGrow(bat, bat)
  BY LaterWhen, Unchanged
<1>4. SendsOK(s, k, r.payload.jobs[s], Waiting(r.payload, s), req, bat)
  BY DEF Holds, Sends
<1>. QED  BY <1>1, <1>2, <1>3, <1>4, SendsFrame DEF Sends

\* A worker that starts, ends or takes its copy of the payload.
LEMMA RestHolds ==
  ASSUME NEW r, NEW k, NEW r2, NEW k2, NEW req, NEW bat, r.payload \in Payload,
         Holds(r, k, req, bat), Resting(r, r2, k2) \/ Copies(r, k, r2, k2)
  PROVE  Holds(r2, k2, req, bat)
<1>1. RunOK(r2, k2, req)
  BY RestingKeeps, CopyKeeps DEF Holds
<1>2. Alike(r2.payload, r.payload) /\ k2.pc \notin AskPoints
  BY DEF Resting, Copies, AskPoints
<1>. QED  BY <1>1, <1>2, AlikeSends DEF Holds, Alike

\* Another job, or another state of the jobs.
LEMMA JobsGrow ==
  ASSUME NEW b, NEW asked, CreateJob(b, asked) \/ (CancelJob(b) /\ IsActive(b)) \/ EndJob(b), batches \in [Batches -> Job]
  PROVE  BatchesGrow(batches, batches')
<1>1. ASSUME NEW c \in Batches, batches[c].state # "unborn"
      PROVE  /\ batches'[c].state # "unborn" /\ batches'[c].asked = batches[c].asked
             /\ batches[c].state = "succeeded" => batches'[c].state = "succeeded" /\ batches'[c].missing = batches[c].missing
             /\ batches[c].state = "cancelled" => batches'[c].state = "cancelled"
  <2>1. CASE CreateJob(b, asked)
    BY <1>1, <2>1 DEF CreateJob
  <2>2. CASE CancelJob(b) /\ IsActive(b)
    BY <1>1, <2>2 DEF CancelJob, IsActive, Job
  <2>3. CASE EndJob(b)
    <3>1. ASSUME NEW errors, NEW missing, batches[b].state = "active",
                 batches' = [batches EXCEPT ![b].state = "succeeded", ![b].errors = errors, ![b].missing = missing]
          PROVE  /\ batches'[c].state = IF c = b THEN "succeeded" ELSE batches[c].state
                 /\ batches'[c].asked = batches[c].asked /\ (c # b => batches'[c].missing = batches[c].missing)
      BY <1>1, <3>1 DEF Job
    <3>2. CASE \E state \in {"failed", "cancelled"} : batches' = [batches EXCEPT ![b].state = state] /\ IsActive(b)
      BY <1>1, <3>2 DEF Job, IsActive
    <3>3. CASE \E errors, missing : /\ batches[b].state = "active"
                                    /\ batches' = [batches EXCEPT ![b].state = "succeeded", ![b].errors = errors,
                                                                  ![b].missing = missing]
      BY <1>1, <3>1, <3>3
    <3>. QED  BY <2>3, <3>2, <3>3 DEF EndJob, IsActive
  <2>. QED  BY <2>1, <2>2, <2>3
<1>. QED  BY <1>1 DEF BatchesGrow

-----------------------------------------------------------------------------
(* Lemmas: steps that change the states of items.                          *)

\* Items of a stage that were given a state.
Marked(mem, s, subset, state, new) ==
  /\ new \in Payload /\ new.prepared = mem.prepared /\ new.jobs = mem.jobs /\ new.enable_polish = mem.enable_polish
  /\ Waiting(new, s) = Waiting(mem, s) \ subset
  /\ \A t \in Stages \ {s} : Waiting(new, t) = Waiting(mem, t)
  /\ s = "polish" \/ state = "succeeded" \/ subset \cap Succeeded(mem) = {} => Succeeded(mem) \subseteq Succeeded(new)
  /\ s = "polish" => Succeeded(new) = Succeeded(mem)
  /\ \A j \in Items \ subset : new.items[j] = mem.items[j]

\* Items that get a state leave or enter the waiting ones together.
LEMMA StateSets ==
  ASSUME NEW mem \in Payload, NEW s \in Stages, NEW subset \in SUBSET Items, NEW state \in StageState \ {"pending"}
  PROVE  Marked(mem, s, subset, state, WithState(mem, s, subset, state))
<1>. DEFINE new == WithState(mem, s, subset, state)
<1>1. /\ new \in Payload /\ new.prepared = mem.prepared /\ new.jobs = mem.jobs /\ new.enable_polish = mem.enable_polish
      /\ \A i \in Items : /\ \A t \in Stages \ {s} : new.items[i][t] = mem.items[i][t]
                          /\ i \in subset => new.items[i][s].state = state
                          /\ i \notin subset => new.items[i] = mem.items[i]
  BY WithStateResult
<1>. HIDE DEF new
<1>2. Waiting(new, s) = Waiting(mem, s) \ subset
  BY <1>1 DEF Waiting, ItemsIn
<1>3. \A t \in Stages \ {s} : Waiting(new, t) = Waiting(mem, t)
  BY <1>1 DEF Waiting, ItemsIn
<1>4. s = "polish" => Succeeded(new) = Succeeded(mem)
  BY <1>1 DEF Succeeded, ItemsIn, Stages
<1>5. s = "polish" \/ state = "succeeded" \/ subset \cap Succeeded(mem) = {} => Succeeded(mem) \subseteq Succeeded(new)
  BY <1>1, <1>4 DEF Succeeded, ItemsIn, Stages
<1>. QED  BY <1>1, <1>2, <1>3, <1>4, <1>5 DEF Marked, new

\* The response of an item was looked at, or it was translated directly.
LEMMA ResultKeeps ==
  ASSUME NEW r, NEW k, NEW r2, NEW k2, NEW req, NEW bat, NEW i \in Items, NEW state \in {"succeeded", "failed"},
         Holds(r, k, req, bat), r.payload \in Payload, k.mem \in Payload, k.stage \in Stages, k.inflight \subseteq Items,
         k.pc \in {"validate", "fallback"}, k.mem.items[i][k.stage].state \in {"pending", "failed"},
         r2.payload = WithState(k.mem, k.stage, {i}, state), k2.mem = r2.payload,
         k2.pc = k.pc, k2.stage = k.stage, k2.polish = k.polish, k2.inflight = k.inflight \ {i}
  PROVE  Holds(r2, k2, req, bat)
<1>. DEFINE mem == WithState(k.mem, k.stage, {i}, state)
<1>1. {i} \cap Succeeded(k.mem) = {} \/ k.stage # "translation"
  BY DEF Succeeded, ItemsIn
<1>2. /\ mem \in Payload /\ mem.prepared = k.mem.prepared /\ mem.jobs = k.mem.jobs
      /\ mem.enable_polish = k.mem.enable_polish
      /\ Waiting(mem, k.stage) = Waiting(k.mem, k.stage) \ {i}
      /\ \A t \in Stages \ {k.stage} : Waiting(mem, t) = Waiting(k.mem, t)
      /\ Succeeded(k.mem) \subseteq Succeeded(mem)
      /\ \A j \in Items \ {i} : mem.items[j] = k.mem.items[j]
  <2>1. state \in StageState \ {"pending"} /\ {i} \in SUBSET Items
    BY DEF StageState
  <2>2. k.stage = "polish" \/ state = "succeeded" \/ {i} \cap Succeeded(k.mem) = {}
    BY <1>1 DEF Stages
  <2>3. Marked(k.mem, k.stage, {i}, state, mem)
    BY <2>1, StateSets
  <2>. HIDE DEF mem
  <2>. QED  BY <2>2, <2>3 DEF Marked
<1>. HIDE DEF mem
<1>3. r2.payload = mem /\ k2.mem = mem
  BY DEF mem
<1>4. /\ k.mem.prepared = r.payload.prepared /\ Succeeded(k.mem) = Succeeded(r.payload)
      /\ \A s \in Stages : k.mem.jobs[s] = r.payload.jobs[s] /\ Waiting(k.mem, s) = Waiting(r.payload, s)
      /\ r.payload.prepared /\ ~NoneListed(r.payload)
  BY DEF Holds, RunOK, Agree, NothingListed, PreparedWorks, RunPoints, AskPoints, WorkPoints
<1>5. ~NoneListed(mem) /\ (Used("polish", mem, req) <=> Used("polish", r.payload, req))
  BY <1>2, <1>4 DEF NoneListed, Used, Stages
<1>6. PolishReady(r.payload) => PolishReady(mem)
  BY <1>2, <1>4 DEF PolishReady, Stages
<1>7. /\ k2.pc \in RunPoints /\ k2.pc \in AskPoints /\ k2.pc \in WorkPoints /\ k2.pc \notin ApplyPoints /\ ~Polling(k2)
      /\ k2.pc \notin {"created", "apply", "entry", "begin", "prepare"}
  BY DEF RunPoints, AskPoints, WorkPoints, ApplyPoints, Polling
<1>8. Agree(r2, k2)
  BY <1>3, <1>7 DEF Agree
<1>9. PolishWorks(r2, k2, req)
  BY <1>3, <1>5, <1>6, <1>7 DEF Holds, RunOK, PolishWorks
<1>10. NothingListed(r2, k2, req)
  BY <1>3, <1>5, <1>7 DEF NothingListed
<1>11. PreparedWorks(r2, k2, req)
  BY <1>2, <1>3, <1>4, <1>7 DEF Holds, RunOK, PreparedWorks
<1>12. ResultsWork(k2)
  <2>1. \A j \in k2.inflight : mem.items[j] = k.mem.items[j]
    BY <1>2
  <2>2. k2.pc = "fallback" => Waiting(mem, k.stage) = {}
    BY <1>2 DEF Holds, RunOK, ResultsWork
  <2>3. ResultsWork(k)
    BY DEF Holds, RunOK
  <2>4. k2.inflight \subseteq k.inflight /\ \A j \in k2.inflight : k2.mem.items[j] = k.mem.items[j]
    BY <1>3, <2>1
  <2>. QED  BY <1>3, <2>2, <2>3, <2>4 DEF ResultsWork
<1>13. ASSUME NEW s \in Stages
       PROVE  Sends(s, r2, k2, req, bat)
  <2>1. r2.payload.jobs[s] = r.payload.jobs[s] /\ r.payload.jobs[s] \in Seq(JobEntry)
    BY <1>2, <1>3, <1>4 DEF Payload
  <2>2. Later(s, k, k2)
    BY <1>7 DEF Later, First, InJobs, InResults, InSlices, Polling
  <2>3. Waiting(mem, s) = Waiting(r.payload, s) \/ MayStopWaiting(s, k, k2, r.payload.jobs[s], req)
    BY <1>2, <1>4, <1>7 DEF MayStopWaiting, InResults
  <2>4. Waiting(r.payload, s) \in SUBSET Items /\ Waiting(mem, s) \in SUBSET Items
    BY DEF Waiting, ItemsIn
  <2>5. SendsOK(s, k, r.payload.jobs[s], Waiting(r.payload, s), req, bat) /\ SameRequests(s, req, req)
        /\ BatchesGrow(bat, bat)
    BY Unchanged DEF Holds, Sends
  <2>. QED  BY <1>3, <2>1, <2>2, <2>3, <2>4, <2>5, SendsFrame DEF Sends
<1>. QED  BY <1>8, <1>9, <1>10, <1>11, <1>12, <1>13 DEF Holds, RunOK

\* A stage ends: the next one begins, or the results are to be applied.
LEMMA StageEnds ==
  ASSUME NEW r, NEW k, NEW r2, NEW k2, NEW req, NEW bat, Holds(r, k, req, bat), r.payload \in Payload,
         k.stage \in Stages, k.pc = "fallback", r2.payload = k.mem, k2.mem = k.mem,
         k2.pc = "stage" \/ (k2.pc = "apply" /\ k.stage = "polish"), k2.stage = "polish",
         k2.polish = k.polish, k2.inflight = {}
  PROVE  Holds(r2, k2, req, bat)
<1>1. /\ k.mem.prepared = r.payload.prepared
      /\ \A s \in Stages : k.mem.jobs[s] = r.payload.jobs[s] /\ Waiting(k.mem, s) = Waiting(r.payload, s)
      /\ r.payload.prepared /\ ~NoneListed(r.payload) /\ Waiting(k.mem, k.stage) = {}
  BY DEF Holds, RunOK, Agree, NothingListed, PreparedWorks, ResultsWork, RunPoints, AskPoints, WorkPoints
<1>2. ~NoneListed(k.mem) /\ (Used("polish", k.mem, req) <=> Used("polish", r.payload, req))
  BY <1>1 DEF NoneListed, Used, Stages
<1>3. /\ k2.pc \notin AskPoints /\ ~Polling(k2) /\ (k2.pc \in ApplyPoints => k2.pc = "apply")
      /\ k2.pc \notin {"created", "entry", "begin", "prepare", "validate", "fallback"} /\ k.pc \in RunPoints
  BY DEF AskPoints, ApplyPoints, Polling, RunPoints
<1>4. Agree(r2, k2)
  BY <1>3 DEF Agree
<1>5. PolishWorks(r2, k2, req)
  BY <1>1, <1>2, <1>3 DEF Holds, RunOK, PolishWorks
<1>6. NothingListed(r2, k2, req) /\ ResultsWork(k2)
  BY <1>2, <1>3 DEF NothingListed, ResultsWork
<1>7. PreparedWorks(r2, k2, req)
  BY <1>1, <1>3 DEF Holds, RunOK, PreparedWorks
<1>. QED  BY <1>1, <1>3, <1>4, <1>5, <1>6, <1>7, AlikeSends DEF Holds, RunOK

\* The polish stage begins: items that are not translated are passed over.
LEMMA PolishBegins ==
  ASSUME NEW r, NEW k, NEW r2, NEW k2, NEW req, NEW bat, Holds(r, k, req, bat), r.payload \in Payload,
         k.mem \in Payload, k.stage = "polish", k.pc = "stage", k.polish,
         r2.payload = WithState(k.mem, "polish", Items \ Succeeded(k.mem), "skipped"), k2.mem = r2.payload,
         k2.pc = "jobs", k2.job = 1, k2.stage = k.stage, k2.polish = k.polish, k2.inflight = {}
  PROVE  Holds(r2, k2, req, bat)
<1>. DEFINE mem == WithState(k.mem, "polish", Items \ Succeeded(k.mem), "skipped")
<1>1. /\ mem \in Payload /\ mem.prepared = k.mem.prepared /\ mem.jobs = k.mem.jobs
      /\ mem.enable_polish = k.mem.enable_polish /\ Succeeded(mem) = Succeeded(k.mem)
      /\ Waiting(mem, "polish") = Waiting(k.mem, "polish") \ (Items \ Succeeded(k.mem))
      /\ \A t \in Stages \ {"polish"} : Waiting(mem, t) = Waiting(k.mem, t)
  <2>1. "skipped" \in StageState \ {"pending"} /\ Items \ Succeeded(k.mem) \in SUBSET Items /\ "polish" \in Stages
    BY DEF StageState, Stages
  <2>2. Marked(k.mem, "polish", Items \ Succeeded(k.mem), "skipped", mem)
    BY <2>1, StateSets
  <2>. HIDE DEF mem
  <2>. QED  BY <2>2 DEF Marked
<1>. HIDE DEF mem
<1>2. r2.payload = mem /\ k2.mem = mem
  BY DEF mem
<1>3. /\ k.mem.prepared = r.payload.prepared /\ Succeeded(k.mem) = Succeeded(r.payload)
      /\ \A s \in Stages : k.mem.jobs[s] = r.payload.jobs[s] /\ Waiting(k.mem, s) = Waiting(r.payload, s)
      /\ r.payload.prepared /\ ~NoneListed(r.payload)
  BY DEF Holds, RunOK, Agree, NothingListed, PreparedWorks, RunPoints, AskPoints, WorkPoints
<1>4. ~NoneListed(mem) /\ (Used("polish", mem, req) <=> Used("polish", r.payload, req))
  BY <1>1, <1>3 DEF NoneListed, Used, Stages
<1>5. Waiting(k.mem, "polish") \subseteq Items
  BY DEF Waiting, ItemsIn
<1>6. PolishReady(mem)
  BY <1>1, <1>5 DEF PolishReady
<1>7. Agree(r2, k2) /\ ResultsWork(k2)
  BY <1>2 DEF Agree, ResultsWork
<1>8. PolishWorks(r2, k2, req)
  BY <1>2, <1>6 DEF PolishWorks, ApplyPoints
<1>9. NothingListed(r2, k2, req)
  BY <1>2, <1>4 DEF NothingListed
<1>10. PreparedWorks(r2, k2, req)
  BY <1>1, <1>2, <1>3 DEF Holds, RunOK, PreparedWorks, RunPoints, ApplyPoints
<1>11. ASSUME NEW s \in Stages
       PROVE  Sends(s, r2, k2, req, bat)
  <2>1. r2.payload.jobs[s] = r.payload.jobs[s] /\ r.payload.jobs[s] \in Seq(JobEntry)
    BY <1>1, <1>2, <1>3 DEF Payload
  <2>2. Later(s, k, k2)
    BY DEF Later, First, InJobs, InResults, InSlices, Polling
  <2>3. Waiting(mem, s) = Waiting(r.payload, s) \/ MayStopWaiting(s, k, k2, r.payload.jobs[s], req)
    <3>1. CASE s # "polish"
      BY <1>1, <1>3, <3>1
    <3>2. CASE s = "polish" /\ Used("polish", r.payload, req)
      <4>1. Waiting(k.mem, "polish") \subseteq Succeeded(k.mem)
        BY <3>2 DEF Holds, RunOK, PolishWorks, PolishReady, RunPoints
      <4>. QED  BY <1>1, <1>3, <1>5, <3>2, <4>1
    <3>3. CASE s = "polish" /\ ~Used("polish", r.payload, req)
      BY <3>3 DEF MayStopWaiting, Unused, Used, Polling
    <3>. QED  BY <3>1, <3>2, <3>3
  <2>4. Waiting(r.payload, s) \in SUBSET Items /\ Waiting(mem, s) \in SUBSET Items
    BY DEF Waiting, ItemsIn
  <2>5. SendsOK(s, k, r.payload.jobs[s], Waiting(r.payload, s), req, bat) /\ SameRequests(s, req, req)
        /\ BatchesGrow(bat, bat)
    BY Unchanged DEF Holds, Sends
  <2>. QED  BY <1>2, <2>1, <2>2, <2>3, <2>4, <2>5, SendsFrame DEF Sends
<1>. QED  BY <1>7, <1>8, <1>9, <1>10, <1>11 DEF Holds, RunOK

\* There is no polish stage: what it would have polished is passed over.
LEMMA PolishSkipped ==
  ASSUME NEW r, NEW k, NEW k2, NEW req, NEW bat, Holds(r, k, req, bat), r.payload \in Payload,
         k.mem \in Payload, k.stage = "polish", k.pc = "stage", ~k.polish,
         k2.mem = WithState(k.mem, "polish", Succeeded(k.mem), "skipped"),
         k2.pc = "apply", k2.stage = k.stage, k2.polish = k.polish, k2.inflight = {}
  PROVE  Holds(r, k2, req, bat)
<1>. DEFINE mem == WithState(k.mem, "polish", Succeeded(k.mem), "skipped")
<1>1. /\ mem \in Payload /\ mem.prepared = k.mem.prepared /\ mem.jobs = k.mem.jobs
      /\ mem.enable_polish = k.mem.enable_polish
      /\ \A t \in Stages \ {"polish"} : Waiting(mem, t) = Waiting(k.mem, t)
  <2>1. "skipped" \in StageState \ {"pending"} /\ Succeeded(k.mem) \in SUBSET Items /\ "polish" \in Stages
    BY DEF StageState, Stages, Succeeded, ItemsIn
  <2>2. Marked(k.mem, "polish", Succeeded(k.mem), "skipped", mem)
    BY <2>1, StateSets
  <2>. HIDE DEF mem
  <2>. QED  BY <2>2 DEF Marked
<1>. HIDE DEF mem
<1>2. k2.mem = mem
  BY DEF mem
<1>3. /\ k.mem.prepared = r.payload.prepared
      /\ \A s \in Stages : k.mem.jobs[s] = r.payload.jobs[s] /\ Waiting(k.mem, s) = Waiting(r.payload, s)
      /\ r.payload.prepared /\ ~NoneListed(r.payload) /\ ~Used("polish", r.payload, req)
  BY DEF Holds, RunOK, Agree, NothingListed, PreparedWorks, PolishWorks, RunPoints, AskPoints, WorkPoints
<1>4. Agree(r, k2)
  BY <1>1, <1>2, <1>3 DEF Agree, AskPoints
<1>5. PolishWorks(r, k2, req) /\ NothingListed(r, k2, req) /\ ResultsWork(k2)
  BY <1>3 DEF Holds, RunOK, PolishWorks, NothingListed, ResultsWork, AskPoints, Polling
<1>6. PreparedWorks(r, k2, req)
  BY <1>1, <1>2, <1>3 DEF Holds, RunOK, PreparedWorks, RunPoints
<1>7. k2.pc \notin AskPoints
  BY DEF AskPoints
<1>. QED  BY <1>4, <1>5, <1>6, <1>7, AlikeSends DEF Holds, RunOK

\* A payload with items is made, or there is nothing to do.
LEMMA FreshKeeps ==
  ASSUME NEW r, NEW k, NEW r2, NEW k2, NEW req, NEW bat, Holds(r, k, req, bat), r.payload \in Payload,
         k.pc = "prepare", ~k.mem.prepared, k2.stage = k.stage, k2.polish = k.polish, k2.inflight = {},
         \/ r2.payload = NewPayload(TRUE) /\ k2.pc = "post"
         \/ r2.payload = PreparedPayload /\ k2.pc = "stage" /\ k2.mem = r2.payload
  PROVE  Holds(r2, k2, req, bat)
<1>1. /\ ~r.payload.prepared /\ NoneListed(r.payload) /\ Answered(req) = {} /\ k.stage = "translation"
      /\ \A h \in Hash : req[h].status = "none"
      /\ \A s \in Stages : Waiting(r.payload, s) = Items
  BY DEF Holds, RunOK, Agree, PreparedWorks, NothingListed, RunPoints
<1>2. /\ NoneListed(r2.payload) /\ r2.payload.enable_polish /\ (k2.pc = "stage" => r2.payload.prepared)
      /\ \A s \in Stages : r2.payload.jobs[s] = <<>> /\ Waiting(r2.payload, s) = Items
  <2>1. \A p \in {NewPayload(TRUE), PreparedPayload} :
          /\ \A s \in Stages : p.jobs[s] = <<>>
          /\ p.items = [i \in Items |-> NewItem] /\ p.enable_polish
    BY DEF NewPayload, PreparedPayload, NoJobs
  <2>2. \A s \in Stages : NewItem[s].state = "pending"
    BY DEF NewItem, new_stage_state, Stages
  <2>3. PreparedPayload.prepared
    BY DEF PreparedPayload, NewPayload
  <2>4. r2.payload \in {NewPayload(TRUE), PreparedPayload} /\ (k2.pc = "stage" => r2.payload = PreparedPayload)
    OBVIOUS
  <2>5. r2.payload.items = [i \in Items |-> NewItem]
    BY <2>1, <2>4
  <2>6. \A s \in Stages : Waiting(r2.payload, s) = Items
    BY <2>2, <2>5 DEF Waiting, ItemsIn
  <2>. QED  BY <2>1, <2>3, <2>4, <2>6 DEF NoneListed
<1>3. ~Used("polish", r2.payload, req)
  BY <1>1, <1>2 DEF Used, Sent, Stages
<1>4. /\ k2.pc \notin AskPoints /\ k2.pc \notin ApplyPoints /\ ~Polling(k2)
      /\ k2.pc \notin {"created", "entry", "begin", "prepare", "validate", "fallback"}
      /\ (k2.pc \in RunPoints \cup WorkPoints => k2.pc = "stage")
  BY DEF AskPoints, ApplyPoints, Polling, RunPoints, WorkPoints
<1>5. Agree(r2, k2) /\ ResultsWork(k2)
  BY <1>4 DEF Agree, ResultsWork
<1>6. PolishWorks(r2, k2, req)
  BY <1>3, <1>4 DEF PolishWorks
<1>7. NothingListed(r2, k2, req)
  BY <1>1, <1>2, <1>4 DEF NothingListed
<1>8. PreparedWorks(r2, k2, req)
  BY <1>1, <1>2, <1>4 DEF PreparedWorks
<1>9. \A s \in Stages : r2.payload.jobs[s] = r.payload.jobs[s] /\ Waiting(r2.payload, s) = Waiting(r.payload, s)
  BY <1>1, <1>2 DEF NoneListed
<1>. QED  BY <1>4, <1>5, <1>6, <1>7, <1>8, <1>9, AlikeSends DEF Holds, RunOK

\* The chunk of an item is missing.
LEMMA MissingKeeps ==
  ASSUME NEW r, NEW k, NEW k2, NEW req, NEW bat, NEW i \in Items, Holds(r, k, req, bat), r.payload \in Payload,
         k.pc = "applying", i \in Succeeded(k.mem),
         k2.mem.prepared = k.mem.prepared, k2.mem.jobs = k.mem.jobs, k2.mem.enable_polish = k.mem.enable_polish,
         k2.mem.items[i].polish = k.mem.items[i].polish, k2.mem.items[i].translation.state = "failed",
         \A j \in Items \ {i} : k2.mem.items[j] = k.mem.items[j],
         k2.pc = k.pc, k2.stage = k.stage, k2.polish = k.polish, k2.inflight = {}
  PROVE  Holds(r, k2, req, bat)
<1>1. \A s \in Stages : Waiting(k2.mem, s) = Waiting(k.mem, s)
  BY DEF Waiting, ItemsIn, Succeeded, Stages
<1>2. Used("polish", r.payload, req) => Waiting(k.mem, "polish") = {}
  BY DEF Holds, RunOK, PolishWorks, ApplyPoints
<1>3. Used("polish", r.payload, req) => PolishReady(k2.mem)
  BY <1>1, <1>2 DEF PolishReady, Stages
<1>4. /\ k.pc \in RunPoints /\ k2.pc \notin AskPoints /\ ~Polling(k2)
      /\ k2.pc \notin {"created", "stage", "apply", "entry", "begin", "prepare", "validate", "fallback"}
  BY DEF AskPoints, RunPoints, Polling
<1>5. Agree(r, k2)
  BY <1>1, <1>4 DEF Holds, RunOK, Agree
<1>6. PolishWorks(r, k2, req)
  BY <1>1, <1>3, <1>4 DEF Holds, RunOK, PolishWorks, Stages
<1>7. NothingListed(r, k2, req) /\ ResultsWork(k2)
  BY <1>4 DEF Holds, RunOK, NothingListed, ResultsWork
<1>8. PreparedWorks(r, k2, req)
  BY <1>4 DEF Holds, RunOK, PreparedWorks
<1>. QED  BY <1>4, <1>5, <1>6, <1>7, <1>8, AlikeSends DEF Holds, RunOK

\* A job is about to be listed, or it is.
LEMMA ListingKeeps ==
  ASSUME NEW r, NEW k, NEW r2, NEW k2, NEW req, NEW b, NEW hashes, RunOK(r, k, req), k.stage \in Stages,
         k.pc \in {"slice", "submit", "created"}, k2.stage = k.stage, k2.polish = k.polish, k2.inflight = {},
         k2.mem.prepared = k.mem.prepared, k2.mem.enable_polish = k.mem.enable_polish,
         Succeeded(k2.mem) = Succeeded(k.mem),
         \A s \in Stages :
           /\ Waiting(k2.mem, s) = Waiting(k.mem, s)
           /\ k2.mem.jobs[s] = IF s = k.stage THEN Append(r.payload.jobs[s], NewEntry(b, hashes)) ELSE r.payload.jobs[s],
         \/ k2.pc = "poll" /\ r2.payload = k2.mem
         \/ k2.pc = "created" /\ r2.payload = r.payload /\ k2.batch = b /\ k2.hashes = hashes
  PROVE  RunOK(r2, k2, req)
<1>1. /\ k.mem.prepared = r.payload.prepared /\ Succeeded(k.mem) = Succeeded(r.payload) /\ r.payload.prepared
      /\ \A s \in Stages : Waiting(k.mem, s) = Waiting(r.payload, s)
      /\ k.stage = "polish" => k.polish /\ PolishReady(r.payload)
  BY DEF RunOK, Agree, PreparedWorks, PolishWorks, RunPoints, AskPoints, WorkPoints
<1>2. /\ Succeeded(r2.payload) = Succeeded(r.payload) /\ Succeeded(k2.mem) = Succeeded(r.payload)
      /\ r2.payload.prepared /\ k2.mem.prepared
      /\ \A s \in Stages : Waiting(r2.payload, s) = Waiting(r.payload, s) /\ Waiting(k2.mem, s) = Waiting(r.payload, s)
      /\ \A s \in Stages \ {k.stage} : r2.payload.jobs[s] = r.payload.jobs[s]
  <2>1. CASE r2.payload = k2.mem
    BY ZenonT(30), <1>1, <2>1
  <2>2. CASE r2.payload = r.payload
    BY <1>1, <2>2
  <2>. QED  BY <2>1, <2>2
<1>3. /\ PolishReady(r.payload) => PolishReady(r2.payload) /\ PolishReady(k2.mem)
      /\ Used("polish", r2.payload, req) => Used("polish", r.payload, req) \/ k.stage = "polish"
  BY <1>2 DEF PolishReady, Used, Stages
<1>4. k2.pc = "poll" => r2.payload.jobs[k.stage] # <<>>
  <2>1. Append(r.payload.jobs[k.stage], NewEntry(b, hashes)) # <<>>
    OBVIOUS
  <2>. QED  BY <2>1
<1>5. NoneListed(r2.payload) => k2.pc # "poll" /\ NoneListed(r.payload)
  <2>1. k2.pc = "poll" => ~NoneListed(r2.payload)
    BY <1>4 DEF NoneListed
  <2>. QED  BY <2>1 DEF NoneListed
<1>6. /\ k2.pc \in RunPoints /\ k2.pc \in AskPoints /\ k2.pc \notin ApplyPoints /\ (Polling(k2) => k2.pc = "poll")
      /\ k2.pc \notin {"apply", "stage", "entry", "begin", "prepare", "validate", "fallback"}
      /\ k.pc \in RunPoints /\ k.pc \in AskPoints
  BY DEF AskPoints, ApplyPoints, RunPoints, Polling
<1>7. Agree(r2, k2)
  BY <1>2, <1>6 DEF Agree
<1>8. PolishWorks(r2, k2, req)
  BY <1>1, <1>3, <1>6 DEF RunOK, PolishWorks
<1>9. NothingListed(r2, k2, req)
  BY <1>2, <1>5, <1>6 DEF RunOK, NothingListed
<1>10. PreparedWorks(r2, k2, req)
  <2>1. r2.payload.enable_polish \/ ~r2.payload.prepared
    BY <1>6 DEF RunOK, PreparedWorks
  <2>. QED  BY <1>2, <1>6, <2>1 DEF RunOK, PreparedWorks
<1>11. ResultsWork(k2)
  BY <1>6 DEF ResultsWork
<1>. QED  BY <1>7, <1>8, <1>9, <1>10, <1>11 DEF RunOK

-----------------------------------------------------------------------------
(* Lemmas: steps that ask, or that learn what was answered.                *)

\* The stage the worker is not in.
LEMMA OtherStage ==
  ASSUME NEW r, NEW k, NEW r2, NEW k2, NEW req, NEW req2, NEW bat, NEW bat2, NEW s \in Stages, r.payload \in Payload,
         Sends(s, r, k, req, bat), k2.stage # s, SameRequests(s, req, req2), BatchesGrow(bat, bat2),
         r2.payload.jobs[s] = r.payload.jobs[s], Waiting(r2.payload, s) = Waiting(r.payload, s)
  PROVE  Sends(s, r2, k2, req2, bat2)
<1>1. Later(s, k, k2)
  BY DEF Later
<1>2. r.payload.jobs[s] \in Seq(JobEntry)
  BY DEF Payload
<1>3. Waiting(r.payload, s) \in SUBSET Items
  BY DEF Waiting, ItemsIn
<1>. QED  BY <1>1, <1>2, <1>3, SendsFrame DEF Sends

\* The rows of an output file are answers.
LEMMA OutputAnswers ==
  ASSUME Typed, NEW b, NEW hashes \in SUBSET Hash
  PROVE  Answers(requests, PersistOutput(b, hashes), hashes \ Unanswered(b, hashes))
<1>. DEFINE rows == hashes \ Unanswered(b, hashes)
            req2 == PersistOutput(b, hashes)
<1>. HIDE DEF rows
<1>1. \A h \in Hash : IF h \notin rows THEN req2[h] = requests[h]
                      ELSE req2[h].status \in {"failed", "completed"} /\ req2[h].cancellation = FALSE
  BY DEF PersistOutput, rows
<1>2. rows \subseteq Hash
  BY DEF rows
<1>. HIDE DEF req2
<1>3. Answered(req2) = Answered(requests) \cup rows /\ Sent(req2) = Sent(requests) \ rows
  BY <1>1, <1>2 DEF Answered, Sent
<1>4. \A h \in Sent(req2) : req2[h].batch_name = requests[h].batch_name
  BY <1>1, <1>3 DEF Sent
<1>. QED  BY <1>1, <1>2, <1>3, <1>4 DEF Answers, rows, req2

\* What is noted of the requests of a job that failed, or was cancelled.
LEMMA FailedRows ==
  ASSUME Typed, NEW b, NEW left \in SUBSET Hash
  PROVE  /\ Answers(requests, Upsert(left, "failed", b, FALSE), left)
         /\ left \cap Answered(requests) = {} => Refuses(requests, Upsert(left, "failed", b, TRUE), left)
<1>1. \A c \in BOOLEAN, h \in Hash :
        Upsert(left, "failed", b, c)[h] = IF h \in left THEN [status |-> "failed", batch_name |-> b, cancellation |-> c]
                                          ELSE requests[h]
  BY DEF Upsert
<1>2. ASSUME NEW req2, \A h \in Hash : req2[h] = IF h \in left
                                                  THEN [status |-> "failed", batch_name |-> b, cancellation |-> FALSE]
                                                  ELSE requests[h]
      PROVE  Answers(requests, req2, left)
  <2>1. Answered(req2) = Answered(requests) \cup left /\ Sent(req2) = Sent(requests) \ left
    BY <1>2 DEF Answered, Sent
  <2>. QED  BY <1>2, <2>1 DEF Answers, Sent
<1>3. ASSUME NEW req2, left \cap Answered(requests) = {},
             \A h \in Hash : req2[h] = IF h \in left
                                        THEN [status |-> "failed", batch_name |-> b, cancellation |-> TRUE]
                                        ELSE requests[h]
      PROVE  Refuses(requests, req2, left)
  <2>1. Answered(req2) = Answered(requests) /\ Sent(req2) = Sent(requests) \ left
        /\ Refused(requests) \cup left \subseteq Refused(req2)
    BY <1>3 DEF Answered, Sent, Refused
  <2>. QED  BY <1>3, <2>1 DEF Refuses, Sent
<1>. QED  BY <1>1, <1>2, <1>3

\* What is noted of requests that were submitted.
LEMMA SubmittedRows ==
  ASSUME Typed, NEW b, NEW sent \in SUBSET Hash, sent \cap Answered(requests) = {}
  PROVE  /\ Submits(requests, Upsert(sent, "submitted", b, FALSE), sent, b)
         /\ Answered(Upsert(sent, "submitted", b, FALSE)) = Answered(requests)
         /\ Sent(Upsert(sent, "submitted", b, FALSE)) = Sent(requests) \cup sent
<1>1. \A h \in Hash :
        Upsert(sent, "submitted", b, FALSE)[h] =
          IF h \in sent THEN [status |-> "submitted", batch_name |-> b, cancellation |-> FALSE] ELSE requests[h]
  BY DEF Upsert
<1>. DEFINE req2 == Upsert(sent, "submitted", b, FALSE)
<1>. HIDE DEF req2
<1>2. \A h \in Hash : req2[h] = IF h \in sent
                                 THEN [status |-> "submitted", batch_name |-> b, cancellation |-> FALSE]
                                 ELSE requests[h]
  BY <1>1 DEF req2
<1>3. Answered(req2) = Answered(requests) /\ Sent(req2) = Sent(requests) \cup sent
  BY <1>2 DEF Answered, Sent
<1>4. Submits(requests, req2, sent, b)
  BY <1>2, <1>3 DEF Submits
<1>. QED  BY <1>3, <1>4 DEF req2

\* The stage the worker is in, as its copy of the payload has it.
LEMMA WorkerSees ==
  ASSUME Typed, RunOK(row, w, requests), w.pc \in AskPoints \ {"created"}
  PROVE  /\ w.mem.jobs[w.stage] = row.payload.jobs[w.stage] /\ Waiting(w.mem, w.stage) = Waiting(row.payload, w.stage)
         /\ PendingHashes = Open(w.stage, Waiting(row.payload, w.stage), requests)
         /\ SliceHashes = Slice(w.stage, Waiting(row.payload, w.stage), requests)
         /\ row.payload.jobs[w.stage] \in Seq(JobEntry) /\ Waiting(row.payload, w.stage) \in SUBSET Items
<1>1. w.stage \in Stages /\ row.payload \in Payload
  BY DEF Typed, WorkerType, RowType
<1>2. w.mem.jobs[w.stage] = row.payload.jobs[w.stage] /\ Waiting(w.mem, w.stage) = Waiting(row.payload, w.stage)
  BY <1>1 DEF RunOK, Agree, AskPoints, RunPoints
<1>3. row.payload.jobs[w.stage] \in Seq(JobEntry) /\ Waiting(row.payload, w.stage) \in SUBSET Items
  BY <1>1 DEF Payload, Waiting, ItemsIn
<1>. QED  BY <1>2, <1>3, SliceOfWorker

\* An asking step, seen from the worker's stage: the other stage is not concerned.
LEMMA AskStep ==
  ASSUME Typed, Holds(row, w, requests, batches), RunOK(row', w', requests'), w'.stage = w.stage,
         Sends(w.stage, row', w', requests', batches'), BatchesGrow(batches, batches'),
         \A s \in Stages \ {w.stage} :
           /\ SameRequests(s, requests, requests') /\ row'.payload.jobs[s] = row.payload.jobs[s]
           /\ Waiting(row'.payload, s) = Waiting(row.payload, s)
  PROVE  Holds(row', w', requests', batches')
<1>1. row.payload \in Payload
  BY DEF Typed, RowType
<1>2. ASSUME NEW s \in Stages, s # w.stage
      PROVE  Sends(s, row', w', requests', batches')
  BY <1>1, <1>2, OtherStage DEF Holds
<1>. QED  BY <1>2 DEF Holds

-----------------------------------------------------------------------------
(* Lemmas: the invariant through each kind of step.                        *)

\* The worker goes on, pauses or stops: it asks nothing, and no item changes.
Moves ==
  /\ w'.mem = w.mem /\ w'.polish = w.polish /\ w'.stage = w.stage /\ w'.inflight = {}
  /\ row'.payload = row.payload \/ (w.pc \in RunPoints \ {"created"} /\ row'.payload = w.mem)
  /\ w'.pc \notin AskPoints \cup {"stage", "entry", "begin", "prepare", "apply"}
  /\ w'.pc \in RunPoints => w.pc \in RunPoints \ {"created"}
  /\ w'.pc \in RunPoints /\ w.pc = "apply" => row'.payload = w.mem
  /\ w'.pc \in ApplyPoints => w.pc \in ApplyPoints
  /\ requests' = requests /\ BatchesGrow(batches, batches')

\* A worker that moves on like this keeps the invariant.
LEMMA MovesHold ==
  ASSUME Typed, Holds(row, w, requests, batches), Moves
  PROVE  Holds(row', w', requests', batches')
<1>1. \A p : Alike(p, p)
  BY DEF Alike
<1>2. w'.pc \notin AskPoints /\ ~Polling(w') /\ w'.pc \notin {"created", "stage", "entry", "begin", "prepare", "apply", "validate", "fallback"}
  BY DEF Moves, AskPoints, Polling
<1>3. w'.pc \in WorkPoints => w.pc \in WorkPoints
  BY <1>2 DEF Moves, WorkPoints, ApplyPoints
<1>4. Follows(row, w, row', w')
  BY <1>1, <1>2, <1>3 DEF Follows, Moves
<1>5. CarriesOn(row, w, row', w')
  BY <1>1, <1>4 DEF CarriesOn, Moves
<1>6. \A s \in Stages : Later(s, w, w')
  BY <1>2, LaterWhen
<1>7. w.stage \in Stages /\ row.payload \in Payload
  BY DEF Typed, WorkerType, RowType
<1>8. BatchesGrow(batches, batches') /\ requests' = requests
  BY DEF Moves
<1>. QED  BY <1>5, <1>6, <1>7, <1>8, QuietKeeps

\* The worker stays where it is, and the payload what it is.
Still ==
  /\ w'.pc = w.pc /\ w'.mem = w.mem /\ w'.polish = w.polish /\ w'.stage = w.stage /\ w'.job = w.job
  /\ w'.hashes = w.hashes /\ w'.batch = w.batch /\ w'.inflight = w.inflight /\ row'.payload = row.payload
  /\ row'.status \in TerminalStatuses => row'.status = row.status \/ NoneListed(row.payload)
  /\ requests' = requests /\ BatchesGrow(batches, batches')

\* Such a step keeps the invariant.
LEMMA StillHolds ==
  ASSUME Typed, Holds(row, w, requests, batches), Still
  PROVE  Holds(row', w', requests', batches')
<1>1. \A p : Alike(p, p)
  BY DEF Alike
<1>2. Follows(row, w, row', w')
  BY <1>1 DEF Follows, Still, Polling
<1>3. CarriesOn(row, w, row', w')
  BY <1>1, <1>2 DEF CarriesOn, Still
<1>4. w.stage \in Stages /\ row.payload \in Payload
  BY DEF Typed, WorkerType, RowType
<1>5. w.pc = "slice" => w.job = 0
  BY <1>4 DEF Holds, Sends, SendsOK, WorkOK
<1>6. \A s \in Stages : Later(s, w, w')
  BY <1>5, LaterWhen DEF Still
<1>7. BatchesGrow(batches, batches') /\ requests' = requests
  BY DEF Still
<1>. QED  BY <1>3, <1>4, <1>6, <1>7, QuietKeeps

\* Steps that move the worker on and write, at most, its copy of the payload.
LEMMA QuietStepsHold ==
  ASSUME Typed, Holds(row, w, requests, batches),
         \/ DecideOutcome \/ FinishRun \/ HandlePause \/ WritePaused \/ WriteFailed
         \/ BeginApply \/ EndApply \/ FindBatches \/ InspectBatch \/ EndCancel
  PROVE  Holds(row', w', requests', batches')
<1>a. w \in WorkerType /\ row \in RowType
  BY DEF Typed
<1>b. w.inflight # {} => w.pc \in {"validate", "fallback"}
  BY DEF Holds, RunOK, ResultsWork
<1>c. BatchesGrow(batches, batches)
  BY Unchanged
<1>d. \A p : Persist(p) => row'.payload = p
  BY <1>a DEF Persist, RowType
<1>1. CASE DecideOutcome
  <2>1. w'.mem = w.mem /\ w'.polish = w.polish /\ w'.stage = w.stage /\ w'.inflight = {}
    BY <1>1, <1>a, <1>b DEF DecideOutcome, Goto, WorkerType, At
  <2>2. /\ w'.pc \notin AskPoints \cup {"stage", "entry", "begin", "prepare", "apply"}
        /\ w'.pc \in RunPoints => w.pc \in RunPoints \ {"created"}
        /\ w'.pc \in ApplyPoints => w.pc \in ApplyPoints
    BY <1>1, <1>a DEF DecideOutcome, Goto, WorkerType, At, AskPoints, RunPoints, ApplyPoints
  <2>3. row'.payload = row.payload \/ (w.pc \in RunPoints \ {"created"} /\ row'.payload = w.mem)
    BY <1>1, <1>a, <1>d DEF DecideOutcome, RowType, RunPoints, At
  <2>4. w.pc = "apply" => row'.payload = w.mem
    BY <1>1, <1>a, <1>d DEF DecideOutcome, RowType, At
  <2>5. requests' = requests /\ BatchesGrow(batches, batches')
    BY <1>1, <1>c DEF DecideOutcome, running, provider
  <2>6. Moves
    BY <2>1, <2>2, <2>3, <2>4, <2>5 DEF Moves
  <2>. QED  BY <2>6, MovesHold
<1>2. CASE FinishRun
  <2>1. w'.mem = w.mem /\ w'.polish = w.polish /\ w'.stage = w.stage /\ w'.inflight = {}
    BY <1>2, <1>a, <1>b DEF FinishRun, Goto, WorkerType, At
  <2>2. /\ w'.pc \notin AskPoints \cup {"stage", "entry", "begin", "prepare", "apply"}
        /\ w'.pc \in RunPoints => w.pc \in RunPoints \ {"created"}
        /\ w'.pc \in ApplyPoints => w.pc \in ApplyPoints
    BY <1>2, <1>a DEF FinishRun, Goto, WorkerType, At, AskPoints, RunPoints, ApplyPoints
  <2>3. row'.payload = row.payload \/ (w.pc \in RunPoints \ {"created"} /\ row'.payload = w.mem)
    BY <1>2, <1>a, <1>d DEF FinishRun, RowType, RunPoints, At
  <2>4. w.pc = "apply" => row'.payload = w.mem
    BY <1>2, <1>a, <1>d DEF FinishRun, RowType, At
  <2>5. requests' = requests /\ BatchesGrow(batches, batches')
    BY <1>2, <1>c DEF FinishRun, running, provider
  <2>6. Moves
    BY <2>1, <2>2, <2>3, <2>4, <2>5 DEF Moves
  <2>. QED  BY <2>6, MovesHold
<1>3. CASE HandlePause
  <2>1. w'.mem = w.mem /\ w'.polish = w.polish /\ w'.stage = w.stage /\ w'.inflight = {}
    BY <1>3, <1>a, <1>b DEF HandlePause, Goto, WorkerType, At
  <2>2. /\ w'.pc \notin AskPoints \cup {"stage", "entry", "begin", "prepare", "apply"}
        /\ w'.pc \in RunPoints => w.pc \in RunPoints \ {"created"}
        /\ w'.pc \in ApplyPoints => w.pc \in ApplyPoints
    BY <1>3, <1>a DEF HandlePause, Goto, WorkerType, At, AskPoints, RunPoints, ApplyPoints
  <2>3. row'.payload = row.payload \/ (w.pc \in RunPoints \ {"created"} /\ row'.payload = w.mem)
    BY <1>3, <1>a, <1>d DEF HandlePause, RowType, RunPoints, At
  <2>4. w.pc = "apply" => row'.payload = w.mem
    BY <1>3, <1>a, <1>d DEF HandlePause, RowType, At
  <2>5. requests' = requests /\ BatchesGrow(batches, batches')
    BY <1>3, <1>c DEF HandlePause, running, provider
  <2>6. Moves
    BY <2>1, <2>2, <2>3, <2>4, <2>5 DEF Moves
  <2>. QED  BY <2>6, MovesHold
<1>4. CASE WritePaused
  <2>1. w'.mem = w.mem /\ w'.polish = w.polish /\ w'.stage = w.stage /\ w'.inflight = {}
    BY <1>4, <1>a, <1>b DEF WritePaused, Goto, WorkerType, At
  <2>2. /\ w'.pc \notin AskPoints \cup {"stage", "entry", "begin", "prepare", "apply"}
        /\ w'.pc \in RunPoints => w.pc \in RunPoints \ {"created"}
        /\ w'.pc \in ApplyPoints => w.pc \in ApplyPoints
    BY <1>4, <1>a DEF WritePaused, Goto, WorkerType, At, AskPoints, RunPoints, ApplyPoints
  <2>3. row'.payload = row.payload \/ (w.pc \in RunPoints \ {"created"} /\ row'.payload = w.mem)
    BY <1>4, <1>a, <1>d DEF WritePaused, RowType, RunPoints, At
  <2>4. w.pc = "apply" => row'.payload = w.mem
    BY <1>4, <1>a, <1>d DEF WritePaused, RowType, At
  <2>5. requests' = requests /\ BatchesGrow(batches, batches')
    BY <1>4, <1>c DEF WritePaused, running, provider
  <2>6. Moves
    BY <2>1, <2>2, <2>3, <2>4, <2>5 DEF Moves
  <2>. QED  BY <2>6, MovesHold
<1>5. CASE WriteFailed
  <2>1. w'.mem = w.mem /\ w'.polish = w.polish /\ w'.stage = w.stage /\ w'.inflight = {}
    BY <1>5, <1>a, <1>b DEF WriteFailed, Goto, WorkerType, At
  <2>2. /\ w'.pc \notin AskPoints \cup {"stage", "entry", "begin", "prepare", "apply"}
        /\ w'.pc \in RunPoints => w.pc \in RunPoints \ {"created"}
        /\ w'.pc \in ApplyPoints => w.pc \in ApplyPoints
    BY <1>5, <1>a DEF WriteFailed, Goto, WorkerType, At, AskPoints, RunPoints, ApplyPoints
  <2>3. row'.payload = row.payload \/ (w.pc \in RunPoints \ {"created"} /\ row'.payload = w.mem)
    BY <1>5, <1>a, <1>d DEF WriteFailed, RowType, RunPoints, At
  <2>4. w.pc = "apply" => row'.payload = w.mem
    BY <1>5, <1>a, <1>d DEF WriteFailed, RowType, At
  <2>5. requests' = requests /\ BatchesGrow(batches, batches')
    BY <1>5, <1>c DEF WriteFailed, running, provider
  <2>6. Moves
    BY <2>1, <2>2, <2>3, <2>4, <2>5 DEF Moves
  <2>. QED  BY <2>6, MovesHold
<1>6. CASE BeginApply
  <2>1. w'.mem = w.mem /\ w'.polish = w.polish /\ w'.stage = w.stage /\ w'.inflight = {}
    BY <1>6, <1>a, <1>b DEF BeginApply, Goto, WorkerType, At
  <2>2. /\ w'.pc \notin AskPoints \cup {"stage", "entry", "begin", "prepare", "apply"}
        /\ w'.pc \in RunPoints => w.pc \in RunPoints \ {"created"}
        /\ w'.pc \in ApplyPoints => w.pc \in ApplyPoints
    BY <1>6, <1>a DEF BeginApply, Goto, WorkerType, At, AskPoints, RunPoints, ApplyPoints
  <2>3. row'.payload = row.payload \/ (w.pc \in RunPoints \ {"created"} /\ row'.payload = w.mem)
    BY <1>6, <1>a, <1>d DEF BeginApply, RowType, RunPoints, At
  <2>4. w.pc = "apply" => row'.payload = w.mem
    BY <1>6, <1>a, <1>d DEF BeginApply, RowType, At
  <2>5. requests' = requests /\ BatchesGrow(batches, batches')
    BY <1>6, <1>c DEF BeginApply, running, provider
  <2>6. Moves
    BY <2>1, <2>2, <2>3, <2>4, <2>5 DEF Moves
  <2>. QED  BY <2>6, MovesHold
<1>7. CASE EndApply
  <2>1. w'.mem = w.mem /\ w'.polish = w.polish /\ w'.stage = w.stage /\ w'.inflight = {}
    BY <1>7, <1>a, <1>b DEF EndApply, Goto, WorkerType, At
  <2>2. /\ w'.pc \notin AskPoints \cup {"stage", "entry", "begin", "prepare", "apply"}
        /\ w'.pc \in RunPoints => w.pc \in RunPoints \ {"created"}
        /\ w'.pc \in ApplyPoints => w.pc \in ApplyPoints
    BY <1>7, <1>a DEF EndApply, Goto, WorkerType, At, AskPoints, RunPoints, ApplyPoints
  <2>3. row'.payload = row.payload \/ (w.pc \in RunPoints \ {"created"} /\ row'.payload = w.mem)
    BY <1>7, <1>a, <1>d DEF EndApply, RowType, RunPoints, At
  <2>4. w.pc = "apply" => row'.payload = w.mem
    BY <1>7, <1>a, <1>d DEF EndApply, RowType, At
  <2>5. requests' = requests /\ BatchesGrow(batches, batches')
    BY <1>7, <1>c DEF EndApply, running, provider
  <2>6. Moves
    BY <2>1, <2>2, <2>3, <2>4, <2>5 DEF Moves
  <2>. QED  BY <2>6, MovesHold
<1>8. CASE FindBatches
  <2>1. w'.mem = w.mem /\ w'.polish = w.polish /\ w'.stage = w.stage /\ w'.inflight = {}
    BY <1>8, <1>a, <1>b DEF FindBatches, Goto, WorkerType, At
  <2>2. /\ w'.pc \notin AskPoints \cup {"stage", "entry", "begin", "prepare", "apply"}
        /\ w'.pc \in RunPoints => w.pc \in RunPoints \ {"created"}
        /\ w'.pc \in ApplyPoints => w.pc \in ApplyPoints
    <3>1. w.pc = "find" /\ \E todo : w' = [w EXCEPT !.pc = "settle", !.todo = todo, !.active = FALSE]
      BY <1>8 DEF FindBatches, At
    <3>2. w'.pc = "settle"
      BY <1>a, <3>1 DEF WorkerType
    <3>. QED  BY <3>1, <3>2 DEF AskPoints, RunPoints, ApplyPoints
  <2>3. row'.payload = row.payload \/ (w.pc \in RunPoints \ {"created"} /\ row'.payload = w.mem)
    BY <1>8, <1>a, <1>d DEF FindBatches, RowType, RunPoints, At
  <2>4. w.pc = "apply" => row'.payload = w.mem
    BY <1>8, <1>a, <1>d DEF FindBatches, RowType, At
  <2>5. requests' = requests /\ BatchesGrow(batches, batches')
    BY <1>8, <1>c DEF FindBatches, running, provider
  <2>6. Moves
    BY <2>1, <2>2, <2>3, <2>4, <2>5 DEF Moves
  <2>. QED  BY <2>6, MovesHold
<1>9. CASE InspectBatch
  <2>1. w'.mem = w.mem /\ w'.polish = w.polish /\ w'.stage = w.stage /\ w'.inflight = {}
    BY <1>9, <1>a, <1>b DEF InspectBatch, Settled, Goto, WorkerType, At
  <2>2. /\ w'.pc \notin AskPoints \cup {"stage", "entry", "begin", "prepare", "apply"}
        /\ w'.pc \in RunPoints => w.pc \in RunPoints \ {"created"}
        /\ w'.pc \in ApplyPoints => w.pc \in ApplyPoints
    <3>1. w.pc = "inspect" /\ w'.pc = "settle"
      BY <1>9, <1>a DEF InspectBatch, Settled, WorkerType, At
    <3>. QED  BY <3>1 DEF AskPoints, RunPoints, ApplyPoints
  <2>3. row'.payload = row.payload \/ (w.pc \in RunPoints \ {"created"} /\ row'.payload = w.mem)
    BY <1>9, <1>a, <1>d DEF InspectBatch, RowType, RunPoints, At
  <2>4. w.pc = "apply" => row'.payload = w.mem
    BY <1>9, <1>a, <1>d DEF InspectBatch, RowType, At
  <2>5. requests' = requests /\ BatchesGrow(batches, batches')
    BY <1>9, <1>c DEF InspectBatch, running, provider
  <2>6. Moves
    BY <2>1, <2>2, <2>3, <2>4, <2>5 DEF Moves
  <2>. QED  BY <2>6, MovesHold
<1>10. CASE EndCancel
  <2>1. w'.mem = w.mem /\ w'.polish = w.polish /\ w'.stage = w.stage /\ w'.inflight = {}
    BY <1>10, <1>a, <1>b DEF EndCancel, Goto, WorkerType, At
  <2>2. /\ w'.pc \notin AskPoints \cup {"stage", "entry", "begin", "prepare", "apply"}
        /\ w'.pc \in RunPoints => w.pc \in RunPoints \ {"created"}
        /\ w'.pc \in ApplyPoints => w.pc \in ApplyPoints
    BY <1>10, <1>a DEF EndCancel, Goto, WorkerType, At, AskPoints, RunPoints, ApplyPoints
  <2>3. row'.payload = row.payload \/ (w.pc \in RunPoints \ {"created"} /\ row'.payload = w.mem)
    BY <1>10, <1>a, <1>d DEF EndCancel, RowType, RunPoints, At
  <2>4. w.pc = "apply" => row'.payload = w.mem
    BY <1>10, <1>a, <1>d DEF EndCancel, RowType, At
  <2>5. requests' = requests /\ BatchesGrow(batches, batches')
    BY <1>10, <1>c DEF EndCancel, running, provider
  <2>6. Moves
    BY <2>1, <2>2, <2>3, <2>4, <2>5 DEF Moves
  <2>. QED  BY <2>6, MovesHold
<1>. QED  BY <1>1, <1>2, <1>3, <1>4, <1>5, <1>6, <1>7, <1>8, <1>9, <1>10

\* The payload a task is run again with is the same to the stages: none of its
\* jobs was listed, so that no item had been worked on.
LEMMA RerunIsAlike ==
  ASSUME Typed, Holds(row, w, requests, batches), w.pc = "entry", row.status \in TerminalStatuses
  PROVE  Alike(prepare_payload_for_rerun(row.payload), row.payload)
<1>. DEFINE new == prepare_payload_for_rerun(row.payload)
<1>1. row.payload \in Payload
  BY DEF Typed, RowType
<1>2. NoneListed(row.payload) /\ \A s \in Stages : Waiting(row.payload, s) = Items
  BY DEF Holds, RunOK, NothingListed
<1>3. /\ new.jobs = NoJobs /\ new.prepared = row.payload.prepared /\ new.enable_polish = row.payload.enable_polish
      /\ \A i \in Items :
           /\ row.payload.items[i].applied => new.items[i] = row.payload.items[i]
           /\ ~row.payload.items[i].applied =>
                /\ new.items[i].translation = IF Final(row.payload.items[i], "translation")
                                              THEN row.payload.items[i].translation ELSE new_stage_state
                /\ new.items[i].polish =
                     IF Final(row.payload.items[i], "translation") /\ Final(row.payload.items[i], "polish")
                     THEN row.payload.items[i].polish ELSE new_stage_state
  BY <1>1, RerunResult
<1>. HIDE DEF new
<1>4. \A i \in Items : \A s \in Stages : row.payload.items[i][s].state = "pending"
  BY <1>2 DEF Waiting, ItemsIn
<1>5. \A i \in Items : \A s \in Stages : new.items[i][s].state = "pending"
  BY <1>3, <1>4 DEF new_stage_state, Stages, Final
<1>6. \A s \in Stages : Waiting(new, s) = Items
  BY <1>5 DEF Waiting, ItemsIn
<1>7. Succeeded(new) = {} /\ Succeeded(row.payload) = {}
  BY <1>4, <1>5 DEF Succeeded, ItemsIn, Stages
<1>8. \A s \in Stages : new.jobs[s] = row.payload.jobs[s]
  BY <1>2, <1>3 DEF NoneListed, NoJobs
<1>. QED  BY <1>2, <1>3, <1>6, <1>7, <1>8 DEF Alike, new

\* A run starts, or finds that there is nothing to run.
LEMMA EnterRunHolds ==
  ASSUME Typed, Holds(row, w, requests, batches), EnterRun
  PROVE  Holds(row', w', requests', batches')
<1>a. w \in WorkerType /\ row \in RowType /\ row.payload \in Payload /\ w.stage \in Stages
  BY DEF Typed, RowType, WorkerType
<1>b. w.inflight = {} /\ w.pc = "entry" /\ requests' = requests /\ batches' = batches
  BY DEF Holds, RunOK, ResultsWork, EnterRun, At, running
<1>c. \A p : Alike(p, p)
  BY DEF Alike
<1>1. CASE w' = IdleWorker(row.payload) /\ UNCHANGED row
  <2>1. Resting(row, row', w')
    BY <1>1, <1>c DEF Resting, IdleWorker
  <2>. QED  BY <1>a, <1>b, <2>1, RestHolds
<1>2. CASE (Goto("post") \/ Goto("cancel")) /\ UNCHANGED row
  <2>1. Moves
    BY <1>2, <1>a, <1>b, Unchanged DEF Moves, Goto, WorkerType, AskPoints, RunPoints, ApplyPoints
  <2>. QED  BY <2>1, MovesHold
<1>3. CASE Goto("begin") /\ Alike(row'.payload, row.payload)
  <2>1. w'.pc = "begin" /\ w'.inflight = {} /\ w'.polish = w.polish /\ w'.stage = w.stage
    BY <1>3, <1>a, <1>b DEF Goto, WorkerType
  <2>2. Follows(row, w, row', w')
    BY <1>b, <2>1 DEF Follows, RunPoints, AskPoints, WorkPoints, ApplyPoints, Polling
  <2>3. CarriesOn(row, w, row', w')
    BY <1>3, <2>1, <2>2 DEF CarriesOn, RunPoints
  <2>4. \A s \in Stages : Later(s, w, w')
    BY <2>1, LaterWhen DEF AskPoints
  <2>. QED  BY <1>a, <1>b, <2>3, <2>4, Unchanged, QuietKeeps
<1>4. CASE /\ row.status \in TerminalStatuses \ {"completed"}
           /\ row' = [status |-> "paused", cancel_requested |-> FALSE,
                      payload |-> prepare_payload_for_rerun(row.payload)]
           /\ Goto("begin")
  BY <1>3, <1>4, <1>b, RerunIsAlike
<1>5. CASE Goto(IF row.cancel_requested THEN "cancel" ELSE "begin") /\ UNCHANGED row
  BY <1>2, <1>3, <1>5, <1>c
<1>. QED  BY <1>1, <1>2, <1>4, <1>5 DEF EnterRun

\* The payload is prepared, or it was before.
LEMMA PrepareHolds ==
  ASSUME Typed, Holds(row, w, requests, batches), Prepare
  PROVE  Holds(row', w', requests', batches')
<1>a. w \in WorkerType /\ row \in RowType /\ row.payload \in Payload /\ w.stage \in Stages
  BY DEF Typed, RowType, WorkerType
<1>b. w.inflight = {} /\ w.pc = "prepare" /\ requests' = requests /\ batches' = batches
  BY DEF Holds, RunOK, ResultsWork, Prepare, At, running
<1>c. \A p : Alike(p, p)
  BY DEF Alike
<1>d. \A p : Persist(p) => row'.payload = p
  BY <1>a DEF Persist, RowType
<1>1. CASE w.mem.prepared /\ Persist(w.mem) /\ Goto("stage")
  <2>1. /\ w'.pc = "stage" /\ w'.inflight = {} /\ w'.polish = w.polish /\ w'.stage = w.stage /\ w'.mem = w.mem
        /\ row'.payload = w.mem
    BY <1>1, <1>a, <1>b, <1>d DEF Goto, WorkerType
  <2>2. Follows(row, w, row', w')
    BY <1>1, <1>b, <1>c, <2>1 DEF Follows, RunPoints, AskPoints, WorkPoints, ApplyPoints, Polling
  <2>3. CarriesOn(row, w, row', w')
    BY <1>b, <1>c, <2>1, <2>2 DEF CarriesOn, RunPoints
  <2>4. \A s \in Stages : Later(s, w, w')
    BY <2>1, LaterWhen DEF AskPoints
  <2>. QED  BY <1>a, <1>b, <2>3, <2>4, Unchanged, QuietKeeps
<1>2. CASE (Pause \/ Raise) /\ UNCHANGED row
  <2>1. w' = [w EXCEPT !.pc = w'.pc] /\ w'.pc \in {"interrupted", "transient", "permanent"}
    BY <1>2, <1>a DEF Pause, Raise, Goto, WorkerType
  <2>2. /\ w'.mem = w.mem /\ w'.polish = w.polish /\ w'.stage = w.stage /\ w'.inflight = {}
        /\ w'.pc \notin ApplyPoints /\ w'.pc \notin AskPoints
    BY <2>1, <1>a, <1>b DEF WorkerType, ApplyPoints, AskPoints
  <2>3. Moves
    BY <1>2, <1>b, <2>1, <2>2, Unchanged DEF Moves, RunPoints
  <2>. QED  BY <2>3, MovesHold
<1>3. CASE ~w.mem.prepared /\ Persist(PreparedPayload) /\ Proceed("stage", PreparedPayload)
  <2>1. /\ w'.pc = "stage" /\ w'.inflight = {} /\ w'.polish = w.polish /\ w'.stage = w.stage
        /\ w'.mem = PreparedPayload /\ row'.payload = PreparedPayload
    BY <1>3, <1>a, <1>b, <1>d DEF Proceed, WorkerType
  <2>. QED  BY <1>3, <1>a, <1>b, <2>1, FreshKeeps
<1>4. CASE /\ ~w.mem.prepared
           /\ row' = [row EXCEPT !.status = "completed", !.payload = NewPayload(TRUE)] /\ Goto("post")
  <2>1. /\ w'.pc = "post" /\ w'.inflight = {} /\ w'.polish = w.polish /\ w'.stage = w.stage
        /\ row'.payload = NewPayload(TRUE)
    BY <1>4, <1>a, <1>b DEF Goto, WorkerType, RowType
  <2>2. row.payload \in Payload /\ w.pc = "prepare" /\ ~w.mem.prepared
    BY <1>4, <1>a, <1>b
  <2>3. Holds(row', w', requests, batches)
    BY ZenonT(60), <2>1, <2>2, FreshKeeps
  <2>. QED  BY <1>b, <2>3
<1>. QED  BY <1>1, <1>2, <1>3, <1>4 DEF Prepare

\* A worker takes its copy of the payload, or ends.
LEMMA RestStepsHold ==
  ASSUME Typed, Holds(row, w, requests, batches),
         BeginRun \/ NoteRemoteSubmission \/ StartRun \/ Crash \/ EndInterrupted \/ UserCancel \/ BeginCancel
  PROVE  Holds(row', w', requests', batches')
<1>a. w \in WorkerType /\ row \in RowType /\ row.payload \in Payload
  BY DEF Typed, RowType
<1>b. w.inflight # {} => w.pc \in {"validate", "fallback"}
  BY DEF Holds, RunOK, ResultsWork
<1>c. \A p : Alike(p, p)
  BY DEF Alike
<1>d. \A action : LET new == Worker(action)
                  IN  /\ new.inflight = {} /\ new.stage = "translation" /\ new.polish = row.payload.enable_polish
                      /\ new.pc = IF action = "run" THEN "entry" ELSE "cancel"
  BY DEF Worker, IdleWorker
<1>1. CASE BeginRun
  <2>1. /\ w'.pc = "prepare" /\ w.pc = "begin" /\ w'.mem = row.payload /\ row'.payload = row.payload
        /\ w'.polish = w.polish /\ w'.stage = w.stage /\ w'.inflight = {} /\ requests' = requests /\ batches' = batches
    BY <1>1, <1>a, <1>b DEF BeginRun, Proceed, PersistProgress, WorkerType, RowType, running, At
  <2>2. Copies(row, w, row', w')
    BY <1>c, <2>1 DEF Copies
  <2>. QED  BY <1>a, <2>1, <2>2, RestHolds
<1>2. CASE NoteRemoteSubmission
  <2>1. Alike(row'.payload, row.payload)
    BY <1>2, <1>a, <1>c DEF NoteRemoteSubmission, RowType, Payload, Alike, Waiting, Succeeded, ItemsIn
  <2>2. Resting(row, row', w') /\ requests' = requests /\ batches' = batches
    BY <1>2, <2>1 DEF NoteRemoteSubmission, Resting, IdleWorker, running
  <2>. QED  BY <1>a, <2>2, RestHolds
<1>3. CASE StartRun
  <2>1. Resting(row, row', w') /\ requests' = requests /\ batches' = batches
    BY <1>3, <1>a, <1>c, <1>d DEF StartRun, Resting, running, RowType, Payload
  <2>. QED  BY <1>a, <2>1, RestHolds
<1>4. CASE Crash \/ EndInterrupted
  <2>1. Resting(row, row', w') /\ requests' = requests /\ batches' = batches
    BY <1>4, <1>c DEF Crash, EndInterrupted, Resting, IdleWorker, running
  <2>. QED  BY <1>a, <2>1, RestHolds
<1>5. CASE UserCancel
  <2>1. row'.payload = row.payload
    BY <1>5, <1>a DEF UserCancel, CancelRequested, RowType
  <2>2. Resting(row, row', w') /\ requests' = requests /\ batches' = batches
    BY <1>5, <1>a, <1>c, <1>d, <2>1 DEF UserCancel, CancelRequested, Resting, running, Payload
  <2>. QED  BY <1>a, <2>2, RestHolds
<1>6. CASE BeginCancel
  <2>0. w.inflight = {} /\ w.pc = "cancel" /\ requests' = requests /\ batches' = batches
    BY <1>6, <1>b DEF BeginCancel, provider, At
  <2>1. CASE Goto("post") /\ UNCHANGED row
    <3>1. Moves
      BY <2>0, <2>1, <1>a, Unchanged DEF Moves, Goto, WorkerType, AskPoints, RunPoints, ApplyPoints
    <3>. QED  BY <3>1, MovesHold
  <2>2. CASE row' = [row EXCEPT !.status = "cancelling", !.cancel_requested = TRUE] /\ Proceed("find", row.payload)
    <3>1. /\ w'.pc = "find" /\ w'.mem = row.payload /\ row'.payload = row.payload
          /\ w'.polish = w.polish /\ w'.stage = w.stage /\ w'.inflight = {}
      BY <2>0, <2>2, <1>a DEF Proceed, WorkerType, RowType
    <3>2. Copies(row, w, row', w')
      BY <1>c, <3>1 DEF Copies
    <3>. QED  BY <1>a, <2>0, <3>2, RestHolds
  <2>. QED  BY <1>6, <2>1, <2>2 DEF BeginCancel
<1>. QED  BY <1>1, <1>2, <1>3, <1>4, <1>5, <1>6

\* The engine, the user, the provider: the worker stays where it is.
LEMMA StillStepsHold ==
  ASSUME Typed, Holds(row, w, requests, batches),
         MarkCancelRequested \/ InterruptWorker \/ UserRerun \/ Shutdown \/ ProviderStep \/ UNCHANGED vars
  PROVE  Holds(row', w', requests', batches')
<1>a. w \in WorkerType /\ row \in RowType
  BY DEF Typed
<1>b. BatchesGrow(batches, batches)
  BY Unchanged
<1>1. CASE MarkCancelRequested
  <2>1. row'.payload = row.payload /\ row'.status \notin TerminalStatuses
    BY <1>1, <1>a DEF MarkCancelRequested, CancelRequested, RowType, TerminalStatuses
  <2>2. Still
    BY <1>1, <1>b, <2>1 DEF MarkCancelRequested, Still, running
  <2>. QED  BY <2>2, StillHolds
<1>2. CASE InterruptWorker
  <2>1. Still
    BY <1>2, <1>a, <1>b DEF InterruptWorker, Still, running, WorkerType
  <2>. QED  BY <2>1, StillHolds
<1>3. CASE UserRerun
  <2>1. row'.payload = row.payload /\ row'.status \notin TerminalStatuses
    BY <1>3, <1>a DEF UserRerun, RowType, TerminalStatuses
  <2>2. Still
    BY <1>3, <1>b, <2>1 DEF UserRerun, Still, running
  <2>. QED  BY <2>2, StillHolds
<1>4. CASE Shutdown
  <2>1. Still
    BY <1>4, <1>a, <1>b DEF Shutdown, Still, running, WorkerType
  <2>. QED  BY <2>1, StillHolds
<1>5. CASE ProviderStep
  <2>1. PICK b \in Batches : EndJob(b)
    BY <1>5 DEF ProviderStep
  <2>2. BatchesGrow(batches, batches')
    BY <2>1, JobsGrow DEF Typed
  <2>3. Still
    BY <1>5, <2>1, <2>2 DEF ProviderStep, EndJob, Still
  <2>. QED  BY <2>3, StillHolds
<1>6. CASE UNCHANGED vars
  <2>1. Still
    BY <1>6, <1>b DEF vars, Still
  <2>. QED  BY <2>1, StillHolds
<1>. QED  BY <1>1, <1>2, <1>3, <1>4, <1>5, <1>6

\* The worker cancels a job.
LEMMA CancelBatchHolds ==
  ASSUME Typed, Holds(row, w, requests, batches), CancelBatch
  PROVE  Holds(row', w', requests', batches')
<1>a. w \in WorkerType /\ w.inflight = {} /\ w.pc = "cancelling"
  BY DEF Typed, Holds, RunOK, ResultsWork, CancelBatch, At
<1>1. BatchesGrow(batches, batches')
  <2>1. CASE IsActive(w.batch) /\ CancelJob(w.batch)
    BY <2>1, JobsGrow DEF Typed
  <2>2. CASE UNCHANGED batches
    BY <2>2, Unchanged
  <2>. QED  BY <2>1, <2>2 DEF CancelBatch
<1>2. Moves
  BY <1>a, <1>1 DEF CancelBatch, Moves, Goto, WorkerType, AskPoints, RunPoints, ApplyPoints
<1>. QED  BY <1>2, MovesHold

\* Payloads whose items are in the same states are the same to the stages.
LEMMA SameStates ==
  ASSUME NEW p, NEW q, p.prepared = q.prepared, p.enable_polish = q.enable_polish, p.jobs = q.jobs,
         \A i \in Items, s \in Stages : p.items[i][s].state = q.items[i][s].state
  PROVE  Alike(p, q)
BY DEF Alike, Succeeded, Waiting, ItemsIn, Stages

\* A stage begins.
LEMMA StageHolds ==
  ASSUME Typed, Holds(row, w, requests, batches), run_translation_stage \/ run_polish_stage
  PROVE  Holds(row', w', requests', batches')
<1>a. w \in WorkerType /\ row \in RowType /\ row.payload \in Payload /\ w.stage \in Stages /\ w.mem \in Payload
  BY DEF Typed, RowType, WorkerType
<1>b. w.inflight = {} /\ w.pc = "stage" /\ requests' = requests /\ batches' = batches
  BY DEF Holds, RunOK, ResultsWork, run_translation_stage, run_polish_stage, At, provider
<1>c. \A p : Alike(p, p)
  BY DEF Alike
<1>d. \A p : Persist(p) => row'.payload = p
  BY <1>a DEF Persist, RowType
<1>1. CASE run_translation_stage
  <2>1. /\ w'.pc = "jobs" /\ w'.job = 1 /\ w'.inflight = {} /\ w'.polish = w.polish /\ w'.stage = w.stage
        /\ w'.mem = w.mem /\ row'.payload = w.mem /\ w.stage = "translation"
    BY <1>1, <1>a, <1>b, <1>d DEF run_translation_stage, WorkerType
  <2>2. Follows(row, w, row', w')
    BY <1>b, <1>c, <2>1 DEF Follows, RunPoints, AskPoints, WorkPoints, ApplyPoints, Polling
  <2>3. CarriesOn(row, w, row', w')
    BY <1>b, <1>c, <2>1, <2>2 DEF CarriesOn, RunPoints
  <2>4. \A s \in Stages : Later(s, w, w')
    BY <2>1 DEF Later, First, InJobs, InResults, InSlices, Polling
  <2>. QED  BY <1>a, <1>b, <2>3, <2>4, Unchanged, QuietKeeps
<1>2. CASE run_polish_stage /\ w.polish
  <2>. DEFINE mem == WithState(w.mem, "polish", Items \ Succeeded(w.mem), "skipped")
  <2>1. Persist(mem) /\ w' = [w EXCEPT !.pc = "jobs", !.job = 1, !.mem = mem]
    BY <1>2 DEF run_polish_stage
  <2>. HIDE DEF mem
  <2>2. /\ w'.pc = "jobs" /\ w'.job = 1 /\ w'.inflight = {} /\ w'.polish = w.polish /\ w'.stage = w.stage
        /\ w'.mem = mem /\ row'.payload = mem /\ w.stage = "polish"
    BY <1>2, <1>a, <1>b, <1>d, <2>1 DEF run_polish_stage, WorkerType
  <2>3. Holds(row', w', requests, batches)
    BY <1>2, <1>a, <1>b, <2>2, PolishBegins DEF mem
  <2>. QED  BY <1>b, <2>3
<1>3. CASE run_polish_stage /\ ~w.polish
  <2>. DEFINE mem == WithState(w.mem, "polish", Succeeded(w.mem), "skipped")
  <2>1. UNCHANGED row /\ w' = [w EXCEPT !.pc = "apply", !.mem = mem]
    BY <1>3 DEF run_polish_stage, Proceed
  <2>. HIDE DEF mem
  <2>2. /\ w'.pc = "apply" /\ w'.inflight = {} /\ w'.polish = w.polish /\ w'.stage = w.stage
        /\ w'.mem = mem /\ row' = row /\ w.stage = "polish"
    BY <1>3, <1>a, <1>b, <2>1 DEF run_polish_stage, WorkerType
  <2>3. Holds(row, w', requests, batches)
    BY <1>3, <1>a, <1>b, <2>2, PolishSkipped DEF mem
  <2>. QED  BY <1>b, <2>2, <2>3
<1>. QED  BY <1>1, <1>2, <1>3

\* The response of an item begins to be looked at, or there is none.
LEMMA StartValidationHolds ==
  ASSUME Typed, Holds(row, w, requests, batches), NEW i \in Items, StartValidation(i)
  PROVE  Holds(row', w', requests', batches')
<1>a. w \in WorkerType /\ row \in RowType /\ row.payload \in Payload /\ w.stage \in Stages /\ w.mem \in Payload
  BY DEF Typed, RowType, WorkerType
<1>b. w.pc = "validate" /\ requests' = requests /\ batches' = batches
  BY DEF StartValidation, At, provider
<1>c. \A p : Alike(p, p)
  BY DEF Alike
<1>d. \A p : Persist(p) => row'.payload = p
  BY <1>a DEF Persist, RowType
<1>e. i \in ItemsIn(w.mem, w.stage, "pending") \ w.inflight
  <2>1. ItemsIn(w.mem, w.stage, "pending") \ w.inflight \in SUBSET Nat
    BY DEF ItemsIn, Items
  <2>. QED  BY <2>1, MinIsLeast DEF StartValidation, Start
<1>f. w.inflight \subseteq Items /\ \A j \in w.inflight : w.mem.items[j][w.stage].state = "pending"
  BY <1>a, <1>b DEF Holds, RunOK, ResultsWork, WorkerType
<1>1. CASE w' = Interrupted /\ UNCHANGED row
  <2>1. /\ w'.pc = "interrupted" /\ w'.inflight = {} /\ w'.polish = w.polish /\ w'.stage = w.stage
        /\ w'.mem = w.mem
    BY <1>1, <1>a DEF Interrupted, WorkerType
  <2>2. Moves
    BY <1>1, <1>b, <2>1, Unchanged DEF Moves, AskPoints, RunPoints, ApplyPoints
  <2>. QED  BY <2>2, MovesHold
<1>2. CASE w' = [w EXCEPT !.inflight = @ \cup {i}] /\ UNCHANGED row
  <2>1. /\ w'.pc = w.pc /\ w'.inflight = w.inflight \cup {i} /\ w'.polish = w.polish /\ w'.stage = w.stage
        /\ w'.mem = w.mem /\ w'.job = w.job /\ w'.hashes = w.hashes /\ w'.batch = w.batch
    BY <1>2, <1>a DEF WorkerType
  <2>2. \A j \in w'.inflight : w'.mem.items[j][w'.stage].state = "pending"
    BY <1>e, <1>f, <2>1 DEF ItemsIn
  <2>3. Follows(row, w, row', w')
    BY <1>b, <1>c, <2>1, <2>2 DEF Follows, RunPoints, AskPoints, WorkPoints, ApplyPoints, Polling
  <2>4. CarriesOn(row, w, row', w')
    BY <1>2, <1>b, <1>c, <2>1, <2>3 DEF CarriesOn
  <2>5. \A s \in Stages : Later(s, w, w')
    BY <1>b, <2>1, LaterWhen
  <2>. QED  BY <1>a, <1>b, <2>4, <2>5, Unchanged, QuietKeeps
<1>3. CASE LET mem == WithState(w.mem, w.stage, {i}, "failed") IN Persist(mem) /\ Proceed("validate", mem)
  <2>. DEFINE mem == WithState(w.mem, w.stage, {i}, "failed")
  <2>1. Persist(mem) /\ w' = [w EXCEPT !.pc = "validate", !.mem = mem]
    BY <1>3 DEF Proceed
  <2>. HIDE DEF mem
  <2>2. /\ w'.pc = w.pc /\ w'.inflight = w.inflight \ {i} /\ w'.polish = w.polish /\ w'.stage = w.stage
        /\ w'.mem = mem /\ row'.payload = mem
    BY <1>a, <1>b, <1>d, <1>e, <2>1 DEF WorkerType
  <2>3. w.mem.items[i][w.stage].state = "pending"
    BY <1>e DEF ItemsIn
  <2>4. Holds(row', w', requests, batches)
    BY <1>a, <1>b, <1>f, <2>2, <2>3, ResultKeeps DEF mem
  <2>. QED  BY <1>b, <2>4
<1>. QED  BY <1>1, <1>2, <1>3 DEF StartValidation

\* A direct call begins.
LEMMA StartFallbackHolds ==
  ASSUME Typed, Holds(row, w, requests, batches), NEW i \in Items, StartFallback(i)
  PROVE  Holds(row', w', requests', batches')
<1>a. w \in WorkerType /\ row.payload \in Payload /\ w.stage \in Stages /\ w.mem \in Payload
  BY DEF Typed, RowType, WorkerType
<1>b. w.pc = "fallback" /\ requests' = requests /\ batches' = batches /\ row' = row
  BY DEF StartFallback, At, provider
<1>c. \A p : Alike(p, p)
  BY DEF Alike
<1>e. w.mem.items[i][w.stage].state = "failed"
  <2>1. FallbackCandidates \in SUBSET Nat
    BY DEF FallbackCandidates, ItemsIn, Items
  <2>2. i \in FallbackCandidates
    BY <2>1, MinIsLeast DEF StartFallback, Start
  <2>. QED  BY <2>2 DEF FallbackCandidates, ItemsIn
<1>f. w.inflight \subseteq Items /\ \A j \in w.inflight : w.mem.items[j][w.stage].state = "failed"
  BY <1>a, <1>b DEF Holds, RunOK, ResultsWork, WorkerType
<1>1. CASE w' = Interrupted
  <2>1. /\ w'.pc = "interrupted" /\ w'.inflight = {} /\ w'.polish = w.polish /\ w'.stage = w.stage
        /\ w'.mem = w.mem
    BY <1>1, <1>a DEF Interrupted, WorkerType
  <2>2. Moves
    BY <1>b, <2>1, Unchanged DEF Moves, AskPoints, RunPoints, ApplyPoints
  <2>. QED  BY <2>2, MovesHold
<1>2. CASE w' = [w EXCEPT !.inflight = @ \cup {i}, !.mem.items[i][w.stage].fallback_attempted = TRUE]
  <2>. DEFINE item == Attempted(w.mem.items[i], w.stage)
              mem == ItemPut(w.mem, i, item)
  <2>1. w' = [w EXCEPT !.inflight = w.inflight \cup {i}, !.mem = mem]
    BY <1>2, OneItem
  <2>2. item \in Item /\ \A s \in Stages : item[s].state = w.mem.items[i][s].state
    BY OneItemTyped
  <2>. HIDE DEF item
  <2>3. /\ mem.prepared = w.mem.prepared /\ mem.enable_polish = w.mem.enable_polish /\ mem.jobs = w.mem.jobs
        /\ \A j \in Items : mem.items[j] = IF j = i THEN item ELSE w.mem.items[j]
    BY <2>2, <1>a, ItemPutResult
  <2>. HIDE DEF mem
  <2>4. \A j \in Items, s \in Stages : mem.items[j][s].state = w.mem.items[j][s].state
    BY <2>2, <2>3
  <2>5. /\ w'.pc = w.pc /\ w'.inflight = w.inflight \cup {i} /\ w'.polish = w.polish /\ w'.stage = w.stage
        /\ w'.mem = mem /\ w'.job = w.job /\ w'.hashes = w.hashes /\ w'.batch = w.batch
    BY <2>1, <1>a DEF WorkerType
  <2>6. \A j \in w'.inflight : w'.mem.items[j][w'.stage].state = "failed"
    BY <1>a, <1>e, <1>f, <2>4, <2>5
  <2>7. Alike(mem, w.mem)
    BY <2>3, <2>4, SameStates
  <2>8. Follows(row, w, row', w')
    BY <1>b, <1>c, <2>5, <2>6 DEF Follows, RunPoints, AskPoints, WorkPoints, ApplyPoints, Polling
  <2>9. CarriesOn(row, w, row', w')
    BY <1>b, <1>c, <2>5, <2>7, <2>8 DEF CarriesOn
  <2>10. \A s \in Stages : Later(s, w, w')
    BY <1>b, <2>5, LaterWhen
  <2>. QED  BY <1>a, <1>b, <2>9, <2>10, Unchanged, QuietKeeps
<1>. QED  BY <1>1, <1>2 DEF StartFallback

\* An item is done with, or the worker is interrupted.
LEMMA FinishItemHolds ==
  ASSUME Typed, Holds(row, w, requests, batches), InterruptItem \/ \E i \in Items : FinishItem(i)
  PROVE  Holds(row', w', requests', batches')
<1>a. w \in WorkerType /\ row \in RowType /\ row.payload \in Payload /\ w.stage \in Stages /\ w.mem \in Payload
  BY DEF Typed, RowType, WorkerType
<1>b. w.pc \in {"validate", "fallback"} /\ requests' = requests /\ batches' = batches
  BY DEF InterruptItem, FinishItem, provider
<1>1. CASE InterruptItem
  <2>1. /\ w'.pc = "interrupted" /\ w'.inflight = {} /\ w'.polish = w.polish /\ w'.stage = w.stage
        /\ w'.mem = w.mem
    BY <1>1, <1>a DEF InterruptItem, Interrupted, WorkerType
  <2>2. Moves
    BY <1>1, <1>b, <2>1, Unchanged DEF InterruptItem, Moves, AskPoints, RunPoints, ApplyPoints
  <2>. QED  BY <2>2, MovesHold
<1>2. ASSUME NEW i \in Items, FinishItem(i)
      PROVE  Holds(row', w', requests', batches')
  <2>1. PICK state \in {"succeeded", "failed"} :
          LET mem == WithState(w.mem, w.stage, {i}, state)
          IN  Persist(mem) /\ w' = [w EXCEPT !.mem = mem, !.inflight = @ \ {i}]
    BY <1>2 DEF FinishItem
  <2>. DEFINE mem == WithState(w.mem, w.stage, {i}, state)
  <2>2. Persist(mem) /\ w' = [w EXCEPT !.mem = mem, !.inflight = w.inflight \ {i}]
    BY <2>1
  <2>. HIDE DEF mem
  <2>3. /\ w'.pc = w.pc /\ w'.inflight = w.inflight \ {i} /\ w'.polish = w.polish /\ w'.stage = w.stage
        /\ w'.mem = mem /\ row'.payload = mem
    BY <1>a, <2>2 DEF WorkerType, Persist, RowType
  <2>4. w.inflight \subseteq Items /\ w.mem.items[i][w.stage].state \in {"pending", "failed"}
    BY <1>2, <1>a DEF FinishItem, Holds, RunOK, ResultsWork, WorkerType
  <2>5. Holds(row', w', requests, batches)
    BY <1>a, <1>b, <2>3, <2>4, ResultKeeps DEF mem
  <2>. QED  BY <1>b, <2>5
<1>. QED  BY <1>1, <1>2

\* The responses of all items were looked at, or all direct calls were made.
LEMMA StageEndHolds ==
  ASSUME Typed, Holds(row, w, requests, batches), EndValidation \/ EndFallback
  PROVE  Holds(row', w', requests', batches')
<1>a. w \in WorkerType /\ row \in RowType /\ row.payload \in Payload /\ w.stage \in Stages /\ w.mem \in Payload
  BY DEF Typed, RowType, WorkerType
<1>b. w.inflight = {} /\ requests' = requests /\ batches' = batches
  BY DEF EndValidation, EndFallback, provider
<1>c. \A p : Alike(p, p)
  BY DEF Alike
<1>d. row'.payload = w.mem
  BY <1>a DEF EndValidation, EndFallback, Persist, RowType
<1>1. CASE EndValidation
  <2>1. /\ w.pc = "validate" /\ w'.pc = "fallback" /\ w'.inflight = {} /\ w'.polish = w.polish /\ w'.stage = w.stage
        /\ w'.mem = w.mem /\ Waiting(w.mem, w.stage) = {}
    BY <1>1, <1>a, <1>b DEF EndValidation, Goto, WorkerType, At, Waiting
  <2>2. Follows(row, w, row', w')
    BY <1>b, <1>c, <2>1 DEF Follows, RunPoints, AskPoints, WorkPoints, ApplyPoints, Polling
  <2>3. CarriesOn(row, w, row', w')
    BY <1>c, <1>d, <2>1, <2>2 DEF CarriesOn, RunPoints
  <2>4. \A s \in Stages : Later(s, w, w')
    BY <2>1 DEF Later, First, InJobs, InResults, InSlices, Polling
  <2>. QED  BY <1>a, <1>b, <2>3, <2>4, Unchanged, QuietKeeps
<1>2. CASE EndFallback
  <2>1. /\ w.pc = "fallback" /\ w'.inflight = {} /\ w'.polish = w.polish /\ w'.stage = "polish" /\ w'.mem = w.mem
        /\ w'.pc = "stage" \/ (w'.pc = "apply" /\ w.stage = "polish")
    BY <1>2, <1>a, <1>b DEF EndFallback, WorkerType, At, Stages
  <2>2. Holds(row', w', requests, batches)
    BY <1>a, <1>d, <2>1, StageEnds
  <2>. QED  BY <1>b, <2>2
<1>. QED  BY <1>1, <1>2

\* A chunk is written, or is gone.
LEMMA ApplyItemHolds ==
  ASSUME Typed, Holds(row, w, requests, batches), NEW i \in Items, ApplyItem(i)
  PROVE  Holds(row', w', requests', batches')
<1>a. w \in WorkerType /\ row.payload \in Payload /\ w.stage \in Stages /\ w.mem \in Payload
  BY DEF Typed, RowType, WorkerType
<1>b. /\ w.pc = "applying" /\ w.inflight = {} /\ requests' = requests /\ batches' = batches /\ row' = row
      /\ w'.pc \in {"applying", "interrupted"} /\ w'.polish = w.polish /\ w'.stage = w.stage /\ w'.inflight = {}
  BY ApplyForms DEF ApplyItem, At, provider, Holds, RunOK, ResultsWork
<1>c. \A p : Alike(p, p)
  BY DEF Alike
<1>d. i \in Succeeded(w.mem)
  <2>1. Applicable \in SUBSET Nat
    BY DEF Applicable, Succeeded, ItemsIn, Items
  <2>. QED  BY <2>1, MinIsLeast DEF ApplyItem, Applicable
<1>1. CASE w'.mem = ItemPut(w.mem, i, Applied(w.mem.items[i]))
  <2>. DEFINE item == Applied(w.mem.items[i])
              mem == ItemPut(w.mem, i, item)
  <2>1. item \in Item /\ \A s \in Stages : item[s] = w.mem.items[i][s]
    BY OneItemTyped
  <2>. HIDE DEF item
  <2>2. /\ mem.prepared = w.mem.prepared /\ mem.enable_polish = w.mem.enable_polish /\ mem.jobs = w.mem.jobs
        /\ \A j \in Items : mem.items[j] = IF j = i THEN item ELSE w.mem.items[j]
    BY <2>1, <1>a, ItemPutResult
  <2>3. w'.mem = mem
    BY <1>1 DEF item
  <2>. HIDE DEF mem
  <2>4. \A j \in Items, s \in Stages : mem.items[j][s].state = w.mem.items[j][s].state
    BY <2>1, <2>2
  <2>5. Alike(mem, w.mem)
    BY <2>2, <2>4, SameStates
  <2>6. Follows(row, w, row', w')
    BY <1>b DEF Follows, RunPoints, AskPoints, WorkPoints, ApplyPoints, Polling
  <2>7. CarriesOn(row, w, row', w')
    BY <1>b, <1>c, <2>3, <2>5, <2>6 DEF CarriesOn, RunPoints
  <2>8. \A s \in Stages : Later(s, w, w')
    BY <1>b, LaterWhen DEF AskPoints
  <2>. QED  BY <1>a, <1>b, <2>7, <2>8, Unchanged, QuietKeeps
<1>2. CASE w'.pc = "applying" /\ w'.mem = ItemPut(w.mem, i, Missing(w.mem.items[i]))
  <2>. DEFINE item == Missing(w.mem.items[i])
              mem == ItemPut(w.mem, i, item)
  <2>1. item \in Item /\ item.polish = w.mem.items[i].polish /\ item.translation.state = "failed"
    BY OneItemTyped
  <2>. HIDE DEF item
  <2>2. /\ mem.prepared = w.mem.prepared /\ mem.enable_polish = w.mem.enable_polish /\ mem.jobs = w.mem.jobs
        /\ \A j \in Items : mem.items[j] = IF j = i THEN item ELSE w.mem.items[j]
    BY <2>1, <1>a, ItemPutResult
  <2>3. w'.mem = mem
    BY <1>2 DEF item
  <2>. HIDE DEF mem
  <2>4. Holds(row, w', requests, batches)
    BY <1>2, <1>a, <1>b, <1>d, <2>1, <2>2, <2>3, MissingKeeps
  <2>. QED  BY <1>b, <2>4
<1>. QED  BY <1>1, <1>2, ApplyForms

\* A step of the worker while it asks, that changes no request and lists no job.
LEMMA AskQuiet ==
  ASSUME Typed, Holds(row, w, requests, batches), CarriesOn(row, w, row', w'), w.pc \in AskPoints \ {"created"},
         requests' = requests, batches' = batches,
         SendsOK(w.stage, w', row.payload.jobs[w.stage], Waiting(row.payload, w.stage), requests, batches)
  PROVE  Holds(row', w', requests', batches')
<1>1. w.stage \in Stages
  BY DEF Typed, WorkerType
<1>2. RunOK(row', w', requests')
  BY <1>1, CarriesOnKeeps DEF Holds
<1>3. \A s \in Stages : row'.payload.jobs[s] = row.payload.jobs[s] /\ Waiting(row'.payload, s) = Waiting(row.payload, s)
  BY DEF CarriesOn, Alike, Holds, RunOK, Agree, AskPoints, RunPoints
<1>4. w'.stage = w.stage /\ Sends(w.stage, row', w', requests', batches')
  BY <1>1, <1>3 DEF CarriesOn, Sends
<1>. QED  BY <1>2, <1>3, <1>4, Unchanged, AskStep

\* What the invariant says of the stage the worker is in.
LEMMA WorkerSends ==
  ASSUME Typed, Holds(row, w, requests, batches)
  PROVE  SendsOK(w.stage, w, row.payload.jobs[w.stage], Waiting(row.payload, w.stage), requests, batches)
BY DEF Typed, WorkerType, Holds, Sends

\* The next listed job to poll is looked for.
LEMMA ResumeJobHolds ==
  ASSUME Typed, Basics, Holds(row, w, requests, batches), ResumeJob
  PROVE  Holds(row', w', requests', batches')
<1>. DEFINE s == w.stage
            jobs == row.payload.jobs[w.stage]
            waiting == Waiting(row.payload, w.stage)
            open == Open(w.stage, waiting, requests)
<1>a. w \in WorkerType /\ row \in RowType /\ row.payload \in Payload /\ s \in Stages /\ w.mem \in Payload /\ w.job \in Nat
  BY DEF Typed, RowType, WorkerType
<1>b. w.inflight = {} /\ w.pc = "jobs" /\ requests' = requests /\ batches' = batches
  BY DEF Holds, RunOK, ResultsWork, ResumeJob, At, provider
<1>c. \A p : Alike(p, p)
  BY DEF Alike
<1>d. /\ w.mem.jobs[w.stage] = jobs /\ PendingHashes = open /\ jobs \in Seq(JobEntry) /\ waiting \in SUBSET Items
      /\ SendsOK(s, w, jobs, waiting, requests, batches)
  BY <1>b, WorkerSees, WorkerSends DEF Holds, AskPoints
<1>e. w.pc \in AskPoints \ {"created"}
  BY <1>b DEF AskPoints
<1>. HIDE DEF jobs, waiting, open
<1>1. CASE w' = [w EXCEPT !.pc = "slice", !.job = 0] /\ UNCHANGED row
           /\ {j \in w.job..Len(jobs) : jobs[j].hashes \cap open # {}} = {}
  <2>1. /\ w'.pc = "slice" /\ w'.job = 0 /\ w'.inflight = {} /\ w'.polish = w.polish /\ w'.stage = w.stage
        /\ w'.mem = w.mem
    BY <1>1, <1>a, <1>b DEF WorkerType
  <2>2. Follows(row, w, row', w')
    BY <1>b, <2>1 DEF Follows, RunPoints, AskPoints, WorkPoints, ApplyPoints, Polling
  <2>3. CarriesOn(row, w, row', w')
    BY <1>1, <1>b, <1>c, <2>1, <2>2 DEF CarriesOn, RunPoints
  <2>4. \A n \in DOMAIN jobs : w.job <= n => jobs[n].hashes \cap open = {}
    BY <1>1, <1>a, <1>d
  <2>5. SendsOK(s, w', jobs, waiting, requests, batches)
    BY <1>a, <1>b, <1>d, <2>1, <2>4, ResumeKeeps DEF open
  <2>. QED  BY <1>b, <1>e, <2>3, <2>5, AskQuiet DEF jobs, waiting
<1>2. ASSUME NEW j \in w.job..Len(jobs), jobs[j].hashes \cap open # {},
             \A n \in w.job..Len(jobs) : jobs[n].hashes \cap open # {} => j <= n,
             LET mem == [w.mem EXCEPT !.display[w.stage] = jobs[j].hashes]
             IN  /\ Persist(mem)
                 /\ w' = [w EXCEPT !.pc = "poll", !.mem = mem, !.job = j, !.batch = jobs[j].batch,
                                   !.hashes = jobs[j].hashes \cap open]
      PROVE  Holds(row', w', requests', batches')
  <2>. DEFINE mem == [w.mem EXCEPT !.display[w.stage] = jobs[j].hashes]
  <2>1. Alike(mem, w.mem) /\ mem.jobs = w.mem.jobs
    BY <1>a DEF Payload, Alike, Waiting, Succeeded, ItemsIn
  <2>2. Persist(mem) /\ w' = [w EXCEPT !.pc = "poll", !.mem = mem, !.job = j, !.batch = jobs[j].batch,
                                   !.hashes = jobs[j].hashes \cap open]
    BY <1>2
  <2>. HIDE DEF mem
  <2>3. /\ w'.pc = "poll" /\ w'.job = j /\ w'.inflight = {} /\ w'.polish = w.polish /\ w'.stage = w.stage
        /\ w'.mem = mem /\ w'.batch = jobs[j].batch /\ w'.hashes = jobs[j].hashes \cap open
        /\ row'.payload = mem
    BY <1>a, <1>b, <2>2 DEF WorkerType, Persist, RowType
  <2>4. j \in DOMAIN jobs
    <3>1. w.job # 0
      BY <1>b DEF Basics, At
    <3>. QED  BY <1>a, <1>d, <3>1
  <2>5. ~NoneListed(row'.payload)
    BY <1>a, <1>d, <2>1, <2>3, <2>4 DEF NoneListed
  <2>6. Follows(row, w, row', w')
    BY <1>b, <2>3, <2>5 DEF Follows, RunPoints, AskPoints, WorkPoints, ApplyPoints, Polling
  <2>7. CarriesOn(row, w, row', w')
    BY <1>b, <1>c, <2>1, <2>3, <2>6 DEF CarriesOn, RunPoints
  <2>8. \A n \in DOMAIN jobs : w.job <= n /\ n < j => jobs[n].hashes \cap open = {}
    BY <1>2, <1>a, <1>d
  <2>9. SendsOK(s, w', jobs, waiting, requests, batches)
    BY <1>a, <1>b, <1>d, <2>3, <2>4, <2>8, ResumeKeeps DEF open
  <2>. QED  BY <1>b, <1>e, <2>7, <2>9, AskQuiet DEF jobs, waiting
<1>. DEFINE unfinished == {j \in w.job..Len(jobs) : jobs[j].hashes \cap open # {}}
<1>3. CASE unfinished = {}
  BY <1>1, <1>3, <1>d DEF ResumeJob
<1>4. CASE unfinished # {}
  <2>1. unfinished \in SUBSET Nat
    BY <1>a, <1>d
  <2>2. Min(unfinished) \in unfinished /\ \A n \in unfinished : Min(unfinished) <= n
    BY <1>4, <2>1, MinIsLeast
  <2>3. LET mem == [w.mem EXCEPT !.display[w.stage] = jobs[Min(unfinished)].hashes]
        IN  /\ Persist(mem)
            /\ w' = [w EXCEPT !.pc = "poll", !.mem = mem, !.job = Min(unfinished), !.batch = jobs[Min(unfinished)].batch,
                              !.hashes = jobs[Min(unfinished)].hashes \cap open]
    BY <1>4, <1>d DEF ResumeJob
  <2>. QED  BY <1>2, <2>2, <2>3
<1>. QED  BY <1>3, <1>4

\* Before a job is listed, every item still asks its request: the slice has one.
LEMMA SliceIsSome ==
  ASSUME Typed, RunOK(row, w, requests), NEW s \in Stages, NoneListed(row.payload)
  PROVE  Slice(s, Waiting(row.payload, s), requests) # {}
<1>1. Waiting(row.payload, s) = Items /\ Answered(requests) = {}
  BY DEF RunOK, NothingListed
<1>2. 1 \in Items
  BY ItemsAssumption DEF Items
<1>3. HashOf(s, 1) \in Open(s, Waiting(row.payload, s), requests)
  BY <1>1, <1>2 DEF Open
<1>. QED  BY <1>1, <1>3, SliceFacts

\* Requests of the worker's slice are noted as submitted: the other stage is not
\* concerned, and the run is as sound as it was.
LEMMA SentFrame ==
  ASSUME Typed, RunOK(row, w, requests), NEW req2, NEW sent, NEW b,
         w.pc \in {"slice", "created"}, sent \subseteq Of(w.stage), Submits(requests, req2, sent, b),
         Answered(req2) = Answered(requests), Sent(req2) = Sent(requests) \cup sent
  PROVE  /\ RunOK(row, w, req2)
         /\ \A s \in Stages \ {w.stage} : SameRequests(s, requests, req2)
<1>1. w.stage \in Stages
  BY DEF Typed, WorkerType
<1>2. ASSUME NEW s \in Stages \ {w.stage}
      PROVE  SameRequests(s, requests, req2)
  <2>1. \A h \in Of(s) : h \in Hash /\ h \notin sent
    BY DEF Of
  <2>2. \A h \in Of(s) : req2[h] = requests[h]
    BY <2>1 DEF Submits
  <2>. QED  BY <2>1, <2>2 DEF SameRequests, Answered, Sent, Refused
<1>3. Of("polish") \cap Sent(req2) \subseteq Sent(requests) \/ (w.stage = "polish" /\ w.pc \in AskPoints)
  BY DEF Of, AskPoints
<1>4. row.payload.prepared
  BY DEF RunOK, PreparedWorks, WorkPoints, AskPoints
<1>5. RunOK(row, w, req2)
  BY <1>3, <1>4, RequestsKeep
<1>. QED  BY <1>2, <1>5

\* The worker has listed a job in its copy of the payload.
LEMMA ListedSees ==
  ASSUME Typed, RunOK(row, w, requests), w.pc \in AskPoints \ {"created"}, NEW b \in Batches, NEW hashes \in SUBSET Hash
  PROVE  LET new == Listed(w.mem, b, hashes)
         IN  /\ new.prepared = w.mem.prepared /\ new.enable_polish = w.mem.enable_polish
             /\ Succeeded(new) = Succeeded(w.mem) /\ \A s \in Stages : Waiting(new, s) = Waiting(w.mem, s)
             /\ \A s \in Stages : new.jobs[s] = IF s = w.stage THEN Append(row.payload.jobs[s], NewEntry(b, hashes))
                                               ELSE row.payload.jobs[s]
<1>. DEFINE new == Listed(w.mem, b, hashes)
<1>1. /\ new.prepared = w.mem.prepared /\ new.items = w.mem.items /\ new.enable_polish = w.mem.enable_polish
      /\ \A s \in Stages : new.jobs[s] = IF s = w.stage THEN Append(w.mem.jobs[s], NewEntry(b, hashes))
                                         ELSE w.mem.jobs[s]
  BY ListedResult
<1>2. \A s \in Stages : w.mem.jobs[s] = row.payload.jobs[s]
  BY DEF RunOK, Agree, AskPoints, RunPoints
<1>. HIDE DEF new
<1>3. Succeeded(new) = Succeeded(w.mem) /\ \A s \in Stages : Waiting(new, s) = Waiting(w.mem, s)
  BY <1>1 DEF Succeeded, Waiting, ItemsIn
<1>4. \A s \in Stages : new.jobs[s] = IF s = w.stage THEN Append(row.payload.jobs[s], NewEntry(b, hashes))
                                               ELSE row.payload.jobs[s]
  BY <1>1, <1>2
<1>. QED  BY <1>1, <1>3, <1>4 DEF new

\* The next slice is looked at: it is over, submitted already, or to be submitted.
LEMMA NextSliceHolds ==
  ASSUME Typed, Holds(row, w, requests, batches), NextSlice
  PROVE  Holds(row', w', requests', batches')
<1>. DEFINE s == w.stage
            jobs == row.payload.jobs[w.stage]
            waiting == Waiting(row.payload, w.stage)
            slice == Slice(w.stage, waiting, requests)
<1>a. w \in WorkerType /\ row \in RowType /\ row.payload \in Payload /\ s \in Stages /\ w.mem \in Payload /\ w.job \in Nat
  BY DEF Typed, RowType, WorkerType
<1>b. w.inflight = {} /\ w.pc = "slice" /\ batches' = batches
  BY DEF Holds, RunOK, ResultsWork, NextSlice, At
<1>c. \A p : Alike(p, p)
  BY DEF Alike
<1>d. /\ w.mem.jobs[w.stage] = jobs /\ SliceHashes = slice /\ jobs \in Seq(JobEntry) /\ waiting \in SUBSET Items
      /\ SendsOK(s, w, jobs, waiting, requests, batches)
  BY <1>b, WorkerSees, WorkerSends DEF Holds, AskPoints
<1>e. w.pc \in AskPoints \ {"created"} /\ w.job = 0
  BY <1>a, <1>b, <1>d DEF AskPoints, SendsOK, WorkOK
<1>f. slice \subseteq Open(s, waiting, requests) /\ slice \subseteq Of(s) /\ slice \cap Answered(requests) = {}
  BY <1>a, <1>d, SliceFacts
<1>g. slice \in SUBSET Hash
  BY <1>f DEF Of
<1>h. RunOK(row, w, requests) /\ \A p : Persist(p) => row'.payload = p
  BY <1>a DEF Holds, Persist, RowType
<1>i. ~NoneListed(row.payload) \/ slice # {}
  BY <1>a, <1>h, SliceIsSome
<1>. HIDE DEF jobs, waiting, slice
<1>1. CASE slice = {} /\ Persist(w.mem) /\ Goto("validate") /\ UNCHANGED requests
  <2>1. /\ w'.pc = "validate" /\ w'.inflight = {} /\ w'.polish = w.polish /\ w'.stage = w.stage
        /\ w'.mem = w.mem /\ row'.payload = w.mem
    BY <1>1, <1>a, <1>b, <1>h DEF Goto, WorkerType
  <2>2. ~NoneListed(row'.payload)
    BY <1>1, <1>i, <1>b, <1>h, <2>1 DEF NoneListed, RunOK, Agree, RunPoints
  <2>3. Follows(row, w, row', w')
    BY <1>b, <2>1, <2>2 DEF Follows, RunPoints, AskPoints, WorkPoints, ApplyPoints, Polling
  <2>4. CarriesOn(row, w, row', w')
    BY <1>b, <1>c, <2>1, <2>3 DEF CarriesOn, RunPoints
  <2>5. SendsOK(s, w', jobs, waiting, requests, batches)
    BY <1>1, <1>a, <1>b, <1>d, <2>1, ValidateKeeps DEF slice
  <2>. QED  BY <1>1, <1>b, <1>e, <2>4, <2>5, AskQuiet DEF jobs, waiting
<1>2. CASE Goto("permanent") /\ UNCHANGED <<row, requests>>
  <2>1. Moves
    BY <1>2, <1>a, <1>b, Unchanged DEF Moves, Goto, WorkerType, AskPoints, RunPoints, ApplyPoints
  <2>. QED  BY <2>1, MovesHold
<1>3. CASE slice # {} /\ SubmittedTo(slice) = {} /\ w' = [w EXCEPT !.pc = "submit", !.hashes = slice]
           /\ UNCHANGED <<row, requests>>
  <2>1. /\ w'.pc = "submit" /\ w'.inflight = {} /\ w'.polish = w.polish /\ w'.stage = w.stage
        /\ w'.mem = w.mem /\ w'.hashes = slice /\ w'.job = w.job
    BY <1>3, <1>a, <1>b DEF WorkerType
  <2>2. Follows(row, w, row', w')
    BY <1>b, <2>1 DEF Follows, RunPoints, AskPoints, WorkPoints, ApplyPoints, Polling
  <2>3. CarriesOn(row, w, row', w')
    BY <1>3, <1>b, <1>c, <2>1, <2>2 DEF CarriesOn, RunPoints
  <2>4. slice \cap Sent(requests) = {}
    BY <1>3 DEF SubmittedTo, Submitted, Sent
  <2>5. SendsOK(s, w', jobs, waiting, requests, batches)
    BY <1>a, <1>b, <1>d, <2>1, <2>4, SubmitKeeps DEF slice
  <2>. QED  BY <1>3, <1>b, <1>e, <2>3, <2>5, AskQuiet DEF jobs, waiting
<1>4. ASSUME NEW b, SubmittedTo(slice) = {b},
             requests' = Upsert({h \in slice : ~Submitted(h)}, "submitted", b, FALSE),
             Persist(Listed(w.mem, b, slice)),
             w' = [w EXCEPT !.pc = "poll", !.mem = Listed(w.mem, b, slice), !.batch = b, !.hashes = slice]
      PROVE  Holds(row', w', requests', batches')
  <2>. DEFINE mem == Listed(w.mem, b, slice)
              sent == {h \in slice : ~Submitted(h)}
              req2 == Upsert(sent, "submitted", b, FALSE)
  <2>1. Accounted(s, slice, jobs, requests, batches)
    BY <1>a, <1>b, <1>d, SliceAccounted DEF slice, InSlices, SendsOK
  <2>2. Born(batches, b) /\ batches[b].asked = slice /\ \A h \in slice \ sent : h \in Sent(requests) /\ requests[h].batch_name = b
    <3>1. PICK h \in slice : Submitted(h) /\ requests[h].batch_name = b
      BY <1>4 DEF SubmittedTo
    <3>2. h \in Of(s) \cap Sent(requests)
      BY <1>f, <1>g, <3>1 DEF Sent, Submitted
    <3>3. \A g \in slice \ sent : Submitted(g) /\ requests[g].batch_name = b
      BY <1>4 DEF SubmittedTo
    <3>. QED  BY <1>g, <2>1, <3>1, <3>2, <3>3 DEF Accounted, Sent, Submitted
  <2>3. b \in Batches /\ sent \in SUBSET Hash /\ sent \cap Answered(requests) = {} /\ sent \subseteq slice
    BY <1>f, <1>g, <2>2 DEF Born
  <2>4. sent \cap Sent(requests) = {}
    BY DEF Sent, Submitted
  <2>5. requests' = req2 /\ w'.mem = mem /\ row'.payload = mem /\ w'.pc = "poll" /\ w'.batch = b /\ w'.hashes = slice
        /\ w'.stage = w.stage /\ w'.job = w.job /\ w'.polish = w.polish /\ w'.inflight = {}
    BY <1>4, <1>a, <1>b, <1>h DEF WorkerType
  <2>. HIDE DEF sent
  <2>6. Submits(requests, req2, sent, b) /\ Answered(req2) = Answered(requests) /\ Sent(req2) = Sent(requests) \cup sent
    BY <2>3, SubmittedRows
  <2>7. /\ mem.prepared = w.mem.prepared /\ mem.enable_polish = w.mem.enable_polish
        /\ Succeeded(mem) = Succeeded(w.mem) /\ \A t \in Stages : Waiting(mem, t) = Waiting(w.mem, t)
        /\ \A t \in Stages : mem.jobs[t] = IF t = w.stage THEN Append(row.payload.jobs[t], NewEntry(b, slice))
                                           ELSE row.payload.jobs[t]
    BY <1>e, <1>g, <1>h, <2>3, ListedSees
  <2>. HIDE DEF req2, mem
  <2>8. SendsOK(s, w, jobs, waiting, req2, batches)
    BY <1>a, <1>b, <1>d, <2>2, <2>3, <2>4, <2>6, SentKeeps DEF slice
  <2>9. Slice(s, waiting, req2) = slice
    BY <2>6 DEF Slice, Open, slice
  <2>10. slice \subseteq Sent(req2) /\ \A h \in slice : req2[h].batch_name = b
    BY <1>g, <2>2, <2>3, <2>6 DEF Submits
  <2>11. SendsOK(s, w', Append(jobs, NewEntry(b, slice)), waiting, req2, batches)
    BY <1>a, <1>b, <1>d, <1>e, <2>2, <2>3, <2>5, <2>8, <2>9, <2>10, ListedKeeps
  <2>12. /\ RunOK(row, w, req2)
         /\ \A t \in Stages \ {w.stage} : SameRequests(t, requests, req2)
    BY <1>b, <1>f, <1>h, <2>3, <2>6, SentFrame
  <2>13. RunOK(row', w', req2)
    BY <1>a, <1>b, <2>5, <2>7, <2>12, ListingKeeps
  <2>14. \A t \in Stages : Waiting(w.mem, t) = Waiting(row.payload, t)
    BY <1>b, <1>h DEF RunOK, Agree, RunPoints
  <2>15. Sends(w.stage, row', w', requests', batches')
    BY <1>a, <1>b, <2>5, <2>7, <2>11, <2>14 DEF Sends, jobs, waiting
  <2>16. /\ w'.stage = w.stage /\ RunOK(row', w', requests') /\ BatchesGrow(batches, batches')
         /\ \A t \in Stages \ {w.stage} :
              /\ SameRequests(t, requests, requests') /\ row'.payload.jobs[t] = row.payload.jobs[t]
              /\ Waiting(row'.payload, t) = Waiting(row.payload, t)
    BY <1>b, <2>5, <2>7, <2>12, <2>13, <2>14, Unchanged
  <2>. QED  BY <2>15, <2>16, AskStep
<1>5. ASSUME NEW b \in SubmittedTo(slice), SubmittedTo(slice) = {b},
             requests' = Upsert({h \in slice : ~Submitted(h)}, "submitted", b, FALSE),
             LET mem == Listed(w.mem, b, slice)
             IN  Persist(mem) /\ w' = [w EXCEPT !.pc = "poll", !.mem = mem, !.batch = b, !.hashes = slice]
      PROVE  Holds(row', w', requests', batches')
  BY <1>4, <1>5
<1>6. \/ slice = {} /\ Persist(w.mem) /\ Goto("validate") /\ UNCHANGED requests
      \/ Goto("permanent") /\ UNCHANGED <<row, requests>>
      \/ \E b \in SubmittedTo(slice) :
           /\ SubmittedTo(slice) = {b}
           /\ requests' = Upsert({h \in slice : ~Submitted(h)}, "submitted", b, FALSE)
           /\ LET mem == Listed(w.mem, b, slice)
              IN  Persist(mem) /\ w' = [w EXCEPT !.pc = "poll", !.mem = mem, !.batch = b, !.hashes = slice]
      \/ slice # {} /\ SubmittedTo(slice) = {} /\ w' = [w EXCEPT !.pc = "submit", !.hashes = slice]
         /\ UNCHANGED <<row, requests>>
  BY <1>d DEF NextSlice
<1>. QED  BY <1>1, <1>2, <1>3, <1>5, <1>6

\* The job of the slice is created, or the call fails or loses its reply.
LEMMA SubmitSliceHolds ==
  ASSUME Typed, Holds(row, w, requests, batches), SubmitSlice
  PROVE  Holds(row', w', requests', batches')
<1>. DEFINE s == w.stage
            jobs == row.payload.jobs[w.stage]
            waiting == Waiting(row.payload, w.stage)
<1>a. w \in WorkerType /\ s \in Stages /\ w.mem \in Payload /\ row.payload \in Payload /\ w.hashes \in SUBSET Hash
  BY DEF Typed, RowType, WorkerType
<1>b. w.inflight = {} /\ w.pc = "submit" /\ requests' = requests /\ row' = row /\ RunOK(row, w, requests)
  BY DEF Holds, RunOK, ResultsWork, SubmitSlice, At
<1>c. /\ jobs \in Seq(JobEntry) /\ waiting \in SUBSET Items
      /\ SendsOK(s, w, jobs, waiting, requests, batches)
  BY <1>b, WorkerSees, WorkerSends DEF Holds, AskPoints
<1>. HIDE DEF jobs, waiting
<1>1. ASSUME BatchesGrow(batches, batches'), w'.pc \in {"transient", "permanent"}, w' = [w EXCEPT !.pc = w'.pc]
      PROVE  Holds(row', w', requests', batches')
  <2>1. w'.mem = w.mem /\ w'.polish = w.polish /\ w'.stage = w.stage /\ w'.inflight = {}
    BY <1>1, <1>a, <1>b DEF WorkerType
  <2>2. Moves
    BY <1>1, <1>b, <2>1 DEF Moves, AskPoints, RunPoints, ApplyPoints
  <2>. QED  BY <2>2, MovesHold
<1>2. CASE Raise /\ UNCHANGED batches
  <2>1. w'.pc \in {"transient", "permanent"} /\ w' = [w EXCEPT !.pc = w'.pc]
    BY <1>2, <1>a DEF Raise, Goto, WorkerType
  <2>. QED  BY <1>1, <1>2, <2>1, Unchanged
<1>3. ASSUME NEW b \in Batches, CreateJob(b, w.hashes), Goto("transient")
      PROVE  Holds(row', w', requests', batches')
  <2>1. BatchesGrow(batches, batches')
    BY <1>3, JobsGrow DEF Typed
  <2>2. w'.pc = "transient" /\ w' = [w EXCEPT !.pc = w'.pc]
    BY <1>3, <1>a DEF Goto, WorkerType
  <2>. QED  BY <1>1, <2>1, <2>2
<1>4. ASSUME NEW b \in Batches, CreateJob(b, w.hashes),
             w' = [w EXCEPT !.pc = "created", !.batch = b, !.mem = Listed(w.mem, b, w.hashes)]
      PROVE  Holds(row', w', requests', batches')
  <2>. DEFINE mem == Listed(w.mem, b, w.hashes)
  <2>1. BatchesGrow(batches, batches')
    BY <1>4, JobsGrow DEF Typed
  <2>2. Born(batches', b) /\ batches'[b].asked = w.hashes
    BY <1>4 DEF CreateJob, Unborn, Born, Typed, Job
  <2>3. w'.mem = mem /\ w'.pc = "created" /\ w'.batch = b /\ w'.hashes = w.hashes
        /\ w'.stage = w.stage /\ w'.job = w.job /\ w'.polish = w.polish /\ w'.inflight = {}
    BY <1>4, <1>a, <1>b DEF WorkerType
  <2>4. /\ mem.prepared = w.mem.prepared /\ mem.enable_polish = w.mem.enable_polish
        /\ Succeeded(mem) = Succeeded(w.mem) /\ \A t \in Stages : Waiting(mem, t) = Waiting(w.mem, t)
        /\ \A t \in Stages : mem.jobs[t] = IF t = w.stage THEN Append(row.payload.jobs[t], NewEntry(b, w.hashes))
                                           ELSE row.payload.jobs[t]
    BY <1>a, <1>b, ListedSees DEF AskPoints
  <2>. HIDE DEF mem
  <2>5. RunOK(row', w', requests')
    BY <1>a, <1>b, <2>3, <2>4, ListingKeeps
  <2>6. \A t \in Stages : Later(t, w, w)
    BY <1>b, LaterWhen
  <2>7. SendsOK(s, w, jobs, waiting, requests, batches')
    BY <1>a, <1>c, <2>1, <2>6, Unchanged, SendsFrame
  <2>8. SendsOK(s, w', jobs, waiting, requests, batches')
    BY <1>a, <1>b, <1>c, <2>2, <2>3, <2>7, CreatedKeeps
  <2>9. Sends(w.stage, row', w', requests', batches')
    BY <1>b, <2>8 DEF Sends, jobs, waiting
  <2>10. /\ w'.stage = w.stage
         /\ \A t \in Stages \ {w.stage} :
              /\ SameRequests(t, requests, requests') /\ row'.payload.jobs[t] = row.payload.jobs[t]
              /\ Waiting(row'.payload, t) = Waiting(row.payload, t)
    BY <1>b, <2>3, Unchanged
  <2>. QED  BY <2>1, <2>5, <2>9, <2>10, AskStep
<1>. QED  BY <1>2, <1>3, <1>4 DEF SubmitSlice

\* A request of the slice is noted as submitted, or the job is listed.
LEMMA RecordSubmissionHolds ==
  ASSUME Typed, Basics, Holds(row, w, requests, batches), RecordSubmission
  PROVE  Holds(row', w', requests', batches')
<1>. DEFINE s == w.stage
            jobs == row.payload.jobs[w.stage]
            waiting == Waiting(row.payload, w.stage)
            slice == Slice(w.stage, waiting, requests)
            record == [status |-> "submitted", batch_name |-> w.batch, cancellation |-> FALSE]
<1>a. w \in WorkerType /\ row \in RowType /\ row.payload \in Payload /\ s \in Stages /\ w.mem \in Payload
  BY DEF Typed, RowType, WorkerType
<1>b. w.inflight = {} /\ w.pc = "created" /\ batches' = batches /\ RunOK(row, w, requests) /\ w.batch \in Batches
  BY DEF Holds, RunOK, ResultsWork, RecordSubmission, Basics, At
<1>c. jobs \in Seq(JobEntry) /\ waiting \in SUBSET Items /\ SendsOK(s, w, jobs, waiting, requests, batches)
  BY <1>a, WorkerSends DEF Payload, Waiting, ItemsIn
<1>d. /\ w.hashes = slice /\ FirstCancelled(jobs, requests, batches) /\ w.job = 0
      /\ Born(batches, w.batch) /\ batches[w.batch].asked = slice
  BY <1>b, <1>c DEF SendsOK, WorkOK
<1>e. slice \subseteq Of(s) /\ slice \cap Answered(requests) = {}
  BY <1>a, <1>c, SliceFacts
<1>f. slice \in SUBSET Hash
  BY <1>e DEF Of
<1>. HIDE DEF jobs, waiting, slice
<1>1. ASSUME NEW h \in w.hashes, requests' = Upsert({h}, "submitted", w.batch, FALSE), UNCHANGED <<row, w>>
      PROVE  Holds(row', w', requests', batches')
  <2>. DEFINE req2 == Upsert({h}, "submitted", w.batch, FALSE)
  <2>1. {h} \in SUBSET Hash /\ {h} \cap Answered(requests) = {} /\ {h} \subseteq slice
    BY <1>1, <1>d, <1>e, <1>f
  <2>2. Submits(requests, req2, {h}, w.batch) /\ Answered(req2) = Answered(requests) /\ Sent(req2) = Sent(requests) \cup {h}
    BY <2>1, SubmittedRows
  <2>3. requests' = req2 /\ row' = row /\ w' = w
    BY <1>1
  <2>. HIDE DEF req2
  <2>4. SendsOK(s, w, jobs, waiting, req2, batches)
    BY <1>a, <1>b, <1>c, <1>d, <2>1, <2>2, SentKeeps DEF slice
  <2>5. /\ RunOK(row, w, req2)
        /\ \A t \in Stages \ {w.stage} : SameRequests(t, requests, req2)
    BY <1>b, <1>e, <2>1, <2>2, SentFrame
  <2>6. Sends(w.stage, row', w', requests', batches')
    BY <1>b, <2>3, <2>4 DEF Sends, jobs, waiting
  <2>. QED  BY <1>b, <2>3, <2>5, <2>6, Unchanged, AskStep
<1>2. CASE /\ \A h \in w.hashes : requests[h] = record
           /\ Persist(w.mem) /\ Goto("poll") /\ UNCHANGED requests
  <2>1. w'.mem = w.mem /\ row'.payload = w.mem /\ w'.pc = "poll" /\ w'.batch = w.batch /\ w'.hashes = w.hashes
        /\ w'.stage = w.stage /\ w'.job = w.job /\ w'.polish = w.polish /\ w'.inflight = {} /\ requests' = requests
    BY <1>2, <1>a, <1>b DEF WorkerType, Goto, Persist, RowType
  <2>2. slice \subseteq Sent(requests) /\ \A h \in slice : requests[h].batch_name = w.batch
    BY <1>2, <1>d, <1>f DEF Sent
  <2>3. SendsOK(s, w', Append(jobs, NewEntry(w.batch, slice)), waiting, requests, batches)
    BY <1>a, <1>b, <1>c, <1>d, <2>1, <2>2, ListedKeeps DEF slice
  <2>4. /\ \A t \in Stages : w.mem.jobs[t] = IF t = w.stage THEN Append(row.payload.jobs[t], NewEntry(w.batch, w.hashes))
                                             ELSE row.payload.jobs[t]
        /\ \A t \in Stages : Waiting(w.mem, t) = Waiting(row.payload, t)
    BY <1>b DEF RunOK, Agree, RunPoints
  <2>5. RunOK(row', w', requests')
    BY <1>a, <1>b, <2>1, <2>4, ListingKeeps
  <2>6. Sends(w.stage, row', w', requests', batches')
    BY <1>a, <1>b, <1>d, <2>1, <2>3, <2>4 DEF Sends, jobs, waiting
  <2>7. \A t \in Stages \ {w.stage} :
              /\ SameRequests(t, requests, requests') /\ row'.payload.jobs[t] = row.payload.jobs[t]
              /\ Waiting(row'.payload, t) = Waiting(row.payload, t)
    BY <2>1, <2>4, Unchanged
  <2>. QED  BY <1>b, <2>1, <2>5, <2>6, <2>7, Unchanged, AskStep
<1>3. {h \in w.hashes : requests[h] # record} = {} => \A h \in w.hashes : requests[h] = record
  OBVIOUS
<1>4. \/ \E h \in {g \in w.hashes : requests[g] # record} :
           requests' = Upsert({h}, "submitted", w.batch, FALSE) /\ UNCHANGED <<row, w>>
      \/ {h \in w.hashes : requests[h] # record} = {} /\ Persist(w.mem) /\ Goto("poll") /\ UNCHANGED requests
  BY DEF RecordSubmission
<1>. QED  BY <1>1, <1>2, <1>3, <1>4

\* The worker looks whether to pause before it polls.
LEMMA CheckBeforePollHolds ==
  ASSUME Typed, Holds(row, w, requests, batches), CheckBeforePoll
  PROVE  Holds(row', w', requests', batches')
<1>a. w \in WorkerType /\ row.payload \in Payload /\ w.stage \in Stages
  BY DEF Typed, RowType, WorkerType
<1>b. w.inflight = {} /\ w.pc = "poll" /\ requests' = requests /\ batches' = batches /\ row' = row
  BY DEF Holds, RunOK, ResultsWork, CheckBeforePoll, At, provider
<1>c. \A p : Alike(p, p)
  BY DEF Alike
<1>d. /\ w' = [w EXCEPT !.pc = w'.pc] /\ w'.pc \in {"interrupted", "polling"}
      /\ w'.inflight = {} /\ w'.polish = w.polish /\ w'.stage = w.stage /\ w'.mem = w.mem
      /\ w'.job = w.job /\ w'.hashes = w.hashes /\ w'.batch = w.batch
  <2>1. Goto("interrupted") \/ Goto("polling")
    BY DEF CheckBeforePoll, Pause
  <2>. QED  BY <1>a, <1>b, <2>1 DEF Goto, WorkerType
<1>1. Follows(row, w, row', w')
  BY <1>b, <1>d DEF Follows, RunPoints, AskPoints, WorkPoints, ApplyPoints, Polling
<1>2. CarriesOn(row, w, row', w')
  BY <1>b, <1>c, <1>d, <1>1 DEF CarriesOn, RunPoints
<1>3. \A s \in Stages : Later(s, w, w')
  BY <1>b, <1>d DEF Later, First, InJobs, InResults, InSlices, Polling
<1>. QED  BY <1>a, <1>b, <1>2, <1>3, Unchanged, QuietKeeps

\* The job polled is pending.
LEMMA PollPendingHolds ==
  ASSUME Typed, Holds(row, w, requests, batches), PollPending
  PROVE  Holds(row', w', requests', batches')
<1>a. w \in WorkerType /\ row \in RowType /\ row.payload \in Payload /\ w.stage \in Stages /\ w.job \in Nat
  BY DEF Typed, RowType, WorkerType
<1>b. w.inflight = {} /\ w.pc = "polling" /\ requests' = requests /\ batches' = batches /\ row'.payload = row.payload
  BY <1>a DEF Holds, RunOK, ResultsWork, PollPending, PersistProgress, RowType, At, provider
<1>c. \A p : Alike(p, p)
  BY DEF Alike
<1>d. /\ w'.pc \in {"interrupted", "poll", "timed_out"}
      /\ w'.inflight = {} /\ w'.polish = w.polish /\ w'.stage = w.stage /\ w'.mem = w.mem
      /\ w'.job = w.job /\ w'.hashes = w.hashes /\ w'.batch = w.batch
  <2>1. \E pc \in {"interrupted", "poll", "timed_out"} : w' = [w EXCEPT !.pc = pc]
    <3>1. \/ Report([w EXCEPT !.pc = "poll"])
          \/ Report([w EXCEPT !.pc = "timed_out"])
      BY DEF PollPending
    <3>2. \A pc \in {"poll", "timed_out"} : [[w EXCEPT !.pc = pc] EXCEPT !.pc = "interrupted"] = [w EXCEPT !.pc = "interrupted"]
      BY <1>a DEF WorkerType
    <3>. QED  BY <3>1, <3>2 DEF Report
  <2>. QED  BY <1>a, <1>b, <2>1 DEF WorkerType
<1>1. Follows(row, w, row', w')
  BY <1>b, <1>d DEF Follows, RunPoints, AskPoints, WorkPoints, ApplyPoints, Polling
<1>2. CarriesOn(row, w, row', w')
  BY <1>b, <1>c, <1>d, <1>1 DEF CarriesOn, RunPoints
<1>3. CASE w'.pc # "timed_out" \/ w.job = 0
  <2>1. \A s \in Stages : Later(s, w, w')
    BY <1>3, <1>b, <1>d DEF Later, First, InJobs, InResults, InSlices, Polling
  <2>. QED  BY <1>a, <1>b, <1>2, <2>1, Unchanged, QuietKeeps
<1>4. CASE w'.pc = "timed_out" /\ w.job # 0
  <2>1. /\ row.payload.jobs[w.stage] \in Seq(JobEntry) /\ Waiting(row.payload, w.stage) \in SUBSET Items
        /\ SendsOK(w.stage, w, row.payload.jobs[w.stage], Waiting(row.payload, w.stage), requests, batches)
    BY <1>b, WorkerSees, WorkerSends DEF Holds, AskPoints
  <2>2. batches[w.batch].state \notin {"succeeded", "cancelled"}
    BY DEF PollPending, IsActive
  <2>3. SendsOK(w.stage, w', row.payload.jobs[w.stage], Waiting(row.payload, w.stage), requests, batches)
    BY <1>4, <1>a, <1>b, <1>d, <2>1, <2>2, PassedKeeps
  <2>. QED  BY <1>b, <1>2, <2>3, AskQuiet DEF AskPoints
<1>. QED  BY <1>3, <1>4

\* A job that timed out is given up.
LEMMA CancelAfterTimeoutHolds ==
  ASSUME Typed, Holds(row, w, requests, batches), CancelAfterTimeout
  PROVE  Holds(row', w', requests', batches')
<1>a. w \in WorkerType /\ row.payload \in Payload /\ w.stage \in Stages /\ w.job \in Nat
  BY DEF Typed, RowType, WorkerType
<1>b. w.inflight = {} /\ w.pc = "timed_out" /\ requests' = requests /\ row' = row
  BY DEF Holds, RunOK, ResultsWork, CancelAfterTimeout, At
<1>c. \A p : Alike(p, p)
  BY DEF Alike
<1>d. /\ (w.job = 0 /\ w'.pc = "slice" /\ w'.job = 0) \/ (w.job # 0 /\ w'.pc = "jobs" /\ w'.job = w.job + 1)
      /\ w'.inflight = {} /\ w'.polish = w.polish /\ w'.stage = w.stage /\ w'.mem = w.mem
      /\ w'.hashes = w.hashes /\ w'.batch = w.batch
  BY <1>a, <1>b DEF CancelAfterTimeout, AfterPoll, WorkerType
<1>1. Follows(row, w, row', w')
  BY <1>b, <1>d DEF Follows, RunPoints, AskPoints, WorkPoints, ApplyPoints, Polling
<1>2. CarriesOn(row, w, row', w')
  BY <1>b, <1>c, <1>d, <1>1 DEF CarriesOn, RunPoints
<1>3. \A s \in Stages : Later(s, w, w')
  BY <1>a, <1>b, <1>d DEF Later, First, InJobs, InResults, InSlices, Polling
<1>4. BatchesGrow(batches, batches')
  <2>1. CASE IsActive(w.batch) /\ CancelJob(w.batch)
    BY <2>1, JobsGrow DEF Typed
  <2>2. CASE UNCHANGED batches
    BY <2>2, Unchanged
  <2>. QED  BY <2>1, <2>2 DEF CancelAfterTimeout
<1>. QED  BY <1>a, <1>b, <1>2, <1>3, <1>4, QuietKeeps

\* Requests the worker polled for are answered or refused: the other stage is not
\* concerned, and the run is as sound as it was.
LEMMA PolledFrame ==
  ASSUME Typed, RunOK(row, w, requests), NEW req2, NEW rows, Polling(w), rows \subseteq Of(w.stage),
         \A h \in Hash \ rows : req2[h] = requests[h], Sent(req2) \subseteq Sent(requests)
  PROVE  /\ RunOK(row, w, req2)
         /\ \A s \in Stages \ {w.stage} : SameRequests(s, requests, req2)
<1>1. ASSUME NEW s \in Stages \ {w.stage}
      PROVE  SameRequests(s, requests, req2)
  <2>1. \A h \in Of(s) : h \in Hash \ rows
    BY DEF Of
  <2>2. \A h \in Of(s) : req2[h] = requests[h]
    BY <2>1
  <2>. QED  BY <2>1, <2>2 DEF SameRequests, Answered, Sent, Refused
<1>2. row.payload.prepared /\ ~NoneListed(row.payload)
  BY DEF RunOK, PreparedWorks, NothingListed, WorkPoints, AskPoints, Polling
<1>3. RunOK(row, w, req2)
  BY <1>2, RequestsKeep
<1>. QED  BY <1>1, <1>3

\* What the worker polls for: requests of the listed job it polls, not answered before.
LEMMA PolledJob ==
  ASSUME Typed, Holds(row, w, requests, batches), w.pc = "polling"
  PROVE  /\ w.hashes \subseteq Of(w.stage) /\ w.hashes \in SUBSET Hash /\ w.hashes \cap Answered(requests) = {}
         /\ \E n \in DOMAIN row.payload.jobs[w.stage] :
              /\ row.payload.jobs[w.stage][n].batch = w.batch
              /\ w.hashes \subseteq row.payload.jobs[w.stage][n].hashes
              /\ row.payload.jobs[w.stage][n].hashes \ Answered(requests) \subseteq w.hashes
<1>. DEFINE jobs == row.payload.jobs[w.stage]
            waiting == Waiting(row.payload, w.stage)
            open == Open(w.stage, waiting, requests)
<1>1. w.stage \in Stages /\ jobs \in Seq(JobEntry) /\ waiting \in SUBSET Items
      /\ SendsOK(w.stage, w, jobs, waiting, requests, batches)
  BY WorkerSees, WorkerSends DEF Holds, AskPoints, Typed, WorkerType
<1>. HIDE DEF jobs, waiting
<1>2. open \subseteq Of(w.stage) /\ open \cap Answered(requests) = {}
  BY <1>1, SliceFacts
<1>3. Slice(w.stage, waiting, requests) \subseteq open
  BY <1>1, SliceFacts
<1>4. \A n \in DOMAIN jobs : jobs[n].hashes \ Answered(requests) \subseteq open
  BY <1>1, LeadIsOpen DEF SendsOK
<1>. HIDE DEF open
<1>5. CASE w.job = 0
  <2>1. /\ w.hashes = Slice(w.stage, waiting, requests)
        /\ \E n \in DOMAIN jobs : jobs[n].batch = w.batch /\ jobs[n].hashes = w.hashes
    BY <1>1, <1>5 DEF SendsOK, WorkOK, Polling
  <2>. QED  BY <1>2, <1>3, <2>1 DEF jobs, Of
<1>6. CASE w.job # 0
  <2>1. w.job \in DOMAIN jobs /\ w.batch = jobs[w.job].batch /\ w.hashes = jobs[w.job].hashes \cap open
    BY <1>1, <1>6 DEF SendsOK, WorkOK, Polling, open
  <2>. QED  BY <1>2, <1>4, <2>1 DEF jobs, Of
<1>. QED  BY <1>5, <1>6

\* The poll fails, or the output file lacks some of the answers: the others are kept.
LEMMA PollFailsHolds ==
  ASSUME Typed, Holds(row, w, requests, batches), PollFails
  PROVE  Holds(row', w', requests', batches')
<1>. DEFINE s == w.stage
            jobs == row.payload.jobs[w.stage]
            waiting == Waiting(row.payload, w.stage)
<1>a. w \in WorkerType /\ row.payload \in Payload /\ s \in Stages
  BY DEF Typed, RowType, WorkerType
<1>b. w.inflight = {} /\ w.pc = "polling" /\ batches' = batches /\ row' = row /\ RunOK(row, w, requests)
  BY DEF Holds, RunOK, ResultsWork, PollFails, At
<1>c. jobs \in Seq(JobEntry) /\ waiting \in SUBSET Items /\ SendsOK(s, w, jobs, waiting, requests, batches)
  BY <1>a, WorkerSends DEF Payload, Waiting, ItemsIn
<1>d. \A p : Alike(p, p)
  BY DEF Alike
<1>e. /\ w' = [w EXCEPT !.pc = w'.pc] /\ w'.pc \in {"transient", "permanent"}
      /\ w'.mem = w.mem /\ w'.polish = w.polish /\ w'.stage = w.stage /\ w'.inflight = {}
  <2>1. Raise \/ Goto("permanent")
    BY DEF PollFails
  <2>. QED  BY <1>a, <1>b, <2>1 DEF Raise, Goto, WorkerType
<1>1. CASE UNCHANGED requests
  <2>1. Moves
    BY <1>1, <1>b, <1>e, Unchanged DEF Moves, AskPoints, RunPoints, ApplyPoints
  <2>. QED  BY <2>1, MovesHold
<1>2. CASE batches[w.batch].state = "succeeded" /\ requests' = PersistOutput(w.batch, w.hashes)
  <2>. DEFINE req2 == PersistOutput(w.batch, w.hashes)
              rows == w.hashes \ Unanswered(w.batch, w.hashes)
  <2>1. w.hashes \subseteq Of(s) /\ w.hashes \in SUBSET Hash
    BY <1>b, PolledJob
  <2>2. PICK n \in DOMAIN jobs :
          /\ jobs[n].batch = w.batch /\ w.hashes \subseteq jobs[n].hashes
          /\ jobs[n].hashes \ Answered(requests) \subseteq w.hashes
    BY <1>b, PolledJob
  <2>3. batches[jobs[n].batch].asked = jobs[n].hashes /\ batches[jobs[n].batch].state = "succeeded"
    BY <1>2, <1>c, <2>2 DEF SendsOK, ListOK
  <2>4. Answers(requests, req2, rows)
    BY <2>1, OutputAnswers
  <2>5. rows \in SUBSET Hash /\ rows \subseteq jobs[n].hashes /\ rows \subseteq Of(s)
        /\ jobs[n].hashes \ Answered(requests) \subseteq rows \cup batches[jobs[n].batch].missing
    BY <2>1, <2>2, <2>3 DEF Unanswered
  <2>6. requests' = req2
    BY <1>2
  <2>. HIDE DEF req2, rows, jobs, waiting
  <2>7. Leaves(s, w')
    BY <1>e DEF Leaves, InJobs, InResults, InSlices, Polling
  <2>8. SendsOK(s, w', jobs, waiting, req2, batches)
    BY <1>a, <1>c, <2>2, <2>3, <2>4, <2>5, <2>7, TornKeeps
  <2>9. /\ RunOK(row, w, req2)
        /\ \A t \in Stages \ {w.stage} : SameRequests(t, requests, req2)
    <3>1. Sent(req2) \subseteq Sent(requests) /\ \A h \in Hash \ rows : req2[h] = requests[h]
      BY <2>4 DEF Answers
    <3>2. Polling(w)
      BY <1>b DEF Polling
    <3>. QED  BY <1>b, <2>5, <3>1, <3>2, PolledFrame
  <2>10. Follows(row, w, row', w')
    BY <1>b, <1>e DEF Follows, RunPoints, AskPoints, WorkPoints, ApplyPoints, Polling
  <2>11. CarriesOn(row, w, row', w')
    BY <1>b, <1>d, <1>e, <2>10 DEF CarriesOn, RunPoints
  <2>12. RunOK(row', w', requests')
    BY <1>a, <2>6, <2>9, <2>11, CarriesOnKeeps
  <2>13. Sends(w.stage, row', w', requests', batches')
    BY <1>b, <2>6, <2>8 DEF Sends, jobs, waiting
  <2>. QED  BY <1>b, <1>e, <2>6, <2>9, <2>12, <2>13, Unchanged, AskStep
<1>. QED  BY <1>1, <1>2 DEF PollFails

\* The job polled has ended: its answers are kept, or its failure is noted.
LEMMA PollEndsHolds ==
  ASSUME Typed, Holds(row, w, requests, batches), PollEnds
  PROVE  Holds(row', w', requests', batches')
<1>. DEFINE s == w.stage
            jobs == row.payload.jobs[w.stage]
            waiting == Waiting(row.payload, w.stage)
<1>a. w \in WorkerType /\ row \in RowType /\ row.payload \in Payload /\ s \in Stages /\ w.job \in Nat
  BY DEF Typed, RowType, WorkerType
<1>b. /\ w.inflight = {} /\ w.pc = "polling" /\ batches' = batches /\ row'.payload = row.payload
      /\ RunOK(row, w, requests)
  BY <1>a DEF Holds, RunOK, ResultsWork, PollEnds, PersistProgress, RowType, At
<1>c. jobs \in Seq(JobEntry) /\ waiting \in SUBSET Items /\ SendsOK(s, w, jobs, waiting, requests, batches)
  BY <1>a, WorkerSends DEF Payload, Waiting, ItemsIn
<1>d. \A p : Alike(p, p)
  BY DEF Alike
<1>e. /\ w'.mem = w.mem /\ w'.polish = w.polish /\ w'.stage = w.stage /\ w'.inflight = {}
      /\ \/ w.interrupted /\ w'.pc = "interrupted"
         \/ ~w.interrupted /\ w.job = 0 /\ w'.pc = "slice" /\ w'.job = 0
         \/ ~w.interrupted /\ w.job # 0 /\ w'.pc = "jobs" /\ w'.job = w.job + 1
  <2>0. "slice" \in Points /\ "jobs" \in Points
    BY DEF Points, RunPoints
  <2>1. AfterPoll \in WorkerType
    <3>1. CASE w.job = 0
      <4>1. AfterPoll = [w EXCEPT !.pc = "slice"]
        BY <3>1 DEF AfterPoll
      <4>. QED  BY <1>a, <2>0, <4>1 DEF WorkerType
    <3>2. CASE w.job # 0
      <4>1. AfterPoll = [w EXCEPT !.pc = "jobs", !.job = w.job + 1]
        BY <1>a, <3>2 DEF AfterPoll, WorkerType
      <4>2. w.job + 1 \in Nat
        BY <1>a
      <4>. QED  BY <1>a, <2>0, <4>1, <4>2 DEF WorkerType
    <3>. QED  BY <3>1, <3>2
  <2>2. /\ AfterPoll.mem = w.mem /\ AfterPoll.polish = w.polish /\ AfterPoll.stage = w.stage /\ AfterPoll.inflight = {}
        /\ \/ w.job = 0 /\ AfterPoll.pc = "slice" /\ AfterPoll.job = 0
           \/ w.job # 0 /\ AfterPoll.pc = "jobs" /\ AfterPoll.job = w.job + 1
    BY <1>a, <1>b DEF AfterPoll, WorkerType
  <2>3. w' = IF w.interrupted THEN [AfterPoll EXCEPT !.pc = "interrupted"] ELSE AfterPoll
    BY DEF PollEnds, Report
  <2>4. CASE w.interrupted
    BY <2>1, <2>2, <2>3, <2>4 DEF WorkerType
  <2>5. CASE ~w.interrupted
    BY <2>2, <2>3, <2>5
  <2>. QED  BY <2>4, <2>5
<1>f. PollDone(s, w, w')
  BY <1>e DEF PollDone
<1>g. w.hashes \subseteq Of(s) /\ w.hashes \in SUBSET Hash /\ w.hashes \cap Answered(requests) = {}
  BY <1>b, PolledJob
<1>h. CarriesOn(row, w, row', w')
  <2>1. Follows(row, w, row', w')
    BY <1>b, <1>e DEF Follows, RunPoints, AskPoints, WorkPoints, ApplyPoints, Polling
  <2>. QED  BY <1>b, <1>d, <1>e, <2>1 DEF CarriesOn, RunPoints
<1>. HIDE DEF jobs, waiting
<1>1. ASSUME NEW req2, NEW rows \in SUBSET w.hashes, requests' = req2,
             \A h \in Hash \ rows : req2[h] = requests[h], Sent(req2) \subseteq Sent(requests),
             SendsOK(s, w', jobs, waiting, req2, batches)
      PROVE  Holds(row', w', requests', batches')
  <2>1. /\ RunOK(row, w, req2)
        /\ \A t \in Stages \ {w.stage} : SameRequests(t, requests, req2)
    BY <1>1, <1>b, <1>g, PolledFrame DEF Polling
  <2>2. RunOK(row', w', requests')
    BY <1>1, <1>a, <1>h, <2>1, CarriesOnKeeps
  <2>3. Sends(w.stage, row', w', requests', batches')
    BY <1>1, <1>b DEF Sends, jobs, waiting
  <2>. QED  BY <1>1, <1>b, <1>e, <2>1, <2>2, <2>3, Unchanged, AskStep
<1>2. CASE /\ batches[w.batch].state = "succeeded" /\ Unanswered(w.batch, w.hashes) = {}
           /\ requests' = PersistOutput(w.batch, w.hashes)
  <2>. DEFINE req2 == PersistOutput(w.batch, w.hashes)
  <2>1. Answers(requests, req2, w.hashes)
    <3>1. w.hashes \ Unanswered(w.batch, w.hashes) = w.hashes
      BY <1>2
    <3>2. Answers(requests, req2, w.hashes \ Unanswered(w.batch, w.hashes))
      BY <1>g, OutputAnswers
    <3>. QED  BY <3>1, <3>2
  <2>2. requests' = req2
    BY <1>2
  <2>. HIDE DEF req2
  <2>3. w.hashes \subseteq Answered(req2) /\ Sent(req2) \subseteq Sent(requests)
        /\ \A h \in Hash \ w.hashes : req2[h] = requests[h]
    BY <2>1 DEF Answers
  <2>4. SendsOK(s, w', jobs, waiting, req2, batches)
    BY <1>a, <1>b, <1>c, <1>f, <1>g, <2>1, <2>3, PollOver
  <2>. QED  BY <1>1, <2>2, <2>3, <2>4
<1>3. CASE w.interrupted /\ requests' = requests
  <2>1. Moves
    BY <1>3, <1>b, <1>e, Unchanged DEF Moves, AskPoints, RunPoints, ApplyPoints
  <2>. QED  BY <2>1, MovesHold
<1>4. ASSUME NEW left, ~w.interrupted, left = {h \in w.hashes : requests[h].status # "failed"},
             batches[w.batch].state = "failed", requests' = Upsert(left, "failed", w.batch, FALSE)
      PROVE  Holds(row', w', requests', batches')
  <2>. DEFINE req2 == Upsert(left, "failed", w.batch, FALSE)
  <2>1. \/ w.hashes \subseteq Sent(requests)
        \/ w.job # 0 /\ w.hashes \subseteq Refused(requests) /\ AllRefused(jobs, requests)
    BY <1>4, <1>a, <1>b, <1>c, FailedJob
  <2>2. left \in SUBSET Hash /\ left \subseteq w.hashes
    BY <1>4, <1>g
  <2>3. Answers(requests, req2, left) /\ requests' = req2
    BY <1>4, <2>2, FailedRows
  <2>4. CASE w.hashes \subseteq Sent(requests)
    <3>1. left = w.hashes
      BY <1>4, <2>4 DEF Sent
    <3>. HIDE DEF req2
    <3>2. w.hashes \subseteq Answered(req2) /\ Sent(req2) \subseteq Sent(requests)
          /\ \A h \in Hash \ w.hashes : req2[h] = requests[h]
      BY <2>3, <3>1 DEF Answers
    <3>3. SendsOK(s, w', jobs, waiting, req2, batches)
      BY <1>a, <1>b, <1>c, <1>f, <1>g, <2>3, <3>1, <3>2, PollOver
    <3>. QED  BY <1>1, <2>3, <3>2, <3>3
  <2>5. CASE w.job # 0 /\ w.hashes \subseteq Refused(requests) /\ AllRefused(jobs, requests)
    <3>1. left = {}
      BY <1>4, <2>5 DEF Refused
    <3>2. requests' = requests
      BY <1>4, <3>1 DEF Upsert, Typed
    <3>3. w'.pc = "jobs" /\ w'.job = w.job + 1
      BY <1>4, <1>e, <2>5
    <3>4. SendsOK(s, w', jobs, waiting, requests, batches)
      BY <1>4, <1>a, <1>b, <1>c, <1>e, <2>5, <3>3, PassedKeeps
    <3>. QED  BY <1>1, <3>2, <3>4
  <2>. QED  BY <2>1, <2>4, <2>5
<1>5. ASSUME NEW left, ~w.interrupted, left = {h \in w.hashes : requests[h].status # "failed"},
             batches[w.batch].state = "cancelled", requests' = Upsert(left, "failed", w.batch, TRUE)
      PROVE  Holds(row', w', requests', batches')
  <2>. DEFINE req2 == Upsert(left, "failed", w.batch, TRUE)
  <2>1. left \in SUBSET Hash /\ left \subseteq w.hashes /\ left \cap Answered(requests) = {}
    BY <1>5, <1>g
  <2>2. Refuses(requests, req2, left) /\ requests' = req2 /\ \A h \in Hash \ left : req2[h] = requests[h]
    BY <1>5, <2>1, FailedRows DEF Upsert
  <2>3. w.hashes \subseteq left \cup Refused(requests)
    <3>. SUFFICES ASSUME NEW h \in w.hashes, h \notin left PROVE h \in Refused(requests)
      OBVIOUS
    <3>1. h \in Hash /\ requests[h].status = "failed" /\ h \notin Answered(requests)
      BY <1>5, <1>g
    <3>. QED  BY <3>1 DEF Answered, Refused
  <2>. HIDE DEF req2
  <2>4. SendsOK(s, w', jobs, waiting, req2, batches)
    BY <1>5, <1>a, <1>b, <1>c, <1>e, <1>f, <2>1, <2>2, <2>3, PollRefused
  <2>5. Sent(req2) \subseteq Sent(requests)
    BY <2>2 DEF Refuses
  <2>. QED  BY <1>1, <2>1, <2>2, <2>4, <2>5
<1>6. CASE batches[w.batch].state \in {"failed", "cancelled"}
  <2>. DEFINE left == {h \in w.hashes : ~w.interrupted /\ requests[h].status # "failed"}
  <2>1. requests' = Upsert(left, "failed", w.batch, batches[w.batch].state = "cancelled")
    BY <1>6 DEF PollEnds
  <2>2. CASE w.interrupted
    <3>1. left = {}
      BY <2>2
    <3>2. requests' = requests
      BY <2>1, <3>1 DEF Upsert, Typed
    <3>. QED  BY <1>3, <2>2, <3>2
  <2>3. CASE ~w.interrupted
    <3>1. left = {h \in w.hashes : requests[h].status # "failed"}
      BY <2>3
    <3>2. CASE batches[w.batch].state = "failed"
      <4>1. (batches[w.batch].state = "cancelled") = FALSE
        BY <3>2
      <4>. QED  BY <1>4, <2>1, <2>3, <3>1, <3>2, <4>1
    <3>3. CASE batches[w.batch].state = "cancelled"
      <4>1. (batches[w.batch].state = "cancelled") = TRUE
        BY <3>3
      <4>. QED  BY <1>5, <2>1, <2>3, <3>1, <3>3, <4>1
    <3>. QED  BY <1>6, <3>2, <3>3
  <2>. QED  BY <2>2, <2>3
<1>. QED  BY <1>2, <1>6 DEF PollEnds

\* The job b that is settled was listed in stage s, with what it was asked for.
ListedIn(s, b) ==
  /\ HashesOf(w.mem, b) = batches[b].asked /\ batches[b].asked \subseteq Of(s)
  /\ \E n \in DOMAIN row.payload.jobs[s] :
       row.payload.jobs[s][n].batch = b /\ row.payload.jobs[s][n].hashes = batches[b].asked

\* A job that is settled was listed in one stage, or nothing is known of it.
LEMMA ListedHashes ==
  ASSUME Typed, Holds(row, w, requests, batches), w.pc = "settle", NEW b, HashesOf(w.mem, b) # {}
  PROVE  \E s \in Stages : ListedIn(s, b)
<1>1. \A s \in Stages : row.payload.jobs[s] \in Seq(JobEntry) /\ w.mem.jobs[s] = row.payload.jobs[s]
  BY DEF Typed, RowType, Payload, Holds, RunOK, Agree, RunPoints
<1>2. \A s \in Stages : \A n \in DOMAIN row.payload.jobs[s] :
        /\ row.payload.jobs[s][n].hashes \subseteq Of(s)
        /\ batches[row.payload.jobs[s][n].batch].asked = row.payload.jobs[s][n].hashes
  BY DEF Holds, Sends, SendsOK, ListOK
<1>3. ASSUME NEW h \in HashesOf(w.mem, b)
      PROVE  \E s \in Stages : \E n \in DOMAIN row.payload.jobs[s] :
               row.payload.jobs[s][n].batch = b /\ h \in row.payload.jobs[s][n].hashes
  <2>1. PICK e \in JobEntries(w.mem) : e.batch = b /\ h \in e.hashes
    BY <1>3 DEF HashesOf
  <2>2. PICK s \in Stages : e \in Range(w.mem.jobs[s])
    BY <2>1 DEF JobEntries
  <2>. QED  BY <1>1, <2>1, <2>2 DEF Range
<1>4. ASSUME NEW s \in Stages, NEW n \in DOMAIN row.payload.jobs[s], row.payload.jobs[s][n].batch = b
      PROVE  row.payload.jobs[s][n].hashes \subseteq HashesOf(w.mem, b)
  <2>1. row.payload.jobs[s][n] \in Range(w.mem.jobs[s])
    BY <1>1, <1>4 DEF Range
  <2>. QED  BY <1>4, <2>1 DEF HashesOf, JobEntries
<1>5. PICK h \in HashesOf(w.mem, b) : TRUE
  OBVIOUS
<1>6. PICK s \in Stages : \E n \in DOMAIN row.payload.jobs[s] :
        row.payload.jobs[s][n].batch = b /\ h \in row.payload.jobs[s][n].hashes
  BY <1>3, <1>5
<1>7. PICK n \in DOMAIN row.payload.jobs[s] : row.payload.jobs[s][n].batch = b /\ h \in row.payload.jobs[s][n].hashes
  BY <1>6
<1>8. row.payload.jobs[s][n].hashes = batches[b].asked /\ batches[b].asked \subseteq Of(s)
  BY <1>2, <1>7
<1>9. HashesOf(w.mem, b) \subseteq batches[b].asked
  BY <1>2, <1>3
<1>10. batches[b].asked \subseteq HashesOf(w.mem, b)
  BY <1>4, <1>7, <1>8
<1>11. HashesOf(w.mem, b) = batches[b].asked
  BY <1>9, <1>10
<1>12. ListedIn(s, b)
  BY <1>7, <1>8, <1>11 DEF ListedIn
<1>. QED  BY <1>12

\* A job is settled: the answers it has are kept.
LEMMA SettleBatchHolds ==
  ASSUME Typed, Holds(row, w, requests, batches), NEW b \in w.todo, SettleBatch(b)
  PROVE  Holds(row', w', requests', batches')
<1>. DEFINE hashes == HashesOf(w.mem, b)
<1>a. w \in WorkerType /\ row.payload \in Payload /\ w.stage \in Stages /\ w.mem \in Payload
  BY DEF Typed, RowType, WorkerType
<1>b. w.inflight = {} /\ w.pc = "settle" /\ batches' = batches /\ row' = row /\ RunOK(row, w, requests)
  BY DEF Holds, RunOK, ResultsWork, SettleBatch, At
<1>c. \A p : Alike(p, p)
  BY DEF Alike
<1>d. /\ w'.pc \in {"settle", "cancelling"} /\ w'.mem = w.mem /\ w'.polish = w.polish /\ w'.stage = w.stage
      /\ w'.inflight = {}
  <2>1. \/ \E active : Settled(b, active)
        \/ w' = [w EXCEPT !.pc = "cancelling", !.batch = b]
    BY DEF SettleBatch
  <2>. QED  BY <1>a, <1>b, <2>1 DEF Settled, WorkerType
<1>1. CASE UNCHANGED requests
  <2>1. Moves
    BY <1>1, <1>b, <1>d, Unchanged DEF Moves, AskPoints, RunPoints, ApplyPoints
  <2>. QED  BY <2>1, MovesHold
<1>2. CASE batches[b].state = "succeeded" /\ requests' = PersistOutput(b, HashesOf(w.mem, b))
  <2>. DEFINE req2 == PersistOutput(b, hashes)
              rows == hashes \ Unanswered(b, hashes)
  <2>1. hashes \in SUBSET Hash
    <3>1. \A e \in JobEntries(w.mem) : e.hashes \subseteq Hash
      <4>. SUFFICES ASSUME NEW s \in Stages, NEW n \in DOMAIN w.mem.jobs[s] PROVE w.mem.jobs[s][n].hashes \subseteq Hash
        BY DEF JobEntries, Range
      <4>1. w.mem.jobs[s] \in Seq(JobEntry)
        BY <1>a DEF Payload
      <4>2. w.mem.jobs[s][n] \in JobEntry
        BY <4>1
      <4>. QED  BY <4>2 DEF JobEntry
    <3>. QED  BY <3>1 DEF HashesOf
  <2>2. Answers(requests, req2, rows) /\ rows \in SUBSET Hash
    BY <2>1, OutputAnswers
  <2>3. requests' = req2 /\ rows \subseteq hashes
    BY <1>2
  <2>4. ASSUME hashes = {}
        PROVE  rows = {} /\ req2 = requests
    BY <2>4 DEF PersistOutput, Typed
  <2>5. ASSUME NEW s \in Stages, NEW n \in DOMAIN row.payload.jobs[s], row.payload.jobs[s][n].batch = b,
               hashes = batches[b].asked, row.payload.jobs[s][n].hashes = batches[b].asked
        PROVE  rows \subseteq row.payload.jobs[s][n].hashes
                 /\ row.payload.jobs[s][n].hashes \ Answered(requests) \subseteq rows \cup batches[b].missing
    BY <2>5 DEF Unanswered
  <2>. HIDE DEF req2, rows, hashes
  <2>6. NoneListed(row.payload) => hashes = {}
    BY <1>b, ListedHashes DEF ListedIn, NoneListed, hashes
  <2>7. RunOK(row, w, req2)
    <3>1. NoneListed(row.payload) => Answered(req2) \subseteq Answered(requests)
      BY <2>4, <2>6
    <3>2. Sent(req2) \subseteq Sent(requests)
      BY <2>2 DEF Answers
    <3>3. row.payload.prepared \/ req2 = requests
      BY <1>b, <2>4, <2>6 DEF RunOK, PreparedWorks
    <3>. QED  BY <1>b, <3>1, <3>2, <3>3, RequestsKeep
  <2>8. RunOK(row', w', requests')
    <3>1. Follows(row, w, row', w')
      BY <1>b, <1>d DEF Follows, RunPoints, AskPoints, WorkPoints, ApplyPoints, Polling
    <3>2. CarriesOn(row, w, row', w')
      BY <1>b, <1>c, <1>d, <3>1 DEF CarriesOn, RunPoints
    <3>. QED  BY <1>a, <2>3, <2>7, <3>2, CarriesOnKeeps
  <2>9. ASSUME NEW s \in Stages
        PROVE  Sends(s, row', w', requests', batches')
    <3>. DEFINE jobs == row.payload.jobs[s]
                waiting == Waiting(row.payload, s)
    <3>1. jobs \in Seq(JobEntry) /\ waiting \in SUBSET Items /\ SendsOK(s, w, jobs, waiting, requests, batches)
      BY <1>a DEF Payload, Waiting, ItemsIn, Holds, Sends
    <3>. HIDE DEF waiting
    <3>2. Leaves(s, w') /\ Later(s, w, w')
      BY <1>d, LaterWhen DEF Leaves, InJobs, InResults, InSlices, Polling, AskPoints
    <3>3. CASE rows \cap Of(s) = {}
      <4>1. SameRequests(s, requests, req2)
        BY <2>2, <3>3, AnswersFrame
      <4>2. SendsOK(s, w', jobs, waiting, req2, batches)
        BY <3>1, <3>2, <4>1, Unchanged, SendsFrame
      <4>. QED  BY <1>b, <2>3, <4>2 DEF Sends, waiting
    <3>4. CASE ListedIn(s, b)
      <4>1. PICK n \in DOMAIN jobs : jobs[n].batch = b /\ jobs[n].hashes = batches[b].asked
        BY <3>4 DEF ListedIn
      <4>2. rows \subseteq jobs[n].hashes /\ jobs[n].hashes \ Answered(requests) \subseteq rows \cup batches[b].missing
        BY <2>5, <3>4, <4>1 DEF ListedIn, hashes
      <4>. HIDE DEF jobs
      <4>3. SendsOK(s, w', jobs, waiting, req2, batches)
        BY <1>2, <2>2, <3>1, <3>2, <4>1, <4>2, TornKeeps
      <4>. QED  BY <1>b, <2>3, <4>3 DEF Sends, waiting, jobs
    <3>5. CASE \E t \in Stages \ {s} : ListedIn(t, b)
      <4>1. rows \cap Of(s) = {}
        BY <2>3, <3>5 DEF ListedIn, Of, hashes
      <4>. QED  BY <3>3, <4>1
    <3>6. hashes # {} => \E t \in Stages : ListedIn(t, b)
      BY <1>b, ListedHashes DEF hashes
    <3>. QED  BY <2>3, <3>3, <3>4, <3>5, <3>6
  <2>. QED  BY <2>8, <2>9 DEF Holds
<1>. QED  BY <1>1, <1>2 DEF SettleBatch

\* Every step keeps the invariant.
LEMMA HoldsKept ==
  ASSUME Typed, Basics, Holds(row, w, requests, batches), [Next]_vars
  PROVE  Holds(row', w', requests', batches')
<1>1. CASE RunStep
  <2>1. CASE EnterRun \/ Prepare
    BY <2>1, EnterRunHolds, PrepareHolds
  <2>2. CASE EndInterrupted \/ BeginRun \/ NoteRemoteSubmission
    BY <2>2, RestStepsHold
  <2>3. CASE DecideOutcome \/ FinishRun \/ HandlePause \/ WritePaused \/ WriteFailed
    BY <2>3, QuietStepsHold
  <2>. QED  BY <1>1, <2>1, <2>2, <2>3 DEF RunStep
<1>2. CASE StageStep
  <2>1. CASE run_translation_stage \/ run_polish_stage
    BY <2>1, StageHolds
  <2>2. CASE ResumeJob \/ NextSlice
    BY <2>2, ResumeJobHolds, NextSliceHolds
  <2>3. CASE SubmitSlice \/ RecordSubmission
    BY <2>3, SubmitSliceHolds, RecordSubmissionHolds
  <2>4. CASE CheckBeforePoll \/ PollPending \/ CancelAfterTimeout
    BY <2>4, CheckBeforePollHolds, PollPendingHolds, CancelAfterTimeoutHolds
  <2>5. CASE PollFails \/ PollEnds
    BY <2>5, PollFailsHolds, PollEndsHolds
  <2>6. CASE \E i \in Items : StartValidation(i)
    BY <2>6, StartValidationHolds
  <2>7. CASE \E i \in Items : StartFallback(i)
    BY <2>7, StartFallbackHolds
  <2>8. CASE InterruptItem \/ \E i \in Items : FinishItem(i)
    BY <2>8, FinishItemHolds
  <2>9. CASE EndValidation \/ EndFallback
    BY <2>9, StageEndHolds
  <2>10. CASE BeginApply \/ EndApply
    BY <2>10, QuietStepsHold
  <2>11. CASE \E i \in Items : ApplyItem(i)
    BY <2>11, ApplyItemHolds
  <2>. QED  BY <1>2, <2>1, <2>2, <2>3, <2>4, <2>5, <2>6, <2>7, <2>8, <2>9, <2>10, <2>11 DEF StageStep
<1>3. CASE CancelStep
  <2>1. CASE BeginCancel
    BY <2>1, RestStepsHold
  <2>2. CASE FindBatches \/ InspectBatch \/ EndCancel
    BY <2>2, QuietStepsHold
  <2>3. CASE \E b \in w.todo : SettleBatch(b)
    BY <2>3, SettleBatchHolds
  <2>4. CASE CancelBatch
    BY <2>4, CancelBatchHolds
  <2>. QED  BY <1>3, <2>1, <2>2, <2>3, <2>4 DEF CancelStep
<1>4. CASE StartRun \/ Crash \/ UserCancel
  BY <1>4, RestStepsHold
<1>5. CASE MarkCancelRequested \/ InterruptWorker \/ UserRerun \/ Shutdown \/ ProviderStep \/ UNCHANGED vars
  BY <1>5, StillStepsHold
<1>. QED  BY <1>1, <1>2, <1>3, <1>4, <1>5 DEF Next, WorkerStep, Environment

\* The invariant of what is submitted.
SubmitInv == Holds(row, w, requests, batches)

\* A task that was only queued has asked nothing.
LEMMA SubmitInit == Init => SubmitInv
<1>. SUFFICES ASSUME Init PROVE SubmitInv
  OBVIOUS
<1>1. PICK enable_polish \in EnablePolish :
        row = [status |-> "queued", cancel_requested |-> FALSE, payload |-> NewPayload(enable_polish)]
  BY DEF Init
<1>2. row.payload = NewPayload(enable_polish) /\ row.status = "queued"
  BY <1>1
<1>3. /\ row.payload.jobs = NoJobs /\ ~row.payload.prepared
      /\ \A i \in Items, s \in Stages : row.payload.items[i][s].state = "pending"
  BY <1>2 DEF NewPayload, NewItem, new_stage_state, Stages
<1>4. w = IdleWorker(row.payload) /\ \A h \in Hash : requests[h].status = "none"
  BY DEF Init, ProviderInit, NoRecord
<1>5. w.pc = "idle" /\ w.stage = "translation" /\ w.inflight = {} /\ w.job = 0 /\ w.polish
  BY <1>4 DEF IdleWorker
<1>6. Answered(requests) = {} /\ Sent(requests) = {}
  BY <1>4 DEF Answered, Sent
<1>7. \A s \in Stages : row.payload.jobs[s] = <<>> /\ Waiting(row.payload, s) = Items
  BY <1>3 DEF NoJobs, Waiting, ItemsIn
<1>8. RunOK(row, w, requests)
  <2>1. ~Used("polish", row.payload, requests) /\ NoneListed(row.payload)
    BY <1>6, <1>7 DEF Used, NoneListed, Stages
  <2>2. Agree(row, w) /\ PolishWorks(row, w, requests) /\ ResultsWork(w)
    BY <1>5, <2>1 DEF Agree, PolishWorks, ResultsWork, RunPoints, AskPoints, ApplyPoints
  <2>3. NothingListed(row, w, requests)
    BY <1>5, <1>6, <1>7, <2>1 DEF NothingListed, Polling
  <2>4. PreparedWorks(row, w, requests)
    BY <1>3, <1>4, <1>5, <2>1 DEF PreparedWorks, RunPoints, WorkPoints, AskPoints, ApplyPoints
  <2>. QED  BY <2>2, <2>3, <2>4 DEF RunOK
<1>9. ASSUME NEW s \in Stages
      PROVE  Sends(s, row, w, requests, batches)
  <2>. DEFINE waiting == Waiting(row.payload, s)
  <2>1. row.payload.jobs[s] = <<>>
    BY <1>7
  <2>. HIDE DEF waiting
  <2>2. Accounted(s, {}, <<>>, requests, batches) /\ ListOK(s, <<>>, batches)
    BY <1>6 DEF Accounted, ListOK
  <2>3. LeadOK(s, w, <<>>, requests, batches)
    BY DEF LeadOK, FirstCancelled, Lead
  <2>4. WorkOK(s, w, <<>>, waiting, requests, batches)
    BY <1>5 DEF WorkOK, Polling
  <2>5. StageOK(s, w, <<>>, waiting, requests, batches)
    BY <2>2 DEF StageOK
  <2>6. SendsOK(s, w, <<>>, waiting, requests, batches)
    BY <2>2, <2>3, <2>4, <2>5 DEF SendsOK
  <2>. QED  BY <2>1, <2>6 DEF Sends, waiting
<1>. QED  BY <1>8, <1>9 DEF SubmitInv, Holds

\* Of the invariant, what the property says.
LEMMA SubmittedAsked == Typed /\ SubmitInv => SubmittedToItsBatch
<1>. SUFFICES ASSUME Typed, SubmitInv, NEW h \in Hash, Submitted(h)
              PROVE  h \in batches[requests[h].batch_name].asked
  BY DEF SubmittedToItsBatch
<1>1. h[1] \in Stages
  BY DEF Hash
<1>2. h \in Of(h[1]) \cap Sent(requests)
  BY DEF Of, Sent, Submitted
<1>3. PICK c : Accounted(h[1], c, row.payload.jobs[h[1]], requests, batches)
  <2>1. StageOK(h[1], w, row.payload.jobs[h[1]], Waiting(row.payload, h[1]), requests, batches)
    BY <1>1 DEF SubmitInv, Holds, Sends, SendsOK
  <2>. QED  BY <2>1 DEF StageOK
<1>. QED  BY <1>2, <1>3 DEF Accounted

\* A request that is noted as submitted was asked of the job it names, whatever
\* was cancelled, lost, run again or polled twice (submit_batch, poll_once):
\* so the job's answer is the answer to it.
THEOREM SubmittedIsAsked == Spec => []SubmittedToItsBatch
<1>1. Init => Typed /\ Basics /\ SubmitInv
  BY BatchInit, SubmitInit
<1>2. Typed /\ Basics /\ SubmitInv /\ [Next]_vars => Typed' /\ Basics' /\ SubmitInv'
  BY Typing, BasicsKept, HoldsKept DEF SubmitInv
<1>3. Typed /\ SubmitInv => SubmittedToItsBatch
  BY SubmittedAsked
<1>. QED  BY <1>1, <1>2, <1>3, PTL DEF Spec

-----------------------------------------------------------------------------
(* Requests are paid for once.                                             *)

\* Jobs that were cancelled, have failed or run no longer.
Dead(bat, b) == bat[b].state \in {"failed", "cancelled"}
Ages(bat, bat2) ==
  \A b \in Batches :
    /\ bat[b].state \in {"cancelling", "cancelled"} => bat2[b].state \in {"cancelling", "cancelled"}
    /\ Dead(bat, b) => Dead(bat2, b)
    /\ bat2[b].state = "active" => bat[b].state \in {"active", "unborn"}

\* Another job, or another state of the jobs.
LEMMA JobsAge ==
  ASSUME NEW b, NEW asked, CreateJob(b, asked) \/ (CancelJob(b) /\ IsActive(b)) \/ EndJob(b), batches \in [Batches -> Job]
  PROVE  Ages(batches, batches')
<1>1. ASSUME NEW c \in Batches
      PROVE  \/ batches'[c].state = batches[c].state
             \/ batches[c].state = "unborn" /\ batches'[c].state = "active"
             \/ batches[c].state \in {"active", "cancelling"} /\ batches'[c].state \in {"cancelling", "cancelled"}
             \/ batches[c].state = "active" /\ batches'[c].state \in {"succeeded", "failed"}
  <2>1. CASE CreateJob(b, asked)
    BY <2>1 DEF CreateJob, Unborn
  <2>2. CASE CancelJob(b) /\ IsActive(b)
    BY <2>2 DEF CancelJob, IsActive, Job
  <2>3. CASE EndJob(b)
    <3>1. ASSUME NEW errors, NEW missing, batches[b].state = "active",
                 batches' = [batches EXCEPT ![b].state = "succeeded", ![b].errors = errors, ![b].missing = missing]
          PROVE  batches'[c].state = IF c = b THEN "succeeded" ELSE batches[c].state
      BY <3>1 DEF Job
    <3>2. \/ \E errors, missing : /\ batches[b].state = "active"
                                  /\ batches' = [batches EXCEPT ![b].state = "succeeded", ![b].errors = errors,
                                                                ![b].missing = missing]
          \/ batches[b].state = "active" /\ batches' = [batches EXCEPT ![b].state = "failed"]
          \/ batches[b].state = "cancelling" /\ batches' = [batches EXCEPT ![b].state = "cancelled"]
      BY <2>3 DEF EndJob
    <3>. QED  BY <3>1, <3>2 DEF Job
  <2>. QED  BY <2>1, <2>2, <2>3
<1>. QED  BY <1>1 DEF Ages, Dead

\* No step makes a job unborn, asks something else of it, or revives it.
LEMMA JobsMove ==
  ASSUME Typed, [Next]_vars
  PROVE  BatchesGrow(batches, batches') /\ Ages(batches, batches')
<1>0. batches' = batches => BatchesGrow(batches, batches') /\ Ages(batches, batches')
  BY Unchanged DEF Ages
<1>1. CASE RunStep
  BY <1>0, <1>1 DEF RunStep, EndInterrupted, EnterRun, BeginRun, Prepare, DecideOutcome, FinishRun, HandlePause, WritePaused, WriteFailed,
              NoteRemoteSubmission, running
<1>2. ASSUME StageStep, batches' # batches
      PROVE  SubmitSlice \/ CancelAfterTimeout
  BY <1>2 DEF StageStep, run_translation_stage, run_polish_stage, ResumeJob, NextSlice, RecordSubmission,
              CheckBeforePoll, PollFails, PollPending, PollEnds, StartValidation, StartFallback, FinishItem,
              InterruptItem, EndValidation, EndFallback, BeginApply, ApplyItem, EndApply, provider
<1>3. CASE SubmitSlice
  BY <1>3, <1>0, JobsGrow, JobsAge DEF SubmitSlice, Typed
<1>4. CASE CancelAfterTimeout \/ CancelBatch
  BY <1>4, <1>0, JobsGrow, JobsAge DEF CancelAfterTimeout, CancelBatch, Typed
<1>5. ASSUME CancelStep, batches' # batches
      PROVE  CancelBatch
  BY <1>5 DEF CancelStep, BeginCancel, FindBatches, SettleBatch, InspectBatch, EndCancel, provider
<1>6. CASE ProviderStep
  BY <1>6, <1>0, JobsGrow, JobsAge DEF ProviderStep, Typed
<1>7. CASE StartRun \/ Environment \/ UNCHANGED vars
  BY <1>0, <1>7 DEF StartRun, Environment, UserCancel, MarkCancelRequested, InterruptWorker, UserRerun, Shutdown, Crash, running, vars
<1>. QED  BY <1>0, <1>1, <1>2, <1>3, <1>4, <1>5, <1>6, <1>7 DEF Next, WorkerStep

\* A job is listed when it is found in the requests, or when all of them are recorded.
LEMMA ListsStay ==
  ASSUME Typed, Holds(row, w, requests, batches), [Next]_vars, ~NextSlice, ~RecordSubmission
  PROVE  \A s \in Stages : row'.payload.jobs[s] = row.payload.jobs[s]
<1>a. w \in WorkerType /\ row \in RowType /\ w.mem \in Payload /\ row.payload \in Payload /\ w.stage \in Stages
  BY DEF Typed, RowType, WorkerType
<1>b. \A p : Persist(p) => row'.payload = p
  BY <1>a DEF Persist, RowType
<1>c. PersistProgress => row'.payload = row.payload
  BY <1>a DEF PersistProgress, RowType
<1>d. w.pc \in RunPoints \ {"created"} => \A s \in Stages : w.mem.jobs[s] = row.payload.jobs[s]
  BY DEF Holds, RunOK, Agree
<1>e. \A p : Persist(p) /\ w.pc \in RunPoints \ {"created"} /\ p.jobs = w.mem.jobs =>
        \A s \in Stages : row'.payload.jobs[s] = row.payload.jobs[s]
  BY <1>b, <1>d
<1>f. \A s \in Stages, state \in StageState : \A sub : WithState(w.mem, s, sub, state).jobs = w.mem.jobs
  BY <1>a, WithStateResult
<1>g. {"pending", "succeeded", "failed", "skipped"} = StageState /\ {"translation", "polish"} = Stages
  BY DEF StageState, Stages
<1>1. CASE EnterRun
  <2>1. CASE row' = row
    BY <2>1
  <2>2. CASE /\ row' = [status |-> "paused", cancel_requested |-> FALSE,
                        payload |-> prepare_payload_for_rerun(row.payload)]
             /\ row.status \in TerminalStatuses
    BY <1>1, <2>2, RerunIsAlike DEF EnterRun, At, Alike
  <2>. QED  BY <1>1, <2>1, <2>2 DEF EnterRun
<1>2. CASE Prepare
  <2>0. w.pc = "prepare"
    BY <1>2 DEF Prepare, At
  <2>1. CASE row' = row \/ Persist(w.mem)
    BY <2>0, <2>1, <1>e DEF RunPoints
  <2>2. CASE ~w.mem.prepared /\ row'.payload.jobs = NoJobs
    <3>1. ~row.payload.prepared
      BY <2>0, <2>2 DEF Holds, RunOK, Agree, RunPoints
    <3>2. NoneListed(row.payload)
      BY <3>1 DEF Holds, RunOK, PreparedWorks
    <3>. QED  BY <2>2, <3>2 DEF NoneListed, NoJobs
  <2>3. Persist(PreparedPayload) => row'.payload.jobs = NoJobs
    BY <1>b DEF PreparedPayload, NewPayload
  <2>4. row' = [row EXCEPT !.status = "completed", !.payload = NewPayload(TRUE)] => row'.payload.jobs = NoJobs
    BY <1>a DEF RowType, NewPayload
  <2>. QED  BY <1>2, <2>1, <2>2, <2>3, <2>4 DEF Prepare
<1>3. CASE EndInterrupted \/ BeginRun \/ DecideOutcome \/ WriteFailed
  BY <1>3, <1>a, <1>c DEF EndInterrupted, BeginRun, DecideOutcome, WriteFailed, RowType
<1>4. CASE FinishRun \/ HandlePause \/ WritePaused
  <2>1. w.pc \in RunPoints \ {"created"}
    BY <1>4 DEF FinishRun, HandlePause, WritePaused, At, RunPoints
  <2>2. row'.payload = row.payload \/ row'.payload = w.mem
    BY <1>4, <1>a DEF FinishRun, HandlePause, WritePaused, RowType
  <2>. QED  BY <1>d, <2>1, <2>2
<1>5. CASE NoteRemoteSubmission
  BY <1>5, <1>a DEF NoteRemoteSubmission, RowType, Payload
<1>6. CASE run_translation_stage \/ EndValidation \/ EndFallback \/ BeginApply
  <2>1. w.pc \in RunPoints \ {"created"} /\ Persist(w.mem)
    BY <1>6 DEF run_translation_stage, EndValidation, EndFallback, BeginApply, At, RunPoints
  <2>. QED  BY <1>e, <2>1
<1>7. CASE run_polish_stage
  <2>1. row' = row \/ Persist(WithState(w.mem, "polish", Items \ Succeeded(w.mem), "skipped"))
    BY <1>7 DEF run_polish_stage
  <2>2. w.pc \in RunPoints \ {"created"}
    BY <1>7 DEF run_polish_stage, At, RunPoints
  <2>. QED  BY <1>e, <1>f, <1>g, <2>1, <2>2
<1>8. CASE ResumeJob
  <2>1. \A hashes : [w.mem EXCEPT !.display[w.stage] = hashes].jobs = w.mem.jobs
    BY <1>a DEF Payload
  <2>2. row' = row \/ \E hashes : Persist([w.mem EXCEPT !.display[w.stage] = hashes])
    BY <1>8 DEF ResumeJob
  <2>3. w.pc \in RunPoints \ {"created"}
    BY <1>8 DEF ResumeJob, At, RunPoints
  <2>. QED  BY <1>e, <2>1, <2>2, <2>3
<1>9. CASE SubmitSlice \/ CheckBeforePoll \/ PollFails \/ PollPending \/ CancelAfterTimeout \/ PollEnds
  BY <1>9, <1>c DEF SubmitSlice, CheckBeforePoll, PollFails, PollPending, CancelAfterTimeout, PollEnds
<1>10. CASE \E i \in Items : StartValidation(i) \/ FinishItem(i)
  <2>1. row' = row \/ \E i \in Items, state \in StageState : Persist(WithState(w.mem, w.stage, {i}, state))
    BY <1>10, <1>g DEF StartValidation, FinishItem
  <2>2. w.pc \in RunPoints \ {"created"}
    BY <1>10 DEF StartValidation, FinishItem, At, RunPoints
  <2>. QED  BY <1>a, <1>e, <1>f, <2>1, <2>2
<1>11. CASE InterruptItem \/ EndApply \/ \E i \in Items : StartFallback(i) \/ ApplyItem(i)
  BY <1>11 DEF InterruptItem, EndApply, StartFallback, ApplyItem
<1>12. CASE CancelStep
  BY <1>12, <1>a DEF CancelStep, BeginCancel, FindBatches, SettleBatch, CancelBatch, InspectBatch, EndCancel, RowType
<1>13. CASE StartRun \/ ProviderStep \/ Environment \/ UNCHANGED vars
  BY <1>13, <1>a DEF StartRun, ProviderStep, Environment, UserCancel, MarkCancelRequested, InterruptWorker, UserRerun, Shutdown, Crash,
                     CancelRequested, vars, RowType
<1>. QED  BY <1>1, <1>2, <1>3, <1>4, <1>5, <1>6, <1>7, <1>8, <1>9, <1>10, <1>11, <1>12, <1>13
             DEF Next, WorkerStep, RunStep, StageStep

\* The requests change when a slice is adopted or recorded, and when a job is found to have ended.
LEMMA RequestsStay ==
  ASSUME [Next]_vars, ~NextSlice, ~RecordSubmission, ~PollFails, ~PollEnds, ~(\E b \in w.todo : SettleBatch(b))
  PROVE  requests' = requests
<1>1. CASE RunStep
  BY <1>1 DEF RunStep, EndInterrupted, EnterRun, BeginRun, Prepare, DecideOutcome, FinishRun, HandlePause, WritePaused, WriteFailed,
              NoteRemoteSubmission, running
<1>2. CASE StageStep
  BY <1>2 DEF StageStep, run_translation_stage, run_polish_stage, ResumeJob, SubmitSlice, CancelAfterTimeout,
              CheckBeforePoll, PollPending, StartValidation, StartFallback, FinishItem,
              InterruptItem, EndValidation, EndFallback, BeginApply, ApplyItem, EndApply, provider
<1>3. CASE CancelStep
  BY <1>3 DEF CancelStep, BeginCancel, FindBatches, CancelBatch, InspectBatch, EndCancel, provider
<1>4. CASE ProviderStep
  BY <1>4 DEF ProviderStep, EndJob
<1>5. CASE StartRun \/ Environment \/ UNCHANGED vars
  BY <1>5 DEF StartRun, Environment, UserCancel, MarkCancelRequested, InterruptWorker, UserRerun, Shutdown, Crash, running, vars
<1>. QED  BY <1>1, <1>2, <1>3, <1>4, <1>5 DEF Next, WorkerStep

\* The rows of a job's output file, and the requests of one that failed, are answered.
LEMMA RequestsMove ==
  ASSUME Typed, Holds(row, w, requests, batches), [Next]_vars, ~NextSlice, ~RecordSubmission,
         \A b \in Batches : batches[b].state # "cancelled"
  PROVE  \A h \in Hash : requests'[h] = requests[h] \/ h \in Answered(requests')
<1>1. \A b, hashes : requests' = PersistOutput(b, hashes) =>
        \A h \in Hash : requests'[h] = requests[h] \/ h \in Answered(requests')
  <2>. SUFFICES ASSUME NEW b, NEW hashes, requests' = PersistOutput(b, hashes), NEW h \in Hash, requests'[h] # requests[h]
                PROVE  h \in Answered(requests')
    OBVIOUS
  <2>1. requests'[h].status \in {"failed", "completed"} /\ requests'[h].cancellation = FALSE
    BY DEF PersistOutput
  <2>. QED  BY <2>1 DEF Answered
<1>2. CASE PollEnds
  <2>1. CASE requests' = PersistOutput(w.batch, w.hashes)
    BY <1>1, <2>1
  <2>2. ASSUME NEW left, requests' = Upsert(left, "failed", w.batch, batches[w.batch].state = "cancelled"), NEW h \in Hash
        PROVE  requests'[h] = requests[h] \/ h \in Answered(requests')
    <3>1. batches[w.batch].state # "cancelled"
      <4>1. w.stage \in Stages /\ w.pc = "polling"
        BY <1>2 DEF Typed, WorkerType, PollEnds, At
      <4>2. PICK n \in DOMAIN row.payload.jobs[w.stage] : row.payload.jobs[w.stage][n].batch = w.batch
        BY <4>1, PolledJob
      <4>3. Born(batches, w.batch)
        BY <4>1, <4>2 DEF Holds, Sends, SendsOK, ListOK
      <4>. QED  BY <4>3 DEF Born
    <3>2. requests'[h] = requests[h] \/ requests'[h] = [status |-> "failed", batch_name |-> w.batch, cancellation |-> FALSE]
      BY <2>2, <3>1 DEF Upsert
    <3>. QED  BY <3>2 DEF Answered
  <2>3. \/ requests' = PersistOutput(w.batch, w.hashes)
        \/ \E left : requests' = Upsert(left, "failed", w.batch, batches[w.batch].state = "cancelled")
    BY <1>2 DEF PollEnds
  <2>. QED  BY <2>1, <2>2, <2>3
<1>3. CASE PollFails \/ \E b \in w.todo : SettleBatch(b)
  BY <1>1, <1>3 DEF PollFails, SettleBatch
<1>4. CASE requests' = requests
  BY <1>4
<1>. QED  BY <1>2, <1>3, <1>4, RequestsStay

\* The steps of the worker that are not about a job: it goes on, or does no longer work.
Stays == w'.stage = w.stage /\ w'.job = w.job /\ w'.hashes = w.hashes /\ w'.batch = w.batch
GoesOn ==
  {<<"prepare", "stage">>, <<"validate", "fallback">>, <<"apply", "applying">>, <<"applying", "finish">>,
   <<"finish", "finished">>}
Goes ==
  \/ w'.pc \notin WorkPoints
  \/ Stays /\ (w'.pc = w.pc \/ (Polling(w) /\ Polling(w')))
  \/ w'.stage = w.stage /\ w.pc = "stage" /\ w'.pc = "jobs" /\ w'.job = 1
  \/ w'.stage = w.stage /\ <<w.pc, w'.pc>> \in GoesOn
  \/ w.stage = "translation" /\ w.pc = "fallback" /\ w'.stage = "polish" /\ w'.pc = "stage"
  \/ /\ w.stage = "polish" /\ w'.stage = "polish" /\ w'.pc = "apply"
     /\ w.pc = "fallback" \/ (w.pc = "stage" /\ ~w.polish)
JobStep == ResumeJob \/ NextSlice \/ SubmitSlice \/ RecordSubmission \/ CancelAfterTimeout \/ PollEnds

\* Every other step of the system leaves the worker so.
LEMMA WorkerGoes ==
  ASSUME Typed, [Next]_vars, ~JobStep
  PROVE  Goes
<1>a. w \in WorkerType /\ w.stage \in {"translation", "polish"}
  BY DEF Typed, WorkerType, Stages
<1>b. Pause \/ Raise => w'.pc \notin WorkPoints
  BY <1>a DEF Pause, Raise, Goto, WorkerType, WorkPoints, AskPoints
<1>c. \A p : IdleWorker(p).pc = "idle"
  BY DEF IdleWorker
<1>1. CASE EnterRun \/ BeginRun \/ FinishRun \/ HandlePause \/ WritePaused \/ WriteFailed \/ NoteRemoteSubmission
  <2>1. w'.pc \in {"idle", "post", "begin", "cancel", "prepare", "pausing"}
    <3>1. CASE EnterRun
      BY <3>1, <1>a, <1>c DEF EnterRun, Goto, WorkerType
    <3>2. CASE NoteRemoteSubmission
      BY <3>2, <1>c DEF NoteRemoteSubmission
    <3>3. CASE BeginRun \/ FinishRun \/ HandlePause \/ WritePaused \/ WriteFailed
      BY <3>3, <1>a DEF BeginRun, FinishRun, HandlePause, WritePaused, WriteFailed, Goto, Proceed, WorkerType
    <3>. QED  BY <1>1, <3>1, <3>2, <3>3
  <2>. QED  BY <2>1 DEF Goes, WorkPoints, AskPoints
<1>2. CASE Prepare
  <2>1. \/ w'.pc \notin WorkPoints
        \/ w'.pc = "stage" /\ w'.stage = w.stage /\ w.pc = "prepare"
    BY <1>2, <1>a, <1>b DEF Prepare, Goto, Proceed, WorkerType, At, WorkPoints, AskPoints
  <2>. QED  BY <2>1 DEF Goes, GoesOn
<1>3. CASE DecideOutcome \/ EndValidation \/ BeginApply \/ EndApply
  <2>1. w'.stage = w.stage /\ <<w.pc, w'.pc>> \in GoesOn
    BY <1>3, <1>a DEF DecideOutcome, EndValidation, BeginApply, EndApply, Goto, WorkerType, At, GoesOn
  <2>. QED  BY <2>1 DEF Goes
<1>4. CASE run_translation_stage
  BY <1>4, <1>a DEF run_translation_stage, At, WorkerType, Goes
<1>5. CASE run_polish_stage
  <2>1. CASE w.polish
    <3>1. PICK mem : w' = [w EXCEPT !.pc = "jobs", !.job = 1, !.mem = mem]
      BY <1>5, <2>1 DEF run_polish_stage
    <3>. QED  BY <1>5, <3>1, <1>a DEF run_polish_stage, At, WorkerType, Goes
  <2>2. CASE ~w.polish
    <3>1. w'.pc = "apply" /\ w'.stage = "polish"
      BY <1>5, <2>2, <1>a DEF run_polish_stage, WorkerType, Proceed
    <3>. QED  BY <1>5, <2>2, <3>1 DEF run_polish_stage, At, Goes
  <2>. QED  BY <2>1, <2>2
<1>6. CASE CheckBeforePoll \/ PollFails
  BY <1>6, <1>a, <1>b DEF CheckBeforePoll, PollFails, Goto, WorkerType, At, Goes, Stays, Polling, WorkPoints, AskPoints
<1>7. CASE PollPending
  BY <1>7, <1>a DEF PollPending, Report, WorkerType, At, Goes, Stays, Polling, WorkPoints, AskPoints
<1>8. ASSUME NEW i \in Items, StartValidation(i) \/ StartFallback(i) \/ FinishItem(i) \/ InterruptItem
      PROVE  Goes
  <2>1. CASE w' = Interrupted
    <3>1. w'.pc = "interrupted"
      BY <1>a, <2>1 DEF Interrupted, WorkerType
    <3>. QED  BY <3>1 DEF Goes, WorkPoints, AskPoints
  <2>2. CASE w' # Interrupted
    <3>1. CASE StartFallback(i)
      <4>1. \A inflight : [w EXCEPT !.inflight = inflight, !.mem.items[i][w.stage].fallback_attempted = TRUE]
              = [w EXCEPT !.inflight = inflight, !.mem = ItemPut(w.mem, i, Attempted(w.mem.items[i], w.stage))]
        BY OneItem
      <4>2. \E inflight, mem : w' = [w EXCEPT !.inflight = inflight, !.mem = mem]
        BY <2>2, <3>1, <4>1 DEF StartFallback
      <4>. QED  BY <1>a, <4>2 DEF WorkerType, Goes, Stays
    <3>2. CASE StartValidation(i)
      <4>1. \/ \E inflight : w' = [w EXCEPT !.inflight = inflight]
            \/ \E mem : w' = [w EXCEPT !.pc = "validate", !.mem = mem] /\ w.pc = "validate"
        BY <2>2, <3>2 DEF StartValidation, Proceed, At
      <4>. QED  BY <1>a, <4>1 DEF WorkerType, Goes, Stays
    <3>3. CASE FinishItem(i)
      <4>1. \E inflight, mem : w' = [w EXCEPT !.mem = mem, !.inflight = inflight]
        BY <3>3 DEF FinishItem
      <4>. QED  BY <1>a, <4>1 DEF WorkerType, Goes, Stays
    <3>. QED  BY <1>8, <2>2, <3>1, <3>2, <3>3 DEF InterruptItem
  <2>. QED  BY <2>1, <2>2
<1>9. CASE EndFallback
  BY <1>9, <1>a DEF EndFallback, At, WorkerType, Goes
<1>10. ASSUME NEW i \in Items, ApplyItem(i)
       PROVE  Goes
  BY <1>10, ApplyForms DEF ApplyItem, At, Goes, Stays, WorkPoints, AskPoints
<1>11. CASE CancelStep
  <2>1. w'.pc \in {"post", "find", "settle", "cancelling", "inspect"}
    BY <1>11, <1>a DEF CancelStep, BeginCancel, FindBatches, SettleBatch, CancelBatch, InspectBatch, EndCancel,
                       Settled, Goto, Proceed, WorkerType
  <2>. QED  BY <2>1 DEF Goes, WorkPoints, AskPoints
<1>12. CASE StartRun \/ Crash \/ EndInterrupted \/ UserCancel
  <2>1. w'.pc \in {"idle", "entry", "cancel"}
    BY <1>12, <1>c DEF StartRun, Crash, EndInterrupted, UserCancel, Worker, IdleWorker
  <2>. QED  BY <2>1 DEF Goes, WorkPoints, AskPoints
<1>13. CASE MarkCancelRequested \/ InterruptWorker \/ UserRerun \/ Shutdown \/ ProviderStep \/ UNCHANGED vars
  BY <1>13, <1>a DEF MarkCancelRequested, InterruptWorker, UserRerun, Shutdown, ProviderStep, vars, WorkerType, Goes, Stays
<1>14. CASE InterruptItem
  <2>1. w'.pc = "interrupted"
    BY <1>14, <1>a DEF InterruptItem, Interrupted, WorkerType
  <2>. QED  BY <2>1 DEF Goes, WorkPoints, AskPoints
<1>. QED  BY <1>1, <1>2, <1>3, <1>4, <1>5, <1>6, <1>7, <1>8, <1>9, <1>10, <1>11, <1>12, <1>13, <1>14
             DEF Next, WorkerStep, RunStep, StageStep, Environment, JobStep

\* A worker comes to submit, or to note what it submitted, by three actions alone.
LEMMA SubmitsFrom ==
  ASSUME Typed, [Next]_vars, ~NextSlice, ~SubmitSlice, ~RecordSubmission, w'.pc \in {"submit", "created"}
  PROVE  w'.pc = w.pc /\ w'.hashes = w.hashes /\ w'.batch = w.batch /\ requests' = requests
<1>a. w \in WorkerType
  BY DEF Typed
<1>1. ~ResumeJob /\ ~CancelAfterTimeout /\ ~PollEnds
  BY <1>a DEF ResumeJob, CancelAfterTimeout, PollEnds, AfterPoll, Report, WorkerType
<1>2. Goes
  BY <1>1, WorkerGoes DEF JobStep
<1>3. w'.pc = w.pc /\ Stays
  BY <1>2 DEF Goes, GoesOn, Polling, WorkPoints, AskPoints
<1>4. ~PollFails /\ ~(\E b \in w.todo : SettleBatch(b))
  BY <1>3 DEF PollFails, SettleBatch, At
<1>. QED  BY <1>1, <1>3, <1>4, RequestsStay DEF Stays

\* No job was cancelled, and the requests that were never submitted.
NoneCancelled(bat) == \A b \in Batches : bat[b].state \notin {"cancelling", "cancelled"}
Unasked(req) == {h \in Hash : req[h].status = "none"}

\* Until a job is cancelled, what is submitted was never asked before: the jobs noted
\* ask different requests, those listed only requests that are recorded, and the
\* slice in hand is not recorded, or to its own job.
AskedOnce ==
  /\ \A b1, b2 \in Noted : b1 # b2 => batches[b1].asked \cap batches[b2].asked = {}
  /\ \A b \in KnownBatches(row.payload) : batches[b].asked \cap Unasked(requests) = {}
SliceIsNew ==
  /\ At("submit") => w.hashes \subseteq Unasked(requests)
  /\ At("created") => \A h \in w.hashes : h \in Unasked(requests) \/ (Submitted(h) /\ requests[h].batch_name = w.batch)
NoteInv == NoneCancelled(batches) => Refused(requests) = {} /\ AskedOnce /\ SliceIsNew

\* A listed job is an entry of one of the two lists.
LEMMA KnownListed ==
  ASSUME NEW p
  PROVE  /\ \A b \in KnownBatches(p) : \E s \in Stages : \E n \in DOMAIN p.jobs[s] : p.jobs[s][n].batch = b
         /\ \A s \in Stages : \A n \in DOMAIN p.jobs[s] : p.jobs[s][n].batch \in KnownBatches(p)
BY DEF KnownBatches, JobEntries, Range

\* A list that got another entry.
LEMMA KnownAfter ==
  ASSUME NEW p, NEW q, NEW t \in Stages, NEW e \in JobEntry, p.jobs[t] \in Seq(JobEntry),
         q.jobs[t] = Append(p.jobs[t], e), \A s \in Stages \ {t} : q.jobs[s] = p.jobs[s]
  PROVE  KnownBatches(q) \subseteq KnownBatches(p) \cup {e.batch}
<1>. SUFFICES ASSUME NEW s \in Stages, NEW n \in DOMAIN q.jobs[s]
              PROVE  q.jobs[s][n].batch \in KnownBatches(p) \cup {e.batch}
  BY KnownListed
<1>1. CASE s = t
  <2>0. q.jobs[s] = Append(p.jobs[s], e) /\ p.jobs[s] \in Seq(JobEntry) /\ n \in DOMAIN q.jobs[s]
    BY <1>1
  <2>1. q.jobs[s][n] = e \/ (n \in DOMAIN p.jobs[s] /\ q.jobs[s][n] = p.jobs[s][n])
    BY <2>0
  <2>. QED  BY <2>1, KnownListed
<1>2. CASE s # t
  BY <1>2, KnownListed
<1>. QED  BY <1>1, <1>2

\* A job that is noted was created.
LEMMA NotedBorn ==
  ASSUME Typed, Holds(row, w, requests, batches)
  PROVE  \A b \in Noted : Born(batches, b)
<1>1. \A b \in KnownBatches(row.payload) : Born(batches, b)
  BY KnownListed DEF Holds, Sends, SendsOK, ListOK
<1>2. ASSUME NEW h \in Hash, Submitted(h)
      PROVE  Born(batches, requests[h].batch_name)
  <2>1. h[1] \in Stages /\ h \in Of(h[1]) \cap Sent(requests)
    BY <1>2 DEF Hash, Of, Sent, Submitted
  <2>2. PICK c : Accounted(h[1], c, row.payload.jobs[h[1]], requests, batches)
    BY <2>1 DEF Holds, Sends, SendsOK, StageOK
  <2>. QED  BY <2>1, <2>2 DEF Accounted
<1>3. At("created") => Born(batches, w.batch)
  BY WorkerSends DEF SendsOK, WorkOK, At
<1>. QED  BY <1>1, <1>2, <1>3 DEF Noted

\* No job comes to be noted, and what was recorded stays so or is answered.
LEMMA NoteFrame ==
  ASSUME Typed, Holds(row, w, requests, batches), NoteInv,
         BatchesGrow(batches, batches'), Ages(batches, batches'),
         KnownBatches(row'.payload) \subseteq KnownBatches(row.payload),
         NoneCancelled(batches) => \A h \in Hash : requests'[h] = requests[h] \/ h \in Answered(requests'),
         w'.pc \in {"submit", "created"} =>
           w'.pc = w.pc /\ w'.hashes = w.hashes /\ w'.batch = w.batch /\ requests' = requests
  PROVE  NoteInv'
<1>. SUFFICES ASSUME NoneCancelled(batches') PROVE Refused(requests') = {} /\ AskedOnce' /\ SliceIsNew'
  BY DEF NoteInv
<1>1. NoneCancelled(batches)
  BY DEF NoneCancelled, Ages
<1>2. Refused(requests) = {} /\ AskedOnce /\ SliceIsNew
  BY <1>1 DEF NoteInv
<1>3. \A h \in Hash : requests'[h] = requests[h] \/ h \in Answered(requests')
  BY <1>1
<1>4. Refused(requests') = {}
  BY <1>2, <1>3 DEF Refused, Answered
<1>5. \A h \in Hash : h \in Unasked(requests') => h \in Unasked(requests)
  BY <1>3 DEF Unasked, Answered
<1>6. \A h \in Hash : Submitted(h)' => Submitted(h) /\ requests'[h].batch_name = requests[h].batch_name
  BY <1>3 DEF Submitted, Answered
<1>7. Noted' \subseteq Noted
  BY <1>6 DEF Noted, At
<1>8. \A b \in Noted : batches'[b].asked = batches[b].asked
  BY NotedBorn DEF Born, BatchesGrow
<1>9. KnownBatches(row.payload) \subseteq Noted /\ \A b : batches[b].asked \cap Unasked(requests') \subseteq batches[b].asked \cap Unasked(requests)
  BY <1>5 DEF Noted, Unasked
<1>10. AskedOnce'
  BY <1>2, <1>7, <1>8, <1>9 DEF AskedOnce
<1>11. SliceIsNew'
  BY <1>2 DEF SliceIsNew, At, Submitted
<1>. QED  BY <1>4, <1>10, <1>11

\* A slice that is to be submitted was never asked.
LEMMA NextSliceNotes ==
  ASSUME Typed, Basics, Holds(row, w, requests, batches), Holds(row', w', requests', batches'), Typed', NoteInv, NextSlice
  PROVE  NoteInv'
<1>. SUFFICES ASSUME NoneCancelled(batches') PROVE Refused(requests') = {} /\ AskedOnce' /\ SliceIsNew'
  BY DEF NoteInv
<1>a. w \in WorkerType /\ row \in RowType /\ w.mem \in Payload /\ row.payload \in Payload /\ w.stage \in Stages
      /\ w.pc = "slice" /\ batches' = batches /\ RunOK(row, w, requests)
  BY DEF Typed, RowType, WorkerType, NextSlice, At, Holds
<1>b. Refused(requests) = {} /\ AskedOnce
  BY <1>a DEF NoteInv
<1>c. \A p : Persist(p) => row'.payload = p
  BY <1>a DEF Persist, RowType
<1>d. SliceHashes = Slice(w.stage, Waiting(row.payload, w.stage), requests)
      /\ Waiting(row.payload, w.stage) \in SUBSET Items
  BY <1>a, WorkerSees DEF AskPoints
<1>e. SliceHashes \subseteq Of(w.stage) /\ SliceHashes \cap Answered(requests) = {}
  BY <1>a, <1>d, SliceFacts
<1>f. KnownBatches(row.payload) \subseteq Noted
  BY DEF Noted
<1>1. CASE w'.pc \in {"validate", "permanent"} /\ UNCHANGED requests
           /\ \A s \in Stages : row'.payload.jobs[s] = row.payload.jobs[s]
  <2>1. KnownBatches(row'.payload) = KnownBatches(row.payload)
    BY <1>1 DEF KnownBatches, JobEntries
  <2>. QED  BY <1>1, <1>a, <2>1, NoteFrame, Unchanged DEF Ages, NoteInv
<1>2. CASE /\ SubmittedTo(SliceHashes) = {} /\ w' = [w EXCEPT !.pc = "submit", !.hashes = SliceHashes]
           /\ UNCHANGED <<row, requests>>
  <2>1. w'.pc = "submit" /\ w'.hashes = SliceHashes
    BY <1>2, <1>a DEF WorkerType
  <2>2. SliceHashes \subseteq Unasked(requests)
    <3>. SUFFICES ASSUME NEW h \in SliceHashes PROVE h \in Unasked(requests)
      OBVIOUS
    <3>1. h \in Hash /\ ~Submitted(h) /\ h \notin Answered(requests) /\ h \notin Refused(requests)
      BY <1>2, <1>b, <1>e DEF SubmittedTo, Of
    <3>2. requests[h].status \in {"none", "submitted", "completed", "failed"}
      BY <3>1 DEF Typed, LLMBatchRecord
    <3>. QED  BY <3>1, <3>2 DEF Unasked, Submitted, Answered, Refused
  <2>3. Noted' \subseteq Noted
    BY <1>2, <2>1 DEF Noted, At, Submitted
  <2>4. AskedOnce'
    BY <1>2, <1>a, <1>b, <2>3 DEF AskedOnce
  <2>5. SliceIsNew'
    BY <1>2, <2>1, <2>2 DEF SliceIsNew, At
  <2>. QED  BY <1>2, <1>b, <2>4, <2>5
<1>3. ASSUME NEW b, SubmittedTo(SliceHashes) = {b},
             requests' = Upsert({h \in SliceHashes : ~Submitted(h)}, "submitted", b, FALSE),
             Persist(Listed(w.mem, b, SliceHashes)),
             w' = [w EXCEPT !.pc = "poll", !.mem = Listed(w.mem, b, SliceHashes), !.batch = b, !.hashes = SliceHashes]
      PROVE  Refused(requests') = {} /\ AskedOnce' /\ SliceIsNew'
  <2>1. w'.pc = "poll" /\ w'.batch = b /\ w'.hashes = SliceHashes /\ w'.stage = w.stage /\ w'.job = w.job
    BY <1>3, <1>a DEF WorkerType
  <2>2. PICK g \in SliceHashes : Submitted(g) /\ requests[g].batch_name = b
    BY <1>3 DEF SubmittedTo
  <2>3. b \in Batches /\ b \in Noted /\ SliceHashes \in SUBSET Hash
    BY <1>e, <2>2 DEF Basics, Noted, Of
  <2>4. \A s \in Stages : row'.payload.jobs[s] = IF s = w.stage THEN Append(row.payload.jobs[s], NewEntry(b, SliceHashes))
                                                 ELSE row.payload.jobs[s]
    BY <1>3, <1>a, <1>c, <2>3, ListedSees DEF AskPoints
  <2>5. KnownBatches(row'.payload) \subseteq KnownBatches(row.payload) \cup {b}
    <3>. DEFINE entry == NewEntry(b, SliceHashes)
    <3>1. entry \in JobEntry /\ row.payload.jobs[w.stage] \in Seq(JobEntry) /\ entry.batch = b
      BY <1>a, <2>3 DEF NewEntry, JobEntry, Payload
    <3>4. row'.payload.jobs[w.stage] = Append(row.payload.jobs[w.stage], entry)
          /\ \A s \in Stages \ {w.stage} : row'.payload.jobs[s] = row.payload.jobs[s]
      BY <1>a, <2>4
    <3>. HIDE DEF entry
    <3>2. KnownBatches(row'.payload) \subseteq KnownBatches(row.payload) \cup {entry.batch}
      BY <1>a, <3>1, <3>4, KnownAfter
    <3>. QED  BY <3>1, <3>2
  <2>6. \A h \in Hash : \/ requests'[h] = requests[h]
                        \/ h \in SliceHashes /\ requests'[h].status = "submitted" /\ requests'[h].batch_name = b
    BY <1>3 DEF Upsert
  <2>7. SliceHashes \subseteq Sent(requests')
    BY <1>3, <2>3 DEF Upsert, Sent, Submitted
  <2>8. batches[b].asked = SliceHashes
    <3>1. SendsOK(w.stage, w', row'.payload.jobs[w.stage], Waiting(row'.payload, w.stage), requests', batches)
      BY <1>a DEF Holds, Sends
    <3>2. w'.job = 0
      BY <1>a, <2>1, WorkerSends DEF SendsOK, WorkOK
    <3>3. \E n \in DOMAIN row'.payload.jobs[w.stage] :
            row'.payload.jobs[w.stage][n].batch = b /\ row'.payload.jobs[w.stage][n].hashes = SliceHashes
      BY <2>1, <3>1, <3>2 DEF SendsOK, WorkOK, Polling
    <3>. QED  BY <3>1, <3>3 DEF SendsOK, ListOK
  <2>9. Noted' \subseteq Noted
    BY <1>f, <2>1, <2>3, <2>5, <2>6 DEF Noted, At, Submitted
  <2>10. Refused(requests') = {} /\ Unasked(requests') \subseteq Unasked(requests) \ SliceHashes
    BY <1>b, <2>6, <2>7 DEF Refused, Unasked, Sent
  <2>11. AskedOnce'
    BY <1>a, <1>b, <2>5, <2>8, <2>9, <2>10 DEF AskedOnce
  <2>. QED  BY <2>1, <2>10, <2>11 DEF SliceIsNew, At
<1>4. \/ w'.pc \in {"validate", "permanent"} /\ UNCHANGED requests /\ (Persist(w.mem) \/ UNCHANGED row)
      \/ /\ SubmittedTo(SliceHashes) = {} /\ w' = [w EXCEPT !.pc = "submit", !.hashes = SliceHashes]
         /\ UNCHANGED <<row, requests>>
      \/ \E b : /\ SubmittedTo(SliceHashes) = {b}
                /\ requests' = Upsert({h \in SliceHashes : ~Submitted(h)}, "submitted", b, FALSE)
                /\ Persist(Listed(w.mem, b, SliceHashes))
                /\ w' = [w EXCEPT !.pc = "poll", !.mem = Listed(w.mem, b, SliceHashes), !.batch = b,
                                  !.hashes = SliceHashes]
  BY <1>a DEF NextSlice, Goto, WorkerType
<1>5. Persist(w.mem) \/ UNCHANGED row => \A s \in Stages : row'.payload.jobs[s] = row.payload.jobs[s]
  BY <1>a, <1>c DEF RunOK, Agree, RunPoints
<1>. QED  BY <1>1, <1>2, <1>3, <1>4, <1>5

\* The slice is asked of a new job.
LEMMA SubmitSliceNotes ==
  ASSUME Typed, Holds(row, w, requests, batches), NoteInv, SubmitSlice, [Next]_vars
  PROVE  NoteInv'
<1>a. w \in WorkerType /\ row.payload \in Payload /\ w.stage \in Stages /\ w.pc = "submit" /\ w.hashes \in SUBSET Hash
      /\ requests' = requests /\ row' = row
  BY DEF Typed, RowType, WorkerType, SubmitSlice, At
<1>b. BatchesGrow(batches, batches') /\ Ages(batches, batches')
  BY JobsMove
<1>1. CASE w'.pc \in {"transient", "permanent"}
  BY <1>1, <1>a, <1>b, NoteFrame
<1>2. ASSUME NEW b \in Batches, CreateJob(b, w.hashes),
             w' = [w EXCEPT !.pc = "created", !.batch = b, !.mem = Listed(w.mem, b, w.hashes)]
      PROVE  NoteInv'
  <2>. SUFFICES ASSUME NoneCancelled(batches') PROVE Refused(requests') = {} /\ AskedOnce' /\ SliceIsNew'
    BY DEF NoteInv
  <2>1. Refused(requests) = {} /\ AskedOnce /\ SliceIsNew
    BY <1>b DEF NoteInv, NoneCancelled, Ages
  <2>2. w'.pc = "created" /\ w'.hashes = w.hashes /\ w'.batch = b
    BY <1>2, <1>a DEF WorkerType
  <2>3. b \notin Noted /\ batches'[b].asked = w.hashes
    BY <1>2, NotedBorn DEF CreateJob, Unborn, Born, Typed, Job
  <2>4. \A c \in Noted : batches'[c].asked = batches[c].asked
    BY <1>b, NotedBorn DEF Born, BatchesGrow
  <2>5. Noted' \subseteq Noted \cup {b}
    BY <1>a, <2>2 DEF Noted, At, Submitted
  <2>6. w.hashes \subseteq Unasked(requests) /\ w.hashes \subseteq Of(w.stage)
        /\ w.hashes = Slice(w.stage, Waiting(row.payload, w.stage), requests)
    <3>1. w.hashes = Slice(w.stage, Waiting(row.payload, w.stage), requests)
      BY <1>a, WorkerSends DEF SendsOK, WorkOK
    <3>2. Waiting(row.payload, w.stage) \in SUBSET Items
      BY DEF Waiting, ItemsIn
    <3>. QED  BY <1>a, <2>1, <3>1, <3>2, SliceFacts DEF SliceIsNew, At
  <2>7. ASSUME NEW c \in Noted
        PROVE  batches[c].asked \cap w.hashes = {}
    <3>1. CASE c \in KnownBatches(row.payload)
      BY <2>1, <2>6, <3>1 DEF AskedOnce
    <3>2. ASSUME NEW h \in Hash, Submitted(h), requests[h].batch_name = c
          PROVE  batches[c].asked \cap w.hashes = {}
      <4>1. h[1] \in Stages /\ h \in Of(h[1]) \cap Sent(requests)
        BY <3>2 DEF Hash, Of, Sent, Submitted
      <4>2. StageOK(h[1], w, row.payload.jobs[h[1]], Waiting(row.payload, h[1]), requests, batches)
        BY <4>1 DEF Holds, Sends, SendsOK
      <4>3. Waiting(row.payload, h[1]) \in SUBSET Items
        BY DEF Waiting, ItemsIn
      <4>4. Slice(h[1], Waiting(row.payload, h[1]), requests) \subseteq Of(h[1])
        BY <4>1, <4>3, SliceFacts
      <4>5. CASE h[1] # w.stage
        <5>1. batches[c].asked \subseteq Of(h[1])
          BY <3>2, <4>1, <4>2, <4>4 DEF StageOK, Accounted
        <5>. QED  BY <2>6, <4>5, <5>1 DEF Of
      <4>6. CASE h[1] = w.stage
        <5>1. h \in w.hashes
          BY <1>a, <2>6, <4>1, <4>2, <4>6 DEF StageOK, Accounted, InSlices
        <5>. QED  BY <2>6, <3>2, <5>1 DEF Unasked, Submitted
      <4>. QED  BY <4>5, <4>6
    <3>. QED  BY <1>a, <3>1, <3>2 DEF Noted, At
  <2>8. AskedOnce'
    <3>1. \A b1, b2 \in Noted' : b1 # b2 => batches'[b1].asked \cap batches'[b2].asked = {}
      BY <2>1, <2>3, <2>4, <2>5, <2>7 DEF AskedOnce
    <3>2. \A c \in KnownBatches(row'.payload) : batches'[c].asked \cap Unasked(requests') = {}
      BY <1>a, <2>1, <2>4 DEF AskedOnce, Noted
    <3>. QED  BY <3>1, <3>2 DEF AskedOnce
  <2>. QED  BY <1>a, <2>1, <2>2, <2>6, <2>8 DEF SliceIsNew, At
<1>3. Raise => w'.pc \in {"transient", "permanent"}
  BY <1>a DEF Raise, Goto, WorkerType
<1>4. Goto("transient") => w'.pc \in {"transient", "permanent"}
  BY <1>a DEF Goto, WorkerType
<1>. QED  BY <1>1, <1>2, <1>3, <1>4 DEF SubmitSlice

\* A request of the slice is recorded, or the new job is listed.
LEMMA RecordNotes ==
  ASSUME Typed, Basics, Holds(row, w, requests, batches), NoteInv, RecordSubmission
  PROVE  NoteInv'
<1>. SUFFICES ASSUME NoneCancelled(batches') PROVE Refused(requests') = {} /\ AskedOnce' /\ SliceIsNew'
  BY DEF NoteInv
<1>a. w \in WorkerType /\ row \in RowType /\ w.mem \in Payload /\ row.payload \in Payload /\ w.stage \in Stages
      /\ w.pc = "created" /\ batches' = batches /\ w.hashes \in SUBSET Hash
  BY DEF Typed, RowType, WorkerType, RecordSubmission, At
<1>b. Refused(requests) = {} /\ AskedOnce /\ SliceIsNew
  BY <1>a DEF NoteInv
<1>c. batches[w.batch].asked = w.hashes /\ w.batch \in Noted
  BY <1>a, WorkerSends DEF SendsOK, WorkOK, Noted, At
<1>1. ASSUME NEW h \in w.hashes, requests' = Upsert({h}, "submitted", w.batch, FALSE), UNCHANGED <<row, w>>
      PROVE  Refused(requests') = {} /\ AskedOnce' /\ SliceIsNew'
  <2>1. \A g \in Hash : IF g = h THEN requests'[g].status = "submitted" /\ requests'[g].batch_name = w.batch
                        ELSE requests'[g] = requests[g]
    BY <1>1 DEF Upsert
  <2>2. Refused(requests') = {} /\ Unasked(requests') \subseteq Unasked(requests)
    BY <1>b, <2>1 DEF Refused, Unasked
  <2>3. Noted' \subseteq Noted
    <3>1. \A g \in Hash : Submitted(g)' =>
            \/ requests'[g].batch_name = w.batch
            \/ Submitted(g) /\ requests'[g].batch_name = requests[g].batch_name
      BY <2>1 DEF Submitted
    <3>2. \A g \in Hash : Submitted(g) => requests[g].batch_name \in Noted
      BY DEF Noted
    <3>3. \A g \in Hash : Submitted(g)' => requests'[g].batch_name \in Noted
      BY <1>c, <3>1, <3>2
    <3>4. KnownBatches(row'.payload) \subseteq Noted /\ (At("created")' => w'.batch \in Noted)
      BY <1>1, <1>c DEF Noted
    <3>. QED  BY <3>3, <3>4 DEF Noted
  <2>4. AskedOnce'
    BY <1>1, <1>a, <1>b, <2>2, <2>3 DEF AskedOnce
  <2>5. SliceIsNew'
    BY <1>1, <1>a, <1>b, <2>1 DEF SliceIsNew, At, Unasked, Submitted
  <2>. QED  BY <2>2, <2>4, <2>5
<1>2. ASSUME \A h \in w.hashes : Submitted(h), Persist(w.mem), Goto("poll"), UNCHANGED requests
      PROVE  Refused(requests') = {} /\ AskedOnce' /\ SliceIsNew'
  <2>1. w'.pc = "poll" /\ row'.payload = w.mem
    BY <1>2, <1>a DEF Goto, WorkerType, Persist, RowType
  <2>2. KnownBatches(row'.payload) \subseteq KnownBatches(row.payload) \cup {w.batch}
    <3>1. \A s \in Stages : w.mem.jobs[s] = IF s = w.stage THEN Append(row.payload.jobs[s], NewEntry(w.batch, w.hashes))
                                            ELSE row.payload.jobs[s]
      BY <1>a DEF Holds, RunOK, Agree, RunPoints
    <3>2. w.batch \in Batches /\ NewEntry(w.batch, w.hashes) \in JobEntry
      BY <1>a DEF Basics, At, NewEntry, JobEntry
    <3>3. row.payload.jobs[w.stage] \in Seq(JobEntry)
      BY <1>a DEF Payload
    <3>. DEFINE entry == NewEntry(w.batch, w.hashes)
    <3>6. entry \in JobEntry /\ w.mem.jobs[w.stage] = Append(row.payload.jobs[w.stage], entry)
          /\ \A s \in Stages \ {w.stage} : w.mem.jobs[s] = row.payload.jobs[s]
      BY <1>a, <3>1, <3>2
    <3>. HIDE DEF entry
    <3>4. KnownBatches(w.mem) \subseteq KnownBatches(row.payload) \cup {entry.batch}
      BY <1>a, <3>3, <3>6, KnownAfter
    <3>5. entry.batch = w.batch
      BY DEF entry, NewEntry
    <3>. QED  BY <2>1, <3>4, <3>5
  <2>3. Noted' \subseteq Noted
    BY <1>2, <1>c, <2>1, <2>2 DEF Noted, At, Submitted
  <2>4. w.hashes \cap Unasked(requests) = {}
    BY <1>2 DEF Unasked, Submitted
  <2>5. AskedOnce'
    BY <1>2, <1>a, <1>b, <1>c, <2>2, <2>3, <2>4 DEF AskedOnce
  <2>. QED  BY <1>2, <1>b, <2>1, <2>5 DEF SliceIsNew, At
<1>3. \/ \E h \in w.hashes : requests' = Upsert({h}, "submitted", w.batch, FALSE) /\ UNCHANGED <<row, w>>
      \/ (\A h \in w.hashes : Submitted(h)) /\ Persist(w.mem) /\ Goto("poll") /\ UNCHANGED requests
  <2>. DEFINE record == [status |-> "submitted", batch_name |-> w.batch, cancellation |-> FALSE]
              left == {h \in w.hashes : requests[h] # record}
  <2>1. \/ \E h \in left : requests' = Upsert({h}, "submitted", w.batch, FALSE) /\ UNCHANGED <<row, w>>
        \/ left = {} /\ Persist(w.mem) /\ Goto("poll") /\ UNCHANGED requests
    BY DEF RecordSubmission
  <2>2. left = {} => \A h \in w.hashes : Submitted(h)
    BY DEF Submitted
  <2>. QED  BY <2>1, <2>2
<1>. QED  BY <1>1, <1>2, <1>3

\* Until a job is cancelled, no two of the jobs that are listed, recorded or just
\* created ask the same request: whatever fails, is lost, times out or dies between the
\* reply of a create call and its records, what was paid for is polled and not asked
\* again (the loop over the listed jobs and the slices in _execute_stage).
THEOREM PaidForOnce == Spec => []PaidOnce
<1>1. Init => Typed /\ Basics /\ SubmitInv /\ NoteInv
  <2>. SUFFICES ASSUME Init PROVE NoteInv
    BY BatchInit, SubmitInit
  <2>1. /\ \A h \in Hash : requests[h].status = "none"
        /\ w.pc = "idle" /\ row.payload.jobs = NoJobs
    BY DEF Init, ProviderInit, NoRecord, IdleWorker, NewPayload
  <2>2. KnownBatches(row.payload) = {}
    BY <2>1, KnownListed DEF NoJobs
  <2>3. Noted = {}
    BY <2>1, <2>2 DEF Noted, At, Submitted
  <2>. QED  BY <2>1, <2>2, <2>3 DEF NoteInv, AskedOnce, SliceIsNew, At, Refused
<1>2. Typed /\ Basics /\ SubmitInv /\ NoteInv /\ [Next]_vars => Typed' /\ Basics' /\ SubmitInv' /\ NoteInv'
  <2>. SUFFICES ASSUME Typed, Basics, SubmitInv, NoteInv, [Next]_vars PROVE NoteInv'
    BY Typing, BasicsKept, HoldsKept DEF SubmitInv
  <2>a. Holds(row, w, requests, batches) /\ Holds(row', w', requests', batches') /\ Typed'
    BY Typing, HoldsKept DEF SubmitInv
  <2>1. CASE NextSlice
    BY <2>1, <2>a, NextSliceNotes
  <2>2. CASE SubmitSlice
    BY <2>2, <2>a, SubmitSliceNotes
  <2>3. CASE RecordSubmission
    BY <2>3, <2>a, RecordNotes
  <2>4. CASE ~NextSlice /\ ~SubmitSlice /\ ~RecordSubmission
    <3>1. KnownBatches(row'.payload) \subseteq KnownBatches(row.payload)
      BY <2>4, <2>a, ListsStay DEF KnownBatches, JobEntries
    <3>2. NoneCancelled(batches) => \A h \in Hash : requests'[h] = requests[h] \/ h \in Answered(requests')
      BY <2>4, <2>a, RequestsMove DEF NoneCancelled
    <3>3. w'.pc \in {"submit", "created"} =>
            w'.pc = w.pc /\ w'.hashes = w.hashes /\ w'.batch = w.batch /\ requests' = requests
      BY <2>4, SubmitsFrom
    <3>. QED  BY <2>a, <3>1, <3>2, <3>3, JobsMove, NoteFrame
  <2>. QED  BY <2>1, <2>2, <2>3, <2>4
<1>3. NoteInv => PaidOnce
  BY DEF NoteInv, NoneCancelled, AskedOnce, PaidOnce
<1>. QED  BY <1>1, <1>2, <1>3, PTL DEF Spec
=============================================================================
