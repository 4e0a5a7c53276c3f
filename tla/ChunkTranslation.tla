-------------------------- MODULE ChunkTranslation --------------------------
(***************************************************************************)
(* The requests of a translation: runs translate their documents one after *)
(* another, a document's batches (or manga pages) concurrently, after      *)
(* summaries of the chunks before them; every request is checked against   *)
(* the token limit of its endpoint, repeated over a bad connection,        *)
(* corrected when malformed, polished, and the whole tried again           *)
(* (context_manager.py, manga_document_handler.py, llm/translator.py,      *)
(* llm/client.py, llm/token_tracker.py).                                   *)
(***************************************************************************)
EXTENDS Integers, Sequences, FiniteSets, TLC

CONSTANTS
  Runs,
  Work,        \* [Runs -> Seq of documents [manga, briefs, batches]], sets of jobs
  Concurrency, \* of a run
  Limit,       \* the token limit of the endpoint that all of them use
  Cost,        \* the tokens of an answer: 1..Cost
  Attempts,    \* max_retries + 1 of a step
  Corrections, \* max_corrections
  Tries,       \* max_retries + 1 of the client
  Polish,      \* enable_polish of the translator's profile
  MaxResets    \* bound: how often the usage is reset, once the limit is reached

Documents == UNION {{Work[r][i] : i \in DOMAIN Work[r]} : r \in Runs}
Briefs == UNION {d.briefs : d \in Documents}
Batches == UNION {d.batches : d \in Documents}
Jobs == Briefs \cup Batches
JobsOf(r) == UNION {Work[r][i].briefs \cup Work[r][i].batches : i \in DOMAIN Work[r]}

ASSUME CallsAssumption ==
  /\ IsFiniteSet(Runs) /\ Briefs \cap Batches = {}
  /\ \A r \in Runs :
       Work[r] \in Seq([manga : BOOLEAN, briefs : SUBSET Jobs, batches : SUBSET Jobs]) \ {<<>>}
  /\ \A r, q \in Runs : r # q => JobsOf(r) \cap JobsOf(q) = {}   \* a job is a call of one run
  /\ {Concurrency, Limit, Cost, Attempts, Tries} \subseteq Nat \ {0}
  /\ {Corrections, MaxResets} \subseteq Nat /\ Polish \in BOOLEAN

VARIABLES
  run,        \* [doc, phase, cancelled, result] of each run
  job,        \* [pc, stage, attempt, asked, tries] of each job
  translated, \* the batches whose translation is stored
  briefed,    \* the chunks whose summary is stored
  used,       \* tokens_used of the endpoint
  resets      \* how often it was reset

callVars == <<run, job, translated, briefed, used, resets>>

RunOf == [j \in Jobs |-> CHOOSE r \in Runs : j \in JobsOf(r)]
Pages == UNION {d.batches : d \in {e \in Documents : e.manga}}
FirstStage(j) == IF j \in Briefs THEN "brief" ELSE IF j \in Pages THEN "page" ELSE "translate"
NewJob(j) == [pc |-> "idle", stage |-> FirstStage(j), attempt |-> 1, asked |-> 1, tries |-> 0]

Document(r) == Work[r][run[r].doc]
\* collect_chunk_translation_inputs takes what is not translated yet.
Current(r) == IF run[r].phase = "briefs" THEN Document(r).briefs ELSE Document(r).batches \ translated
Started(j) == job[j].pc \notin {"idle", "done", "failed", "cancelled"}
IsOver(j) == job[j].pc \in {"done", "failed", "cancelled"}

CallsInit ==
  /\ run = [r \in Runs |-> [doc |-> 1, phase |-> "briefs", cancelled |-> FALSE, result |-> "running"]]
  /\ job = [j \in Jobs |-> NewJob(j)]
  /\ translated \in {{}} \cup {{j} : j \in Batches} /\ briefed \in {{}, Briefs}    \* by a run before
  /\ used = 0 /\ resets = 0

-----------------------------------------------------------------------------
(* A job.  What follows an answer without an await is one step with it.    *)

At(j, pc) == [NewJob(j) EXCEPT !.pc = pc]
To(j, pc) == job' = [job EXCEPT ![j] = At(j, pc)]

\* A page is translated without a cancel check: only its turn has one.
Cancelled(j) == j \notin Pages /\ run[RunOf[j]].cancelled

\* The semaphore is the run's for summaries and for batches, the handler's for pages.
StartJob(r, j) ==
  /\ run[r].result = "running" /\ j \in Current(r) /\ job[j].pc = "idle"
  /\ Cardinality({k \in Current(r) : Started(k)}) < Concurrency
  /\ To(j, IF run[r].cancelled THEN "cancelled"
           ELSE IF j \in briefed THEN "done" ELSE "ready")
  /\ UNCHANGED <<run, translated, briefed, used, resets>>

\* All that a step's attempts could do has failed, or it is tried again from the start.
\* (mutant of Again: the attempts are not counted)
AgainForEver(j) == At(j, "ready")
Again(j) == IF job[j].attempt = Attempts THEN At(j, "failed")
            ELSE [At(j, "ready") EXCEPT !.attempt = job[j].attempt + 1]

\* check_limit
\* (mutant of LimitReached: one too many)
LimitPassed == used > Limit
LimitReached == used >= Limit

\* LLMClient.chat up to the request
Ask(j) ==
  /\ job[j].pc = "ready"
  /\ job' = [job EXCEPT ![j] =
       IF LimitReached THEN Again(j)
       ELSE IF Cancelled(j) THEN At(j, "cancelled")
       ELSE [@ EXCEPT !.pc = "asking", !.tries = 1]]
  /\ UNCHANGED <<run, translated, briefed, used, resets>>

\* Rate limits, timeouts, lost connections and errors of the server; the limit
\* is not looked at again.
Unreachable(j) ==
  /\ job[j].pc = "asking"
  /\ job' = [job EXCEPT ![j] = IF @.tries < Tries THEN [@ EXCEPT !.pc = "backoff"] ELSE Again(j)]
  /\ UNCHANGED <<run, translated, briefed, used, resets>>
\* (mutant of Retry: without a look at the cancellation)
RetryAnyway(j) ==
  /\ job[j].pc = "backoff" /\ job' = [job EXCEPT ![j].pc = "asking", ![j].tries = @ + 1]
  /\ UNCHANGED <<run, translated, briefed, used, resets>>
Retry(j) ==
  /\ job[j].pc = "backoff"
  /\ job' = [job EXCEPT ![j] = IF Cancelled(j) THEN At(j, "cancelled")
                               ELSE [job[j] EXCEPT !.pc = "asking", !.tries = job[j].tries + 1]]
  /\ UNCHANGED <<run, translated, briefed, used, resets>>

\* An empty answer, whose tokens are not recorded, or an error that is not worth a retry
Unusable(j) ==
  /\ job[j].pc = "asking" /\ job' = [job EXCEPT ![j] = Again(j)]
  /\ UNCHANGED <<run, translated, briefed, used, resets>>

\* increment_endpoint_tokens
Record == \E cost \in 1..Cost : used' = used + cost

\* A batch and a page are stored before the run is seen to be cancelled, a
\* summary after.
Persist(j) ==
  LET over == run[RunOf[j]].cancelled
  IN /\ To(j, IF over THEN "cancelled" ELSE "done")
     /\ translated' = IF j \in Batches THEN translated \cup {j} ELSE translated
     /\ briefed' = IF j \in Briefs /\ ~over THEN briefed \cup {j} ELSE briefed

\* validated_chat, summarize_local_chunk, translate_manga_pages
Valid(j) ==
  /\ job[j].pc = "asking" /\ Record
  /\ IF job[j].stage = "translate" /\ Polish
     THEN /\ job' = [job EXCEPT ![j].pc = "ready", ![j].stage = "polish", ![j].asked = 1, ![j].tries = 0]
          /\ UNCHANGED <<translated, briefed>>
     ELSE Persist(j)
  /\ UNCHANGED <<run, resets>>
Malformed(j) ==
  /\ job[j].pc = "asking" /\ Record
  /\ IF job[j].stage \in {"translate", "polish"} /\ job[j].asked <= Corrections
     THEN job' = [job EXCEPT ![j].pc = "ready", ![j].asked = @ + 1, ![j].tries = 0] /\ UNCHANGED <<translated, briefed>>
     ELSE IF job[j].stage = "polish" THEN Persist(j)   \* the unpolished translation
     ELSE job' = [job EXCEPT ![j] = Again(j)] /\ UNCHANGED <<translated, briefed>>
  /\ UNCHANGED <<run, resets>>

-----------------------------------------------------------------------------
(* A run                                                                   *)

Phase(r, d, phase) ==
  /\ run' = [run EXCEPT ![r].doc = d, ![r].phase = phase]
  /\ UNCHANGED job
Ends(r, result) ==
  run' = [run EXCEPT ![r].result = result, ![r].phase = "none"] /\ UNCHANGED job

\* gather, and what it comes to.  A summary that failed is done without.
PhaseEnds(r) ==
  /\ run[r].result = "running" /\ \A j \in Current(r) : IsOver(j)
  /\ IF run[r].cancelled THEN Ends(r, "cancelled")
     ELSE IF run[r].phase = "briefs" THEN Phase(r, run[r].doc, "batches")
     ELSE IF \E j \in Current(r) : job[j].pc = "failed" THEN Ends(r, "failed")
     ELSE IF run[r].doc < Len(Work[r]) THEN Phase(r, run[r].doc + 1, "briefs")
     ELSE Ends(r, "done")
  /\ UNCHANGED <<translated, briefed, used, resets>>

\* From the thread of the queue and from the settings, at any time
Cancel(r) ==
  /\ run[r].result = "running" /\ ~run[r].cancelled
  /\ run' = [run EXCEPT ![r].cancelled = TRUE]
  /\ UNCHANGED <<job, translated, briefed, used, resets>>
ResetTokens ==
  /\ resets < MaxResets /\ LimitReached
  /\ used' = 0 /\ resets' = resets + 1
  /\ UNCHANGED <<run, job, translated, briefed>>

JobStep(j) ==
  \/ \E r \in Runs : StartJob(r, j)
  \/ Ask(j) \/ Unreachable(j) \/ Retry(j) \/ Unusable(j) \/ Valid(j) \/ Malformed(j)
CallsNext ==
  \/ \E j \in Jobs : JobStep(j)
  \/ \E r \in Runs : PhaseEnds(r) \/ Cancel(r)
  \/ ResetTokens

CallsSpec == CallsInit /\ [][CallsNext]_callVars

\* The event loop runs what is ready, a request ends (the client has a timeout)
\* and a backoff is over after ten seconds.
CallsFairness ==
  /\ \A j \in Jobs : WF_callVars(JobStep(j))
  /\ \A r \in Runs : WF_callVars(PhaseEnds(r))

-----------------------------------------------------------------------------
\* However many requests are under way when the limit is reached, what is used
\* exceeds it by no more than their answers: checks and records interleave, and
\* a retry is not checked again.
OvershootIsBounded == used < Limit + Cardinality(Runs) * Concurrency * Cost

\* No request for a text goes out once its run is cancelled, whatever retry,
\* correction or polish it is in; and nothing is asked for again that is stored.
NothingIsAskedInVain ==
  [][\A j \in Jobs : job[j].pc # "asking" /\ job'[j].pc = "asking" =>
       ~Cancelled(j) /\ j \notin translated \cup briefed]_callVars

\* Every run comes to an end.
RunsEnd == \A r \in Runs : run[r].result = "running" ~> run[r].result # "running"
=============================================================================
