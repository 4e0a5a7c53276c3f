---------------------------- MODULE BatchProvider ----------------------------
(***************************************************************************)
(* The provider of batch jobs, as llm/batch_jobs/gemini_gateway.py uses    *)
(* it, and the local table of requests and their responses                 *)
(* (storage/repositories/llm_batch_store.py).                              *)
(*                                                                         *)
(* A request is named by its hash: here the stage it belongs to and its    *)
(* prompt.  A batch job is created from a set of requests; its display     *)
(* name is a digest of that set, so the set stands for the name too.       *)
(***************************************************************************)
EXTENDS Naturals, FiniteSets

CONSTANTS
  Prompts,    \* what requests may ask
  Batches,    \* the provider's job names: the bound on jobs ever created
  NoBatch,    \* the batch_name of a request that was never submitted
  Faults      \* what may go wrong in the environment, see FaultKinds

FaultKinds ==
  {"transient",      \* a call raises a time-out, a quota or a connection error
   "permanent",      \* a call raises anything else
   "lost_reply",     \* a job is created, and the reply of the create call lost
   "lost_record",    \* the process dies between the reply and its first record
   "item_error",     \* a row of an output file is an error
   "missing_row",    \* a row of an output file is missing
   "batch_failed",   \* a job fails or expires
   "timeout",        \* a job is pending for _POLL_TIMEOUT_SEC
   "cancel_failed",  \* a cancel call raises, the job goes on
   "inspect_failed", \* a get call raises while a cancellation is settled
   "find_failed",    \* a list call raises while a cancellation is settled
   "no_credentials", \* no client can be made to settle a cancellation
   "bad_response",   \* a response fails validation, or a direct call fails
   "chunk_missing"}  \* a chunk to be written is gone

ASSUME ProviderAssumption == NoBatch \notin Batches /\ Faults \subseteq FaultKinds

VARIABLES
  batches,    \* the provider's jobs
  requests    \* the table llm_batch_requests

Stages == {"translation", "polish"}
Hash == Stages \X Prompts

May(fault) == fault \in Faults

-----------------------------------------------------------------------------
(* llm_batch_store                                                         *)

\* cancellation: the error text mentions a cancellation (_is_retryable_failure)
LLMBatchRecord ==
  [status : {"none", "submitted", "completed", "failed"},
   batch_name : Batches \cup {NoBatch}, cancellation : BOOLEAN]

NoRecord == [status |-> "none", batch_name |-> NoBatch, cancellation |-> FALSE]

Upsert(hashes, status, b, cancellation) ==
  [h \in Hash |->
     IF h \in hashes
     THEN [status |-> status, batch_name |-> b, cancellation |-> cancellation]
     ELSE requests[h]]

Completed(h) == requests[h].status = "completed"
Submitted(h) == requests[h].status = "submitted"

\* Nothing more is to be asked of the provider for h.
Resolved(h) == Completed(h) \/ (requests[h].status = "failed" /\ ~requests[h].cancellation)

-----------------------------------------------------------------------------
(* Jobs                                                                    *)

JobState == {"unborn", "active", "cancelling", "succeeded", "failed", "cancelled"}
Job == [state : JobState, asked : SUBSET Hash, errors : SUBSET Hash, missing : SUBSET Hash]

Unborn == [state |-> "unborn", asked |-> {}, errors |-> {}, missing |-> {}]
IsActive(b) == batches[b].state \in {"active", "cancelling"}

ProviderInit ==
  /\ batches = [b \in Batches |-> Unborn]
  /\ requests = [h \in Hash |-> NoRecord]

\* (mutant of CreateJob: requests that an earlier job asks are left out)
CreateJobDeduplicated(b, asked) ==
  /\ batches[b].state = "unborn"
  /\ batches' = [batches EXCEPT
       ![b] = [Unborn EXCEPT !.state = "active",
                             !.asked = asked \ UNION {batches[c].asked : c \in Batches}]]

\* submit_batch: upload the requests and create a job.
CreateJob(b, asked) ==
  /\ batches[b].state = "unborn"
  /\ batches' = [batches EXCEPT ![b] = [Unborn EXCEPT !.state = "active", !.asked = asked]]

\* find_batch_names: the jobs that can be cancelled, by display name
FindBatchNames(asked) == {b \in Batches : IsActive(b) /\ batches[b].asked = asked}

\* _persist_output_file_responses: the rows that answer hashes
Unanswered(b, hashes) == (hashes \ batches[b].asked) \cup (hashes \cap batches[b].missing)
PersistOutput(b, hashes) ==
  LET rows == hashes \ Unanswered(b, hashes) IN
  [h \in Hash |->
     IF h \notin rows THEN requests[h]
     ELSE [status |-> IF h \in batches[b].errors THEN "failed" ELSE "completed",
           batch_name |-> b, cancellation |-> FALSE]]

\* cancel_batch: the job is cancelled at once, or after a while.
CancelJob(b) ==
  \E state \in {"cancelled", "cancelling"} : batches' = [batches EXCEPT ![b].state = state]

\* The provider ends a job.
EndJob(b) ==
  /\ \/ /\ batches[b].state = "active"
        /\ \E errors, missing \in SUBSET batches[b].asked :
             /\ errors \cap missing = {}
             /\ errors # {} => May("item_error")
             /\ missing # {} => May("missing_row")
             /\ batches' = [batches EXCEPT ![b].state = "succeeded",
                                           ![b].errors = errors, ![b].missing = missing]
     \/ /\ batches[b].state = "active" /\ May("batch_failed")
        /\ batches' = [batches EXCEPT ![b].state = "failed"]
     \/ /\ batches[b].state = "cancelling"
        /\ batches' = [batches EXCEPT ![b].state = "cancelled"]
  /\ UNCHANGED requests
=============================================================================
