---------------------------- MODULE TaskHandlers ----------------------------
(***************************************************************************)
(* What the scheduler asks of a task type before it starts, cancels or     *)
(* deletes a task: the resource claims a task holds while its worker runs, *)
(* the statuses in which an action is allowed, and how a cancellation that *)
(* could not be dispatched is settled.  One operator per question of       *)
(* workflow/tasks/handlers/base.py, one claim set per handler.             *)
(*                                                                         *)
(* A task is described by a record                                         *)
(*   [type, book, docs, sources, chunk, use_batch]                         *)
(* where docs is a set of document keys or AllDocuments, sources a set of  *)
(* source keys (empty: the whole document), chunk the key of the chunk to  *)
(* retranslate, and use_batch the payload flag of translate_and_export.    *)
(* A task row is a record with at least the fields status and remote;      *)
(* remote says that work may be in the hands of the batch provider (the    *)
(* payload's remote_submission_state for batch_translation, a remote phase *)
(* for translate_and_export).                                              *)
(***************************************************************************)

\* claims.py: a claim on one key of a namespace, or on all of them.
AnyKey == "*"
AllDocuments == {AnyKey}
READ_SHARED       == "read_shared"
WRITE_EXCLUSIVE   == "write_exclusive"
WRITE_COOPERATIVE == "write_cooperative"

ResourceClaim(ns, d, key, mode) ==
  [namespace |-> ns, book |-> d.book, key |-> key, mode |-> mode]

ModesConflict(m1, m2) ==
  /\ ~(m1 = READ_SHARED /\ m2 = READ_SHARED)
  /\ ~(m1 = WRITE_COOPERATIVE /\ m2 = WRITE_COOPERATIVE)

ClaimsClash(w, a) ==
  /\ w.namespace = a.namespace
  /\ w.book = a.book
  /\ w.key = a.key \/ w.key = AnyKey \/ a.key = AnyKey
  /\ ModesConflict(w.mode, a.mode)

\* ClaimArbiter.conflicts
Conflicts(wanted, active) == \E w \in wanted, a \in active : ClaimsClash(w, a)

-----------------------------------------------------------------------------
(* Claims, handler by handler. *)

DocClaims(d, mode) == {ResourceClaim("doc", d, k, mode) : k \in d.docs}
Glossary(d, mode)  == {ResourceClaim("glossary_state", d, AnyKey, mode)}
TermMemory(d)      == {ResourceClaim("term_memory", d, AnyKey, WRITE_COOPERATIVE)}
SourceClaims(d)    == {ResourceClaim("source", d, s, WRITE_EXCLUSIVE) : s \in d.sources}

\* translation_text, translation_manga and batch_translation
TranslationClaims(d) ==
  DocClaims(d, WRITE_EXCLUSIVE) \cup Glossary(d, READ_SHARED) \cup TermMemory(d)

GlossaryExtractionClaims(d) ==
  Glossary(d, WRITE_EXCLUSIVE) \cup DocClaims(d, WRITE_EXCLUSIVE)

\* glossary_review and glossary_translation
GlossaryRewriteClaims(d) ==
  Glossary(d, WRITE_EXCLUSIVE) \cup {ResourceClaim("doc", d, AnyKey, WRITE_EXCLUSIVE)}

GlossaryExportClaims(d) == Glossary(d, READ_SHARED) \cup TermMemory(d)

\* A chunk retranslation always names its document and its chunk.
ChunkRetranslationClaims(d) ==
  DocClaims(d, WRITE_COOPERATIVE)
    \cup {ResourceClaim("translation_snapshot", d, k, WRITE_EXCLUSIVE) : k \in d.docs}
    \cup {ResourceClaim("chunk", d, d.chunk, WRITE_EXCLUSIVE)}
    \cup Glossary(d, READ_SHARED) \cup TermMemory(d)

\* (mutant of ImageReembeddingClaims: a per-page task forgets that it reads the
\* translations of the whole document)
ImageReembeddingUnsnapshot(d) ==
  IF d.sources = {} THEN DocClaims(d, WRITE_EXCLUSIVE)
  ELSE DocClaims(d, WRITE_COOPERATIVE) \cup SourceClaims(d)

ImageReembeddingClaims(d) ==
  IF d.sources = {}
  THEN DocClaims(d, WRITE_EXCLUSIVE)
  ELSE DocClaims(d, WRITE_COOPERATIVE) \cup SourceClaims(d)
         \cup {ResourceClaim("translation_snapshot", d, k, READ_SHARED) : k \in d.docs}

OcrClaims(d) ==
  IF d.sources = {}
  THEN DocClaims(d, WRITE_EXCLUSIVE)
         \cup {ResourceClaim("ocr", d, k, WRITE_EXCLUSIVE) : k \in d.docs}
  ELSE DocClaims(d, WRITE_COOPERATIVE) \cup SourceClaims(d)

TranslateAndExportClaims(d) ==
  DocClaims(d, WRITE_EXCLUSIVE) \cup Glossary(d, WRITE_EXCLUSIVE) \cup TermMemory(d)

TranslationTypes     == {"translation_text", "translation_manga", "batch_translation"}
GlossaryRewriteTypes == {"glossary_review", "glossary_translation"}
TaskTypes ==
  TranslationTypes \cup GlossaryRewriteTypes \cup
  {"glossary_extraction", "glossary_export", "chunk_retranslation",
   "image_reembedding", "ocr", "translate_and_export"}

\* TaskTypeHandler.claims
HandlerClaims(d) ==
  CASE d.type \in TranslationTypes        -> TranslationClaims(d)
    [] d.type \in GlossaryRewriteTypes    -> GlossaryRewriteClaims(d)
    [] d.type = "glossary_extraction"     -> GlossaryExtractionClaims(d)
    [] d.type = "glossary_export"         -> GlossaryExportClaims(d)
    [] d.type = "chunk_retranslation"     -> ChunkRetranslationClaims(d)
    [] d.type = "image_reembedding"       -> ImageReembeddingClaims(d)
    [] d.type = "ocr"                     -> OcrClaims(d)
    [] d.type = "translate_and_export"    -> TranslateAndExportClaims(d)

-----------------------------------------------------------------------------
(* Statuses and the actions they allow (workflow/tasks/models.py).         *)

TERMINAL_TASK_STATUSES == {"cancelled", "completed", "completed_with_errors", "failed"}
ACTIVE_STATUSES        == {"running", "cancel_requested", "cancelling"}
Status == TERMINAL_TASK_STATUSES \cup ACTIVE_STATUSES \cup {"queued", "paused"}

RERUNNABLE_TERMINAL_STATUSES == {"cancelled", "failed", "completed_with_errors"}

\* TranslateAndExportHandler._can_resume_batch_phase
CanResumeBatchPhase(d, row) == d.use_batch /\ row.remote

\* (mutant of CanRun: an active batch row cannot be taken up again)
CanRunWaiting(d, row) ==
  \/ row.status \in RERUNNABLE_TERMINAL_STATUSES \cup {"queued"}
  \/ row.status = "paused" /\ d.type # "ocr"

\* TaskTypeHandler.can(RUN).  A document type that a handler names nowhere
\* falls under the common rule: queued or paused, or a rerunnable end.
CanRun(d, row) ==
  \/ row.status \in RERUNNABLE_TERMINAL_STATUSES
  \/ row.status = "queued"
  \/ row.status = "paused" /\ d.type # "ocr"
  \/ row.status \in ACTIVE_STATUSES /\
       \/ d.type = "batch_translation"
       \/ d.type = "translate_and_export" /\ CanResumeBatchPhase(d, row)

\* TaskTypeHandler.can(CANCEL) and can(DELETE)
CanCancel(row) == row.status \notin TERMINAL_TASK_STATUSES
CanDelete(row) == row.status \notin ACTIVE_STATUSES

InteractiveTypes == {"ocr", "translation_manga", "chunk_retranslation"}

\* (mutants of CanAutorun: an active batch row is not taken up again; the
\* claims of the tasks at work are not consulted)
CanAutorunWaiting(d, row, isBusy, active) ==
  /\ d.type \notin InteractiveTypes /\ row.status \in {"queued", "paused"}
  /\ ~isBusy /\ ~Conflicts(HandlerClaims(d), active)

\* TaskTypeHandler.can_autorun; busy is the set of tasks with an active
\* worker, active the claims they hold.
CanAutorun(d, row, isBusy, active) ==
  /\ d.type \notin InteractiveTypes
  /\ \/ row.status \in {"queued", "paused"}
     \/ row.status \in ACTIVE_STATUSES /\
          \/ d.type = "batch_translation"
          \/ d.type = "translate_and_export" /\ CanResumeBatchPhase(d, row)
  /\ ~isBusy
  /\ ~Conflicts(HandlerClaims(d), active)

\* TaskTypeHandler.cancel_dispatch_policy
CancelDispatchPolicy(d, row) ==
  IF \/ d.type = "batch_translation" /\ row.remote
     \/ d.type = "translate_and_export" /\ CanResumeBatchPhase(d, row)
  THEN "require_remote_confirmation"
  ELSE "local_terminalize"
=============================================================================
