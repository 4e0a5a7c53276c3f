---------------------------- MODULE BookDocuments ----------------------------
(***************************************************************************)
(* The documents of one book under the tasks and the user's edits that     *)
(* reach its database at the same time.  A worker reads pages and chunk    *)
(* rows, awaits a provider and writes whole rows back; the user imports,   *)
(* corrects, resets and deletes meanwhile.  Three things keep them apart:  *)
(* the claims of the active tasks (TaskHandlers), which both the start of  *)
(* a task and the services' mutations consult; the bootstrap lock of the   *)
(* book, under which documents are cut into chunks; and the rule that the  *)
(* OCR of a document is closed once it has chunks.                         *)
(*                                                                         *)
(* A task here is a worker's run: bootstrap_ops.prepare_llm_prerequisites, *)
(* then the operation of its type.  Its row, queueing and cancellation are *)
(* TaskEngine's, terms are GlossaryWork's and the provider's batches       *)
(* BatchTranslation's.                                                     *)
(***************************************************************************)
EXTENDS BookStore, TaskHandlers
LOCAL INSTANCE TLC   \* for ToString

CONSTANTS
  Types,        \* Types[d]: what the d-th document ever imported may be
  Paragraphs,   \* the texts of a text file
  Images,       \* the number of page images of any other document
  OcrTexts,     \* what the OCR can find on a page
  Worker,       \* a task runs on a worker thread
  TaskTypesRun, \* the types of task the instance starts
  MaxChunk      \* bound: no task is started above this chunk id

ASSUME BookDocumentsAssumption ==
  /\ Worker # {} /\ Images \in Nat /\ MaxChunk \in Nat
  /\ IsFiniteSet(DOMAIN Paragraphs)
  /\ \A d \in DOMAIN Types : Types[d] \subseteq {"text", "scanned_book", "manga"}
  /\ TaskTypesRun \subseteq TaskTypes

\* Nobody holds the bootstrap lock.
Free == "free"
ASSUME FreeAssumption == Free \notin Worker

VARIABLES
  book,    \* the database (BookStore)
  job,     \* job[w]: the task w runs, or NoJob
  lock,    \* the worker that holds the book's bootstrap lock, or Free
  failure  \* why a write of a task was last refused by the database

bookVars == <<book, job, lock, failure>>

DocId == DOMAIN Types
\* is_ocr_required_for_type
OcrRequired(d) == book.type[d] # "text"
NoTask == [type |-> "none", book |-> "b", docs |-> {}, sources |-> {}, chunk |-> "",
           use_batch |-> FALSE, force |-> FALSE]
NoJob == [task |-> NoTask, pc |-> "idle", todo |-> {}, doc |-> 0, pieces |-> <<>>, rows |-> <<>>]

\* A source as an import stores it: page images wait for OCR.
ImportedPages(ty) ==
  IF ty = "text" THEN [p \in DOMAIN Paragraphs |-> [text |-> Paragraphs[p], ready |-> TRUE]]
  ELSE [p \in 1..Images |-> [text |-> NoText, ready |-> FALSE]]

EmptyBook == [docs |-> {}, last |-> 0, type |-> [d \in DocId |-> "text"],
              page |-> [d \in DocId |-> <<>>], added |-> {},
              rows |-> <<>>, lang |-> FALSE]

BookInit ==
  /\ book = EmptyBook /\ lock = Free /\ failure = "none"
  /\ job = [w \in Worker |-> NoJob]

Busy == {w \in Worker : job[w] # NoJob}
ActiveClaims == UNION {HandlerClaims(job[w].task) : w \in Busy}
\* TaskEngine.has_active_claims
HasActiveClaims(wanted) == Conflicts(wanted, ActiveClaims)

-----------------------------------------------------------------------------
(* Starting a task: what its handler accepts, and the claims.              *)

\* The key of a claim is a string.
Key(x) == ToString(x)
Task(ty, d, ps, c, f) ==
  [NoTask EXCEPT !.type = ty, !.docs = {Key(d)}, !.chunk = Key(c), !.force = f,
                 !.sources = {Key(<<d, p>>) : p \in ps}]

\* OCRHandler.validate_submit, validate_run
OcrAccepted(d, ps) ==
  /\ OcrRequired(d) /\ RowsOf(book.rows, d) = {}
  /\ ps # {} \/ ~IsOcrCompleted(book, d)

\* glossary_preflight.compute_glossary_preflight: all documents up to the
\* selected one must have been OCRed
ExtractionAccepted(d) ==
  /\ PendingGlossary(book, d, OcrRequired(d))
  /\ \A e \in book.docs : e <= d /\ OcrRequired(e) => IsOcrCompleted(book, e)

\* The tasks a user can start on document d now (validate_submit, then
\* validate_run, in the interface's thread).
OcrTasks(d) ==
  {Task("ocr", d, ps, 0, FALSE) :
     ps \in {qs \in {{}} \cup {{p} : p \in DOMAIN book.page[d]} : OcrAccepted(d, qs)}}
TranslationTasks(d) ==
  IF ~IsOcrCompleted(book, d) THEN {}
  ELSE IF book.type[d] = "manga" THEN {Task("translation_manga", d, {}, 0, f) : f \in BOOLEAN}
  ELSE {Task("translation_text", d, {}, 0, FALSE)}
RetranslationTasks(d) ==
  IF book.type[d] = "manga" THEN {}
  ELSE {Task("chunk_retranslation", d, {}, i, FALSE) : i \in RowsOf(book.rows, d)}
\* A review names no document; GlossaryReviewHandler asks nothing of them.
ReviewTask == [NoTask EXCEPT !.type = "glossary_review"]
ExtractionTasks(d) ==
  {Task("glossary_extraction", e, {}, 0, FALSE) : e \in {f \in {d} : ExtractionAccepted(f)}}
Startable(d) ==
  {t \in OcrTasks(d) \cup TranslationTasks(d) \cup RetranslationTasks(d) \cup ExtractionTasks(d)
             \cup {ReviewTask} :
     t.type \in TaskTypesRun}

Start(w) ==
  /\ job[w] = NoJob /\ NextChunkId(book.rows) <= MaxChunk
  /\ \E d \in book.docs : \E t \in Startable(d) :
       /\ ~HasActiveClaims(HandlerClaims(t))
       /\ job' = [job EXCEPT ![w] =
            [NoJob EXCEPT !.task = t, !.doc = d,
               !.pc   = CASE t.type = "ocr"             -> "ocr"
                          [] t.type = "glossary_review" -> "review"
                          [] OTHER                      -> "lock",
               !.todo = IF t.type # "ocr" THEN {}
                        ELSE IF t.sources = {} THEN PendingPages(book, d)
                        ELSE {p \in DOMAIN book.page[d] : Key(<<d, p>>) \in t.sources}]]
  /\ UNCHANGED <<book, lock, failure>>

Goto(w, pc) == job' = [job EXCEPT ![w].pc = pc]
Ends(w) ==
  /\ job' = [job EXCEPT ![w] = NoJob]
  /\ lock' = IF lock = w THEN Free ELSE lock

-----------------------------------------------------------------------------
(* prepare_llm_prerequisites: one preflight of a book at a time.           *)

\* resolve_preflight_document_ids: a selection that needs no OCR is prepared
\* alone, any other after every document before it.
PreflightDocuments(d) == IF OcrRequired(d) THEN {e \in book.docs : e <= d} ELSE {d}

\* with get_bootstrap_lock(book): load_documents
PreflightBegins(w) ==
  /\ job[w].pc = "lock" /\ lock = Free
  /\ lock' = w
  /\ job' = [job EXCEPT ![w].pc = "prepare", ![w].todo = PreflightDocuments(job[w].doc)]
  /\ UNCHANGED <<book, failure>>

\* ensure_glossary_source_language: when the language is unknown, every
\* document that is ready is prepared, and WITHOUT the lock.
IsReview(w) == job[w].task.type = "glossary_review"
ReviewBegins(w) ==
  /\ job[w].pc = "review"
  /\ IF book.lang THEN Ends(w)
     ELSE /\ job' = [job EXCEPT ![w].pc = "prepare", ![w].todo = book.docs]
          /\ UNCHANGED lock
  /\ UNCHANGED <<book, failure>>

\* process_document, one document: refused without its OCR (a review passes it
\* over), skipped when its text has been added, else its text is read.
NextDocument(w) == Min(job[w].todo)
OcrMissing(d) == OcrRequired(d) /\ ~IsOcrCompleted(book, d)
PrepareDocument(w) ==
  /\ job[w].pc = "prepare" /\ job[w].todo # {}
  /\ LET d == NextDocument(w) IN
       \/ OcrMissing(d) /\ ~IsReview(w) /\ Ends(w)
       \/ /\ (IsTextAdded(book, d) /\ ~OcrMissing(d)) \/ (OcrMissing(d) /\ IsReview(w))
          /\ job' = [job EXCEPT ![w].todo = @ \ {d}] /\ UNCHANGED lock
       \/ /\ ~IsTextAdded(book, d) /\ ~OcrMissing(d)
          /\ job' = [job EXCEPT ![w].pc = "text", ![w].pieces = DocumentText(book, d)]
          /\ UNCHANGED lock
  /\ UNCHANGED <<book, failure>>

\* manager.add_text: the pieces that have no row yet get the ids after the
\* largest one (an id is spent on a piece that has a row, too).  A manga
\* document adds each of its pages in a call of its own.
\* (mutant of Call: of any document)
OnePiece(w) == SubSeq(job[w].pieces, 1, 1)
Call(w) == IF book.type[NextDocument(w)] = "manga" THEN SubSeq(job[w].pieces, 1, 1) ELSE job[w].pieces
NewRows(d, pieces, first) ==
  LET fresh == {k \in 1..Len(pieces) :
                  /\ <<d, pieces[k]>> \notin Hashes(book.rows)
                  /\ \A j \in 1..(k - 1) : pieces[j] # pieces[k]}
  IN [i \in {first + k - 1 : k \in fresh} |-> Row(d, pieces[i - first + 1])]

AddText(w) ==
  /\ job[w].pc = "text" /\ job[w].pieces # <<>>
  /\ job' = [job EXCEPT ![w].pc = "store",
               ![w].rows = NewRows(NextDocument(w), Call(w), NextChunkId(book.rows))]
  /\ UNCHANGED <<book, lock, failure>>

\* apply_batch in a transaction: a refused insert ends the task.
StoreChunks(w) ==
  /\ job[w].pc = "store"
  /\ IF UpsertFails(book, job[w].rows)
     THEN Ends(w) /\ failure' = "chunks refused" /\ UNCHANGED book
     ELSE /\ book' = UpsertChunks(book, job[w].rows)
          /\ job' = [job EXCEPT ![w].pc = "text", ![w].rows = <<>>,
                       ![w].pieces = SubSeq(@, Len(Call(w)) + 1, Len(@))]
          /\ UNCHANGED <<lock, failure>>

MarkAdded(w) ==
  /\ job[w].pc = "text" /\ job[w].pieces = <<>>
  /\ book' = MarkTextAdded(book, NextDocument(w))
  /\ job' = [job EXCEPT ![w].pc = "prepare", ![w].todo = @ \ {NextDocument(w)}]
  /\ UNCHANGED <<lock, failure>>

\* What the preflight was for: an operation, or the review's terms (elsewhere).
Prepared(w) == IF IsReview(w) THEN Ends(w) ELSE Goto(w, "collect") /\ lock' = Free

\* ensure_source_language: an LLM call unless the language is known; without
\* a chunk there is nothing to detect it from (a review then tries the texts of
\* the glossary).  The lock is released.
LanguageKnown(w) ==
  /\ job[w].pc = "prepare" /\ job[w].todo = {}
  /\ \/ book.lang /\ Prepared(w)
     \/ ~book.lang /\ book.rows = <<>> /\ Ends(w)
     \/ /\ ~book.lang /\ (book.rows # <<>> \/ IsReview(w))
        /\ Goto(w, "detect") /\ UNCHANGED lock
  /\ UNCHANGED <<book, failure>>
LanguageDetected(w) ==
  /\ job[w].pc = "detect"
  /\ book' = SetLanguage(book)
  /\ Prepared(w)
  /\ UNCHANGED failure

-----------------------------------------------------------------------------
(* The operation.  It reads its chunk rows, awaits the provider for each   *)
(* and writes it back whole, in any order.                                 *)

\* The rows a task works on
Selected(t, d) ==
  CASE t.type = "glossary_extraction" -> {i \in RowsOf(book.rows, d) : ~book.rows[i].extracted}
    [] t.type = "chunk_retranslation" -> {i \in DOMAIN book.rows : Key(i) = t.chunk}
    [] OTHER                          -> ChunksToTranslate(book, d, t.force)

\* translate_chunks of a manga: a page image is found by position, and the
\* numbers must agree.
Aligned(d) ==
  book.type[d] = "manga" => Cardinality(RowsOf(book.rows, d)) = Len(DocumentText(book, d))

\* Without the source language an operation ends as well.
Collect(w) ==
  /\ job[w].pc = "collect"
  /\ IF ~book.lang \/ ~Aligned(job[w].doc) THEN Ends(w)
     ELSE /\ job' = [job EXCEPT ![w].pc = "work",
                       ![w].rows = OnlyRows(book.rows, Selected(job[w].task, job[w].doc))]
          /\ UNCHANGED lock
  /\ UNCHANGED <<book, failure>>

\* What the operation makes of a row it has read
Worked(t, r) == IF t.type = "glossary_extraction" THEN [r EXCEPT !.extracted = TRUE]
                ELSE [r EXCEPT !.translation = "llm"]

\* _state_update: the row as it was read, with the result.
Answer(w) ==
  /\ job[w].pc = "work" /\ job[w].rows # <<>>
  /\ \E i \in DOMAIN job[w].rows :
       LET new == [k \in {i} |-> Worked(job[w].task, job[w].rows[i])] IN
       IF UpsertFails(book, new)
       THEN Ends(w) /\ failure' = "result refused" /\ UNCHANGED book
       ELSE /\ book' = UpsertChunks(book, new)
            /\ job' = [job EXCEPT ![w].rows = OnlyRows(@, DOMAIN @ \ {i})]
            /\ UNCHANGED <<lock, failure>>

\* A translation is done; an extraction goes on to map the occurrences of the
\* terms in the chunks that were not mapped: it reads them all, then writes
\* them all.
WorkDone(w) ==
  /\ job[w].pc = "work" /\ job[w].rows = <<>>
  /\ IF job[w].task.type # "glossary_extraction" THEN Ends(w)
     ELSE /\ job' = [job EXCEPT ![w].pc = "map",
                       ![w].rows = OnlyRows(book.rows,
                         {i \in RowsOf(book.rows, job[w].doc) : ~book.rows[i].mapped})]
          /\ UNCHANGED lock
  /\ UNCHANGED <<book, failure>>

MapOccurrences(w) ==
  /\ job[w].pc = "map"
  /\ LET new == [i \in DOMAIN job[w].rows |-> [job[w].rows[i] EXCEPT !.mapped = TRUE]] IN
       IF UpsertFails(book, new)
       THEN failure' = "result refused" /\ UNCHANGED book
       ELSE book' = UpsertChunks(book, new) /\ UNCHANGED failure
  /\ Ends(w)

\* process_ocr: the pages are recognised concurrently, each stored when its
\* answer arrives.
OcrPage(w) ==
  /\ job[w].pc = "ocr" /\ job[w].todo # {}
  /\ \E p \in job[w].todo, t \in OcrTexts :
       /\ book' = UpdateSourceOcr(book, job[w].doc, p, t)
       /\ job' = [job EXCEPT ![w].todo = @ \ {p}]
  /\ UNCHANGED <<lock, failure>>
OcrDone(w) ==
  /\ job[w].pc = "ocr" /\ job[w].todo = {} /\ Ends(w)
  /\ UNCHANGED <<book, failure>>

\* A provider error or a cancellation, at any point; the with block releases
\* the lock.
Stops(w) ==
  /\ job[w] # NoJob /\ Ends(w)
  /\ UNCHANGED <<book, failure>>

-----------------------------------------------------------------------------
(* The user, in the interface's thread: the claims are checked and the     *)
(* database written in one call.                                           *)

Claimed(ns, k) == {ResourceClaim(ns, NoTask, k, WRITE_EXCLUSIVE)}

\* work._document_mutation_blocker
StackBusy ==
  HasActiveClaims(UNION {Claimed(ns, AnyKey) : ns \in {"doc", "glossary_state", "term_memory", "ocr"}})
\* document._ocr_mutation_blocker, _translation_save_blocker
OcrBusy(d)  == HasActiveClaims(Claimed("ocr", Key(d)) \cup Claimed("doc", Key(d)))
\* (mutant of SaveBusy: a save never waits)
SaveNeverBusy(d) == FALSE
SaveBusy(d) == HasActiveClaims(Claimed("doc", Key(d)))

ImportDocuments ==
  /\ ~StackBusy /\ book.last + 1 \in DocId
  /\ \E ty \in Types[book.last + 1] : book' = InsertDocument(book, ty, ImportedPages(ty))
  /\ UNCHANGED <<job, lock, failure>>

\* save_ocr: the page, then a reset of the stack from its document on
SaveOcr(d) ==
  /\ ~OcrBusy(d) /\ OcrRequired(d) /\ RowsOf(book.rows, d) = {}
  /\ \E p \in DOMAIN book.page[d], t \in OcrTexts :
       book' = ResetDocumentStack(UpdateSourceOcr(book, d, p, t), d)
  /\ UNCHANGED <<job, lock, failure>>

\* save_translation: the text the user gave a chunk, or none
SaveTranslation(d) ==
  /\ ~SaveBusy(d)
  /\ \E i \in RowsOf(book.rows, d), t \in {"user", NotTranslated} :
       book' = UpsertChunks(book, [k \in {i} |-> [book.rows[i] EXCEPT !.translation = t]])
  /\ UNCHANGED <<job, lock, failure>>

ResetStack(d) ==
  /\ ~StackBusy /\ book' = ResetDocumentStack(book, d)
  /\ UNCHANGED <<job, lock, failure>>
DeleteStack(d) ==
  /\ ~StackBusy /\ book' = DeleteDocumentsStack(book, d)
  /\ UNCHANGED <<job, lock, failure>>

\* The process ends: the database is all that is left.
Crash ==
  /\ Busy # {}
  /\ job' = [w \in Worker |-> NoJob] /\ lock' = Free
  /\ UNCHANGED <<book, failure>>

-----------------------------------------------------------------------------
Preflight(w) ==
  PreflightBegins(w) \/ ReviewBegins(w) \/ PrepareDocument(w) \/ AddText(w) \/ StoreChunks(w) \/ MarkAdded(w)
    \/ LanguageKnown(w) \/ LanguageDetected(w)
Operate(w) ==
  Collect(w) \/ Answer(w) \/ WorkDone(w) \/ MapOccurrences(w) \/ OcrPage(w) \/ OcrDone(w)
Edit(d) == SaveOcr(d) \/ SaveTranslation(d) \/ ResetStack(d) \/ DeleteStack(d)

BookNext ==
  \/ ImportDocuments \/ Crash
  \/ \E d \in book.docs : Edit(d)
  \/ \E w \in Worker : Start(w) \/ Preflight(w) \/ Operate(w) \/ Stops(w)

BookSpec == BookInit /\ [][BookNext]_bookVars

-----------------------------------------------------------------------------
TypeOK ==
  /\ book.docs \subseteq 1..book.last /\ book.last \in {0} \cup DocId
  /\ book.added \subseteq book.docs /\ book.lang \in BOOLEAN
  /\ DOMAIN book.rows \subseteq Nat
  /\ \A i \in DOMAIN book.rows : book.rows[i].doc \in book.docs
  /\ lock \in Worker \cup {Free}
  /\ \A w \in Worker : job[w].doc \in {0} \cup DocId
  /\ failure \in {"none", "chunks refused", "result refused"}

\* No document was ever imported after a scan.  The preparation of a scan prepares the
\* documents before it, without a claim on them: while a task is at that, the OCR of an
\* earlier scan may be corrected (OcrIsLocked), which also resets the chunks after
\* it.
ScanIsLast == \A e \in 1..book.last : OcrRequired(e) => e = book.last

\* A document whose text has been added is covered by its chunks: in chunk
\* order, they are what its pages say now, each text once.  An export joins
\* the chunks in that order (get_translated_lines), so nothing else would
\* notice a chunk cut from a text that was corrected, a page without chunk or
\* pages out of order.  Of a scan on which the OCR found nothing this is not
\* promised: what is recognised later is not cut any more.
FoundBlank(d) == OcrRequired(d) /\ NoText \in OcrTexts /\ RowsOf(book.rows, d) = {}
ChunksFollowText == ScanIsLast => \A d \in book.added : IsCut(book, d) \/ FoundBlank(d)

\* A task writes a chunk row back only over the very row it read: what another
\* task or the user stored in it meanwhile is never undone by the whole-row
\* update of upsert_chunks.
NoLostUpdate ==
  [][\A i \in DOMAIN book.rows \cap DOMAIN book'.rows :
       ScanIsLast /\ book'.rows[i] # book.rows[i] /\ job' # job =>
         \E w \in Worker : /\ job'[w] # job[w]
                           /\ \E k \in DOMAIN job[w].rows : job[w].rows[k] = book.rows[i]]_bookVars

\* (application/services/document.py:1218, "OCR is locked after terms or translation have
\* started for this document.")  Once a task has read the text of a document to cut it,
\* its pages stay as they are.
OcrIsLocked ==
  [][\A w \in Worker : job[w].pc \in {"text", "store"} =>
       book'.page[NextDocument(w)] = book.page[NextDocument(w)]]_bookVars
=============================================================================
