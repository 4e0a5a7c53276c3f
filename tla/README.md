# A verification project for CAT (context-aware-translation)

CAT translates books with language models.  A desktop application (PySide6) and
a command line (`cat-cli`) work on one *library*: a registry of books, profiles
and connections, one SQLite database per book, and a table of background tasks.
Little of its correctness rests on an algorithm.  Most rests on the order in
which long tasks, the owner of the queue, the user, the screens and the provider
of batch jobs act on those databases, and on line counts that tie a translation
to the place it is exported to.  The modules here model that.

All paths below are under `src/context_aware_translation/`.  `PROJECT.json` lists
every component with its status, every hazard at its line with the properties
that watch it, and for every definition the lines it stands for.

## 1. The system and its hazards

| component | state | operations | what is hard | what makes it correct |
|---|---|---|---|---|
| Task engine (`workflow/tasks/engine_core.py`, `adapters/qt/task_engine.py`) | active workers and claims per process, back-off per book | submit, run, rerun, cancel, delete, tick, finished event, recover, close | three kinds of thread; per-book locks that leave gaps; several processes | conflicting tasks never run together; no row or registration is left without a thread; requests are not lost |
| Task handlers (`workflow/tasks/handlers/`) | none (rules) | claims, can, can_autorun, cancel_dispatch_policy | eleven hand-written tables that must agree with each other and with the workers | the claims cover what workers touch; autorun agrees with authorization |
| Task store (`storage/repositories/task_store.py`) | the `tasks` table | create, get, update, delete, list | shared by processes, no status guard on update | a row ends when its thread does |
| Batch worker and executor (`adapters/qt/workers/batch_*`, `workflow/tasks/execution/`) | the payload's stages, reserved documents | submit, poll, validate, fall back, apply, cancel | restarts between provider and database; late results | every item is applied once; a cancelled batch ends |
| Provider gateway (`llm/batch_jobs/`, `llm_batch_store.py`) | response cache, provider jobs | submit, poll, cancel | duplicated and lost submissions | no request is paid for twice |
| Translate-and-export (`translate_and_export_*`) | phase, payload, resume guard, files | the steps of each phase, retry, recovery | a restart in the middle of a phase; two renames | an old file is never lost; a retry is refused when the document changed |
| Documents and preflight (`workflow/ops/`, `services/document.py`, `book_db.py`) | sources, chunks, `is_text_added` | import, OCR, chunk, reset a stack, edit, delete | OCR, chunking and resets of stacked documents in any order | chunks follow the text they were cut from; no write undoes another |
| Context manager (`core/`) | terms, occurrences, memory, summaries, plans | extract, map, review, translate, summarise | concurrent batches, whole-row writes, chunk ids given again | evidence is of what is there; a prompt knows nothing the book has not said |
| LLM client and token limits (`llm/`) | usage per endpoint | check, call, charge, retry, correct | checked before and charged after a call | usage passes the limit only by the calls in flight |
| Document formats (`documents/`) | lines of a document, markup, archives, drawn pages | read, cut, export, reembed | only line counts and marker numbers connect both ends | every text comes back to its own place |
| Library and configuration (`registry_db.py`, `book_manager.py`, `config.py`) | profiles, connections, projects, overrides | create, edit, share, delete, resolve | what a profile names may be gone; two panes edit one thing | a project finds its profile and each step what it calls |
| Home page, import and export (`ui/features/work_view.py`, `document_workspace_view.py`, `services/work.py`, `_export_support.py`) | rows shown, what each document is offered, the workspace, the files chosen, the controls of an export | refresh, open, import, start, export | events that reach hidden views late; one order of documents written twice, in `get_workboard` and in the preflights; files that change between the choice and the import | what is offered is accepted; at rest the page shows what is stored; an import is what was meant; no original text leaves unwarned |
| Screens and events (`ui/`, `application/`) | drafts, rows shown, what is owed a refresh | type, save, refresh, show, hide | refreshes between typing and saving; events to hidden tabs | nothing typed is lost; a screen at rest shows what is stored |

## 2. Modules

**The queue.**
* `TaskHandlers` - the rules of the handlers as operators: claims of the eleven
  task types, conflicts (`ClaimArbiter`), and the status tables `CanRun`,
  `CanCancel`, `CanDelete`, `CanAutorun`, `CancelDispatchPolicy`.
* `ClaimLocks` - the abstract specification of the engine: a lock manager that
  acquires all claims of a task at once and holds them until its work ends.
* `TaskEngine` - the engine, its store and its threads.  `rows` is the task
  table (all processes), `active_workers` and `active_claims` are the fields of
  `EngineCore`, `workers` the QThreads with the point their `run()` has
  reached, `main_pc`/`focus` the operation the main thread is in the middle of,
  `startable` and `recovery` the local variables of a tick and of a recovery,
  `deletion` the deletion threads of the queue screen.  A user operation runs in
  as many steps as other threads can separate: `Submit` or `QueueRun`, then
  `StrictStart`, then `RegisterRun`; `Cancel`, `CancelCheck`, `CancelMark`,
  `CancelDispatch`, `RegisterCancel`; `Delete`, `DeleteCheck`, `DeleteCommit`.
  `Tick` and `TickStart` are the timer's loop, `OnWorkerFinished` the queued
  signal, `Startup`/`RecoverRow` the construction of an engine,
  `Close`/`Exit`/`Crash` the ways a process stops; the steps of a worker are one
  per access to its row.
* `TaskAccess` - which pages, images, chunk rows and terms the worker of each
  type reads and writes, to be set against its claims.

**A batch task.**
* `BatchProvider` - the provider as the gateway uses it (`batches`; external) and
  the table `llm_batch_requests` (`requests`); what may go wrong is `Faults`.
* `BatchStages` - a worker in the middle of a task: the stages of
  `batch_translation_ops.py` and `request_cancel`, over `row`, `chunks` and `w`.
* `BatchTranslation` - composes both into the life of one task: `run_task`, the
  starts by the tick, cancellation of an idle or a working task, rerun, shutdown,
  crash.  It is a task of one process: a second one would start a worker of its own for the row.  `TaskEngine` and `BatchTranslation` meet at the batch row: the first has many
  tasks and a batch run as one status machine, the second one task and everything
  its worker does.

**What tasks do to a book.**
* `BookStore` - the transactions of the book database as operators on a record.
* `BookDocuments` - documents, their OCR, preflight under the bootstrap lock,
  chunking, translation and edits, composed with the claims of `TaskHandlers`.
* `GlossaryWork` - terms, their evidence and their memory under extraction,
  review, translation and memory tasks and the edits of the terms screen.
* `TermMemory` - the windows and versions of one term's memory.
* `TranslationPlan` - the batches of chunks, of terms and of summaries.
* `ChunkTranslation` - the requests of concurrent runs at one endpoint.
* `TranslateAndExport` - the one-shot task from import to file.

**Formats.**
* `DocumentLines` - from slots to lines, chunks, translations and back, for
  subtitles, scans, EPUBs, manga and folders of text files.
* `EpubMarkup` - slots and inline markers of a chapter; `EpubBook` - the archive:
  spine, titles, contents, images.
* `ImagesTab` - reembedding tasks and the tab that shows their pictures;
  `CropPlans` - the regions, groups and squares of one manga page.

**Screens and settings.**
* `TranslationReview`, `OcrReview`, `TermsReview` - the three editing tabs.
* `ProjectSettings` - profiles, connections, the configuration a project uses or
  owns, their editors, and how a step's settings are resolved.
* `Workboard` - the home page and the workspace of a document, over `BookDocuments`:
  the frontier up to which a context is ready, the step offered to each document,
  the events that refresh either view.
* `ImportPane` - files chosen, looked at and imported; `ExportPane` - format,
  path, fallback and warning of an export while chunks change.

**Instances.**  `MCTaskEngine`, `MCBatchTranslation`, `MCTaskAccess`,
`MCBookDocuments`, `MCDocumentLines` and `MCEpubMarkup` give constants.
`MCBatchScenarios`, `MCBook`, `MCProject`, `MCTranslation` and `MCScreens` put several independent specifications side by side in one run: a
variable `part` (or `scenario`) says which of them a behaviour is about, and the
variables of the others stay as they are.  Nothing is composed by that; a
property of a part means the same as under the part's own specification, which
the proofs are about (the theorems on the tabs, in `ScreensProofs`, are about the
specification of `MCScreens`).

**Proofs.**  `TaskEngineProofs`, `TranslateAndExportProofs`, `BatchProofs`,
`GlossaryProofs`, `CallsProofs`, `ScreensProofs`, `BookProofs`, `HomeProofs`.

Two habits of notation have a reason.  An argument of `SUBSET` or `UNION` is in
parentheses wherever an operator follows, because the parsers of TLC and of TLAPS bind
the two words differently.  And a choice that the code makes in order
(`Offer` of `Workboard`) is an IF chain and not a `CASE`, whose branches have no order.

### What the models leave out

* `TaskEngine`: `translate_and_export` (its own module); payloads and progress; the
  order of `list_tasks`; failures of SQLite.  `validate_submit` and
  the configuration probe only remove behaviours; `validate_run` and the construction of a
  worker may fail when `StartMayFail`.  User operations are modelled at the service
  boundary, not by what the screen offers: the offer may be stale.
* `BatchTranslation`: a request is a function of its item; a display name is
  the set of requests it digests; `force`, uploads, and the deletion of a task with
  `cleanup_remote_artifacts` are left out.
* `BookDocuments`: a page or paragraph is one text, a chunk holds one; what the
  model answers is a new text.  An OCR task may take any of its document's pages, where
  `manga.py:283-287` takes those that still need it.  `GlossaryWork`: names are "none", cleared, the user's or the
  model's; ages of terms are left to choice.
* `TranslateAndExport`: a fingerprint is whether it is that of the document as it is now; the
  batch stages are one submission and one answer.  A retry is one event of the
  screen.
* `ChunkTranslation`: transport, prompts and sanitising.  `TranslationPlan`: a text is its
  token count, similarity is whether it reaches the threshold.  `TermMemory`: the descriptions that an
  old context tree still holds (`context_manager.py:339`) are not used.
* `EpubMarkup`: scripts of ruby, attributes.  `CropPlans`: pixels are a small page.
* `OcrReview`: a payload that does not fit its page is refused, whatever its layout; `Run pending` drops
  the drafts of all pending pages, where the tab spares one it still shows as running.
* `ProjectSettings`: of the required steps the translator stands for all; files of
  a project, base URLs, open transactions of SQLite.
* `Workboard`: what other sections of the workspace keep is in their own modules; sorting,
  dialogs and messages; `can_start` also asks for the configuration and for images to reembed,
  which only takes offers away.  `ImportPane`: of a file its kind, and whether its lines are
  wrapped.  `ExportPane`: of an export whether it holds original text.
* Not modelled: rendering, parsing, dialogs, layout, i18n, migrations, queries for display,
  the glossary tab, the sleep inhibitor.

## 3. Runs

| run | instance | shows |
|---|---|---|
| `one_process` | text, batch, export; one process, three threads, starts that fail | `TypeOK`, `ClaimsCompatible`, `LiveWorkersCompatible`, `RowsTellTheWork`, `CancelIsNotForgotten`; the running threads implement `ClaimLocks` |
| `queue_liveness` | text, batch; one process; fair | `CancelSettles`, `RunningResumes`, `QueuedIsTaken` |
| `batch` | four scenarios: calls, responses, jobs and chunks that fail, with crashes and reruns; a cancellation while calls fail; lost replies, records and rows, with a cancellation; jobs that time out | `DoneIsInChunks`, `PaidOnce`, `SubmittedToItsBatch`, `CancelStops`, `PolishNotLost` |
| `stages_liveness` | one item; fair | `TaskEnds`, `CancelTakesEffect` |
| `book` | four parts: access, documents, glossary, images | `DataRacesExcluded`, `ChunksFollowText`, `EvidenceIsLive`, `GalleryIsSound`, `NoLostUpdate`, `TermsAreSpared` |
| `project` | seven parts: the home page, import, export, lines, markup, epub, crops | `QuietHomeIsCurrent`, `OffersAreSound`, `CompleteIsWhole`, `ImportIsMeant`, `ExportsAreMeant`, `LinesAreKept`, `ChaptersAreKept`, `CropsAreSound` |
| `translation` | three parts: memory, plan, calls (two runs at one limit; fair) | `MemoryIsSound`, `PlansAreSound`, `OvershootIsBounded`, `NothingIsAskedInVain`, `RunsEnd` |
| `screens` | five parts: translation, ocr, terms, export, settings | `DraftsSurvive`, `QuietScreensAreCurrent`, `OldExportSurvives`, `NothingStaleIsExported`, `CallsAreKept` |
| `batch_polish_lost`, `settings_overrides`, `epub_text_lost`, `ocr_unlocked` | smallest instances | four disagreements between the code and what it says of itself (below) |

Several properties have two halves, each a definition of its own and each proved by
itself: `RowsTellTheWork` is `RunningHasWorker` and `WorkingRowIsActive`; `GalleryIsSound` is
`ImagesAreDrawn` and `QuietGalleryIsCurrent`; `TermsAreSpared` is `WritesAreOwn` and
`NoiseIsNotInItsText`; `NothingStaleIsExported` is `GuardedResume` and
`CompletedExportIsCurrent`; `CallsAreKept` is `ProjectsStayUsable` and `SavingKeepsCalls`;
`ExportsAreMeant` is `OriginalsAreWarnedOf` and `PathFitsExport`.  `MemoryIsSound` contains
`EvidenceIsOffered`, and `ChaptersAreKept` is about a chapter (`SlotsAreWhole`, `TextIsKept`) and
about the archive (`ExportIsAligned`).

### Bounds

* `TaskEngine`.  `MaxStarts` bounds process starts (a crash or exit is only
  possible while a later start is), `MaxUserOps` the user's operations.  Two starts are
  a crash, a recovery and the life after it; four operations are submissions
  of two conflicting tasks, a cancellation and a rerun or deletion.  Three threads
  let every task have one while a released one is still ending.  The tasks share one
  document: a batch task, a local one that conflicts with it, and
  one that only reads the glossary.  Threads are symmetric in the safety run.
* `BatchTranslation`.  `MaxOps` bounds the user's operations, shutdowns and
  crashes, `MaxJobs` the jobs a stage lists, `Batches` the jobs ever created.
  Two items are in one job or in two, with two prompts or one.  Two operations are
  a crash and the run after it; a cancellation of a task at work is two, the mark in its row
  and the interruption of its worker, and four leave room for a crash and a rerun.
  Three jobs are one per stage and a replacement.  A bound reached stops the worker, hence
  `CHECK_DEADLOCK FALSE`; the task may also simply have ended.
* `book`.  Two stacked documents of a text and of two page images, two threads; OCR may
  find a page blank.  The `Max...` constants of a part bound the user's acts or cuts, each large
  enough for a task between two edits or two tasks around one.  `ImageFormats`: an EPUB
  differs from a manga only where a scan does too, and from a scan only where a
  manga does, so that the two others show every rule.
* `project`.  `MaxMarkers = 4` is an outer marker, two inside it and one beside it; the
  other formats take every small document, archive or page.  The home page has two documents,
  of which a scan may be the first, one page image, one thread and
  two setups, so that each step is both offered and withheld.  Two files of three kinds
  are a choice of one kind, of two, and one replaced by the third.  A subtitle and an EPUB
  are a document with one format and one with several and a folder structure.
* The runs of the disagreements have one thread, one page per scan and one or two documents.
* `translation`.  The windows of a memory are 2, 3 and 6 entries wide instead of 4, 8 and 32,
  so that eleven entries reach the widest one.  Six chunks with gaps; four terms
  with every similarity.  The limit is one answer, and may be reset once.
* `screens`.  Two units, two pages, two terms; the texts ever typed are
  bounded, and a text is only compared with others.  Two connections, two symmetric profiles, one project and three acts:
  making, changing and deleting.
* Parts of a run stop when their bound is reached, hence `CHECK_DEADLOCK FALSE`.

### Fairness

`TaskEngine.FairSpec`: a process that is down is started again while the bound
allows it; its main thread, its deletion threads and its 3-second timer run
(`WF`); the back-off expires; worker threads are scheduled; and the loop of a batch
run ends (`WF` of `BatchStep` other than `BatchProgress`: calls return or time
out, polling has a deadline).  `CancelConfirmed` is strongly fair: a provider asked
about a cancelled batch again and again finally reports it inactive.  A user
never has to act, and nothing is assumed of finished events, which a tick
replaces.

`BatchTranslation.FairSpec`: the worker is scheduled, the tick starts a row that is
not terminal, and the provider ends every job and completes every
cancellation (jobs expire).

`ChunkTranslation.CallsFairness`: the event loop runs what is ready, every request
ends (the client has a time-out), and a back-off is over after ten seconds.

## 4. What the checks found

### Disagreements, each with a run

* **batch_polish_lost** (`PolishIsApplied`).  A cancellation passes over the
  fallbacks of the polish stage and applies the translations.  Run again, the task
  polishes such an item and `apply_results` skips it, because it is applied: the
  payload says polished, the chunk is not.
* **settings_overrides** (`OverridesApply`).  A temperature set for a step is taken for not
  given, and the connection's is used.
* **epub_text_lost** (`NothingIsLost`).  A style marker that the answer dropped has
  its element removed together with the markers, and their text, that the answer kept.
* **ocr_unlocked** (`OcrIsLocked`).  A task for a later scan prepares the earlier one without a
  claim on it; a page corrected between its reading and its storing is accepted, and the
  chunks keep the old text.

### Reachable in the models, without a run of their own

* Queue.  `recover_interrupted_tasks` rewrites the row of a task that another live
  process works on.  `cancel` checks and then marks: a task that completes in between
  becomes `cancel_requested`.  `authorize_start` releases the book lock before
  `register_active_worker`: a row can be deleted under a thread that then starts.  Two
  overlapping batch rows refuse each other at every tick.  A finished task that is run
  again keeps its payload, so that its failed items are not tried again;
  and `ensure_payload_prepared` loses `enable_polish`.
* Batch.  After a cancelled job its requests are asked again.  If the process dies after
  the rerun recorded a new job and before the payload lists it, the next run polls the
  cancelled job first, writes its end over the new records and submits a third job; so
  does a job that was cancelled for its time-out and ends late, and a run that is cancelled
  then can say `cancelled` while the second job runs.  A job whose create reply was lost is found by its display
  name, which the payload gets only after the reply of a create call: until the slice is
  submitted again, a cancellation does not find it.
* Translate-and-export.  The first batch run replaces the payload by one without the
  task's parameters: after a crash every retry answers "Output path is required.".
  Cancelling it restores the first payload before `request_cancel` looks, and the
  provider's job goes on (`test_translate_and_export_handler.py:331` expects it so).
* Glossary.  After an extraction that failed or was cancelled, `mark_noise_terms` deletes terms
  whose texts were never mapped.  Evidence that comes late for an old chunk leaves the memory
  "current"; a shortened window of a memory keeps the summary of its longer form's predecessor.
* Calls.  Retries inside a chat call do not ask the limit again; an error in the polish stage
  throws the paid translation away; the request of a manga page is not cancelled.
* Images.  Pictures survive resets and are keyed by position: after another OCR, one may stand for
  another element.  An edited translation leaves the old picture done.  The tab offers a cancellation of a
  translate-and-export that `cancel_image_reinsertion` does not find.
* EPUB.  Text directly in a body is never extracted; the second base of a mono-ruby is left; labels of a
  visible table of contents may go to other entries when nav and NCX differ; an item of a nav with
  neither title, link nor children is left out by `_parse_nav_ol` and counted by
  `sync_nav_ol_with_toc`, so that the items after it get their neighbours' titles; headings the user
  edited are overwritten by the titles of the contents.
* Book.  `save_ocr` resets the documents from its own on, but asks only for the claims on its
  own: a task for a later one loses the chunks it is translating.  A scan on which nothing
  was found is marked as added without chunks, and a reset finds the documents to be
  added again by their chunks: a text that is found later is never cut.
* Home page.  A workspace looks for its document in its constructor and asks to be left if it is
  gone, before `WorkView` has connected the request: a row of the queue opens an empty
  workspace.  `can_import` of a scanned book asks only about texts and images: a PDF
  chosen along with images is left out in silence.
* Lines.  `documents/text.py` joins files by a newline but counts the lines of each with
  `count_lines`: a file that ends in a newline moves every later file by one line.  A trailing blank line less and a newline in an answer cancel out silently; a subtitle cue
  with a blank line in it moves the cues after it.
* Screens.  A hidden terms tab is refreshed only by `activate_view`, which showing it again through
  the shell does not call: ticking a box writes its old row over what was entered on the page.  `Translate` discards the drafts of all units; a draft typed before somebody else's task
  wrote is shown over its result; the draft of an OCR page whose number of boxes changes
  is dropped; imported terms have no occurrences and count as rare.
* Settings.  An `IntegrityError` in the registry is not rolled back, and the write lock stays;
  deleting a connection is not checked against profiles; deleting the default leaves none.

### What holds only under a condition

* `LiveWorkersCompatible` needs a queued `finished` event to be dropped when its
  QThread is destroyed (`EventOutlivesWorker = FALSE`); `_on_worker_finished`
  releases by task id, so that a late event of a first worker would release the
  registration of a second.
* `CancelIsNotForgotten`, `RunningHasWorker` and `WorkingRowIsActive` are properties of one process: the
  recovery of a second one breaks them.
* `WorkingRowIsActive` excepts types whose claims do not conflict with
  themselves: a glossary export can be failed by a second Run under its own worker.
* `QueuedIsTaken` excepts a batch task that pauses again and again (`list_tasks`
  puts the row updated last first), and needs starts that do not fail for ever.
* `CancelSettles` is about requests that stand: a task run again while its
  cancel worker is at the provider can end as `cancelling` without the flag.
* `PaidOnce` speaks of a task until one of its jobs is cancelled.  `CancelStops` needs that no
  job times out (see above); that a task is called cancelled only when no job runs that its
  display names tell of needs credentials and a search that answers.  Both need one
  process.  `TaskEnds` needs jobs that end before the poll time-out.
* `DataRacesExcluded` excepts, by name, a page-by-page OCR beside a page-by-page
  reembedding of one document, and leaves out the preflight of earlier documents,
  which no handler claims.
* `ChunksFollowText`, `NoLostUpdate` and `CompleteIsWhole` need that no document follows a scan
  (`ScanIsLast`): after one, `ocr_unlocked` and resets under a task are what happens.
  `ChunksFollowText` excepts a scan that was found blank.  `CompleteIsWhole` leaves a manga
  out: it is cut page by page, and its export takes the pictures of pages.
* `OvershootIsBounded`: the limit plus one answer for every call that all runs may have in flight.

## 5. Proofs

Every theorem is proved for all values of the constants that satisfy the named
assumptions of its module, and the runs above show the same property on an instance.

**The engine** (`TaskEngineProofs`).

1. `TypeCorrect`: `Spec => []TypeOK`, by one step per action (`StepTyped`).
2. `ClaimsNeverConflict`: `Spec => []ClaimsCompatible`.  `ClaimsCompatible` is not
   inductive: `authorize_start` checks, and the registration comes later.
   `ClaimsInv` adds `AuthorizedIsFree`: between the two, the claims about to be
   registered conflict with none that is held.  It is kept because only the main
   thread registers, and every other step (`QuietShape`) leaves the claims
   alone or only drops some (`ClaimsOnlyShrink`).
3. `LiveWorkersNeverConflict`, for `~EventOutlivesWorker`:
   `Spec => []LiveWorkersCompatible`.  `RegistrationInv` adds that registrations and
   threads name each other and that nothing is about to be registered twice.
4. `EngineImplementsClaimLocks`, for one process and `~EventOutlivesWorker`:
   `Spec => ImplementsClaimLocks`, with the tasks at work as the abstract
   `holding`.  A registration is an `Acquire`; a thread that ends, and a process that
   dies, is a `Release`.

`ClaimsCoverAccess`: `AccessSpec => []DataRacesExcluded`, for any books, documents and types
of task.  Two tasks whose claims are compatible touch nothing in common that either
writes; no page or chunk belongs to two documents (`AccessAssumption`: both are stored
under their document).

**The rows of the engine** (`TaskEngineProofs`), for one process `q` (`Procs = {q}`) and
`~EventOutlivesWorker`.

5. `RowsTellOfWork`: `Spec => []RowsTellTheWork`.
6. `CancelIsKept`: `Spec => CancelIsNotForgotten`.

   They share one inductive invariant, `RowsInv`, beside
   `RegistrationInv`.  A row is written by the thread that works on it, by the main
   thread and by recovery, each under conditions it looked at some steps
   before, so the invariant says what those conditions still are when the
   write comes: what a tick is about to start is not at work (`StartableRows`), what the queue
   is about to start has at most its cancellation at work (`StrictRows`),
   a thread that has not begun finds its row as it was started (`FreshThreads`), only run
   threads work (`OnlyRunsWork`), no thread lives
   until a recovery has written its rows (`RecoveryRows`), and a row not yet
   submitted carries no request to cancel (`UnbornRows`).  Mutual exclusion
   comes from the claims: a task whose claims conflict with themselves has one
   thread at a time (`LiveWorkersCompatible`).  That a batch task excludes itself needs
   `BatchScopeAssumption`: it names at least one document (`scope()` of
   `handlers/batch_translation.py` takes no names for all documents).

**Translate-and-export** (`TranslateAndExportProofs`).

7. `ExportTypeCorrect`: `TaskSpec => []TaskTypeOK`.
8. `ExportSurvives`: `TaskSpec => []OldExportSurvives`, and
9. `NothingStaleEverIsExported`: `TaskSpec => NothingStaleIsExported`.  `ExportInv`
    strengthens 8 and the half about completion: from the staged file to the end of its promotion the
    document stays as it was exported, the claims keep others out, and the backup is only removed
    once the new file stands.  For the retry, `GuardInv` says that
    wherever a task has stopped, its row carries a fingerprint that the next start
    compares (stale if somebody changed the document), and that the row does not
    pass for a batch phase, which is taken up without a comparison.

**The glossary** (`GlossaryProofs`).

10. `EvidenceStaysLive`: `GlossarySpec => []EvidenceIsLive`.  `GlossaryInv` adds what it
    rests on.  A review writes back rows it read before it awaited the model, so
    they must still be what is there (`WorkInv`: nobody else writes while
    it is at work).  A reset of documents keeps the summaries that end before the cutoff: a
    summary must have a greatest element (`MaxIsGreatest`, from the well-foundedness of
    `<`), cover something and belong to a term.  A new chunk takes the number of chunks for its id,
    which must be free (`NextChunk`), although a reset gives ids again.
11. `GlossaryTasksSpareTerms`: `GlossarySpec => TermsAreSpared`.  That a review spares what is in
    the text rests on `MappingIsComplete`: a chunk that is mapped counts for every term found in it whose
    text it has, because only extracted chunks are mapped.

**The calls** (`CallsProofs`), for any number of runs and jobs, any semaphores and
limits.  A job is a call of exactly one run and each run has something to do
(`CallsAssumption`: the executor builds the jobs of a run from that run's batches).

12. `OvershootStaysBounded`: `CallsSpec => []OvershootIsBounded`.  What is used is charged when an
    answer comes and was allowed when the call was made, so `ChargeInv` counts each
    call under way at its full cost.  A run has at most `Concurrency` of them
    (`SemaphoreInv`), all of the phase it is in; `UnionBound` adds the runs up.
13. `NothingAskedInVain`: `CallsSpec => NothingIsAskedInVain`, from `StoredIsOver`: a job whose
    result is stored is never under way again, because a run starts each of its jobs once
    and leaves out those already stored.

**The settings** (`ScreensProofs`), for any connections, models, profiles and
projects.  The words that stand for "none", "custom" or "the command line's own" name
none of them (`SettingsAssumption`).

14. `ProjectsKeepTheirCalls`: `SettingsSpec => CallsAreKept`.

    Both halves rest on `SettingsInv` (`SettingsAreSound`).  What is stored
    of a project or a profile is nothing, a configuration that passed the editors'
    validation, or that of the command line (`RegistryInv`); a profile in
    use or the default exists.  And an editor or pane nobody has touched shows what is
    stored now, although other panes, the wizard and the command line save and delete
    in between (`EditorInv`).  `SavedAsShown` is the lemma on the two
    conversions: a configuration that was shown and saved again calls what it called.

**The screens** (`ScreensProofs`), for any units and pages that contain 1, task slots,
layouts and terms; the specification is that of `MCScreens`.

15. `DraftsAreNotLost`: `Spec => []DraftsSurvive`.  A draft is dropped when it equals what the
    screen has loaded, so the invariants `ReviewInv` and `OcrInv` say that a typed text
    is nowhere, at its place, what is stored or was loaded (each text is a new one:
    what the user types equal to the stored text is no change).  Between
    handlers it is in the editor, for the row that is
    rendered, or else among the drafts (`ShowsTyped`, `HoldsEntered`); `CapturedHolds` and
    `AppliedShows` follow it through a refresh.  A corrected page is done and
    in the list of no task that runs or asks for it (`KeptInv`).
16. `QuietScreensShowWhatIsStored`: `Spec => []QuietScreensAreCurrent`.  Whoever
    changes what is stored leaves an event under way or the tab dirty, and a table of
    terms stale.  For the terms (`TermsInv`), a task may only write while it
    blocks the glossary, and it stops blocking with an event; the two tables are never shown
    together, so a write of one marks the other.

**The batch task** (`BatchProofs`), for any items and prompts (equal requests included),
any slice size and any faults and events.

17. `BatchTypes`: `Spec => []TypeOK`, with `Basics`: the loop over listed jobs counts from
    1, and what is submitted names a job.
18. `DoneWorkIsWritten`: `Spec => []DoneIsInChunks`.  `DoneInv` carries the row *and* the
    worker's copy of the payload, because a run works on its copy and writes it back at
    points of its own: an item applied in either has its text in the chunk, and a run that
    is about to finish as completed has applied all that succeeded.
19. `PolishedTextStays`: `PolishAssumption => (Spec => PolishNotLost)`.  A polished chunk
    stays so as long as its item has succeeded in both stages, or its chunk was found
    missing since and at most its translation is tried once more (`Keeps`). `PolishInv` says so for the row and the copy, with what
    each phase of a run knows.  The hypothesis is needed: where a chunk can
    be missing *and* a run that noticed can be cancelled, the code does lose a polish,
    which is the run `batch_polish_lost`.  The four scenarios of `batch` meet it.
20. `SubmittedIsAsked`: `Spec => []SubmittedToItsBatch`.  The danger is in the slices: a
    run recomputes its slice from what is still to be answered, and attributes the whole
    slice to the one job that some of it is noted as submitted to.  That is right only if
    the submitted requests of a stage always belong to *one* set `c`, which every job they
    name was asked for as a whole, and `c` is the next slice when a slice is taken.  `StageOK` says
    so: nothing is submitted, or `c` is the slice, or a listed job that the run has not
    passed has succeeded without some of the answers of `c`, and will fail them before the
    next slice (`Torn`).  `LeadOK` says which listed jobs may still be open (the first was
    cancelled, or they are one job), `WorkOK` what the worker has in hand, `ListOK` that
    the list is what was asked.  `RunOK` relates the worker's copy to the row and says that
    polish is asked only when every item that waits for it is translated: an item that
    joined later would shift the slices.  A slice is the first `BatchSize` requests in the
    order of their items, so `Slice` has lemmas on how it changes when an item is
    answered or leaves.
21. `PaidForOnce`: `Spec => []PaidOnce`.  `NoteInv` adds to what 20 says: until a job is
    cancelled, no record is given up, no listed job asks what is not recorded, and neither
    does the job just created ask anything that is recorded but its own slice.  So a slice
    that is to be submitted was never asked, which is what `SliceIsNew` says.

**The book** (`BookProofs`), for any documents, texts, workers and task types.

22. `TasksReturnWhatTheyRead`: `BookSpec => NoLostUpdate`.
23. `ChunksFollowTheText`: `BookSpec => []ChunksFollowText`.

    A task reads a text or a row, waits for a model, and writes; between the two the
    user corrects pages, and other tasks cut and reset documents under claims that do
    not cover them.  Three inductive invariants say what is still true at the write.
    `BookInv`: a row that is stored or in hand belongs to a document all of whose pages
    have their text, or to none that is left.  `WritesInv`: as long as no document follows a scan, the row in hand *is* the stored
    row, the claims of the workers are apart, and only the holder of the bootstrap lock
    prepares.  `TextInv`: the chunks of a document are a beginning of its text, each piece
    once and in order, and, but for a manga, none or all of it; and what a worker has
    read of a document it prepares (`Prepares`) is all the rest.  Alone, none is kept: a chunk
    may only be appended to a beginning if what was read continues it, which holds
    because nobody else could cut or correct the document meanwhile, which is `WritesInv`.
    Assumed are that the word for a free lock names no worker (`FreeAssumption`) and, as
    a hypothesis of the theorems, that the strings of different chunk ids differ (`KeysDiffer`:
    a claim is on a string; it speaks of all of `Nat`, which TLC cannot evaluate).

**The home page, import, export and images** (`HomeProofs`).

24. `ImportsAreMeant`: `ImportSpec => []ImportIsMeant`.  `ImportInv` says that a tick stands for the
    files it was made for; the disk may change at every step.
25. `ExportsStayMeant`: `ExportPaneSpec => []ExportsAreMeant`, from `ExportPaneInv`: whatever the controls
    show, the path fits what they would write, and the fallback is ticked only while they say
    that the document is not translated.
26. `QuietHome`: `HomeSpec => []QuietHomeIsCurrent`.  `HomeInv`: a view that does not show what
    is stored is owed an event or a refresh.
27. `OffersMayBeTaken`: `HomeSpec => []OffersAreSound`.  The page orders documents by its own
    rules and the preflight by others; that they agree needs what `BookInv` knows of
    documents whose text is added.
28. `CompleteDocumentsAreWhole`: `HomeSpec => []CompleteIsWhole`.  The page counts chunks.  A home page
    behaves as a book (`HomeIsBook`: `HomeSpec => BookSpec`), so that `TextInv` tells
    that the chunks counted are all of the text.
29. `GalleryStaysSound`: `ImagesSpec => []GalleryIsSound`.  `DrawingInv`: what a task has
    passed is drawn with the line as it is, because an edit of the line is refused while the task
    is at work; `ShowsDrawn`: a tab that is not outdated, with no event under way, shows it.

### Only model-checked

* Liveness and fairness: `queue_liveness`, `stages_liveness`, `RunsEnd`.  TLAPS has no `ENABLED`.
* Everything about data of recursive shape: `ChaptersAreKept` and the other
  properties of `EpubMarkup` (trees, `RECURSIVE`), `ExportIsAligned`, `LinesAreKept`, `CropsAreSound`,
  `PlansAreSound`, `MemoryIsSound`.  Their operators are checked on every small input; what they
  compute for every input needs induction with an operator as parameter.
* `CancelStops` of a batch, in each of the four scenarios.

## 6. Running

`tlc -workers 2 -config MCBook.cfg MCBook` checks a run, `tlapm GlossaryProofs.tla` a
module of proofs.
