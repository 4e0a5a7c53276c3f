------------------------------ MODULE Workboard ------------------------------
(***************************************************************************)
(* The home page of a project and the workspace of one of its documents    *)
(* (work_view.py, document_workspace_view.py, application/services/work.py *)
(* and document.py), over the book that tasks and the user change          *)
(* (BookDocuments).  The page lists the documents with the one step each   *)
(* needs next; a document whose predecessors are not done waits.  Both     *)
(* screens are filled again by events: at once for what the user does, and *)
(* later for what the worker threads do.                                   *)
(*                                                                         *)
(* Of the sections of the workspace only the export tab keeps state here;  *)
(* the others' is TranslationReview's, OcrReview's, TermsReview's and      *)
(* ImagesTab's, what is done on the export tab ExportPane's.               *)
(***************************************************************************)
EXTENDS BookDocuments

CONSTANTS
  Setups,    \* the sets of capabilities that the project's setup may route
  Sections   \* the sections that the user opens by hand or from the queue

Capabilities == {"translation", "reading"}
DocumentSections == {"ocr", "terms", "translation", "images", "export"}
ASSUME WorkboardAssumption == Setups \subseteq SUBSET Capabilities /\ Sections \subseteq DocumentSections

VARIABLES
  routes,    \* the capabilities that have a connection
  home,      \* what the page shows: [rows, frontier, selected, startable]
  workspace, \* the one view of a document that the page keeps (_document_view)
  place,     \* which of the two is shown
  posted     \* events of the worker threads wait for the thread of the screens

homeVars == <<bookVars, routes, home, workspace, place, posted>>
viewVars == <<routes, home, workspace, place, posted>>

NoDoc == 0
NoView == [doc |-> NoDoc, missing |-> FALSE, section |-> "none", made |-> FALSE, dirty |-> FALSE,
           complete |-> FALSE]

-----------------------------------------------------------------------------
(* get_workboard: what is offered for each document.                       *)

RequiresOcr(b, d) == b.type[d] # "text"
OcrPending(b, d) == RequiresOcr(b, d) /\ PendingPages(b, d) # {}
\* text_pending_ready, or a chunk whose terms are not extracted or mapped
TermsPending(b, d) ==
  \/ d \notin b.added /\ \E p \in DOMAIN b.page[d] : b.page[d][p].ready
  \/ \E i \in RowsOf(b.rows, d) : ~b.rows[i].extracted \/ ~b.rows[i].mapped
TranslationPending(b, d) == \E i \in RowsOf(b.rows, d) : b.rows[i].translation = NotTranslated

\* _resolve_setup_blocker
IsSetUp(b, r) ==
  "translation" \in r /\ ((\E d \in b.docs : RequiresOcr(b, d)) => "reading" \in r)

\* (mutant of Pending: only terms and translations hold the documents after them)
PendingButOcr(b, d) == TermsPending(b, d) \/ TranslationPending(b, d)
Pending(b, d) == OcrPending(b, d) \/ TermsPending(b, d) \/ TranslationPending(b, d)

\* The action of a row: the first that applies
Offer(b, r, d) ==
  IF ~IsSetUp(b, r) THEN "setup"
  ELSE IF \E e \in b.docs : e < d /\ Pending(b, e) THEN "blocked"
  ELSE IF OcrPending(b, d) THEN "ocr"
  ELSE IF TermsPending(b, d) THEN "terms"
  ELSE IF TranslationPending(b, d) THEN "translation"
  ELSE IF RowsOf(b.rows, d) = {} THEN "open"
  ELSE IF RequiresOcr(b, d) THEN "images" ELSE "export"
Done == {"images", "export"}

Rows(b, r) == [d \in b.docs |-> Offer(b, r, d)]
\* The frontier: the last document that is done
Frontier(b, r) == Max({NoDoc} \cup {d \in b.docs : Offer(b, r, d) \in Done})

\* _apply_state fills the table again, and the selection is gone.
HomeOf(b, r) ==
  [rows |-> Rows(b, r), frontier |-> Frontier(b, r), selected |-> NoDoc, startable |-> FALSE]

\* _translate_and_export_start_blocker: no task is at work on the document,
\* nothing has been done to it, and its setup is complete.
Untouched(b, d) ==
  /\ RequiresOcr(b, d) => \A p \in DOMAIN b.page[d] : ~b.page[d][p].ready
  /\ d \notin b.added /\ RowsOf(b.rows, d) = {}
CanStart(d) ==
  /\ \A w \in Busy : IsReview(w) \/ job[w].doc # d
  /\ Untouched(book, d)
  /\ book.type[d] # "manga" => "translation" \in routes
  /\ OcrRequired(d) => "reading" \in routes

\* prepare_export: whether it warns that the translation is incomplete
IsComplete(b, d) == RowsOf(b.rows, d) # {} /\ ~TranslationPending(b, d)

-----------------------------------------------------------------------------
(* The workspace.                                                          *)

\* _prepare_section_widget: the widget is made when its section is first shown,
\* and filled when it is new or dirty and the document is there.
SectionPrepared(v, s, b) ==
  LET shown == [v EXCEPT !.section = s] IN
  IF s # "export" THEN shown
  ELSE IF v.doc \in b.docs /\ (v.dirty \/ ~v.made)
  THEN [shown EXCEPT !.made = TRUE, !.dirty = FALSE, !.complete = IsComplete(b, v.doc)]
  ELSE [shown EXCEPT !.made = TRUE, !.dirty = v.dirty \/ ~v.made]

\* DocumentShellViewModel.show_section does nothing without a document.
SectionShown(v, s, b) == IF v.section = "none" THEN v ELSE SectionPrepared(v, s, b)

\* refresh: every section is dirty, and the current one is prepared again.
Refreshed(v, b) ==
  IF v.doc = NoDoc \/ v.missing THEN v
  ELSE IF v.doc \notin b.docs THEN [v EXCEPT !.missing = TRUE]
  ELSE SectionPrepared([v EXCEPT !.dirty = v.made], v.section, b)

\* A new view refreshes itself before the page listens to it: that it asks to
\* be left again is lost.
NewView(d, b) ==
  IF d \in b.docs THEN SectionPrepared([NoView EXCEPT !.doc = d], "ocr", b)
  ELSE [NoView EXCEPT !.doc = d, !.missing = TRUE]

\* _open_document_workspace
Opened(d, s) ==
  /\ workspace' = SectionShown(IF workspace.doc = d THEN workspace ELSE NewView(d, book), s, book)
  /\ place' = "document"
  /\ UNCHANGED <<bookVars, routes, home, posted>>

\* An event about the documents and the board, on the thread of the screens.
FillHome == home' = HomeOf(book', routes')
\* (mutant of Announced: the page fills itself when it is shown)
AnnouncedToTheShown ==
  /\ IF place = "home" THEN FillHome ELSE UNCHANGED home
  /\ workspace' = Refreshed(workspace, book')
  /\ place' = IF workspace'.missing /\ ~workspace.missing THEN "home" ELSE place
Announced ==
  /\ FillHome
  /\ workspace' = Refreshed(workspace, book')
  /\ place' = IF workspace'.missing /\ ~workspace.missing THEN "home" ELSE place

-----------------------------------------------------------------------------
HomeInit ==
  /\ BookInit /\ routes \in Setups
  /\ home = HomeOf(book, routes) /\ workspace = NoView /\ place = "home" /\ posted = FALSE

\* Tasks: their start, their progress and their end post events.
Work(w) ==
  /\ Start(w) \/ Preflight(w) \/ Operate(w) \/ Stops(w)
  /\ posted' \in IF job[w] = NoJob \/ job'[w] = NoJob THEN {TRUE} ELSE {posted, TRUE}
  /\ UNCHANGED <<routes, home, workspace, place>>
Dispatch ==
  /\ posted /\ posted' = FALSE /\ UNCHANGED <<bookVars, routes>>
  /\ Announced

\* The page.  A refresh may come while a confirmation waits, so that the row it
\* is about need not be selected any more.
ImportOfDocuments ==
  /\ place = "home" /\ ImportDocuments
  /\ UNCHANGED <<routes, workspace, place, posted>>
  /\ FillHome
ChangeStack(d) ==
  /\ place = "home" /\ d \in DOMAIN home.rows
  /\ ResetStack(d) \/ DeleteStack(d)
  /\ UNCHANGED <<routes, posted>>
  /\ Announced
\* _on_selection_changed asks whether translate-and-export may start.
Select(d) ==
  /\ place = "home" /\ d \in DOMAIN home.rows
  /\ home' = [home EXCEPT !.selected = d, !.startable = CanStart(d)]
  /\ UNCHANGED <<bookVars, routes, workspace, place, posted>>
\* _handle_row_action: a row that is done with its text exports in a dialog.
Section(offer) == IF offer = "open" THEN "ocr" ELSE offer
OpenRow(d) ==
  /\ place = "home" /\ d \in DOMAIN home.rows
  /\ home.rows[d] \notin {"setup", "blocked", "export"}
  /\ Opened(d, Section(home.rows[d]))

\* A row of the queue keeps its document's number after the document is gone.
OpenRelated(d, s) == Opened(d, s)

\* The workspace
Show(s) ==
  /\ place = "document"
  /\ workspace' = SectionShown(workspace, s, book)
  /\ UNCHANGED <<bookVars, routes, home, place, posted>>
Back ==
  /\ place = "document" /\ place' = "home"
  /\ UNCHANGED <<bookVars, routes, home, workspace, posted>>
Save(d) ==
  /\ place = "document" /\ workspace.doc = d
  /\ \/ workspace.section = "ocr" /\ SaveOcr(d)
     \/ workspace.section = "translation" /\ SaveTranslation(d)
  /\ UNCHANGED <<routes, posted>>
  /\ Announced

\* Saving the setup of the project or of the application
SaveSetup ==
  /\ routes' \in Setups \ {routes}
  /\ UNCHANGED <<bookVars, posted>>
  /\ Announced

\* The application is started again.
Restart ==
  /\ Crash /\ UNCHANGED routes
  /\ FillHome /\ workspace' = NoView /\ place' = "home" /\ posted' = FALSE

HomeNext ==
  \/ ImportOfDocuments \/ Back \/ SaveSetup \/ Dispatch \/ Restart
  \/ \E w \in Worker : Work(w)
  \/ \E d \in book.docs : ChangeStack(d) \/ Select(d) \/ OpenRow(d) \/ Save(d)
  \/ \E s \in Sections : Show(s)
  \/ \E d \in 1..book.last, s \in Sections : OpenRelated(d, s)

HomeSpec == HomeInit /\ [][HomeNext]_homeVars

-----------------------------------------------------------------------------
\* When no task works and no event is under way, the page shows the documents,
\* what each needs and how far the book is ready as they are stored, whether the
\* selected one may start translate-and-export, and the export tab knows whether
\* its document is translated: nothing that changes one of them goes unannounced,
\* shown or hidden (work_view.py:_on_workboard_invalidated).
Quiet == ~posted /\ Busy = {}
QuietHomeIsCurrent ==
  Quiet =>
    /\ home.rows = Rows(book, routes) /\ home.frontier = Frontier(book, routes)
    /\ home.selected # NoDoc => home.startable = CanStart(home.selected)
    /\ workspace.doc \in book.docs /\ workspace.made /\ ~workspace.dirty =>
         workspace.complete = IsComplete(book, workspace.doc)
    /\ workspace.section = "export" /\ workspace.doc \in book.docs => ~workspace.dirty

\* A step that the page offers is one that the task behind it accepts, and the
\* context is ready as far as the page says: the order of the documents that
\* get_workboard follows is the one that the preflights of the tasks demand.
OffersAreSound ==
  Quiet =>
    /\ \A d \in DOMAIN home.rows :
         CASE home.rows[d] = "ocr"         -> OcrAccepted(d, {})
           [] home.rows[d] = "terms"       -> ExtractionAccepted(d)
           [] home.rows[d] = "translation" -> TranslationTasks(d) # {}
           [] home.rows[d] \in Done        -> IsComplete(book, d) /\ d \in book.added
           [] OTHER                        -> TRUE
    /\ \A e \in book.docs : e <= home.frontier => ~Pending(book, e)

\* A document whose chunks are all translated has all of its text in them, so that
\* an export that warns of nothing (prepare_export) leaves nothing out, whatever
\* preparation was cut short by a crash, a reset or a cancellation.  A manga is
\* cut page by page, and has no such promise; nor have the documents of a book
\* with a scan before another document.
CompleteIsWhole ==
  \A d \in book.docs : ScanIsLast /\ IsComplete(book, d) /\ book.type[d] # "manga" => IsCut(book, d)
=============================================================================
