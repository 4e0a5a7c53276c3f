------------------------------- MODULE OcrReview -------------------------------
(***************************************************************************)
(* The OCR tab of a document: its pages, an editor for the current one,    *)
(* drafts of the others, and OCR tasks of single pages or of those that    *)
(* are pending (document_ocr_tab.py, application/services/document.py,     *)
(* handlers/ocr.py).                                                       *)
(***************************************************************************)
EXTENDS Naturals, FiniteSets

CONSTANTS
  Pages,      \* of the document: 1..n
  Slots,      \* of tasks that can exist at a time
  Boxes,      \* bound: the numbers of text boxes that OCR finds; 0 is a plain text
  MaxWords    \* bound: the texts that are typed or that OCR writes

ASSUME OcrAssumption ==
  /\ 1 \in Pages /\ IsFiniteSet(Pages) /\ Pages \subseteq Nat \ {0}
  /\ IsFiniteSet(Slots) /\ Boxes \subseteq Nat /\ 0 \in Boxes /\ Boxes # {0}
  /\ MaxWords \in Nat

VARIABLES
  scans,      \* [Pages -> [done, boxes, text]]: what the database has
  words,      \* how many different texts there are; 0 is none
  runs,       \* [Slots -> [status, asked, todo]]: asked = {} asks for the pending pages
  chunked,    \* the document has chunks, and its OCR is locked
  posted,     \* an event waits for the thread of the screen
  pane,       \* [shown, dirty] of the tab
  view,       \* [pages, canSave, canRun, current, editor, drafts]
  entered,    \* (history) [Pages -> draft]: typed, and neither saved nor given up
  kept        \* (history) [Pages -> text]: saved, and no OCR of that very page asked for since

ocrVars == <<scans, words, runs, chunked, posted, pane, view, entered, kept>>

NoText == 0
NoDraft == [boxes |-> 0, text |-> NoText]
NoRun == [status |-> "none", asked |-> {}, todo |-> {}]
Active(rs) == {i \in Slots : rs[i].status # "none"}
Claiming(rs) == {i \in Slots : rs[i].status \in {"running", "ended"}}
Pending(ss) == {p \in Pages : ~ss[p].done}

\* OCRHandler.claims: tasks that ask for pages share the document, the others have it alone.
Clashes(r, q) == r.asked = {} \/ q.asked = {} \/ r.asked \cap q.asked # {}
Startable(r, rs) == \A i \in Claiming(rs) : ~Clashes(r, rs[i])

\* OCRHandler.validate_submit
Valid(asked) == ~chunked /\ (asked # {} \/ Pending(scans) # {})

----------------------------------------------------------------------------
(* What the tab does to itself.                                            *)

\* _remember_current_draft: the editor, against the page it was filled from
Remembered(v, excluded) ==
  IF v.current = 0 THEN v
  ELSE [v EXCEPT !.drafts[v.current] =
          IF v.current \in excluded \/ v.editor = v.pages[v.current].text THEN NoDraft
          ELSE [boxes |-> v.pages[v.current].boxes, text |-> v.editor]]

\* _set_current_page, _restore_page_draft: a draft of another layout is not put back.
Opened(v, p) ==
  [v EXCEPT !.current = p,
            !.editor = IF v.drafts[p].text # NoText /\ v.drafts[p].boxes = v.pages[p].boxes
                       THEN v.drafts[p].text ELSE v.pages[p].text]

WithoutDrafts(v, ps) == [v EXCEPT !.drafts = [p \in Pages |-> IF p \in ps THEN NoDraft ELSE @[p]]]
\* (history) What is still entered: a page that is filled in another layout has lost its draft.
Still(ps) ==
  [p \in Pages |-> IF p \in ps \/ (p = view'.current /\ entered[p].boxes # view'.pages[p].boxes)
                  THEN NoDraft ELSE entered[p]]
FirstPage == CHOOSE p \in Pages : \A q \in Pages : p <= q

\* get_ocr, _sync_pages and _apply_actions
Synced(v, ss, rs, locked) ==
  Opened([v EXCEPT !.pages = ss, !.canSave = ~locked /\ Active(rs) = {}],
         IF v.current = 0 THEN FirstPage ELSE v.current)
RefreshedPane(v, excluded, ss, rs, locked) == Synced(Remembered(v, excluded), ss, rs, locked)

----------------------------------------------------------------------------
OcrInit ==
  /\ scans \in [Pages -> {[done |-> FALSE, boxes |-> 0, text |-> NoText],
                          [done |-> TRUE, boxes |-> CHOOSE b \in Boxes : b # 0, text |-> 1]}]
  /\ words = 1 /\ chunked = FALSE /\ posted = FALSE
  \* A process that ended between the two steps of a submission left a queued row.
  /\ runs \in {[i \in Slots |-> NoRun]} \cup
        {[[i \in Slots |-> NoRun] EXCEPT ![j].status = "queued", ![j].asked = asked] :
           j \in Slots, asked \in {{}, {CHOOSE p \in Pages : TRUE}}}
  /\ pane = [shown |-> FALSE, dirty |-> TRUE]
  /\ view = [pages |-> scans, canSave |-> FALSE, current |-> 0, editor |-> NoText,
             drafts |-> [p \in Pages |-> NoDraft]]
  /\ entered = [p \in Pages |-> NoDraft] /\ kept = [p \in Pages |-> NoText]

ShowPane ==
  /\ ~pane.shown
  /\ pane' = [shown |-> TRUE, dirty |-> FALSE]
  /\ view' = IF pane.dirty THEN RefreshedPane(view, {}, scans, runs, chunked) ELSE view
  /\ entered' = Still({})
  /\ UNCHANGED <<scans, words, runs, chunked, posted, kept>>
LeavePane ==
  /\ pane.shown /\ pane' = [pane EXCEPT !.shown = FALSE]
  /\ UNCHANGED <<scans, words, runs, chunked, posted, view, entered, kept>>

\* The editor stays open while OCR runs: only its Save button is disabled.
Enter ==
  /\ pane.shown /\ words < MaxWords
  /\ words' = words + 1
  /\ view' = [view EXCEPT !.editor = words']
  /\ entered' = [entered EXCEPT ![view.current] = [boxes |-> view.pages[view.current].boxes, text |-> words']]
  /\ UNCHANGED <<scans, runs, chunked, posted, pane, kept>>
Turn(p) ==
  /\ pane.shown /\ p # view.current
  /\ view' = Opened(Remembered(view, {}), p) /\ entered' = Still({})
  /\ UNCHANGED <<scans, words, runs, chunked, posted, pane, kept>>

(* Save: save_ocr looks at the claims and at the chunks, writes the page    *)
(* in the layout that is stored (another number of boxes is an error that   *)
(* changes nothing), and publishes that, which refreshes the tab in the     *)
(* middle of the save.                                                      *)
SavePage ==
  LET p == view.current
      new == [scans EXCEPT ![p] = [done |-> TRUE, boxes |-> @.boxes, text |-> view.editor]]
      nested == RefreshedPane(view, {}, new, runs, chunked)
  IN /\ pane.shown /\ view.canSave
     /\ view.editor # NoText
     /\ IF Claiming(runs) # {} \/ chunked
        THEN /\ view' = RefreshedPane(view, {}, scans, runs, chunked) /\ entered' = Still({})
             /\ UNCHANGED <<scans, kept>>
        ELSE /\ view.pages[p].boxes = scans[p].boxes
             /\ scans' = new
             /\ view' = Synced(WithoutDrafts(nested, {p}), new, runs, chunked)
             /\ entered' = Still({p})
             /\ kept' = [kept EXCEPT ![p] = IF \E i \in Active(runs) : p \in runs[i].asked THEN NoText
                                            ELSE view.editor]
     /\ UNCHANGED <<words, runs, chunked, posted, pane>>

\* A mutant: a run for the pending pages takes all.
TodoAll(r) == IF r.asked = {} THEN Pages ELSE r.asked

\* _resolve_source_ids_for_document: the pending pages are looked up when the task starts.
Todo(r) == IF r.asked = {} THEN Pending(scans) ELSE r.asked
Begun(r) == [r EXCEPT !.status = "running", !.todo = Todo(r)]

(* Asking for OCR: refused when it is invalid or clashes with a task at     *)
(* work; else the task is started at once, or marked failed if it cannot    *)
(* be, and what was typed on its pages is given up either way.              *)
Submitted(asked) ==
  \/ UNCHANGED runs
  \/ \E i \in Slots \ Active(runs) :
       runs' = [runs EXCEPT ![i] = Begun([NoRun EXCEPT !.asked = asked])]
Accepted(asked) == Valid(asked) /\ Startable([NoRun EXCEPT !.asked = asked], runs)
RunPages(asked, ps) ==
  /\ pane.shown /\ Active(runs) # Slots
  /\ IF Accepted(asked)
     THEN /\ Submitted(asked)
          /\ posted' = TRUE
          /\ view' = RefreshedPane(WithoutDrafts(view, ps), ps, scans, runs', chunked)
          /\ entered' = Still(ps)
          /\ kept' = [p \in Pages |-> IF p \in asked THEN NoText ELSE kept[p]]
     ELSE /\ view' = RefreshedPane(view, {}, scans, runs, chunked) /\ entered' = Still({})
          /\ UNCHANGED <<runs, posted, kept>>
  /\ UNCHANGED <<scans, words, chunked, pane>>
RunCurrent == RunPages({view.current}, {view.current})
RunPending == RunPages({}, Pending(view.pages)) /\ Accepted({})

----------------------------------------------------------------------------
(* Tasks of the queue, and other work on the document.                     *)

Change(rs) == runs' = rs /\ posted' = TRUE /\ UNCHANGED <<words, chunked, pane, view>>
\* An ended task is run again from the queue.
RunElsewhere ==
  /\ \E asked \in {{}} \cup {{p} : p \in Pages} :
       /\ Accepted(asked) /\ Submitted(asked)
       /\ kept' = [p \in Pages |-> IF p \in asked THEN NoText ELSE kept[p]]
  /\ posted' = TRUE
  /\ UNCHANGED <<scans, words, chunked, pane, view, entered>>
\* The user runs a row that was left queued, from the queue.
StartRun(i) ==
  /\ runs[i].status = "queued" /\ ~chunked /\ Startable(runs[i], runs)
  /\ Change([runs EXCEPT ![i] = Begun(@)])
  /\ UNCHANGED <<scans, entered, kept>>
Recognise(i) ==
  /\ runs[i].status = "running" /\ words < MaxWords
  /\ \E p \in runs[i].todo, b \in Boxes :
       /\ scans' = [scans EXCEPT ![p] = [done |-> TRUE, boxes |-> b, text |-> words + 1]]
       /\ runs' = [runs EXCEPT ![i].todo = @ \ {p}]
  /\ words' = words + 1 /\ posted' = TRUE
  /\ UNCHANGED <<chunked, pane, view, entered, kept>>
EndRun(i) ==
  /\ runs[i].status = "running"
  /\ Change([runs EXCEPT ![i].status = "ended"])
  /\ UNCHANGED <<scans, entered, kept>>

\* Its worker is released, or a task that waits is cancelled.
DropRun(i) ==
  /\ runs[i].status \in {"ended", "queued"}
  /\ Change([runs EXCEPT ![i] = NoRun])
  /\ UNCHANGED <<scans, entered, kept>>
\* Terms or a translation are begun (other handlers claim the document), or reset.
OtherWork ==
  /\ Claiming(runs) = {}
  /\ chunked \/ Pending(scans) = {}
  /\ chunked' = ~chunked /\ posted' = TRUE
  /\ UNCHANGED <<scans, words, runs, pane, view, entered, kept>>

DispatchPosted ==
  /\ posted /\ posted' = FALSE
  /\ IF pane.shown
     THEN view' = RefreshedPane(view, {}, scans, runs, chunked) /\ pane' = [pane EXCEPT !.dirty = FALSE]
     ELSE view' = view /\ pane' = [pane EXCEPT !.dirty = TRUE]
  /\ entered' = Still({})
  /\ UNCHANGED <<scans, words, runs, chunked, kept>>

OcrNext ==
  \/ ShowPane \/ LeavePane \/ Enter \/ (\E p \in Pages : Turn(p))
  \/ SavePage \/ RunCurrent \/ RunPending \/ RunElsewhere \/ OtherWork \/ DispatchPosted
  \/ \E i \in Slots : StartRun(i) \/ Recognise(i) \/ EndRun(i) \/ DropRun(i)

OcrSpec == OcrInit /\ [][OcrNext]_ocrVars

----------------------------------------------------------------------------
PageShown(p) ==
  IF view.current = p THEN view.editor
  ELSE IF view.drafts[p].text # NoText /\ view.drafts[p].boxes = view.pages[p].boxes THEN view.drafts[p].text
  ELSE view.pages[p].text

StillEntered(p) == entered[p].text # NoText /\ entered[p].boxes = view.pages[p].boxes

(* What was typed on a page stays until it is saved, OCR of the page is     *)
(* asked for from the tab, or OCR finds another layout: over page turns,    *)
(* refreshes and refused saves (document_ocr_tab.py:886-931).               *)
EnteredTextSurvives ==
  \A p \in Pages : StillEntered(p) => PageShown(p) = entered[p].text

(* Once events are delivered, pages without typed text show what OCR wrote, *)
(* and Save is offered exactly when no task wants the document.             *)
QuietPagesAreCurrent ==
  pane.shown /\ ~pane.dirty /\ ~posted =>
    /\ view.pages = scans
    /\ view.canSave <=> ~chunked /\ Active(runs) = {}
    /\ \A p \in Pages : ~StillEntered(p) => PageShown(p) = scans[p].text

(* A page that was corrected and saved is not recognised again by a run for *)
(* the pending pages, whenever that run was asked for (ocr_task_worker.py,  *)
(* _resolve_source_ids_for_document).                                       *)
SavedPagesAreKept == \A p \in Pages : kept[p] # NoText => scans[p].text = kept[p]
================================================================================
