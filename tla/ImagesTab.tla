------------------------------- MODULE ImagesTab -------------------------------
(***************************************************************************)
(* The images of a document into which translated text is put back: the    *)
(* tab that shows them and starts and cancels the tasks, the tasks that    *)
(* draw them one by one, and the pictures that are kept for the export     *)
(* (document_images_view.py, application/services/document.py,             *)
(* image_reembedding_task_worker.py and reembed of the documents).         *)
(***************************************************************************)
EXTENDS Naturals, FiniteSets

CONSTANTS
  ImageFormats, \* of "manga", "epub" and "scan", those that are looked at
  Panels,     \* of the document, 1..n in their order
  Works       \* bound: tasks that can be submitted, 1..n

ASSUME PanelsAssumption ==
  /\ ImageFormats \subseteq {"manga", "epub", "scan"}
  /\ Panels # {} /\ IsFiniteSet(Panels) /\ Panels \subseteq Nat \ {0}
  /\ IsFiniteSet(Works) /\ Works \subseteq Nat \ {0}

VARIABLES
  format,    \* "manga", "epub" or "scan" (scanned books and PDFs)
  lines,     \* images whose text is translated
  drawn,     \* [Panels -> "none", "current" or "old"]: the picture that is kept,
             \* and whether it was drawn with the line the image has now
  jobs,      \* [Works -> job]
  told,      \* an event waits for the thread of the screen
  gallery,   \* the tab: [shown, dirty, listed, show]
  wasted     \* (history) a picture was drawn again that nobody asked to draw again

imagesVars == <<format, lines, drawn, jobs, told, gallery, wasted>>

NoDrawing == [status |-> "new", type |-> "image", asked |-> {}, force |-> FALSE, cancel |-> FALSE,
              fresh |-> {}, todo |-> {}, raised |-> 0, end |-> "completed"]

\* Rows that are not terminal; claims are held until the worker is released.
Live == {j \in Works : jobs[j].status \in {"started", "running"}}
Held == {j \in Works : jobs[j].status \in {"started", "running", "ended"}}
Unused == {j \in Works : jobs[j].status = "new"}

\* What an image is drawn with: where a page of a manga is not translated, nothing;
\* elsewhere the source stands in for what is not translated.
HasLine(p) == p \in lines \/ format # "manga"

\* (a mutant: tasks for the whole document share it, too)
ClashesByPage(a, b) == a.asked \cap b.asked # {}

\* ImageReembeddingHandler.claims: tasks for one image share the document, others,
\* and translate-and-export, have it alone.
Clashing(a, b) == a.asked = {} \/ b.asked = {} \/ a.asked \cap b.asked # {}
DocumentFree(asked) == \A j \in Held : ~Clashing([asked |-> asked], jobs[j])

\* validate_submit, and the claims of the tasks at work
MayRun(asked) == lines # {} /\ DocumentFree(asked)

-----------------------------------------------------------------------------
(* What the service says of the document.                                  *)

Assets == IF lines = {} THEN {} ELSE {p \in Panels : HasLine(p)}

\* _active_task_source_ids: one task without targets, and all are at work.
AtWork(p) ==
  /\ Live # {}
  /\ format # "scan" => \/ \E j \in Live : jobs[j].asked = {}
                        \/ \E j \in Live : p \in jobs[j].asked
  /\ format = "scan" => drawn[p] = "none"
AssetStatus(p) == IF AtWork(p) THEN "running" ELSE IF drawn[p] # "none" THEN "done" ELSE "ready"

\* get_images: the images, what may be done with each, and the toolbar
ImagesState ==
  [assets |-> [p \in Assets |-> [status |-> AssetStatus(p), picture |-> drawn[p] # "none"]],
   single |-> IF format = "scan" THEN {} ELSE {p \in Assets : MayRun(IF Live = {} THEN {} ELSE {p})},
   pending |-> MayRun({}) /\ \E p \in Assets : AssetStatus(p) # "done",
   all |-> Assets # {} /\ MayRun({})]

FirstOf(ps) == IF ps = {} THEN 0 ELSE CHOOSE p \in ps : \A q \in ps : p <= q
Fetched(g, state, live) == [g EXCEPT !.show = state, !.listed = live]

\* Nothing stays of a tab that will be fetched anew when it is shown.
NoShow == [assets |-> <<>>, single |-> {}, pending |-> FALSE, all |-> FALSE]
Outdated(g) == [g EXCEPT !.dirty = TRUE, !.show = NoShow, !.listed = {}]

\* An event says nothing to such a tab.
Told == told' = (gallery.shown \/ ~gallery.dirty)

ImagesInit ==
  /\ format \in ImageFormats
  /\ lines = {} /\ drawn = [p \in Panels |-> "none"]
  /\ jobs = [j \in Works |-> NoDrawing] /\ told = FALSE /\ wasted = FALSE
  /\ gallery = [shown |-> FALSE, dirty |-> TRUE, listed |-> {}, show |-> NoShow]

ShowGallery ==
  /\ ~gallery.shown
  /\ gallery' = [IF gallery.dirty THEN Fetched(gallery, ImagesState, Live) ELSE gallery
                  EXCEPT !.shown = TRUE, !.dirty = FALSE]
  /\ UNCHANGED <<format, lines, drawn, jobs, told, wasted>>
LeaveGallery ==
  /\ gallery.shown
  /\ gallery' = [gallery EXCEPT !.shown = FALSE]
  /\ UNCHANGED <<format, lines, drawn, jobs, told, wasted>>

\* A command is carried out, or refused, and the tab refreshed either way.
RefreshGallery == gallery' = Fetched(gallery, ImagesState', Live')

(* run_image_reinsertion: the buttons are those of the last refresh, the   *)
(* service looks again; a task that is accepted is started at once.        *)
Ask(asked, force) ==
  /\ gallery.shown
  /\ IF MayRun(asked)
     THEN /\ Unused # {}
          /\ jobs' = [jobs EXCEPT ![FirstOf(Unused)] =
                        [NoDrawing EXCEPT !.status = "started", !.asked = asked, !.force = force]]
          /\ Told
     ELSE UNCHANGED <<jobs, told>>
  /\ UNCHANGED <<format, lines, drawn, wasted>>
  /\ RefreshGallery
RunSelected == \E p \in gallery.show.single : Ask({p}, TRUE)
RunPendingImages == gallery.show.pending /\ Ask({}, FALSE)
ForceAll == gallery.show.all /\ Ask({}, TRUE)

(* _cancel asks for one task after the other, and stops at the first that  *)
(* has ended since the tab was refreshed, or that is a translate-and-export. *)
CancelImages ==
  LET ours == {j \in gallery.listed : jobs[j].type = "image"} IN
  /\ gallery.shown /\ gallery.listed # {}
  /\ \E reached \in SUBSET (ours \cap Live) :
       /\ reached = ours \/ ~ (ours \ reached \subseteq Live)
       /\ jobs' = [j \in Works |-> IF j \in reached THEN [jobs[j] EXCEPT !.cancel = TRUE] ELSE jobs[j]]
       /\ IF reached = {} THEN UNCHANGED told ELSE Told
  /\ UNCHANGED <<format, lines, drawn, wasted>>
  /\ RefreshGallery

\* _on_document_invalidated
TellGallery ==
  /\ told /\ told' = FALSE
  /\ gallery' = IF gallery.shown THEN Fetched(gallery, ImagesState, Live) ELSE Outdated(gallery)
  /\ UNCHANGED <<format, lines, drawn, jobs, wasted>>

-----------------------------------------------------------------------------
(* A task and its worker.                                                  *)

WorkStep(j, job) == jobs' = [jobs EXCEPT ![j] = job] /\ UNCHANGED <<format, lines, gallery>>

(* Run again from the queue: _payload_json_for_task_rerun makes it draw    *)
(* everything anew; where it may not run it is failed as it was.           *)
RunAgain(j) ==
  /\ jobs[j].status = "stopped" /\ jobs[j].type = "image"
  /\ MayRun(jobs[j].asked)
  /\ WorkStep(j, [NoDrawing EXCEPT !.status = "started", !.asked = jobs[j].asked, !.force = TRUE])
  /\ Told /\ UNCHANGED <<drawn, wasted>>

\* Which images a run draws: scanned books draw them all, whatever was asked.
ToDraw(job) ==
  {p \in Panels : /\ HasLine(p)
                  /\ job.asked = {} \/ format = "scan" \/ p \in job.asked
                  /\ job.force \/ drawn[p] = "none"}

\* The lines are read and given to the document, the pictures there are looked up.
BeginJob(j) ==
  /\ jobs[j].status = "started"
  /\ WorkStep(j, IF jobs[j].cancel THEN [jobs[j] EXCEPT !.status = "ended", !.end = "cancelled"]
             ELSE [jobs[j] EXCEPT !.status = "running", !.todo = ToDraw(jobs[j]), !.fresh = Panels])
  /\ Told /\ UNCHANGED <<drawn, wasted>>

\* gather waits for all; the first that raised, in the order of the images, decides.
Raise(job, p, end) ==
  IF job.raised = 0 \/ p < job.raised THEN [job EXCEPT !.raised = p, !.end = end] ELSE job

(* One image: it is kept before the progress is told, which raises when    *)
(* the task has been cancelled; a request may be cancelled before, too.    *)
Turn(j, p, job) ==
  /\ jobs[j].status = "running" /\ p \in jobs[j].todo
  /\ WorkStep(j, [job EXCEPT !.todo = @ \ {p}])
DrawImage(j, p) ==
  /\ Turn(j, p, IF jobs[j].cancel THEN Raise(jobs[j], p, "cancelled") ELSE jobs[j])
  /\ drawn' = [drawn EXCEPT ![p] = IF p \in jobs[j].fresh THEN "current" ELSE "old"]
  /\ wasted' = (wasted \/ (~jobs[j].force /\ drawn[p] # "none"))
  /\ IF jobs[j].cancel THEN UNCHANGED told ELSE Told
HaltImage(j, p) ==
  jobs[j].cancel /\ Turn(j, p, Raise(jobs[j], p, "cancelled")) /\ UNCHANGED <<drawn, told, wasted>>
FailImage(j, p) == Turn(j, p, Raise(jobs[j], p, "failed")) /\ UNCHANGED <<drawn, told, wasted>>
EndJob(j) ==
  /\ jobs[j].status = "running" /\ jobs[j].todo = {}
  /\ WorkStep(j, [jobs[j] EXCEPT !.status = "ended", !.raised = 0, !.fresh = {}])
  /\ Told /\ UNCHANGED <<drawn, wasted>>
\* (a mutant: the claims are released without a word)
ReleaseSilently(j) ==
  /\ jobs[j].status = "ended"
  /\ WorkStep(j, [NoDrawing EXCEPT !.status = IF jobs[j].end = "completed" THEN "gone" ELSE "stopped",
                           !.type = jobs[j].type, !.asked = jobs[j].asked])
  /\ UNCHANGED <<told, drawn, wasted>>
ReleaseJob(j) ==
  /\ jobs[j].status = "ended"
  /\ WorkStep(j, [NoDrawing EXCEPT !.status = IF jobs[j].end = "completed" THEN "gone" ELSE "stopped",
                           !.type = jobs[j].type, !.asked = jobs[j].asked])
  /\ Told /\ UNCHANGED <<drawn, wasted>>

-----------------------------------------------------------------------------
(* The translations change.                                                *)

\* _translation_save_blocker: whoever has any claim on the document keeps it.
SaveIsFree == Held = {}

\* The line of an image that is translated, edited or reset is another one.
Relined(ps) == drawn' = [p \in Panels |-> IF p \in ps /\ drawn[p] = "current" THEN "old" ELSE drawn[p]]
Unread(ps, js) == [j \in Works |-> [js[j] EXCEPT !.fresh = @ \ ps]]

\* Saved on the translation tab, maybe as an empty text; the event comes at once.
EditLine(p) ==
  /\ ~gallery.shown /\ p \in lines /\ SaveIsFree
  /\ lines' \in {lines, lines \ {p}}
  /\ Relined({p}) /\ jobs' = Unread({p}, jobs)
  /\ gallery' = Outdated(gallery)
  /\ UNCHANGED <<format, told, wasted>>
\* A translation, of all or until it is cancelled
TranslateLines ==
  /\ Held = {}
  /\ \E ps \in (SUBSET (Panels \ lines)) \ {{}} : lines' = lines \cup ps /\ Relined(ps)
  /\ Told /\ UNCHANGED <<format, jobs, gallery, wasted>>
\* reset_document_stack takes the chunks away; the pictures stay.
ResetLines ==
  /\ Held = {} /\ lines # {}
  /\ lines' = {} /\ Relined(lines)
  /\ Told /\ UNCHANGED <<format, jobs, gallery, wasted>>
(* A translate-and-export, which only an untouched document can be given,  *)
(* has translated everything and draws the images.                         *)
ExportDraws(j) ==
  /\ Held = {} /\ lines = {} /\ j = FirstOf(Unused)
  /\ \A p \in Panels : drawn[p] = "none"
  /\ lines' = Panels
  /\ jobs' = [jobs EXCEPT ![j] = [NoDrawing EXCEPT !.status = "started", !.type = "export"]]
  /\ Told /\ UNCHANGED <<format, drawn, gallery, wasted>>

ImagesNext ==
  \/ ShowGallery \/ LeaveGallery \/ RunSelected \/ RunPendingImages \/ ForceAll \/ CancelImages
  \/ TellGallery \/ TranslateLines \/ ResetLines
  \/ \E p \in Panels : EditLine(p)
  \/ \E j \in Works : \/ RunAgain(j) \/ BeginJob(j) \/ EndJob(j) \/ ReleaseJob(j) \/ ExportDraws(j)
                      \/ \E p \in Panels : DrawImage(j, p) \/ HaltImage(j, p) \/ FailImage(j, p)

ImagesSpec == ImagesInit /\ [][ImagesNext]_imagesVars

-----------------------------------------------------------------------------
(* A task that reports completed has a picture for every translated image  *)
(* it was asked for, and what it was told to draw is drawn with the        *)
(* translation as it stands: none was passed over, and no edit or other    *)
(* task came between its reading and its drawing.                          *)
CompletedIsDrawn ==
  \A j \in Works : jobs[j].status = "ended" /\ jobs[j].end = "completed" =>
    \A p \in Panels : (jobs[j].asked = {} \/ p \in jobs[j].asked) /\ HasLine(p) =>
      /\ drawn[p] # "none"
      /\ jobs[j].force => drawn[p] = "current"

(* Only "force all", one image or a task that is run again draw a picture  *)
(* that is there once more: images are what the provider bills most for.   *)
NothingIsDrawnTwice == ~wasted

(* A task for images that is done has drawn what it was asked for with the *)
(* lines as they stand, and nothing is drawn twice that nobody asked for   *)
(* twice.                                                                  *)
ImagesAreDrawn == CompletedIsDrawn /\ NothingIsDrawnTwice

(* The tab shows the pictures, their states and what may be done once its  *)
(* events are delivered, whichever task drew them.                         *)
QuietGalleryIsCurrent ==
  (/\ gallery.shown /\ ~gallery.dirty /\ ~told
   /\ \A j \in Works : jobs[j].status = "running" => ~jobs[j].cancel)
  => gallery.show = ImagesState /\ gallery.listed = Live

\* The pictures are those of their lines, and the tab shows them.
GalleryIsSound == ImagesAreDrawn /\ QuietGalleryIsCurrent
================================================================================
