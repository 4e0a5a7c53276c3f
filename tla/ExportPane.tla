----------------------------- MODULE ExportPane -----------------------------
(***************************************************************************)
(* The controls of an export (_ExportControls of                           *)
(* document_workspace_view.py) over the export of one document             *)
(* (_export_support.py): on the export tab of the document's workspace,    *)
(* which every event about the document fills again; in the dialog of a    *)
(* row that is done; and in the dialog that starts translate-and-export.   *)
(* Chunks are translated and cleared meanwhile.                            *)
(***************************************************************************)
EXTENDS Naturals, Sequences, SequencesExt

CONSTANT ExportTypes  \* the types of document that are exported

FormatsOf(type) ==
  CASE type = "text"     -> <<"txt">>
    [] type = "subtitle" -> <<"srt", "vtt", "ass", "ssa">>
    [] type = "epub"     -> <<"epub", "md", "docx", "html", "txt">>
    [] type = "manga"    -> <<"cbz">>
    [] OTHER             -> <<"epub", "md", "txt">>   \* pdf, scanned_book
KeepsFolders(type) == type \in {"text", "subtitle"}
KeepsImages(type) == type \in {"epub", "pdf", "scanned_book"}
HasLayout(type) == type = "epub"
ASSUME ExportAssumption ==
  ExportTypes \subseteq {"text", "subtitle", "epub", "manga", "pdf", "scanned_book"}

VARIABLES
  subject,  \* the document: [type, format (its default), complete]
  controls,  \* the controls that are open, or Shut
  wrote      \* the last export that was made or started

exportPaneVars == <<subject, controls, wrote>>

\* A path is a folder or has the suffix of a format.  "beside" is what a change
\* of the suffix makes of the folder for exports: a file next to it.
NoPath == [at |-> "nowhere", suffix |-> "none"]
DefaultFolder == [at |-> "default", suffix |-> "folder"]
DefaultPath(f) == [at |-> "default", suffix |-> f]
WithSuffix(p, f) ==
  [at |-> IF p = DefaultFolder THEN "beside" ELSE p.at, suffix |-> f]

Shut == [kind |-> "none", incomplete |-> FALSE, format |-> "none", structure |-> FALSE, fallback |-> FALSE,
         images |-> FALSE, layout |-> FALSE, path |-> NoPath]
NothingWritten == [format |-> "none", structure |-> FALSE, original |-> FALSE, warned |-> FALSE, path |-> NoPath]

-----------------------------------------------------------------------------
\* _sync_output_path
\* (mutant of PathSynced: only the suffix follows the format)
SuffixOnly(c) ==
  IF c.structure THEN [c EXCEPT !.path = DefaultFolder]
  ELSE [c EXCEPT !.path = IF @ = NoPath THEN DefaultPath(c.format) ELSE WithSuffix(@, c.format)]
PathSynced(c) ==
  IF c.structure THEN [c EXCEPT !.path = DefaultFolder]
  ELSE [c EXCEPT !.path = IF @ \in {NoPath, DefaultFolder} THEN DefaultPath(c.format)
                          ELSE WithSuffix(@, c.format)]

\* apply_state: the format is the default one again, and what the document has no
\* use for (now) is not ticked.
IncompleteNow(kind) == kind # "start" /\ ~subject.complete
\* (mutant of Filled: the fallback stays ticked)
FilledButFallback(c) ==
  PathSynced([c EXCEPT
    !.incomplete = IncompleteNow(c.kind), !.format = subject.format,
    !.structure  = @ /\ KeepsFolders(subject.type),
    !.images     = @ /\ KeepsImages(subject.type),
    !.layout     = @ /\ HasLayout(subject.type)])
Filled(c) ==
  PathSynced([c EXCEPT
    !.incomplete = IncompleteNow(c.kind), !.format = subject.format,
    !.structure  = @ /\ KeepsFolders(subject.type),
    !.fallback   = @ /\ IncompleteNow(c.kind),
    !.images     = @ /\ KeepsImages(subject.type),
    !.layout     = @ /\ HasLayout(subject.type)])

ExportPaneInit ==
  /\ \E type \in ExportTypes, complete \in BOOLEAN :
       \E i \in DOMAIN FormatsOf(type) :
         /\ i # 1 => type = "subtitle"   \* the suffix of the file
         /\ subject = [type |-> type, format |-> FormatsOf(type)[i], complete |-> complete]
  /\ controls = Shut /\ wrote = NothingWritten

\* Tasks translate chunks; an edit and a reset clear them.
Progresses ==
  /\ subject' = [subject EXCEPT !.complete = ~@]
  /\ UNCHANGED <<controls, wrote>>

\* The tab is made when it is first shown; the dialogs are made each time.
OpenControls ==
  /\ controls = Shut
  /\ \E kind \in {"tab", "dialog", "start"} :
       controls' = Filled([Shut EXCEPT !.kind = kind, !.layout = (kind = "start")])
  /\ UNCHANGED <<subject, wrote>>
CloseControls == controls # Shut /\ controls' = Shut /\ UNCHANGED <<subject, wrote>>
\* An event about the document or the setup
FillTab == controls.kind = "tab" /\ controls' = Filled(controls) /\ UNCHANGED <<subject, wrote>>

Offered(c) ==
  [structure |-> KeepsFolders(subject.type),
   fallback  |-> c.kind # "start" /\ c.incomplete,
   images    |-> c.kind # "start" /\ KeepsImages(subject.type) /\ ~c.structure,
   layout    |-> HasLayout(subject.type) /\ ~c.structure /\ c.format = "epub"]
Tick ==
  /\ controls # Shut
  /\ LET c == controls o == Offered(controls) IN
       controls' \in {PathSynced(n) : n \in
         {[c EXCEPT !.structure = ~@] : x \in {o.structure} \cap {TRUE}} \cup
         {[c EXCEPT !.fallback = ~@]  : x \in {o.fallback} \cap {TRUE}} \cup
         {[c EXCEPT !.images = ~@]    : x \in {o.images} \cap {TRUE}} \cup
         {[c EXCEPT !.layout = ~@]    : x \in {o.layout} \cap {TRUE}}}
  /\ UNCHANGED <<subject, wrote>>
PickFormat ==
  /\ controls # Shut
  /\ \E i \in DOMAIN FormatsOf(subject.type) :
       controls' = PathSynced([controls EXCEPT !.format = FormatsOf(subject.type)[i]])
  /\ UNCHANGED <<subject, wrote>>
\* The path is typed or browsed for: a folder for a folder structure, else a file
\* with the suffix of the format.
EnterPath ==
  /\ controls # Shut
  /\ controls' = [controls EXCEPT
       !.path = [at |-> "user", suffix |-> IF controls.structure THEN "folder" ELSE controls.format]]
  /\ UNCHANGED <<subject, wrote>>

\* can_submit and submission, then run_export, which looks at the document again;
\* the lines of a document that is not translated are the original's where a
\* chunk has no translation (resolve_export_lines).
CanSubmit == controls.incomplete => controls.fallback
Written ==
  [format |-> controls.format, structure |-> controls.structure, path |-> controls.path,
   original |-> controls.kind # "start" /\ ~subject.complete, warned |-> controls.incomplete]
\* The tab hears of its own export; a dialog closes.
ExportNow ==
  /\ controls.kind \in {"tab", "dialog"} /\ CanSubmit
  /\ subject.complete \/ controls.fallback
  /\ wrote' = Written
  /\ controls' = IF controls.kind = "tab" THEN Filled(controls) ELSE Shut
  /\ UNCHANGED subject
\* The task that translates and then exports
StartTask ==
  /\ controls.kind = "start" /\ CanSubmit
  /\ wrote' = Written /\ controls' = Shut
  /\ UNCHANGED subject

ExportPaneNext ==
  \/ Progresses \/ OpenControls \/ CloseControls \/ FillTab \/ Tick \/ PickFormat \/ EnterPath
  \/ ExportNow \/ StartTask
ExportPaneSpec == ExportPaneInit /\ [][ExportPaneNext]_exportPaneVars

-----------------------------------------------------------------------------
\* Original text is written only by someone who was told that the document is not
\* translated: a fallback that was ticked while it was not is no consent for a
\* chunk that is cleared after the tab said that all is translated.
OriginalsAreWarnedOf == wrote.original => wrote.warned

\* A structure of folders is written to a folder, anything else to a file with the
\* suffix of its format, never to a file beside the folder for exports, whatever
\* was ticked and chosen before (_sync_output_path).
PathFitsExport ==
  /\ wrote.path.suffix = IF wrote.structure THEN "folder" ELSE wrote.format
  /\ wrote.path.at # "beside"

\* What was written is what the controls told and asked for.
ExportsAreMeant == OriginalsAreWarnedOf /\ PathFitsExport
=============================================================================
