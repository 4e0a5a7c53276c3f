----------------------------- MODULE HomeProofs -----------------------------
(***************************************************************************)
(* What TLAPS proves of the home page (Workboard) for any documents,       *)
(* workers and setups, of the import and the export panes for any files    *)
(* and any of the types of documents, and of the images tab (ImagesTab)    *)
(* for any images and tasks.                                               *)
(***************************************************************************)
EXTENDS BookProofs, Workboard, ImportPane, ExportPane, ImagesTab

-----------------------------------------------------------------------------
(* The import pane.                                                        *)

\* What is to be unwrapped are the files on the page, and nothing is offered
\* without files.
Choice(c) ==
  c = [files |-> c.files, folder |-> c.folder, options |-> c.options, type |-> c.type, unwrap |-> c.unwrap]
ImportInv ==
  /\ Choice(chosen) /\ chosen.folder \in BOOLEAN /\ chosen.unwrap \in BOOLEAN
  /\ chosen.options # <<>> => chosen.files # {}
  /\ chosen.unwrap => asked = chosen.files
  /\ ImportIsMeant

\* One of the files can be what all of them together are taken for.
LEMMA CompatibleWithOne ==
  ASSUME NEW files, files # {}, NEW folder \in BOOLEAN, NEW type \in ToSet(Compatible(files, folder))
  PROVE  \E f \in files : /\ disk[f] # Gone
                          /\ \/ type \in ToSet(TypesOfFile(disk[f]))
                             \/ type = "manga" /\ disk[f] = "image"
<1>1. ASSUME NEW kinds, kinds = {disk[f] : f \in files}, type \in ToSet(TypesOfFolder(kinds))
      PROVE  \/ type = "text" /\ \E f \in files : disk[f] = "text"
             \/ type \in {"scanned_book", "manga"} /\ \E f \in files : disk[f] = "image"
  <2>1. CASE kinds \cap {"text", "image"} = {"text"}
    BY <1>1, <2>1 DEF TypesOfFolder, ToSet
  <2>2. CASE kinds \cap {"text", "image"} = {"image"}
    <3>1. TypesOfFolder(kinds) = <<"scanned_book", "manga">>
      BY <2>2 DEF TypesOfFolder
    <3>2. type \in {"scanned_book", "manga"}
      BY <1>1, <3>1 DEF ToSet
    <3>. QED  BY <1>1, <2>2, <3>2
  <2>3. CASE kinds \cap {"text", "image"} \notin {{"text"}, {"image"}}
    BY <1>1, <2>3 DEF TypesOfFolder, ToSet
  <2>. QED  BY <2>1, <2>2, <2>3
<1>2. /\ "text" \in ToSet(TypesOfFile("text")) /\ "scanned_book" \in ToSet(TypesOfFile("image"))
      /\ "text" # Gone /\ "image" # Gone
  BY DEF TypesOfFile, ToSet, Gone
<1>3. CASE type \in ToSet(TypesOfFolder({disk[f] : f \in files}))
  BY <1>1, <1>2, <1>3
<1>4. CASE ~folder /\ Cardinality(files) = 1
  <2>. DEFINE f == CHOOSE g \in files : TRUE
  <2>1. f \in files /\ type \in ToSet(TypesOfFile(disk[f]))
    BY <1>4 DEF Compatible
  <2>2. ToSet(TypesOfFile(Gone)) = {}
    BY DEF TypesOfFile, ToSet, Gone
  <2>. QED  BY <2>1, <2>2
<1>5. CASE ~folder /\ Cardinality(files) # 1 /\ (\E f \in files : disk[f] = Gone)
  <2>1. Compatible(files, folder) = <<>> /\ ToSet(<<>>) = {}
    BY <1>5 DEF Compatible, ToSet
  <2>. QED  BY <2>1
<1>. QED  BY <1>3, <1>4, <1>5 DEF Compatible

\* An import makes of the files what they can be made of when it runs, and takes
\* the line breaks out of a text only if that was asked for with these files.
THEOREM ImportsAreMeant == ImportSpec => []ImportIsMeant
<1>1. ImportInit => ImportInv
  BY DEF ImportInit, ImportInv, Choice, NothingChosen, NothingImported, ImportIsMeant
<1>2. ImportInv /\ [ImportNext]_importVars => ImportInv'
  <2>. SUFFICES ASSUME ImportInv, [ImportNext]_importVars PROVE ImportInv'
    OBVIOUS
  <2>1. CASE Choose
    <3>1. PICK files \in (SUBSET {f \in Files : disk[f] # Gone}) \ {{}}, folder \in BOOLEAN :
                 chosen' = Inspected(files, folder)
      BY <2>1 DEF Choose
    <3>. QED  BY <2>1, <3>1 DEF Choose, Inspected, ImportInv, Choice, ImportIsMeant
  <2>2. CASE PickType
    <3>1. PICK i \in DOMAIN chosen.options : chosen' = [chosen EXCEPT !.type = chosen.options[i]]
      BY <2>2 DEF PickType
    <3>2. chosen' = [files |-> chosen.files, folder |-> chosen.folder, options |-> chosen.options,
                     type |-> chosen.options[i], unwrap |-> chosen.unwrap]
      BY <3>1 DEF ImportInv, Choice
    <3>. QED  BY <2>2, <3>2 DEF PickType, ImportInv, Choice, ImportIsMeant
  <2>3. CASE ToggleUnwrap
    <3>1. chosen' = [files |-> chosen.files, folder |-> chosen.folder, options |-> chosen.options,
                     type |-> chosen.type, unwrap |-> ~chosen.unwrap]
      BY <2>3 DEF ToggleUnwrap, ImportInv, Choice
    <3>. QED  BY <2>3, <3>1 DEF ToggleUnwrap, ImportInv, Choice, ImportIsMeant
  <2>4. CASE ImportSucceeds
    <3>. DEFINE kinds == [f \in {g \in chosen.files : disk[g] # Gone} |-> disk[f]]
    <3>1. /\ chosen' = NothingChosen
          /\ imported'.kinds = kinds /\ imported'.type = chosen.type /\ imported'.asked = asked
          /\ imported'.unwrap = (chosen.unwrap /\ CanUnwrap)
      BY <2>4 DEF ImportSucceeds
    <3>2. \E f \in chosen.files : /\ disk[f] # Gone
                                  /\ \/ chosen.type \in ToSet(TypesOfFile(disk[f]))
                                     \/ chosen.type = "manga" /\ disk[f] = "image"
      BY <2>4, CompatibleWithOne DEF ImportSucceeds, Importable, ImportInv
    <3>3. \E f \in DOMAIN kinds : \/ chosen.type \in ToSet(TypesOfFile(kinds[f]))
                                  \/ chosen.type = "manga" /\ kinds[f] = "image"
      BY <3>2
    <3>4. chosen.unwrap /\ CanUnwrap => DOMAIN kinds \subseteq asked /\ chosen.type \in HardWrapTypes
      BY DEF ImportInv, CanUnwrap
    <3>. HIDE DEF kinds
    <3>5. ImportIsMeant'
      BY <3>1, <3>3, <3>4 DEF ImportIsMeant
    <3>. QED  BY <3>1, <3>5 DEF ImportInv, Choice, NothingChosen
  <2>5. CASE TasksChange
    BY <2>5 DEF TasksChange, ImportInv, ImportIsMeant
  <2>6. CASE DiskChanges
    BY <2>6 DEF DiskChanges, ImportInv, ImportIsMeant
  <2>7. CASE UNCHANGED importVars
    BY <2>7 DEF importVars, ImportInv, ImportIsMeant
  <2>. QED  BY <2>1, <2>2, <2>3, <2>4, <2>5, <2>6, <2>7 DEF ImportNext
<1>3. ImportInv => ImportIsMeant
  BY DEF ImportInv
<1>. QED  BY <1>1, <1>2, <1>3, PTL DEF ImportSpec

-----------------------------------------------------------------------------
(* The export pane.                                                        *)

\* Whatever the controls show, the path fits what they would write, and the
\* fallback is ticked only where they say that the document is not translated.
ControlsShape(c) ==
  c = [kind |-> c.kind, incomplete |-> c.incomplete, format |-> c.format, structure |-> c.structure,
       fallback |-> c.fallback, images |-> c.images, layout |-> c.layout, path |-> c.path]
Fits(c) ==
  /\ c.path.suffix = IF c.structure THEN "folder" ELSE c.format
  /\ c.path.at # "beside"
Warned(c) == c.fallback => c.incomplete
ControlsInv(c) ==
  /\ ControlsShape(c) /\ Fits(c) /\ Warned(c)
  /\ c.incomplete \in BOOLEAN /\ c.structure \in BOOLEAN /\ c.fallback \in BOOLEAN
  /\ c.images \in BOOLEAN /\ c.layout \in BOOLEAN
ExportPaneInv ==
  /\ ControlsInv(controls) /\ subject.complete \in BOOLEAN /\ "complete" \in DOMAIN subject
  /\ OriginalsAreWarnedOf /\ PathFitsExport

\* Whatever the path was, the synchronised one fits.
LEMMA SyncedInv ==
  ASSUME NEW c, ControlsShape(c), Warned(c), c.path.at # "beside",
         c.incomplete \in BOOLEAN, c.structure \in BOOLEAN, c.fallback \in BOOLEAN,
         c.images \in BOOLEAN, c.layout \in BOOLEAN
  PROVE  ControlsInv(PathSynced(c))
<1>. DEFINE p == IF c.structure THEN DefaultFolder
                ELSE IF c.path \in {NoPath, DefaultFolder} THEN DefaultPath(c.format)
                ELSE WithSuffix(c.path, c.format)
<1>1. PathSynced(c) = [c EXCEPT !.path = p]
  BY DEF PathSynced, ControlsShape
<1>2. /\ p.suffix = IF c.structure THEN "folder" ELSE c.format
      /\ p.at # "beside"
  BY DEF DefaultFolder, DefaultPath, WithSuffix, NoPath
<1>. HIDE DEF p
<1>3. PathSynced(c) = [kind |-> c.kind, incomplete |-> c.incomplete, format |-> c.format, structure |-> c.structure,
                   fallback |-> c.fallback, images |-> c.images, layout |-> c.layout, path |-> p]
  BY <1>1 DEF ControlsShape
<1>. QED  BY <1>2, <1>3 DEF ControlsInv, ControlsShape, Fits, Warned

\* An update of the controls, field by field
Updated(c, i, f, s, b, im, l) ==
  [c EXCEPT !.incomplete = i, !.format = f, !.structure = s, !.fallback = b, !.images = im, !.layout = l]
LEMMA UpdatedControls ==
  ASSUME NEW c, ControlsShape(c), NEW i, NEW f, NEW s, NEW b, NEW im, NEW l
  PROVE  Updated(c, i, f, s, b, im, l)
           = [kind |-> c.kind, incomplete |-> i, format |-> f, structure |-> s,
              fallback |-> b, images |-> im, layout |-> l, path |-> c.path]
<1>. DEFINE c1 == [c EXCEPT !.incomplete = i]
            c2 == [c1 EXCEPT !.format = f]
            c3 == [c2 EXCEPT !.structure = s]
            c4 == [c3 EXCEPT !.fallback = b]
            c5 == [c4 EXCEPT !.images = im]
            c6 == [c5 EXCEPT !.layout = l]
<1>1. Updated(c, i, f, s, b, im, l) = c6
  BY DEF Updated
<1>2. c1 = [kind |-> c.kind, incomplete |-> i, format |-> c.format, structure |-> c.structure,
            fallback |-> c.fallback, images |-> c.images, layout |-> c.layout, path |-> c.path]
  BY DEF ControlsShape
<1>. HIDE DEF c1
<1>3. c3 = [kind |-> c.kind, incomplete |-> i, format |-> f, structure |-> s,
            fallback |-> c.fallback, images |-> c.images, layout |-> c.layout, path |-> c.path]
  <2>1. c2 = [kind |-> c.kind, incomplete |-> i, format |-> f, structure |-> c.structure,
              fallback |-> c.fallback, images |-> c.images, layout |-> c.layout, path |-> c.path]
    BY <1>2
  <2>. HIDE DEF c2
  <2>. QED  BY <2>1
<1>. HIDE DEF c3
<1>4. c5 = [kind |-> c.kind, incomplete |-> i, format |-> f, structure |-> s,
            fallback |-> b, images |-> im, layout |-> c.layout, path |-> c.path]
  <2>1. c4 = [kind |-> c.kind, incomplete |-> i, format |-> f, structure |-> s,
              fallback |-> b, images |-> c.images, layout |-> c.layout, path |-> c.path]
    BY <1>3
  <2>. HIDE DEF c4
  <2>. QED  BY <2>1
<1>. HIDE DEF c5
<1>5. c6 = [kind |-> c.kind, incomplete |-> i, format |-> f, structure |-> s,
            fallback |-> b, images |-> im, layout |-> l, path |-> c.path]
  BY <1>4
<1>. HIDE DEF c6
<1>. QED  BY <1>1, <1>5

\* So are new ones.
Made(c, k, l) == [c EXCEPT !.kind = k, !.layout = l]
LEMMA MadeControls ==
  ASSUME NEW c, ControlsShape(c), NEW k, NEW l
  PROVE  Made(c, k, l)
           = [kind |-> k, incomplete |-> c.incomplete, format |-> c.format, structure |-> c.structure,
              fallback |-> c.fallback, images |-> c.images, layout |-> l, path |-> c.path]
<1>. DEFINE c1 == [c EXCEPT !.kind = k]
            c2 == [c1 EXCEPT !.layout = l]
<1>1. Made(c, k, l) = c2
  BY DEF Made
<1>2. c1 = [kind |-> k, incomplete |-> c.incomplete, format |-> c.format, structure |-> c.structure,
            fallback |-> c.fallback, images |-> c.images, layout |-> c.layout, path |-> c.path]
  BY DEF ControlsShape
<1>. HIDE DEF c1
<1>3. c2 = [kind |-> k, incomplete |-> c.incomplete, format |-> c.format, structure |-> c.structure,
            fallback |-> c.fallback, images |-> c.images, layout |-> l, path |-> c.path]
  BY <1>2
<1>. QED  BY <1>1, <1>3

\* Filling the controls keeps them so.
LEMMA FilledFits ==
  ASSUME NEW c, ControlsShape(c), subject.complete \in BOOLEAN, c.path.at # "beside",
         c.structure \in BOOLEAN, c.fallback \in BOOLEAN, c.images \in BOOLEAN, c.layout \in BOOLEAN
  PROVE  ControlsInv(Filled(c))
<1>. DEFINE inc == IncompleteNow(c.kind)
            str == c.structure /\ KeepsFolders(subject.type)
            fal == c.fallback /\ IncompleteNow(c.kind)
            img == c.images /\ KeepsImages(subject.type)
            lay == c.layout /\ HasLayout(subject.type)
            n == [kind |-> c.kind, incomplete |-> inc, format |-> subject.format, structure |-> str,
                  fallback |-> fal, images |-> img, layout |-> lay, path |-> c.path]
<1>0. inc \in BOOLEAN /\ str \in BOOLEAN /\ fal \in BOOLEAN /\ img \in BOOLEAN /\ lay \in BOOLEAN
      /\ (fal => inc)
  BY DEF IncompleteNow, KeepsFolders, KeepsImages, HasLayout
<1>1. Filled(c) = PathSynced(Updated(c, inc, subject.format, str, fal, img, lay))
  BY DEF Filled, Updated
<1>. HIDE DEF inc, str, fal, img, lay
<1>2. Updated(c, inc, subject.format, str, fal, img, lay) = n
  BY UpdatedControls
<1>3. /\ ControlsShape(n) /\ n.path.at # "beside" /\ Warned(n)
      /\ n.incomplete \in BOOLEAN /\ n.structure \in BOOLEAN /\ n.fallback \in BOOLEAN
      /\ n.images \in BOOLEAN /\ n.layout \in BOOLEAN
  BY <1>0 DEF ControlsShape, Warned
<1>. HIDE DEF n
<1>. QED  BY <1>1, <1>2, <1>3, SyncedInv

\* The pane's invariant
LEMMA ExportPaneInvariant == ExportPaneSpec => []ExportPaneInv
<1>1. ExportPaneInit => ExportPaneInv
  BY DEF ExportPaneInit, ExportPaneInv, ControlsInv, ControlsShape, Fits, Warned, Shut, NoPath, NothingWritten,
     OriginalsAreWarnedOf, PathFitsExport
<1>2. ExportPaneInv /\ [ExportPaneNext]_exportPaneVars => ExportPaneInv'
  <2>. SUFFICES ASSUME ExportPaneInv, [ExportPaneNext]_exportPaneVars PROVE ExportPaneInv'
    OBVIOUS
  <2>0. /\ ControlsInv(controls) /\ ControlsShape(controls) /\ controls.path.at # "beside"
        /\ controls.incomplete \in BOOLEAN /\ controls.structure \in BOOLEAN /\ controls.fallback \in BOOLEAN
        /\ controls.images \in BOOLEAN /\ controls.layout \in BOOLEAN
        /\ subject.complete \in BOOLEAN /\ "complete" \in DOMAIN subject
    BY DEF ExportPaneInv, ControlsInv, Fits
  <2>a. ASSUME UNCHANGED <<subject, wrote>>, ControlsInv(controls)' PROVE ExportPaneInv'
    BY <2>a DEF ExportPaneInv, OriginalsAreWarnedOf, PathFitsExport
  <2>1. CASE Progresses
    BY <2>0, <2>1 DEF Progresses, ExportPaneInv, OriginalsAreWarnedOf, PathFitsExport
  <2>2. CASE OpenControls
    <3>1. PICK kind \in {"tab", "dialog", "start"} :
                 controls' = Filled(Made(Shut, kind, (kind = "start")))
      BY <2>2 DEF OpenControls, Made
    <3>. DEFINE c == [kind |-> kind, incomplete |-> FALSE, format |-> "none", structure |-> FALSE,
                      fallback |-> FALSE, images |-> FALSE, layout |-> (kind = "start"), path |-> NoPath]
    <3>0. ControlsShape(Shut)
      BY DEF ControlsShape, Shut
    <3>z. c = Made(Shut, kind, (kind = "start"))
      <4>1. \A l : Made(Shut, kind, l)
                   = [kind |-> kind, incomplete |-> Shut.incomplete, format |-> Shut.format,
                      structure |-> Shut.structure, fallback |-> Shut.fallback, images |-> Shut.images,
                      layout |-> l, path |-> Shut.path]
        BY <3>0, MadeControls
      <4>. QED  BY <4>1 DEF Shut
    <3>2. /\ ControlsShape(c) /\ c.path.at # "beside" /\ c.structure \in BOOLEAN /\ c.fallback \in BOOLEAN
          /\ c.images \in BOOLEAN /\ c.layout \in BOOLEAN
      BY DEF ControlsShape, NoPath
    <3>. HIDE DEF c
    <3>3. ControlsInv(controls')
      BY <2>0, <3>z, <3>1, <3>2, FilledFits
    <3>. QED  BY <2>2, <2>a, <3>3 DEF OpenControls
  <2>3. CASE CloseControls
    BY <2>3, <2>a DEF CloseControls, ControlsInv, ControlsShape, Fits, Warned, Shut, NoPath
  <2>4. CASE FillTab
    <3>1. ControlsInv(controls')
      BY <2>0, <2>4, FilledFits DEF FillTab
    <3>. QED  BY <2>4, <2>a, <3>1 DEF FillTab
  <2>5. CASE Tick
    <3>1. PICK n : /\ controls' = PathSynced(n)
                   /\ \/ n = [controls EXCEPT !.structure = ~@]
                      \/ n = [controls EXCEPT !.fallback = ~@] /\ controls.incomplete
                      \/ n = [controls EXCEPT !.images = ~@]
                      \/ n = [controls EXCEPT !.layout = ~@]
      BY <2>5 DEF Tick, Offered
    <3>2. /\ ControlsShape(n) /\ n.path.at # "beside" /\ Warned(n)
          /\ n.incomplete \in BOOLEAN /\ n.structure \in BOOLEAN /\ n.fallback \in BOOLEAN
          /\ n.images \in BOOLEAN /\ n.layout \in BOOLEAN
      BY <2>0, <3>1 DEF ControlsShape, Warned, ControlsInv
    <3>3. ControlsInv(controls')
      BY <3>1, <3>2, SyncedInv
    <3>. QED  BY <2>5, <2>a, <3>3 DEF Tick
  <2>6. CASE PickFormat
    <3>1. PICK f : controls' = PathSynced([controls EXCEPT !.format = f])
      BY <2>6 DEF PickFormat
    <3>. DEFINE n == [controls EXCEPT !.format = f]
    <3>2. /\ ControlsShape(n) /\ n.path.at # "beside" /\ Warned(n)
          /\ n.incomplete \in BOOLEAN /\ n.structure \in BOOLEAN /\ n.fallback \in BOOLEAN
          /\ n.images \in BOOLEAN /\ n.layout \in BOOLEAN
      BY <2>0 DEF ControlsShape, Warned, ControlsInv
    <3>. HIDE DEF n
    <3>3. ControlsInv(controls')
      BY <3>1, <3>2, SyncedInv DEF n
    <3>. QED  BY <2>6, <2>a, <3>3 DEF PickFormat
  <2>7. CASE EnterPath
    <3>1. ControlsInv(controls')
      BY <2>0, <2>7 DEF EnterPath, ControlsInv, ControlsShape, Fits, Warned
    <3>. QED  BY <2>7, <2>a, <3>1 DEF EnterPath
  <2>8. CASE ExportNow
    <3>1. ControlsInv(controls')
      BY <2>0, <2>8, <2>3, FilledFits DEF ExportNow, ControlsInv, ControlsShape, Fits, Warned, Shut, NoPath
    <3>2. (OriginalsAreWarnedOf /\ PathFitsExport)'
      BY <2>0, <2>8 DEF ExportNow, Written, ControlsInv, Warned, Fits, OriginalsAreWarnedOf, PathFitsExport
    <3>. QED  BY <2>0, <2>8, <3>1, <3>2 DEF ExportNow, ExportPaneInv
  <2>9. CASE StartTask
    <3>1. ControlsInv(controls')
      BY <2>9 DEF StartTask, ControlsInv, ControlsShape, Fits, Warned, Shut, NoPath
    <3>2. (OriginalsAreWarnedOf /\ PathFitsExport)'
      BY <2>0, <2>9 DEF StartTask, Written, ControlsInv, Warned, Fits, OriginalsAreWarnedOf, PathFitsExport
    <3>. QED  BY <2>0, <2>9, <3>1, <3>2 DEF StartTask, ExportPaneInv
  <2>10. CASE UNCHANGED exportPaneVars
    BY <2>10 DEF exportPaneVars, ExportPaneInv, OriginalsAreWarnedOf, PathFitsExport
  <2>. QED
    BY <2>1, <2>2, <2>3, <2>4, <2>5, <2>6, <2>7, <2>8, <2>9, <2>10 DEF ExportPaneNext
<1>. QED  BY <1>1, <1>2, PTL DEF ExportPaneSpec

\* No export holds original text without the warning having been shown, and the path
\* of an export fits what is written to it, whatever was ticked, chosen and refreshed before.
THEOREM ExportsStayMeant == ExportPaneSpec => []ExportsAreMeant
<1>1. ExportPaneInv => ExportsAreMeant
  BY DEF ExportPaneInv, ExportsAreMeant
<1>. QED  BY <1>1, ExportPaneInvariant, PTL

-----------------------------------------------------------------------------
(* The home page: the workspace.                                           *)

ViewTyped(v, b) ==
  /\ DOMAIN v = {"doc", "missing", "section", "made", "dirty", "complete"}
  /\ v.made \in BOOLEAN /\ v.dirty \in BOOLEAN /\ v.missing \in BOOLEAN
  /\ v.doc \in 0..b.last /\ (v.missing => v.doc \notin b.docs)
\* What the export tab says is so, unless the tab is to be filled when it is shown.
ViewCurrent(v, b) ==
  /\ v.doc \in b.docs /\ v.made /\ ~v.dirty => v.complete = IsComplete(b, v.doc)
  /\ v.section = "export" /\ v.doc \in b.docs => v.made /\ ~v.dirty

\* A view of a book that evolves keeps its shape.
LEMMA ViewEvolves ==
  ASSUME NEW b, NEW c, BookShape(b), Evolves(b, c), NEW v, ViewTyped(v, b)
  PROVE  ViewTyped(v, c)
BY DEF ViewTyped, Evolves, BookShape

\* What the preparation of a section does to the view
PreparedAs(v, s, b, n) ==
  /\ ViewTyped(n, b) /\ n.doc = v.doc /\ n.section = s
  /\ s # "export" => n.made = v.made /\ n.dirty = v.dirty /\ n.complete = v.complete
  /\ s = "export" /\ v.doc \in b.docs /\ (v.dirty \/ ~v.made) =>
       n.made = TRUE /\ n.dirty = FALSE /\ n.complete = IsComplete(b, v.doc)
  /\ s = "export" /\ v.doc \in b.docs /\ ~(v.dirty \/ ~v.made) =>
       n.made = TRUE /\ n.dirty = FALSE /\ n.complete = v.complete
LEMMA PreparesSection ==
  ASSUME NEW b, NEW v, ViewTyped(v, b), NEW s
  PROVE  PreparedAs(v, s, b, SectionPrepared(v, s, b))
<1>. SUFFICES ASSUME NEW n, n = SectionPrepared(v, s, b) PROVE PreparedAs(v, s, b, n)
  OBVIOUS
<1>1. CASE s # "export"
  <2>1. n = [v EXCEPT !.section = s]
    BY <1>1 DEF SectionPrepared
  <2>. QED  BY <1>1, <2>1 DEF ViewTyped, PreparedAs
<1>2. CASE s = "export" /\ v.doc \in b.docs /\ (v.dirty \/ ~v.made)
  <2>. DEFINE shown == [v EXCEPT !.section = s]
              whole == IsComplete(b, v.doc)
  <2>1. shown.doc = v.doc /\ shown.missing = v.missing /\ DOMAIN shown = DOMAIN v /\ shown.section = s
    BY DEF ViewTyped
  <2>2. n = [shown EXCEPT !.made = TRUE, !.dirty = FALSE, !.complete = whole]
    BY <1>2 DEF SectionPrepared
  <2>. HIDE DEF shown, whole
  <2>3. /\ DOMAIN n = DOMAIN v /\ n.doc = v.doc /\ n.missing = v.missing /\ n.section = s
        /\ n.made = TRUE /\ n.dirty = FALSE /\ n.complete = whole
    BY <2>1, <2>2 DEF ViewTyped
  <2>4. ViewTyped(n, b)
    BY <2>3 DEF ViewTyped
  <2>. QED  BY <1>2, <2>3, <2>4 DEF whole, PreparedAs
<1>3. CASE s = "export" /\ ~(v.doc \in b.docs /\ (v.dirty \/ ~v.made))
  <2>. DEFINE shown == [v EXCEPT !.section = s]
              late == v.dirty \/ ~v.made
  <2>1. shown.doc = v.doc /\ shown.missing = v.missing /\ DOMAIN shown = DOMAIN v /\ shown.section = s
        /\ shown.complete = v.complete
    BY DEF ViewTyped
  <2>2. n = [shown EXCEPT !.made = TRUE, !.dirty = late]
    BY <1>3 DEF SectionPrepared
  <2>0. late \in BOOLEAN /\ (v.doc \in b.docs => late = FALSE)
    BY <1>3
  <2>. HIDE DEF shown, late
  <2>3. /\ DOMAIN n = DOMAIN v /\ n.doc = v.doc /\ n.missing = v.missing /\ n.section = s
        /\ n.made = TRUE /\ n.dirty = late /\ n.complete = v.complete
    BY <2>1, <2>2 DEF ViewTyped
  <2>4. ViewTyped(n, b)
    BY <2>0, <2>3 DEF ViewTyped
  <2>. QED  BY <1>3, <2>0, <2>3, <2>4 DEF PreparedAs
<1>. QED  BY <1>1, <1>2, <1>3

\* Showing a section keeps the view as current as it was.
LEMMA ShownIsCurrent ==
  ASSUME NEW b, NEW v, ViewTyped(v, b), NEW s
  PROVE  /\ ViewTyped(SectionShown(v, s, b), b)
         /\ ViewCurrent(v, b) => ViewCurrent(SectionShown(v, s, b), b)
<1>. DEFINE n == SectionPrepared(v, s, b)
<1>1. ViewTyped(n, b) /\ (ViewCurrent(v, b) => ViewCurrent(n, b))
  <2>1. PreparedAs(v, s, b, n)
    BY PreparesSection
  <2>. HIDE DEF n
  <2>2. CASE s # "export"
    BY <2>1, <2>2, Zenon DEF ViewCurrent, PreparedAs
  <2>3. CASE s = "export"
    BY <2>1, <2>3, Zenon DEF ViewCurrent, PreparedAs
  <2>. QED  BY <2>1, <2>2, <2>3 DEF PreparedAs
<1>2. SectionShown(v, s, b) = v \/ SectionShown(v, s, b) = n
  BY DEF SectionShown
<1>. QED  BY <1>1, <1>2

\* After a refresh the view is current.
LEMMA RefreshedIsCurrent ==
  ASSUME NEW b, BookShape(b), NEW v, ViewTyped(v, b)
  PROVE  ViewTyped(Refreshed(v, b), b) /\ ViewCurrent(Refreshed(v, b), b)
<1>1. CASE v.doc = NoDoc \/ v.missing
  <2>1. Refreshed(v, b) = v
    BY <1>1 DEF Refreshed
  <2>2. v.doc \notin b.docs
    BY <1>1 DEF ViewTyped, BookShape, NoDoc
  <2>. QED  BY <2>1, <2>2 DEF ViewCurrent
<1>2. CASE v.doc \notin b.docs /\ ~(v.doc = NoDoc \/ v.missing)
  <2>. DEFINE n == [v EXCEPT !.missing = TRUE]
  <2>1. Refreshed(v, b) = n
    BY <1>2 DEF Refreshed
  <2>. QED  BY <1>2, <2>1 DEF ViewCurrent, ViewTyped
<1>3. CASE v.doc \in b.docs /\ ~(v.doc = NoDoc \/ v.missing)
  <2>. DEFINE d == [v EXCEPT !.dirty = v.made]
  <2>1. Refreshed(v, b) = SectionPrepared(d, v.section, b)
    BY <1>3 DEF Refreshed
  <2>2. ViewTyped(d, b) /\ d.doc = v.doc /\ d.made = v.made /\ d.dirty = v.made
    BY DEF ViewTyped
  <2>. HIDE DEF d
  <2>. DEFINE n == SectionPrepared(d, v.section, b)
  <2>3. /\ ViewTyped(n, b) /\ n.doc = v.doc /\ n.section = v.section
        /\ v.section # "export" => n.made = v.made /\ n.dirty = v.made
        /\ v.section = "export" => n.made = TRUE /\ n.dirty = FALSE /\ n.complete = IsComplete(b, v.doc)
    <3>1. d.dirty \/ ~d.made
      BY <2>2
    <3>2. PreparedAs(d, v.section, b, n)
      BY <2>2, PreparesSection
    <3>. HIDE DEF n
    <3>. QED  BY <1>3, <2>2, <3>1, <3>2, Zenon DEF PreparedAs
  <2>. HIDE DEF n
  <2>4. ViewCurrent(n, b)
    <3>1. CASE v.section # "export"
      BY <2>3, <3>1, Zenon DEF ViewCurrent
    <3>2. CASE v.section = "export"
      BY <2>3, <3>2, Zenon DEF ViewCurrent
    <3>. QED  BY <3>1, <3>2
  <2>. QED  BY <2>1, <2>3, <2>4 DEF n
<1>. QED  BY <1>1, <1>2, <1>3

\* Without a view there is nothing to be late.
LEMMA NoViewIsCurrent ==
  ASSUME NEW b, BookShape(b)
  PROVE  ViewTyped(NoView, b) /\ ViewCurrent(NoView, b)
<1>1. 0 \in 0..b.last /\ 0 \notin b.docs
  BY DEF BookShape
<1>. QED  BY <1>1 DEF ViewTyped, ViewCurrent, NoView, NoDoc

\* So is a new one.
LEMMA NewViewIsCurrent ==
  ASSUME NEW b, BookShape(b), NEW d \in 1..b.last
  PROVE  ViewTyped(NewView(d, b), b) /\ ViewCurrent(NewView(d, b), b)
<1>. DEFINE fresh == [NoView EXCEPT !.doc = d]
<1>1. /\ DOMAIN fresh = {"doc", "missing", "section", "made", "dirty", "complete"}
      /\ fresh.doc = d /\ fresh.missing = FALSE /\ fresh.made = FALSE /\ fresh.dirty = FALSE
      /\ fresh.section = "none"
  BY DEF NoView
<1>. HIDE DEF fresh
<1>2. ViewTyped(fresh, b) /\ ViewCurrent(fresh, b)
  <2>1. fresh.doc \in 0..b.last
    BY <1>1 DEF BookShape
  <2>2. ViewTyped(fresh, b)
    BY <1>1, <2>1, Zenon DEF ViewTyped
  <2>3. ViewCurrent(fresh, b)
    BY <1>1, Zenon DEF ViewCurrent
  <2>. QED  BY <2>2, <2>3
<1>3. CASE d \in b.docs
  <2>1. NewView(d, b) = SectionPrepared(fresh, "ocr", b)
    BY <1>3 DEF NewView, fresh
  <2>2. PreparedAs(fresh, "ocr", b, SectionPrepared(fresh, "ocr", b))
    BY <1>2, PreparesSection
  <2>3. ViewTyped(NewView(d, b), b) /\ NewView(d, b).section = "ocr" /\ NewView(d, b).made = FALSE
    BY <1>1, <2>1, <2>2 DEF PreparedAs
  <2>. QED  BY <2>3, Zenon DEF ViewCurrent
<1>4. CASE d \notin b.docs
  <2>. DEFINE n == NewView(d, b)
  <2>1. n = [NoView EXCEPT !.doc = d, !.missing = TRUE]
    BY <1>4 DEF NewView
  <2>2. /\ DOMAIN n = {"doc", "missing", "section", "made", "dirty", "complete"}
        /\ n.doc = d /\ n.missing = TRUE /\ n.made = FALSE
    BY <2>1 DEF NoView
  <2>3. n.doc \in 0..b.last
    BY <2>2 DEF BookShape
  <2>4. n.dirty = FALSE
    BY <2>1 DEF NoView
  <2>. HIDE DEF n
  <2>5. ViewTyped(n, b)
    BY <1>4, <2>2, <2>3, <2>4, Zenon DEF ViewTyped
  <2>6. ViewCurrent(n, b)
    BY <1>4, <2>2, Zenon DEF ViewCurrent
  <2>. QED  BY <2>5, <2>6 DEF n
<1>. QED  BY <1>3, <1>4

-----------------------------------------------------------------------------
(* The home page.                                                          *)

PageShape == DOMAIN home = {"rows", "frontier", "selected", "startable"}
PageCurrent ==
  /\ home.rows = Rows(book, routes) /\ home.frontier = Frontier(book, routes)
  /\ home.selected # NoDoc => home.startable = CanStart(home.selected)

\* What is shown need be current only while nothing is under way; that the book
\* keeps its shape and a missing document stays missing is what the events that
\* come later rest on.
HomeInv ==
  /\ BookShape(book) /\ PageShape /\ ViewTyped(workspace, book)
  /\ Quiet => PageCurrent /\ ViewCurrent(workspace, book)

\* A page that was filled just now is current.
LEMMA FilledPageIsCurrent ==
  ASSUME FillHome PROVE (PageShape /\ PageCurrent)'
BY DEF FillHome, HomeOf, PageShape, PageCurrent

\* An event makes the page and the workspace current.
LEMMA AnnouncedIsCurrent ==
  ASSUME HomeInv, Evolves(book, book'), Announced PROVE HomeInv'
<1>1. BookShape(book)' /\ ViewTyped(workspace, book')
  BY ViewEvolves DEF HomeInv, Evolves
<1>2. ViewTyped(workspace, book)' /\ ViewCurrent(workspace, book)'
  BY <1>1, RefreshedIsCurrent DEF Announced
<1>. QED  BY <1>1, <1>2, FilledPageIsCurrent DEF Announced, HomeInv

\* A step that leaves the book, the tasks, the page and the events alone
LEMMA PageIsKept ==
  ASSUME HomeInv, UNCHANGED <<bookVars, routes, home, posted>>,
         ViewTyped(workspace, book)', ViewCurrent(workspace, book) => ViewCurrent(workspace, book)'
  PROVE  HomeInv'
<1>1. Quiet' = Quiet
  BY DEF Quiet, Busy, bookVars
<1>2. PageCurrent' = PageCurrent /\ PageShape' = PageShape
  BY DEF PageCurrent, PageShape, CanStart, Busy, IsReview, bookVars, OcrRequired
<1>. QED  BY <1>1, <1>2 DEF HomeInv, bookVars

\* So is a workspace that is opened.
LEMMA OpenedIsCurrent ==
  ASSUME HomeInv, NEW d \in 1..book.last, NEW s, Opened(d, s) PROVE HomeInv'
<1>. DEFINE v == IF workspace.doc = d THEN workspace ELSE NewView(d, book)
<1>1. ViewTyped(v, book) /\ (ViewCurrent(workspace, book) => ViewCurrent(v, book))
  BY NewViewIsCurrent DEF HomeInv
<1>2. workspace' = SectionShown(v, s, book) /\ UNCHANGED <<bookVars, routes, home, posted>>
  BY DEF Opened
<1>. HIDE DEF v
<1>3. ViewTyped(workspace', book) /\ (ViewCurrent(workspace, book) => ViewCurrent(workspace', book))
  BY <1>1, <1>2, ShownIsCurrent
<1>. QED  BY <1>2, <1>3, PageIsKept DEF bookVars

LEMMA HomeInvariant == HomeSpec => []HomeInv
<1>1. HomeInit => HomeInv
  <2>. SUFFICES ASSUME HomeInit PROVE HomeInv
    OBVIOUS
  <2>1. BookShape(book)
    BY DEF HomeInit, BookInit, EmptyBook, BookShape
  <2>2. PageShape /\ PageCurrent
    BY DEF HomeInit, HomeOf, PageShape, PageCurrent
  <2>3. ViewTyped(workspace, book) /\ ViewCurrent(workspace, book)
    BY <2>1, NoViewIsCurrent DEF HomeInit
  <2>. QED  BY <2>1, <2>2, <2>3 DEF HomeInv
<1>2. HomeInv /\ [HomeNext]_homeVars => HomeInv'
  <2>. SUFFICES ASSUME HomeInv, [HomeNext]_homeVars PROVE HomeInv'
    OBVIOUS
  <2>0. BookShape(book) /\ ViewTyped(workspace, book)
    BY DEF HomeInv
  <2>1. ASSUME NEW w \in Worker, Work(w) PROVE HomeInv'
    <3>1. Evolves(book, book')
      BY <2>0, <2>1, BookEvolves DEF Work
    <3>2. posted' \/ job'[w] # NoJob
      BY <2>1 DEF Work
    <3>3. ~Quiet'
      BY <3>2 DEF Quiet, Busy
    <3>. QED  BY <2>0, <2>1, <3>1, <3>3, ViewEvolves DEF Work, HomeInv, Evolves, PageShape
  <2>2. CASE Dispatch
    <3>1. Evolves(book, book')
      BY <2>0, <2>2, BookEvolves DEF Dispatch, bookVars
    <3>. QED  BY <2>2, <3>1, AnnouncedIsCurrent DEF Dispatch
  <2>3. CASE ImportOfDocuments
    <3>1. Evolves(book, book') /\ book'.rows = book.rows
      BY <2>0, <2>3, BookEvolves DEF ImportOfDocuments
    <3>2. Quiet' = Quiet /\ workspace' = workspace
      BY <2>3 DEF ImportOfDocuments, ImportDocuments, Quiet, Busy
    <3>3. ViewTyped(workspace, book')
      BY <2>0, <3>1, ViewEvolves
    <3>4. ViewCurrent(workspace, book) => ViewCurrent(workspace, book')
      <4>1. \A d : IsComplete(book', d) = IsComplete(book, d)
        BY <3>1 DEF IsComplete, RowsOf, TranslationPending
      <4>2. workspace.doc \in book.docs \/ workspace.doc \notin book'.docs
        BY <2>0, <3>1 DEF ViewTyped, Evolves
      <4>. QED  BY <4>1, <4>2 DEF ViewCurrent
    <3>. QED  BY <2>3, <3>1, <3>2, <3>3, <3>4, FilledPageIsCurrent DEF ImportOfDocuments, HomeInv, Evolves
  <2>4. ASSUME NEW d \in book.docs, ChangeStack(d) PROVE HomeInv'
    <3>1. Evolves(book, book')
      BY <2>0, <2>4, BookEvolves DEF ChangeStack, Edit
    <3>. QED  BY <2>4, <3>1, AnnouncedIsCurrent DEF ChangeStack
  <2>5. ASSUME NEW d \in book.docs, Select(d) PROVE HomeInv'
    <3>1. /\ home'.rows = home.rows /\ home'.frontier = home.frontier
          /\ home'.selected = d /\ home'.startable = CanStart(d) /\ PageShape'
      BY <2>5 DEF Select, HomeInv, PageShape
    <3>2. Quiet' = Quiet /\ UNCHANGED <<book, routes, job, workspace>>
      BY <2>5 DEF Select, Quiet, Busy, bookVars
    <3>3. CanStart(d)' = CanStart(d)
      BY <2>5 DEF Select, CanStart, Busy, IsReview, OcrRequired, bookVars
    <3>4. PageCurrent => PageCurrent'
      BY <3>1, <3>2, <3>3 DEF PageCurrent
    <3>. QED  BY <3>1, <3>2, <3>4 DEF HomeInv
  <2>6. ASSUME NEW d \in book.docs, OpenRow(d) PROVE HomeInv'
    <3>1. d \in 1..book.last
      BY <2>0 DEF BookShape
    <3>. QED  BY <2>6, <3>1, OpenedIsCurrent DEF OpenRow
  <2>7. ASSUME NEW d \in 1..book.last, NEW s \in Sections, OpenRelated(d, s) PROVE HomeInv'
    BY <2>7, OpenedIsCurrent DEF OpenRelated
  <2>8. ASSUME NEW s \in Sections, Show(s) PROVE HomeInv'
    BY <2>0, <2>8, ShownIsCurrent, PageIsKept DEF Show, bookVars
  <2>9. CASE Back
    BY <2>0, <2>9, PageIsKept DEF Back, bookVars
  <2>10. ASSUME NEW d \in book.docs, Save(d) PROVE HomeInv'
    <3>1. Evolves(book, book')
      BY <2>0, <2>10, BookEvolves DEF Save, Edit
    <3>. QED  BY <2>10, <3>1, AnnouncedIsCurrent DEF Save
  <2>11. CASE SaveSetup
    <3>1. Evolves(book, book')
      BY <2>0, <2>11, BookEvolves DEF SaveSetup, bookVars
    <3>. QED  BY <2>11, <3>1, AnnouncedIsCurrent DEF SaveSetup
  <2>12. CASE Restart
    <3>1. BookShape(book)' /\ workspace' = NoView
      BY <2>0, <2>12, BookEvolves DEF Restart, Evolves
    <3>2. ViewTyped(workspace, book)' /\ ViewCurrent(workspace, book)'
      BY <3>1, NoViewIsCurrent
    <3>. QED  BY <2>12, <3>1, <3>2, FilledPageIsCurrent DEF Restart, HomeInv
  <2>13. CASE UNCHANGED homeVars
    <3>1. UNCHANGED <<bookVars, routes, home, posted>> /\ UNCHANGED <<book, workspace>>
      BY <2>13 DEF homeVars, bookVars
    <3>2. ViewTyped(workspace, book)' /\ (ViewCurrent(workspace, book) => ViewCurrent(workspace, book)')
      BY <2>0, <3>1
    <3>. QED  BY <3>1, <3>2, PageIsKept
  <2>. QED
    BY <2>1, <2>2, <2>3, <2>4, <2>5, <2>6, <2>7, <2>8, <2>9, <2>10, <2>11, <2>12, <2>13 DEF HomeNext
<1>. QED  BY <1>1, <1>2, PTL DEF HomeSpec

\* When no task works and no event is under way, the page and the workspace show
\* what is stored, whatever was done and however late the events came.
THEOREM QuietHome == HomeSpec => []QuietHomeIsCurrent
<1>1. HomeInv => QuietHomeIsCurrent
  BY DEF HomeInv, QuietHomeIsCurrent, PageCurrent, ViewCurrent
<1>. QED  BY <1>1, HomeInvariant, PTL
-----------------------------------------------------------------------------
(* The home page: what it offers.                                          *)

\* Every step of the home page is one of the book or leaves the book alone.
LEMMA HomeIsBook == HomeSpec => BookSpec
<1>1. HomeInit => BookInit
  BY DEF HomeInit
<1>2. [HomeNext]_homeVars => [BookNext]_bookVars
  <2>. SUFFICES ASSUME [HomeNext]_homeVars PROVE BookNext \/ UNCHANGED bookVars
    OBVIOUS
  <2>1. ASSUME NEW w \in Worker, Work(w) PROVE BookNext
    BY <2>1 DEF Work, BookNext
  <2>2. CASE ImportOfDocuments \/ Restart
    BY <2>2 DEF ImportOfDocuments, Restart, BookNext
  <2>3. ASSUME NEW d \in book.docs, ChangeStack(d) \/ Save(d) PROVE BookNext
    BY <2>3 DEF ChangeStack, Save, Edit, BookNext
  <2>4. CASE Dispatch \/ Back \/ SaveSetup \/ (\E s : Show(s)) \/ (\E d : Select(d) \/ OpenRow(d))
               \/ (\E d, s : OpenRelated(d, s)) \/ UNCHANGED homeVars
    BY <2>4 DEF Dispatch, Back, SaveSetup, Show, Select, OpenRow, OpenRelated, Opened, homeVars, bookVars
  <2>. QED  BY <2>1, <2>2, <2>3, <2>4 DEF HomeNext
<1>. QED  BY <1>1, <1>2, PTL DEF HomeSpec, BookSpec

LEMMA OffersInvariant == HomeSpec => []BookInv
<1>1. HomeInit => BookInv
  <2>. SUFFICES ASSUME HomeInit PROVE BookInv
    OBVIOUS
  <2>1. StoreOK(book)
    BY DEF HomeInit, BookInit, EmptyBook, StoreOK, BookShape, PagesOK, RowsOK
  <2>2. DOMAIN job = Worker /\ \A w \in Worker : job[w] = NoJob
    BY DEF HomeInit, BookInit
  <2>. QED  BY <2>1, <2>2, NoJobIsOK DEF BookInv
<1>2. BookInv /\ [HomeNext]_homeVars => BookInv'
  <2>. SUFFICES ASSUME BookInv, [HomeNext]_homeVars PROVE BookInv'
    OBVIOUS
  <2>1. ASSUME NEW w \in Worker, Work(w) PROVE BookInv'
    BY <2>1, StartKeepsBook, PreflightKeepsBook, OperateKeepsBook DEF Work
  <2>2. CASE ImportOfDocuments \/ Restart
    BY <2>2, UserKeepsBook DEF ImportOfDocuments, Restart
  <2>3. ASSUME NEW d, ChangeStack(d) \/ Save(d) PROVE BookInv'
    BY <2>3, UserKeepsBook DEF ChangeStack, Save, Edit
  <2>4. CASE Dispatch \/ Back \/ SaveSetup \/ (\E s : Show(s)) \/ (\E d : Select(d) \/ OpenRow(d))
               \/ (\E d, s : OpenRelated(d, s)) \/ UNCHANGED homeVars
    BY <2>4, UserKeepsBook
       DEF Dispatch, Back, SaveSetup, Show, Select, OpenRow, OpenRelated, Opened, homeVars, bookVars
  <2>. QED  BY <2>1, <2>2, <2>3, <2>4 DEF HomeNext
<1>. QED  BY <1>1, <1>2, PTL DEF HomeSpec

\* What the page offers is accepted by the task behind it, and the context is ready
\* as far as the page says: a document that has a chunk has all of its pages, so that
\* what holds a document back in the order of the page does in the preflights as well.
THEOREM OffersMayBeTaken == HomeSpec => []OffersAreSound
<1>1. ASSUME StoreOK(book), PageCurrent PROVE OffersAreSound
  <2>1. ASSUME NEW d \in book.docs, RowsOf(book.rows, d) # {} PROVE Whole(book, d)
    BY <1>1, <2>1 DEF StoreOK, RowsOK, RowOK, RowsOf
  <2>2. ASSUME NEW d \in book.docs, ~OcrPending(book, d) PROVE IsOcrCompleted(book, d)
    BY <1>1, <2>2 DEF StoreOK, PagesOK, OcrPending, RequiresOcr, IsOcrCompleted, PendingPages
  <2>3. ASSUME NEW d \in book.docs, Offer(book, routes, d) = "ocr" PROVE OcrAccepted(d, {})
    <3>1. OcrPending(book, d)
      BY <2>3 DEF Offer
    <3>2. OcrRequired(d) /\ ~IsOcrCompleted(book, d)
      BY <3>1 DEF OcrPending, RequiresOcr, OcrRequired, IsOcrCompleted
    <3>3. RowsOf(book.rows, d) = {}
      BY <2>1, <3>2 DEF Whole, IsOcrCompleted, PendingPages
    <3>. QED  BY <3>2, <3>3 DEF OcrAccepted
  <2>4. ASSUME NEW d \in book.docs, Offer(book, routes, d) \notin {"setup", "blocked"}
        PROVE  \A e \in book.docs : e < d => ~Pending(book, e)
    BY <2>4 DEF Offer
  <2>5. ASSUME NEW d \in book.docs, Offer(book, routes, d) = "terms" PROVE ExtractionAccepted(d)
    <3>1. ~OcrPending(book, d) /\ TermsPending(book, d)
      BY <2>5 DEF Offer
    <3>2. \A e \in book.docs : e <= d => IsOcrCompleted(book, e)
      <4>1. book.docs \subseteq Nat
        BY <1>1 DEF StoreOK, BookShape
      <4>2. \A e \in book.docs : e < d => ~OcrPending(book, e)
        BY <2>4, <2>5 DEF Pending
      <4>. QED  BY <2>2, <3>1, <4>1, <4>2
    <3>3. PendingGlossary(book, d, OcrRequired(d))
      <4>1. \A p \in DOMAIN book.page[d] : book.page[d] # <<>>
        OBVIOUS
      <4>2. d <= d
        BY <1>1 DEF StoreOK, BookShape
      <4>. QED  BY <3>1, <3>2, <4>1, <4>2 DEF PendingGlossary, TermsPending, IsTextAdded
    <3>. QED  BY <3>2, <3>3 DEF ExtractionAccepted
  <2>6. ASSUME NEW d \in book.docs, Offer(book, routes, d) = "translation" PROVE TranslationTasks(d) # {}
    <3>1. ~OcrPending(book, d)
      BY <2>6 DEF Offer
    <3>. QED  BY <2>2, <3>1 DEF TranslationTasks
  <2>7. ASSUME NEW d \in book.docs, Offer(book, routes, d) \in Done
        PROVE  IsComplete(book, d) /\ d \in book.added /\ ~Pending(book, d)
    <3>1. /\ ~OcrPending(book, d) /\ ~TermsPending(book, d) /\ ~TranslationPending(book, d)
          /\ RowsOf(book.rows, d) # {}
      BY <2>7 DEF Offer, Done
    <3>2. \E p \in DOMAIN book.page[d] : book.page[d][p].ready
      BY <2>1, <3>1 DEF Whole
    <3>. QED  BY <3>1, <3>2 DEF IsComplete, Pending, TermsPending
  <2>8. ASSUME NEW e \in book.docs, e <= home.frontier PROVE ~Pending(book, e)
    <3>. DEFINE S == {NoDoc} \cup {d \in book.docs : Offer(book, routes, d) \in Done}
    <3>1. S \in SUBSET Nat /\ S # {} /\ book.last \in Nat /\ \A x \in S : x <= book.last
      BY <1>1 DEF StoreOK, BookShape, NoDoc
    <3>2. home.frontier = Max(S)
      BY <1>1 DEF PageCurrent, Frontier
    <3>3. Max(S) \in S
      <4>. HIDE DEF S
      <4>. QED  BY <3>1, MaxIsGreatest
    <3>4. e \in 1..book.last
      BY <1>1 DEF StoreOK, BookShape
    <3>5. home.frontier \in book.docs /\ Offer(book, routes, home.frontier) \in Done
      BY <2>8, <3>1, <3>2, <3>3, <3>4 DEF NoDoc
    <3>6. home.frontier \in Nat
      BY <3>1, <3>2, <3>3
    <3>7. CASE e = home.frontier
      BY <2>7, <3>5, <3>7
    <3>8. CASE e # home.frontier
      <4>1. e < home.frontier
        BY <2>8, <3>4, <3>6, <3>8
      <4>. QED  BY <2>4, <3>5, <4>1 DEF Done
    <3>. QED  BY <3>7, <3>8
  <2>9. DOMAIN home.rows = book.docs /\ \A d \in book.docs : home.rows[d] = Offer(book, routes, d)
    BY <1>1 DEF PageCurrent, Rows
  <2>. QED  BY <2>3, <2>5, <2>6, <2>7, <2>8, <2>9 DEF OffersAreSound, Done
<1>2. HomeInv /\ BookInv => OffersAreSound
  <2>1. ASSUME HomeInv, BookInv, Quiet PROVE OffersAreSound
    BY <1>1, <2>1 DEF HomeInv, BookInv
  <2>2. ~Quiet => OffersAreSound
    BY DEF OffersAreSound
  <2>. QED  BY <2>1, <2>2
<1>. QED  BY <1>2, HomeInvariant, OffersInvariant, PTL


\* A document that the page calls complete has all of its text in its chunks, in a book
\* in which no document follows a scan, and but for a manga, which is cut page by page:
\* the rows of a document are none or all, in whatever order tasks, crashes, resets and
\* corrections came (BookProofs, TextInv).
THEOREM CompleteDocumentsAreWhole == ASSUME KeysDiffer PROVE HomeSpec => []CompleteIsWhole
<1>1. (ScanIsLast => WritesInv /\ TextInv) => CompleteIsWhole
  BY DEF TextInv, DocOK, Beginning, IsComplete, CompleteIsWhole
<1>. QED  BY <1>1, HomeIsBook, TextInvariant, PTL
-----------------------------------------------------------------------------
(* The images tab (ImagesTab), for any images and any number of tasks.     *)

Drawing ==
  [status : {"new", "started", "running", "ended", "stopped", "gone"}, type : {"image", "export"},
   asked : SUBSET Panels, force : BOOLEAN, cancel : BOOLEAN, fresh : SUBSET Panels,
   todo : SUBSET Panels, raised : {0} \cup Panels, end : {"completed", "cancelled", "failed"}]
IsGallery(g) == DOMAIN g = {"shown", "dirty", "listed", "show"}
ImagesTypes ==
  /\ format \in ImageFormats /\ lines \in SUBSET Panels
  /\ drawn \in [Panels -> {"none", "current", "old"}] /\ jobs \in [Works -> Drawing]
  /\ IsGallery(gallery) /\ gallery.show.single \in SUBSET Panels

Lined == {p \in Panels : HasLine(p)}
\* What a task that raised nothing has passed is drawn.
DrawnFor(task, pictures, lined) ==
  task.end = "completed" =>
    \A p \in lined \ task.todo :
      (task.asked = {} \/ p \in task.asked) =>
        pictures[p] # "none" /\ (task.force => pictures[p] = "current")
\* A task that was not told to draw again has the document alone and finds
\* what is left to it as it was when it began.
DrawingOK(task, pictures, lined) ==
  /\ task.status \in {"started", "running", "ended"} => task.force \/ task.asked = {}
  /\ task.status \in {"started", "running"} => (task.raised = 0 <=> task.end = "completed")
  /\ task.status = "running" => task.fresh = Panels
  /\ task.status \in {"running", "ended"} => DrawnFor(task, pictures, lined)
  /\ task.status = "running" /\ ~task.force => \A p \in task.todo : pictures[p] = "none"
  /\ task.status = "ended" /\ task.end = "completed" => task.todo = {}
DrawnApart == \A i, j \in Held : i # j => ~Clashing(jobs[i], jobs[j])
DrawingInv ==
  /\ \A j \in Works : DrawingOK(jobs[j], drawn, Lined)
  /\ DrawnApart /\ ~wasted
ShowsDrawn ==
  ~gallery.dirty /\ ~told /\ (\A j \in Works : jobs[j].status = "running" => ~jobs[j].cancel)
  => gallery.show = ImagesState /\ gallery.listed = Live

LEMMA FirstIsFree ==
  ASSUME Unused # {}
  PROVE  FirstOf(Unused) \in Unused
<1>1. Unused \in SUBSET Nat
  BY PanelsAssumption DEF Unused
<1>2. \E p \in Unused : \A q \in Unused : p <= q
  BY <1>1, MinIsLeast
<1>. QED  BY <1>2 DEF FirstOf

LEMMA OneRow ==
  ASSUME ImagesTypes, NEW j \in Works, NEW task \in Drawing, jobs' = [jobs EXCEPT ![j] = task]
  PROVE  /\ jobs' \in [Works -> Drawing] /\ jobs'[j] = task
         /\ \A i \in Works : i # j => jobs'[i] = jobs[i]
  BY DEF ImagesTypes

\* A task that has passed an image
Passed(task, p) == [task EXCEPT !.todo = @ \ {p}]
LEMMA PassedRow ==
  ASSUME NEW task \in Drawing, NEW p \in Panels, NEW k, k = Passed(task, p)
  PROVE  /\ k \in Drawing /\ k.todo = task.todo \ {p}
         /\ k.status = task.status /\ k.type = task.type /\ k.asked = task.asked /\ k.force = task.force
         /\ k.cancel = task.cancel /\ k.fresh = task.fresh /\ k.raised = task.raised /\ k.end = task.end
  BY DEF Drawing, Passed

LEMMA RaisedRow ==
  ASSUME NEW task \in Drawing, NEW p \in Panels, NEW e \in {"cancelled", "failed"},
         NEW r, r = Passed(Raise(task, p, e), p)
  PROVE  /\ r \in Drawing /\ r.todo = task.todo \ {p}
         /\ r.status = task.status /\ r.type = task.type /\ r.asked = task.asked /\ r.force = task.force
         /\ r.cancel = task.cancel /\ r.fresh = task.fresh
         /\ (task.raised = 0 <=> task.end = "completed") => r.raised # 0 /\ r.end # "completed"
  BY PanelsAssumption DEF Raise, Drawing, Passed

\* One row changes to what has the same claims or none, while no picture changes.
LEMMA RowKeepsDrawing ==
  ASSUME ImagesTypes, DrawingInv, UNCHANGED <<format, lines, drawn, wasted>>,
         NEW j \in Works, NEW task \in Drawing, jobs' = [jobs EXCEPT ![j] = task],
         DrawingOK(task, drawn, Lined),
         task.status \in {"started", "running", "ended"} =>
           \/ j \in Held /\ task.asked = jobs[j].asked
           \/ DocumentFree(task.asked)
  PROVE  DrawingInv'
<1>1. /\ jobs' \in [Works -> Drawing] /\ jobs'[j] = task
      /\ \A i \in Works : i # j => jobs'[i] = jobs[i]
  BY OneRow
<1>2. Lined' = Lined
  BY DEF Lined, HasLine
<1>3. \A i \in Works : DrawingOK(jobs'[i], drawn', Lined')
  BY <1>1, <1>2, Zenon DEF DrawingInv
<1>4. ASSUME NEW i \in Held', NEW k \in Held', i # k
      PROVE  ~Clashing(jobs'[i], jobs'[k])
  <2>1. i \in Works /\ k \in Works
    BY DEF Held
  <2>2. \A m \in Works : m # j => (m \in Held' <=> m \in Held)
    BY <1>1 DEF Held
  <2>3. CASE i # j /\ k # j
    BY <1>1, <1>4, <2>1, <2>2, <2>3 DEF DrawingInv, DrawnApart
  <2>4. j \in Held' => task.status \in {"started", "running", "ended"}
    BY <1>1 DEF Held
  <2>5. CASE i = j
    <3>1. k \in Held /\ jobs'[k] = jobs[k] /\ jobs'[i] = task
      BY <1>1, <1>4, <2>1, <2>2, <2>5
    <3>. QED  BY <1>4, <2>4, <2>5, <3>1 DEF DrawingInv, DrawnApart, DocumentFree, Clashing
  <2>6. CASE k = j
    <3>1. i \in Held /\ jobs'[i] = jobs[i] /\ jobs'[k] = task
      BY <1>1, <1>4, <2>1, <2>2, <2>6
    <3>. QED  BY <1>4, <2>4, <2>6, <3>1 DEF DrawingInv, DrawnApart, DocumentFree, Clashing
  <2>. QED  BY <2>3, <2>5, <2>6
<1>. QED  BY <1>3, <1>4 DEF DrawingInv, DrawnApart

\* A task that starts: the two ways of the tab and the queue
LEMMA StartKeepsDrawing ==
  ASSUME ImagesTypes, DrawingInv, UNCHANGED <<format, lines, drawn, wasted>>, NEW j \in Works,
         NEW targets \in SUBSET Panels, NEW force \in BOOLEAN, MayRun(targets), force \/ targets = {},
         jobs' = [jobs EXCEPT ![j] = [NoDrawing EXCEPT !.status = "started", !.asked = targets, !.force = force]]
  PROVE  jobs' \in [Works -> Drawing] /\ DrawingInv'
<1>. DEFINE r == [NoDrawing EXCEPT !.status = "started", !.asked = targets, !.force = force]
<1>1. /\ r \in Drawing /\ r.status = "started" /\ r.raised = 0 /\ r.end = "completed"
      /\ r.asked = targets /\ r.force = force
  BY DEF NoDrawing, Drawing
<1>. HIDE DEF r
<1>2. DrawingOK(r, drawn, Lined)
  BY <1>1 DEF DrawingOK
<1>3. DocumentFree(r.asked)
  BY <1>1 DEF MayRun
<1>4. jobs' = [jobs EXCEPT ![j] = r]
  BY DEF r
<1>5. jobs' \in [Works -> Drawing]
  BY <1>1, <1>4, OneRow
<1>6. DrawingInv'
  BY <1>1, <1>2, <1>3, <1>4, RowKeepsDrawing
<1>. QED  BY <1>5, <1>6

LEMMA AskKeepsDrawing ==
  ASSUME ImagesTypes, DrawingInv, NEW targets \in SUBSET Panels, NEW force \in BOOLEAN,
         force \/ targets = {}, Ask(targets, force)
  PROVE  jobs' \in [Works -> Drawing] /\ DrawingInv'
<1>1. CASE MayRun(targets)
  <2>1. FirstOf(Unused) \in Works
    BY <1>1, FirstIsFree DEF Ask, Unused
  <2>. QED  BY <1>1, <2>1, StartKeepsDrawing DEF Ask
<1>2. CASE ~MayRun(targets)
  <2>1. UNCHANGED <<format, lines, drawn, wasted, jobs>>
    BY <1>2 DEF Ask
  <2>2. jobs' \in [Works -> Drawing]
    BY <2>1 DEF ImagesTypes
  <2>3. DrawingInv'
    BY <2>1 DEF DrawingInv, DrawnApart, Held, Lined, HasLine
  <2>. QED  BY <2>2, <2>3
<1>. QED  BY <1>1, <1>2

LEMMA CancelKeepsDrawing ==
  ASSUME ImagesTypes, DrawingInv, CancelImages
  PROVE  jobs' \in [Works -> Drawing] /\ DrawingInv'
<1>1. PICK reached \in SUBSET Works :
        jobs' = [j \in Works |-> IF j \in reached THEN [jobs[j] EXCEPT !.cancel = TRUE] ELSE jobs[j]]
  BY DEF CancelImages, Live
<1>2. ASSUME NEW j \in Works
      PROVE  /\ jobs'[j] \in Drawing
             /\ jobs'[j].status = jobs[j].status /\ jobs'[j].asked = jobs[j].asked
             /\ jobs'[j].force = jobs[j].force /\ jobs'[j].fresh = jobs[j].fresh
             /\ jobs'[j].todo = jobs[j].todo /\ jobs'[j].raised = jobs[j].raised
             /\ jobs'[j].end = jobs[j].end
  <2>. DEFINE k == [jobs[j] EXCEPT !.cancel = TRUE]
  <2>1. jobs[j] \in Drawing
    BY DEF ImagesTypes
  <2>2. /\ k \in Drawing
        /\ k.status = jobs[j].status /\ k.asked = jobs[j].asked /\ k.force = jobs[j].force /\ k.fresh = jobs[j].fresh
        /\ k.todo = jobs[j].todo /\ k.raised = jobs[j].raised /\ k.end = jobs[j].end
    BY <2>1 DEF Drawing
  <2>3. jobs'[j] = jobs[j] \/ jobs'[j] = k
    BY <1>1
  <2>. HIDE DEF k
  <2>. QED  BY <2>1, <2>2, <2>3
<1>3. UNCHANGED <<format, lines, drawn, wasted>>
  BY DEF CancelImages
<1>4. Lined' = Lined /\ Held' = Held
  BY <1>2, <1>3 DEF Lined, HasLine, Held
<1>5. \A j \in Works : DrawingOK(jobs'[j], drawn, Lined)
  <2>. TAKE j \in Works
  <2>1. DrawingOK(jobs[j], drawn, Lined)
    BY DEF DrawingInv
  <2>. QED  BY <1>2, <2>1 DEF DrawingOK, DrawnFor
<1>6. DrawnApart'
  <2>. SUFFICES ASSUME NEW i \in Held, NEW k \in Held, i # k PROVE ~Clashing(jobs'[i], jobs'[k])
    BY <1>4 DEF DrawnApart
  <2>1. ~Clashing(jobs[i], jobs[k])
    BY DEF DrawingInv, DrawnApart
  <2>. QED  BY <1>2, <2>1 DEF Clashing, Held
<1>7. jobs' \in [Works -> Drawing]
  BY <1>1, <1>2
<1>8. DrawingInv'
  BY <1>3, <1>4, <1>5, <1>6 DEF DrawingInv
<1>. QED  BY <1>7, <1>8

LEMMA BeginKeepsDrawing ==
  ASSUME ImagesTypes, DrawingInv, NEW j \in Works, BeginJob(j)
  PROVE  jobs' \in [Works -> Drawing] /\ DrawingInv'
<1>1. jobs[j] \in Drawing /\ DrawingOK(jobs[j], drawn, Lined) /\ j \in Held
  BY DEF ImagesTypes, DrawingInv, BeginJob, Held
<1>2. UNCHANGED <<format, lines, drawn, wasted>>
  BY DEF BeginJob, WorkStep
<1>3. CASE jobs[j].cancel
  <2>. DEFINE r == [jobs[j] EXCEPT !.status = "ended", !.end = "cancelled"]
  <2>1. r \in Drawing /\ r.asked = jobs[j].asked /\ r.status = "ended" /\ r.end = "cancelled" /\ r.force = jobs[j].force
    BY <1>1 DEF Drawing
  <2>2. jobs' = [jobs EXCEPT ![j] = r]
    BY <1>3 DEF BeginJob, WorkStep
  <2>. HIDE DEF r
  <2>3. DrawingOK(r, drawn, Lined)
    BY <1>1, <2>1 DEF DrawingOK, DrawnFor, BeginJob
  <2>. QED  BY <1>1, <1>2, <2>1, <2>2, <2>3, OneRow, RowKeepsDrawing
<1>4. CASE ~jobs[j].cancel
  <2>. DEFINE r == [jobs[j] EXCEPT !.status = "running", !.todo = ToDraw(jobs[j]), !.fresh = Panels]
              todo == ToDraw(jobs[j])
  <2>1. todo \in SUBSET Panels
    BY DEF ToDraw
  <2>2. \A p \in Lined \ todo : (jobs[j].asked = {} \/ p \in jobs[j].asked) =>
          drawn[p] # "none" /\ ~jobs[j].force
    BY DEF ToDraw, Lined
  <2>3. ~jobs[j].force => \A p \in todo : drawn[p] = "none"
    BY DEF ToDraw
  <2>4. jobs' = [jobs EXCEPT ![j] = r]
    BY <1>4 DEF BeginJob, WorkStep
  <2>. HIDE DEF todo
  <2>5. /\ r \in Drawing /\ r.asked = jobs[j].asked /\ r.status = "running" /\ r.end = jobs[j].end
        /\ r.force = jobs[j].force /\ r.todo = todo /\ r.fresh = Panels /\ r.raised = jobs[j].raised
    <3>1. r = [jobs[j] EXCEPT !.status = "running", !.todo = todo, !.fresh = Panels]
      BY DEF todo
    <3>. QED  BY <1>1, <2>1, <3>1 DEF Drawing
  <2>. HIDE DEF r
  <2>6. DrawingOK(r, drawn, Lined)
    BY <1>1, <2>2, <2>3, <2>5 DEF DrawingOK, DrawnFor, BeginJob
  <2>. QED  BY <1>1, <1>2, <2>4, <2>5, <2>6, OneRow, RowKeepsDrawing
<1>. QED  BY <1>3, <1>4

LEMMA EndKeepsDrawing ==
  ASSUME ImagesTypes, DrawingInv, NEW j \in Works, EndJob(j)
  PROVE  jobs' \in [Works -> Drawing] /\ DrawingInv'
<1>1. jobs[j] \in Drawing /\ DrawingOK(jobs[j], drawn, Lined) /\ j \in Held
  BY DEF ImagesTypes, DrawingInv, EndJob, Held
<1>2. UNCHANGED <<format, lines, drawn, wasted>>
  BY DEF EndJob, WorkStep
<1>. DEFINE r == [jobs[j] EXCEPT !.status = "ended", !.raised = 0, !.fresh = {}]
<1>3. /\ r \in Drawing /\ r.asked = jobs[j].asked /\ r.status = "ended" /\ r.end = jobs[j].end
      /\ r.force = jobs[j].force /\ r.todo = jobs[j].todo
  BY <1>1 DEF Drawing
<1>4. jobs' = [jobs EXCEPT ![j] = r]
  BY DEF EndJob, WorkStep
<1>. HIDE DEF r
<1>5. DrawingOK(r, drawn, Lined)
  BY <1>1, <1>3 DEF DrawingOK, DrawnFor, EndJob
<1>. QED  BY <1>1, <1>2, <1>3, <1>4, <1>5, OneRow, RowKeepsDrawing

LEMMA ReleaseKeepsDrawing ==
  ASSUME ImagesTypes, DrawingInv, NEW j \in Works, ReleaseJob(j)
  PROVE  jobs' \in [Works -> Drawing] /\ DrawingInv'
<1>1. jobs[j] \in Drawing
  BY DEF ImagesTypes
<1>2. UNCHANGED <<format, lines, drawn, wasted>>
  BY DEF ReleaseJob, WorkStep
<1>3. PICK r : /\ jobs' = [jobs EXCEPT ![j] = r]
               /\ r = [NoDrawing EXCEPT !.status = IF jobs[j].end = "completed" THEN "gone" ELSE "stopped",
                         !.type = jobs[j].type, !.asked = jobs[j].asked]
  BY DEF ReleaseJob, WorkStep
<1>4. r \in Drawing /\ r.status \in {"gone", "stopped"}
  <2>. DEFINE st == IF jobs[j].end = "completed" THEN "gone" ELSE "stopped"
  <2>1. st \in {"gone", "stopped"} /\ r = [NoDrawing EXCEPT !.status = st, !.type = jobs[j].type, !.asked = jobs[j].asked]
    BY <1>3
  <2>. HIDE DEF st
  <2>2. ASSUME NEW d \in Drawing, NEW ty \in {"image", "export"}, NEW ps \in SUBSET Panels,
               NEW k, k = [d EXCEPT !.status = st, !.type = ty, !.asked = ps]
        PROVE  k \in Drawing /\ k.status = st
    BY <2>1, <2>2 DEF Drawing
  <2>3. jobs[j].type \in {"image", "export"} /\ jobs[j].asked \in SUBSET Panels
    BY <1>1 DEF Drawing
  <2>4. NoDrawing \in Drawing
    BY DEF NoDrawing, Drawing
  <2>. QED  BY <2>1, <2>2, <2>3, <2>4
<1>5. DrawingOK(r, drawn, Lined)
  BY <1>4 DEF DrawingOK
<1>. QED  BY <1>2, <1>3, <1>4, <1>5, OneRow, RowKeepsDrawing

LEMMA AgainKeepsDrawing ==
  ASSUME ImagesTypes, DrawingInv, NEW j \in Works, RunAgain(j)
  PROVE  jobs' \in [Works -> Drawing] /\ DrawingInv'
<1>1. jobs[j].asked \in SUBSET Panels
  BY DEF ImagesTypes, Drawing
<1>. QED  BY <1>1, StartKeepsDrawing DEF RunAgain, WorkStep

\* An image is passed over by its task: there is a result that says so.
LEMMA RaiseKeepsDrawing ==
  ASSUME ImagesTypes, DrawingInv, NEW j \in Works, NEW p \in Panels, NEW e \in {"cancelled", "failed"},
         Turn(j, p, Raise(jobs[j], p, e)), UNCHANGED <<drawn, wasted>>
  PROVE  jobs' \in [Works -> Drawing] /\ DrawingInv'
<1>1. jobs[j] \in Drawing /\ DrawingOK(jobs[j], drawn, Lined) /\ j \in Held
  BY DEF ImagesTypes, DrawingInv, Turn, Held
<1>2. UNCHANGED <<format, lines, drawn, wasted>>
  BY DEF Turn, WorkStep
<1>. DEFINE r == [Raise(jobs[j], p, e) EXCEPT !.todo = @ \ {p}]
<1>3. /\ r \in Drawing /\ r.asked = jobs[j].asked /\ r.status = jobs[j].status /\ r.fresh = jobs[j].fresh
      /\ r.force = jobs[j].force /\ r.todo = jobs[j].todo \ {p}
      /\ (jobs[j].raised = 0 <=> jobs[j].end = "completed") => r.raised # 0 /\ r.end # "completed"
  <2>1. r = Passed(Raise(jobs[j], p, e), p)
    BY DEF Passed
  <2>. HIDE DEF r
  <2>. QED  BY <1>1, <2>1, RaisedRow
<1>4. jobs' = [jobs EXCEPT ![j] = r]
  BY DEF Turn, WorkStep
<1>. HIDE DEF r
<1>5. DrawingOK(r, drawn, Lined)
  BY <1>1, <1>3 DEF DrawingOK, DrawnFor, Turn
<1>. QED  BY <1>1, <1>2, <1>3, <1>4, <1>5, OneRow, RowKeepsDrawing

LEMMA DrawKeepsDrawing ==
  ASSUME ImagesTypes, DrawingInv, NEW j \in Works, NEW p \in Panels, DrawImage(j, p)
  PROVE  /\ jobs' \in [Works -> Drawing] /\ DrawingInv'
         /\ drawn' \in [Panels -> {"none", "current", "old"}]
<1>1. /\ jobs[j] \in Drawing /\ DrawingOK(jobs[j], drawn, Lined) /\ j \in Held
      /\ jobs[j].status = "running" /\ p \in jobs[j].todo
  BY DEF ImagesTypes, DrawingInv, DrawImage, Turn, Held
<1>2. UNCHANGED <<format, lines>> /\ Lined' = Lined
  BY DEF DrawImage, Turn, WorkStep, Lined, HasLine
<1>3. drawn' = [drawn EXCEPT ![p] = "current"]
  BY <1>1 DEF DrawImage, DrawingOK
<1>4. drawn' \in [Panels -> {"none", "current", "old"}]
  BY <1>3 DEF ImagesTypes
<1>5. ~wasted'
  BY <1>1 DEF DrawImage, DrawingOK, DrawingInv
<1>. DEFINE r == [(IF jobs[j].cancel THEN Raise(jobs[j], p, "cancelled") ELSE jobs[j]) EXCEPT !.todo = @ \ {p}]
<1>6. /\ r \in Drawing /\ r.asked = jobs[j].asked /\ r.status = jobs[j].status /\ r.fresh = jobs[j].fresh
      /\ r.force = jobs[j].force /\ r.todo = jobs[j].todo \ {p}
      /\ r.raised = 0 <=> r.end = "completed"
      /\ r.end = "completed" => jobs[j].end = "completed"
  <2>1. jobs[j].raised = 0 <=> jobs[j].end = "completed"
    BY <1>1 DEF DrawingOK
  <2>2. CASE jobs[j].cancel
    <3>1. r = Passed(Raise(jobs[j], p, "cancelled"), p)
      BY <2>2 DEF Passed
    <3>. HIDE DEF r
    <3>. QED  BY <1>1, <2>1, <3>1, RaisedRow
  <2>3. CASE ~jobs[j].cancel
    <3>1. r = Passed(jobs[j], p)
      BY <2>3 DEF Passed
    <3>. HIDE DEF r
    <3>. QED  BY <1>1, <2>1, <3>1, PassedRow
  <2>. QED  BY <2>2, <2>3
<1>7. jobs' = [jobs EXCEPT ![j] = r]
  BY DEF DrawImage, Turn, WorkStep
<1>. HIDE DEF r
<1>8. /\ jobs' \in [Works -> Drawing] /\ jobs'[j] = r
      /\ \A i \in Works : i # j => jobs'[i] = jobs[i]
  BY <1>6, <1>7, OneRow
<1>9. DrawingOK(r, drawn', Lined)
  BY <1>1, <1>3, <1>6 DEF DrawingOK, DrawnFor, ImagesTypes, Lined
<1>10. ASSUME NEW i \in Works, i # j PROVE DrawingOK(jobs[i], drawn', Lined)
  <2>1. DrawingOK(jobs[i], drawn, Lined)
    BY DEF DrawingInv
  <2>2. CASE i \in Held
    <3>1. ~Clashing(jobs[i], jobs[j])
      BY <1>1, <1>10, <2>2 DEF DrawingInv, DrawnApart
    <3>2. jobs[i].force
      BY <2>1, <2>2, <3>1 DEF DrawingOK, Held, Clashing
    <3>. QED  BY <1>3, <2>1, <3>2 DEF DrawingOK, DrawnFor, ImagesTypes, Lined
  <2>3. CASE i \notin Held
    BY <2>3 DEF DrawingOK, Held
  <2>. QED  BY <2>2, <2>3
<1>11. Held' = Held
  BY <1>1, <1>6, <1>8 DEF Held
<1>12. DrawnApart'
  <2>. SUFFICES ASSUME NEW i \in Held, NEW k \in Held, i # k PROVE ~Clashing(jobs'[i], jobs'[k])
    BY <1>11 DEF DrawnApart
  <2>1. ~Clashing(jobs[i], jobs[k])
    BY DEF DrawingInv, DrawnApart
  <2>2. jobs'[i].asked = jobs[i].asked /\ jobs'[k].asked = jobs[k].asked
    BY <1>6, <1>8 DEF Held
  <2>. QED  BY <2>1, <2>2 DEF Clashing
<1>13. \A i \in Works : DrawingOK(jobs'[i], drawn', Lined')
  BY <1>2, <1>8, <1>9, <1>10
<1>. QED  BY <1>4, <1>5, <1>8, <1>12, <1>13 DEF DrawingInv

\* Nobody is at work while the lines change, and no picture goes away.
LEMMA RestKeepsDrawing ==
  ASSUME ImagesTypes, DrawingInv, Held = {}, jobs' \in [Works -> Drawing], wasted' = wasted,
         \A j \in Works : jobs'[j].status = jobs[j].status
  PROVE  DrawingInv'
<1>1. Held' = {}
  BY DEF Held
<1>2. \A j \in Works : jobs'[j].status \notin {"started", "running", "ended"}
  BY <1>1 DEF Held
<1>3. \A j \in Works : DrawingOK(jobs'[j], drawn', Lined')
  BY <1>2 DEF DrawingOK
<1>4. DrawnApart'
  BY <1>1 DEF DrawnApart
<1>. QED  BY <1>3, <1>4 DEF DrawingInv

LEMMA RelinedIsTyped ==
  ASSUME ImagesTypes, NEW ps, Relined(ps)
  PROVE  drawn' \in [Panels -> {"none", "current", "old"}]
  BY DEF ImagesTypes, Relined

LEMMA LinesKeepDrawing ==
  ASSUME ImagesTypes, DrawingInv, TranslateLines \/ ResetLines \/ \E p \in Panels : EditLine(p)
  PROVE  /\ jobs' \in [Works -> Drawing] /\ DrawingInv'
         /\ lines' \in SUBSET Panels /\ drawn' \in [Panels -> {"none", "current", "old"}]
<1>1. Held = {} /\ wasted' = wasted
  BY DEF TranslateLines, ResetLines, EditLine, SaveIsFree
<1>2. lines' \in SUBSET Panels
  BY DEF TranslateLines, ResetLines, EditLine, ImagesTypes
<1>3. drawn' \in [Panels -> {"none", "current", "old"}]
  BY RelinedIsTyped DEF TranslateLines, ResetLines, EditLine
<1>4. /\ jobs' \in [Works -> Drawing]
      /\ \A j \in Works : jobs'[j].status = jobs[j].status
  <2>1. CASE TranslateLines \/ ResetLines
    BY <2>1 DEF TranslateLines, ResetLines, ImagesTypes
  <2>2. CASE \E p \in Panels : EditLine(p)
    BY <2>2 DEF EditLine, Unread, ImagesTypes, Drawing
  <2>. QED  BY <2>1, <2>2
<1>. QED  BY <1>1, <1>2, <1>3, <1>4, RestKeepsDrawing

LEMMA ExportKeepsDrawing ==
  ASSUME ImagesTypes, DrawingInv, NEW j \in Works, ExportDraws(j)
  PROVE  jobs' \in [Works -> Drawing] /\ DrawingInv'
<1>. DEFINE r == [NoDrawing EXCEPT !.status = "started", !.type = "export"]
<1>1. r \in Drawing /\ r.status = "started" /\ r.asked = {} /\ r.raised = 0 /\ r.end = "completed"
  BY DEF NoDrawing, Drawing
<1>2. jobs' = [jobs EXCEPT ![j] = r] /\ Held = {} /\ wasted' = wasted
  BY DEF ExportDraws
<1>. HIDE DEF r
<1>3. /\ jobs' \in [Works -> Drawing] /\ jobs'[j] = r
      /\ \A i \in Works : i # j => jobs'[i] = jobs[i]
  BY <1>1, <1>2, OneRow
<1>4. ASSUME NEW i \in Works PROVE DrawingOK(jobs'[i], drawn', Lined')
  <2>1. CASE i = j
    BY <1>1, <1>3, <2>1 DEF DrawingOK
  <2>2. CASE i # j
    BY <1>2, <1>3, <2>2 DEF DrawingOK, Held
  <2>. QED  BY <2>1, <2>2
<1>5. Held' \subseteq {j}
  BY <1>2, <1>3 DEF Held
<1>6. DrawnApart'
  BY <1>5 DEF DrawnApart
<1>. QED  BY <1>2, <1>3, <1>4, <1>6 DEF DrawingInv

-----------------------------------------------------------------------------
\* What the tab offers is offered for the images there are.
LEMMA GalleryTyped ==
  ASSUME ImagesTypes, [ImagesNext]_imagesVars
  PROVE  IsGallery(gallery') /\ gallery'.show.single \in SUBSET Panels
<1>1. ImagesState.single \in SUBSET Panels /\ ImagesState'.single \in SUBSET Panels /\ NoShow.single \in SUBSET Panels
  BY DEF ImagesState, Assets, NoShow
<1>2. IsGallery(gallery) /\ gallery.show.single \in SUBSET Panels
  BY DEF ImagesTypes
<1>3. ASSUME NEW g, IsGallery(g), NEW s, s.single \in SUBSET Panels, NEW l
      PROVE  IsGallery(Fetched(g, s, l)) /\ Fetched(g, s, l).show.single \in SUBSET Panels
  BY <1>3 DEF IsGallery, Fetched
<1>4. ASSUME NEW g, IsGallery(g), g.show.single \in SUBSET Panels
      PROVE  /\ IsGallery([g EXCEPT !.shown = TRUE, !.dirty = FALSE])
             /\ [g EXCEPT !.shown = TRUE, !.dirty = FALSE].show.single \in SUBSET Panels
             /\ IsGallery([g EXCEPT !.shown = FALSE]) /\ [g EXCEPT !.shown = FALSE].show.single \in SUBSET Panels
             /\ IsGallery(Outdated(g)) /\ Outdated(g).show.single \in SUBSET Panels
  BY <1>1, <1>4 DEF IsGallery, Outdated
<1>. HIDE DEF ImagesState, NoShow
<1>5. CASE ShowGallery
  <2>1. CASE gallery.dirty
    BY <1>1, <1>2, <1>3, <1>4, <1>5, <2>1 DEF ShowGallery
  <2>2. CASE ~gallery.dirty
    BY <1>2, <1>4, <1>5, <2>2 DEF ShowGallery
  <2>. QED  BY <2>1, <2>2
<1>6. CASE LeaveGallery
  BY <1>2, <1>4, <1>6 DEF LeaveGallery
<1>7. CASE RunSelected \/ RunPendingImages \/ ForceAll \/ CancelImages
  <2>1. RefreshGallery
    BY <1>7 DEF RunSelected, RunPendingImages, ForceAll, CancelImages, Ask
  <2>. QED  BY <1>1, <1>2, <1>3, <2>1 DEF RefreshGallery
<1>8. CASE TellGallery
  BY <1>1, <1>2, <1>3, <1>4, <1>8 DEF TellGallery
<1>9. CASE \E p \in Panels : EditLine(p)
  BY <1>2, <1>4, <1>9 DEF EditLine
<1>10. ASSUME gallery' = gallery PROVE IsGallery(gallery') /\ gallery'.show.single \in SUBSET Panels
  BY <1>2, <1>10
<1>11. CASE TranslateLines \/ ResetLines
  BY <1>10, <1>11 DEF TranslateLines, ResetLines
<1>12. ASSUME NEW j \in Works, \/ RunAgain(j) \/ BeginJob(j) \/ EndJob(j) \/ ReleaseJob(j) \/ ExportDraws(j)
                      \/ \E p \in Panels : DrawImage(j, p) \/ HaltImage(j, p) \/ FailImage(j, p)
       PROVE gallery' = gallery
  BY <1>12 DEF RunAgain, BeginJob, EndJob, ReleaseJob, ExportDraws, DrawImage, HaltImage, FailImage, Turn, WorkStep
<1>13. CASE UNCHANGED imagesVars
  BY <1>10, <1>13 DEF imagesVars
<1>. QED  BY <1>5, <1>6, <1>7, <1>8, <1>9, <1>10, <1>11, <1>12, <1>13 DEF ImagesNext

LEMMA DrawingStep ==
  ASSUME ImagesTypes, DrawingInv, [ImagesNext]_imagesVars
  PROVE  ImagesTypes' /\ DrawingInv'
<1>. DEFINE Pictures == {"none", "current", "old"}
            Kept == /\ jobs' \in [Works -> Drawing] /\ DrawingInv'
                    /\ format' = format /\ lines' \in SUBSET Panels /\ drawn' \in [Panels -> Pictures]
<1>1. /\ format \in ImageFormats /\ lines \in SUBSET Panels /\ drawn \in [Panels -> Pictures]
      /\ jobs \in [Works -> Drawing]
  BY DEF ImagesTypes
<1>. SUFFICES Kept
  BY <1>1, GalleryTyped DEF ImagesTypes
<1>. HIDE DEF Kept
<1>2. ASSUME UNCHANGED <<format, lines, drawn, jobs, wasted>> PROVE Kept
  BY <1>1, <1>2 DEF Kept, DrawingInv, DrawnApart, Held, Lined, HasLine
<1>3. ASSUME UNCHANGED <<format, lines, drawn>>, jobs' \in [Works -> Drawing] /\ DrawingInv' PROVE Kept
  BY <1>1, <1>3 DEF Kept
<1>4. CASE ShowGallery \/ LeaveGallery \/ TellGallery \/ UNCHANGED imagesVars
  BY <1>2, <1>4 DEF ShowGallery, LeaveGallery, TellGallery, imagesVars
<1>5. ASSUME NEW targets \in SUBSET Panels, NEW force \in BOOLEAN, force \/ targets = {}, Ask(targets, force) PROVE Kept
  BY <1>3, <1>5, AskKeepsDrawing DEF Ask
<1>6. CASE RunSelected
  <2>1. PICK p \in Panels : Ask({p}, TRUE)
    BY <1>6 DEF RunSelected, ImagesTypes
  <2>2. {p} \in SUBSET Panels
    OBVIOUS
  <2>. QED  BY <1>5, <2>1, <2>2
<1>7. CASE RunPendingImages
  BY <1>5, <1>7 DEF RunPendingImages
<1>8. CASE ForceAll
  BY <1>5, <1>8 DEF ForceAll
<1>9. CASE CancelImages
  BY <1>3, <1>9, CancelKeepsDrawing DEF CancelImages
<1>10. CASE TranslateLines \/ ResetLines \/ \E p \in Panels : EditLine(p)
  <2>1. format' = format
    BY <1>10 DEF TranslateLines, ResetLines, EditLine
  <2>. QED  BY <1>10, <2>1, LinesKeepDrawing DEF Kept
<1>11. ASSUME NEW j \in Works, RunAgain(j) \/ BeginJob(j) \/ EndJob(j) \/ ReleaseJob(j) PROVE Kept
  <2>1. UNCHANGED <<format, lines, drawn>>
    BY <1>11 DEF RunAgain, BeginJob, EndJob, ReleaseJob, WorkStep
  <2>2. jobs' \in [Works -> Drawing] /\ DrawingInv'
    BY <1>11, AgainKeepsDrawing, BeginKeepsDrawing, EndKeepsDrawing, ReleaseKeepsDrawing
  <2>. QED  BY <1>3, <2>1, <2>2
<1>12. ASSUME NEW j \in Works, ExportDraws(j) PROVE Kept
  BY <1>1, <1>12, ExportKeepsDrawing DEF Kept, ExportDraws
<1>13. ASSUME NEW j \in Works, NEW p \in Panels, HaltImage(j, p) \/ FailImage(j, p) PROVE Kept
  <2>1. UNCHANGED <<format, lines, drawn, wasted>>
    BY <1>13 DEF HaltImage, FailImage, Turn, WorkStep
  <2>2. Turn(j, p, Raise(jobs[j], p, "cancelled")) \/ Turn(j, p, Raise(jobs[j], p, "failed"))
    BY <1>13 DEF HaltImage, FailImage
  <2>3. jobs' \in [Works -> Drawing] /\ DrawingInv'
    BY <2>1, <2>2, RaiseKeepsDrawing
  <2>. QED  BY <1>3, <2>1, <2>3
<1>14. ASSUME NEW j \in Works, NEW p \in Panels, DrawImage(j, p) PROVE Kept
  BY <1>1, <1>14, DrawKeepsDrawing DEF Kept, DrawImage, Turn, WorkStep
<1>. QED  BY <1>4, <1>6, <1>7, <1>8, <1>9, <1>10, <1>11, <1>12, <1>13, <1>14 DEF ImagesNext

\* What the service says of the document depends on who has it and for what.
LEMMA SameDocument ==
  ASSUME UNCHANGED <<format, lines, drawn>>,
         \A j \in Works : jobs'[j].status = jobs[j].status /\ jobs'[j].asked = jobs[j].asked
  PROVE  ImagesState' = ImagesState /\ Live' = Live
<1>1. Live' = Live /\ Held' = Held /\ Live \subseteq Works /\ Held \subseteq Works
  BY DEF Live, Held
<1>2. ASSUME NEW p PROVE HasLine(p)' = HasLine(p)
  BY DEF HasLine
<1>3. Assets' = Assets
  BY <1>2 DEF Assets
<1>4. ASSUME NEW p PROVE AssetStatus(p)' = AssetStatus(p)
  <2>1. AtWork(p)' <=> AtWork(p)
    BY <1>1 DEF AtWork
  <2>. QED  BY <2>1 DEF AssetStatus
<1>5. ASSUME NEW a PROVE MayRun(a)' = MayRun(a)
  BY <1>1 DEF MayRun, DocumentFree, Clashing
<1>6. ASSUME NEW p PROVE MayRun(IF Live = {} THEN {} ELSE {p})' = MayRun(IF Live = {} THEN {} ELSE {p})
  BY <1>1, <1>5
<1>. DEFINE assets == [p \in Assets |-> [status |-> AssetStatus(p), picture |-> drawn[p] # "none"]]
            single == IF format = "scan" THEN {} ELSE {p \in Assets : MayRun(IF Live = {} THEN {} ELSE {p})}
            pending == MayRun({}) /\ \E p \in Assets : AssetStatus(p) # "done"
            all == Assets # {} /\ MayRun({})
<1>7. assets' = assets
  BY <1>3, <1>4
<1>8. single' = single
  BY <1>3, <1>6
<1>9. pending' = pending /\ all' = all
  BY <1>3, <1>4, <1>5
<1>10. ImagesState = [assets |-> assets, single |-> single, pending |-> pending, all |-> all]
  BY DEF ImagesState
<1>11. ImagesState' = [assets |-> assets', single |-> single', pending |-> pending', all |-> all']
  BY DEF ImagesState
<1>. HIDE DEF assets, single, pending, all
<1>. QED  BY <1>1, <1>7, <1>8, <1>9, <1>10, <1>11

LEMMA GalleryStep ==
  ASSUME ImagesTypes, ShowsDrawn, [ImagesNext]_imagesVars
  PROVE  ShowsDrawn'
<1>1. IsGallery(gallery)
  BY DEF ImagesTypes
<1>2. ASSUME NEW g, IsGallery(g), NEW s, NEW l
      PROVE  /\ Fetched(g, s, l).show = s /\ Fetched(g, s, l).listed = l /\ Fetched(g, s, l).dirty = g.dirty
             /\ IsGallery(Fetched(g, s, l)) /\ Outdated(g).dirty
  BY <1>2 DEF Fetched, IsGallery, Outdated
<1>3. ASSUME NEW g, IsGallery(g)
      PROVE  /\ [g EXCEPT !.shown = TRUE, !.dirty = FALSE].show = g.show
             /\ [g EXCEPT !.shown = TRUE, !.dirty = FALSE].listed = g.listed
             /\ [g EXCEPT !.shown = FALSE].show = g.show
             /\ [g EXCEPT !.shown = FALSE].listed = g.listed
             /\ [g EXCEPT !.shown = FALSE].dirty = g.dirty
  BY <1>3 DEF IsGallery
<1>4. ASSUME UNCHANGED <<format, lines, drawn, jobs>> PROVE ImagesState' = ImagesState /\ Live' = Live
  BY <1>4, SameDocument
<1>. DEFINE Waits(js) == \E j \in Works : js[j].status = "running" /\ js[j].cancel
<1>5. ASSUME gallery'.show = ImagesState', gallery'.listed = Live' PROVE ShowsDrawn'
  BY <1>5 DEF ShowsDrawn
<1>6. ASSUME gallery' = gallery, Told PROVE ShowsDrawn'
  BY <1>6 DEF ShowsDrawn, Told
<1>7. ASSUME Waits(jobs') PROVE ShowsDrawn'
  BY <1>7 DEF ShowsDrawn
<1>8. CASE ShowGallery
  <2>1. ImagesState' = ImagesState /\ Live' = Live /\ jobs' = jobs /\ told' = told
    BY <1>4, <1>8 DEF ShowGallery
  <2>2. CASE gallery.dirty
    <3>1. gallery' = [Fetched(gallery, ImagesState, Live) EXCEPT !.shown = TRUE, !.dirty = FALSE]
      BY <1>8, <2>2 DEF ShowGallery
    <3>2. gallery'.show = ImagesState /\ gallery'.listed = Live
      BY <1>1, <1>2, <1>3, <3>1
    <3>. QED  BY <1>5, <2>1, <3>2
  <2>3. CASE ~gallery.dirty
    <3>1. gallery'.show = gallery.show /\ gallery'.listed = gallery.listed
      BY <1>1, <1>3, <1>8, <2>3 DEF ShowGallery
    <3>. QED  BY <2>1, <2>3, <3>1 DEF ShowsDrawn
  <2>. QED  BY <2>2, <2>3
<1>9. CASE LeaveGallery
  <2>1. ImagesState' = ImagesState /\ Live' = Live /\ jobs' = jobs /\ told' = told
    BY <1>4, <1>9 DEF LeaveGallery
  <2>2. gallery'.show = gallery.show /\ gallery'.listed = gallery.listed /\ gallery'.dirty = gallery.dirty
    BY <1>1, <1>3, <1>9 DEF LeaveGallery
  <2>. QED  BY <2>1, <2>2 DEF ShowsDrawn
<1>10. CASE RunSelected \/ RunPendingImages \/ ForceAll \/ CancelImages
  <2>1. gallery' = Fetched(gallery, ImagesState', Live')
    BY <1>10 DEF RunSelected, RunPendingImages, ForceAll, CancelImages, Ask, RefreshGallery
  <2>. QED  BY <1>1, <1>2, <1>5, <2>1
<1>11. CASE TellGallery
  <2>1. ImagesState' = ImagesState /\ Live' = Live
    BY <1>4, <1>11 DEF TellGallery
  <2>2. CASE gallery.shown
    <3>1. gallery' = Fetched(gallery, ImagesState, Live)
      BY <1>11, <2>2 DEF TellGallery
    <3>. QED  BY <1>1, <1>2, <1>5, <2>1, <3>1
  <2>3. CASE ~gallery.shown
    <3>1. gallery'.dirty
      BY <1>1, <1>2, <1>11, <2>3 DEF TellGallery
    <3>. QED  BY <3>1 DEF ShowsDrawn
  <2>. QED  BY <2>2, <2>3
<1>12. CASE \E p \in Panels : EditLine(p)
  <2>1. gallery'.dirty
    BY <1>1, <1>2, <1>12 DEF EditLine
  <2>. QED  BY <2>1 DEF ShowsDrawn
<1>13. CASE TranslateLines \/ ResetLines
  BY <1>6, <1>13 DEF TranslateLines, ResetLines
<1>14. ASSUME NEW j \in Works, RunAgain(j) \/ BeginJob(j) \/ EndJob(j) \/ ReleaseJob(j) \/ ExportDraws(j)
       PROVE ShowsDrawn'
  BY <1>6, <1>14 DEF RunAgain, BeginJob, EndJob, ReleaseJob, ExportDraws, WorkStep
\* A cancelled task of which an image comes back is still to say that it ends.
<1>15. ASSUME NEW j \in Works, NEW p \in Panels, NEW task \in Drawing, Turn(j, p, task),
              task.status = jobs[j].status, task.cancel = jobs[j].cancel, jobs[j].cancel
       PROVE  ShowsDrawn'
  <2>1. Passed(task, p).status = jobs[j].status /\ Passed(task, p).cancel = jobs[j].cancel /\ Passed(task, p) \in Drawing
    BY <1>15, PassedRow
  <2>2. jobs' = [jobs EXCEPT ![j] = Passed(task, p)]
    BY <1>15 DEF Turn, WorkStep, Passed
  <2>3. jobs'[j] = Passed(task, p)
    BY <2>1, <2>2, OneRow
  <2>4. Waits(jobs')
    BY <1>15, <2>1, <2>3 DEF Turn
  <2>. QED  BY <1>7, <2>4
<1>16. ASSUME NEW j \in Works, NEW e \in {"cancelled", "failed"}, NEW p \in Panels
       PROVE  /\ Raise(jobs[j], p, e) \in Drawing /\ Raise(jobs[j], p, e).status = jobs[j].status
              /\ Raise(jobs[j], p, e).asked = jobs[j].asked /\ Raise(jobs[j], p, e).cancel = jobs[j].cancel
  <2>1. jobs[j] \in Drawing
    BY DEF ImagesTypes
  <2>. QED  BY <2>1, PanelsAssumption DEF Drawing, Raise
<1>17. ASSUME NEW j \in Works, NEW p \in Panels, DrawImage(j, p) PROVE ShowsDrawn'
  <2>1. CASE jobs[j].cancel
    BY <1>15, <1>16, <1>17, <2>1 DEF DrawImage
  <2>2. CASE ~jobs[j].cancel
    BY <1>6, <1>17, <2>2 DEF DrawImage, Turn, WorkStep
  <2>. QED  BY <2>1, <2>2
<1>18. ASSUME NEW j \in Works, NEW p \in Panels, HaltImage(j, p) PROVE ShowsDrawn'
  BY <1>15, <1>16, <1>18 DEF HaltImage
<1>19. ASSUME NEW j \in Works, NEW p \in Panels, FailImage(j, p) PROVE ShowsDrawn'
  <2>1. UNCHANGED <<format, lines, drawn, gallery, told>>
    BY <1>19 DEF FailImage, Turn, WorkStep
  <2>. DEFINE r == Passed(Raise(jobs[j], p, "failed"), p)
  <2>2. jobs' = [jobs EXCEPT ![j] = r]
    BY <1>19 DEF FailImage, Turn, WorkStep, Passed
  <2>3. r \in Drawing /\ r.status = jobs[j].status /\ r.asked = jobs[j].asked /\ r.cancel = jobs[j].cancel
    BY <1>16, PassedRow
  <2>. HIDE DEF r
  <2>4. \A i \in Works : /\ jobs'[i].status = jobs[i].status /\ jobs'[i].asked = jobs[i].asked
                         /\ jobs'[i].cancel = jobs[i].cancel
    BY <2>2, <2>3, OneRow
  <2>5. ImagesState' = ImagesState /\ Live' = Live
    BY <2>1, <2>4, SameDocument
  <2>. QED  BY <2>1, <2>4, <2>5 DEF ShowsDrawn
<1>20. CASE UNCHANGED imagesVars
  <2>1. ImagesState' = ImagesState /\ Live' = Live /\ UNCHANGED <<jobs, told, gallery>>
    BY <1>4, <1>20 DEF imagesVars
  <2>. QED  BY <2>1 DEF ShowsDrawn
<1>. QED  BY <1>8, <1>9, <1>10, <1>11, <1>12, <1>13, <1>14, <1>17, <1>18, <1>19, <1>20 DEF ImagesNext

\* Any behaviour of the images tab keeps the three parts.
LEMMA ImagesInvariant == ImagesSpec => [](ImagesTypes /\ DrawingInv /\ ShowsDrawn)
<1>1. ImagesInit => ImagesTypes /\ DrawingInv /\ ShowsDrawn
  <2>. SUFFICES ASSUME ImagesInit PROVE ImagesTypes /\ DrawingInv /\ ShowsDrawn
    OBVIOUS
  <2>1. NoDrawing \in Drawing /\ NoDrawing.status = "new"
    BY DEF NoDrawing, Drawing
  <2>2. \A j \in Works : jobs[j] = NoDrawing
    BY DEF ImagesInit
  <2>3. ImagesTypes
    BY <2>1 DEF ImagesInit, ImagesTypes, IsGallery, NoShow
  <2>4. Held = {} /\ \A j \in Works : jobs[j].status = "new"
    BY <2>1, <2>2 DEF Held
  <2>5. DrawingInv
    BY <2>4 DEF ImagesInit, DrawingInv, DrawnApart, DrawingOK
  <2>6. ShowsDrawn
    BY DEF ImagesInit, ShowsDrawn
  <2>. QED  BY <2>3, <2>5, <2>6
<1>2. (ImagesTypes /\ DrawingInv /\ ShowsDrawn) /\ [ImagesNext]_imagesVars => (ImagesTypes /\ DrawingInv /\ ShowsDrawn)'
  BY DrawingStep, GalleryStep
<1>. QED  BY <1>1, <1>2, PTL DEF ImagesSpec

\* Among tasks for some images and for all, that are cancelled, fail in part and
\* run again while lines are edited, translated and reset: a task that reports
\* completed has drawn what it was asked for with the lines as they are, and
\* nothing was drawn once more that nobody asked for again.
THEOREM CompletedImagesAreDrawn == ImagesSpec => []ImagesAreDrawn
<1>1. ImagesTypes /\ DrawingInv => ImagesAreDrawn
  <2>. SUFFICES ASSUME ImagesTypes, DrawingInv PROVE CompletedIsDrawn /\ NothingIsDrawnTwice
    BY DEF ImagesAreDrawn
  <2>1. ASSUME NEW j \in Works, jobs[j].status = "ended" /\ jobs[j].end = "completed",
               NEW p \in Panels, jobs[j].asked = {} \/ p \in jobs[j].asked, HasLine(p)
        PROVE  drawn[p] # "none" /\ (jobs[j].force => drawn[p] = "current")
    <3>1. DrawingOK(jobs[j], drawn, Lined) /\ p \in Lined
      BY <2>1 DEF DrawingInv, Lined
    <3>. QED  BY <2>1, <3>1 DEF DrawingOK, DrawnFor
  <2>2. CompletedIsDrawn
    BY <2>1 DEF CompletedIsDrawn
  <2>3. NothingIsDrawnTwice
    BY DEF DrawingInv, NothingIsDrawnTwice
  <2>. QED  BY <2>2, <2>3
<1>. QED  BY <1>1, ImagesInvariant, PTL

\* At rest the tab shows the pictures, their states and what may be done.
THEOREM GalleryShowsWhatIsKept == ImagesSpec => []QuietGalleryIsCurrent
<1>1. ShowsDrawn => QuietGalleryIsCurrent
  BY DEF ShowsDrawn, QuietGalleryIsCurrent
<1>. QED  BY <1>1, ImagesInvariant, PTL

\* Both, of one tab: the pictures are those of their lines, and the tab shows them.
THEOREM GalleryStaysSound == ImagesSpec => []GalleryIsSound
<1>1. ImagesAreDrawn /\ QuietGalleryIsCurrent => GalleryIsSound
  BY DEF GalleryIsSound
<1>. QED  BY <1>1, CompletedImagesAreDrawn, GalleryShowsWhatIsKept, PTL
=============================================================================
