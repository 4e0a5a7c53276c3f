----------------------------- MODULE ImportPane -----------------------------
(***************************************************************************)
(* The import at the top of a project's home page (work_view.py,           *)
(* workflow/ops/import_support.py, can_import of the document classes):    *)
(* files are chosen and looked at, the user settles what they are, and the *)
(* import looks at them again, as they are by then.                        *)
(***************************************************************************)
EXTENDS Naturals, FiniteSets, Sequences, SequencesExt

CONSTANTS
  Files,      \* files on the user's disk
  FileKinds   \* what such a file may be

AllKinds == {"text", "image", "subtitle", "pdf", "cbz", "epub"}
ASSUME ImportAssumption == FileKinds \subseteq AllKinds

VARIABLES
  disk,      \* what each file is now, or Gone
  blocked,   \* a task of the project holds claims on its documents
  chosen,    \* the page: [files, folder, options, type, unwrap]
  asked,     \* the files that the user last asked to have unwrapped
  imported   \* the last import: [kinds, type, unwrap, asked], kinds of the files it took

importVars == <<disk, blocked, chosen, asked, imported>>

Gone == "gone"
NoType == "none"
NothingChosen == [files |-> {}, folder |-> FALSE, options |-> <<>>, type |-> NoType, unwrap |-> FALSE]
NothingImported == [kinds |-> <<>>, type |-> NoType, unwrap |-> FALSE, asked |-> {}]

\* _HARD_WRAP_IMPORT_TYPES
HardWrapTypes == {"text", "epub"}

-----------------------------------------------------------------------------
\* can_import of a single file, in the order of get_document_classes
TypesOfFile(k) ==
  CASE k = "image" -> <<"scanned_book">>
    [] k = "cbz"   -> <<"manga">>
    [] k = Gone    -> <<>>
    [] OTHER       -> <<k>>
\* can_import of a folder: scan_folder lists its texts and images alone
TypesOfFolder(kinds) ==
  CASE kinds \cap {"text", "image"} = {"text"}  -> <<"text">>
    [] kinds \cap {"text", "image"} = {"image"} -> <<"scanned_book", "manga">>
    [] OTHER                                    -> <<>>
\* get_compatible_document_classes_for_paths: several files are staged as a
\* folder, which fails when one is missing.
Compatible(files, folder) ==
  IF folder THEN TypesOfFolder({disk[f] : f \in files})
  ELSE IF Cardinality(files) = 1 THEN TypesOfFile(disk[CHOOSE f \in files : TRUE])
  ELSE IF \E f \in files : disk[f] = Gone THEN <<>>
  ELSE TypesOfFolder({disk[f] : f \in files})

ImportInit ==
  /\ disk \in [Files -> FileKinds] /\ blocked = FALSE
  /\ chosen = NothingChosen /\ asked = {} /\ imported = NothingImported

\* _select_files, _select_folder, _inspect_import_paths.  (A dialog only gives
\* what is there; a folder is known by the files in it.)
\* (mutant of Inspected: the choice of the files before is kept)
KeepsUnwrap(files, folder) ==
  LET options == Compatible(files, folder) IN
  [files |-> files, folder |-> folder, options |-> options,
   type |-> IF options = <<>> THEN NoType ELSE Head(options), unwrap |-> chosen.unwrap]
Inspected(files, folder) ==
  LET options == Compatible(files, folder) IN
  [files |-> files, folder |-> folder, options |-> options,
   type |-> IF options = <<>> THEN NoType ELSE Head(options), unwrap |-> FALSE]
Choose ==
  /\ \E files \in (SUBSET {f \in Files : disk[f] # Gone}) \ {{}}, folder \in BOOLEAN :
       chosen' = Inspected(files, folder)
  /\ UNCHANGED <<disk, blocked, asked, imported>>

\* _on_import_type_selected
PickType ==
  /\ \E i \in DOMAIN chosen.options : chosen' = [chosen EXCEPT !.type = chosen.options[i]]
  /\ UNCHANGED <<disk, blocked, asked, imported>>

\* _on_remove_hard_wraps_toggled, where the page offers it
CanUnwrap == chosen.type \in HardWrapTypes
ToggleUnwrap ==
  /\ CanUnwrap
  /\ chosen' = [chosen EXCEPT !.unwrap = ~@]
  /\ asked' = IF chosen.unwrap THEN {} ELSE chosen.files
  /\ UNCHANGED <<disk, blocked, imported>>

\* import_via_repository refuses what cannot be imported as asked by now
Importable == chosen.type \in ToSet(Compatible(chosen.files, chosen.folder))

\* _run_import.  An import that is refused, while tasks hold claims or by the
\* ValueError of files that are no longer what they were, leaves the page as it was
\* but for a message (none in the second case: nothing catches it).
ImportSucceeds ==
  /\ chosen.options # <<>> /\ ~blocked /\ Importable
  /\ imported' = [kinds  |-> [f \in {g \in chosen.files : disk[g] # Gone} |-> disk[f]],
                  type   |-> chosen.type, unwrap |-> chosen.unwrap /\ CanUnwrap, asked |-> asked]
  /\ chosen' = NothingChosen /\ asked' = {}
  /\ UNCHANGED <<disk, blocked>>

\* Meanwhile tasks start and end, and files are replaced and deleted.
TasksChange == blocked' = ~blocked /\ UNCHANGED <<disk, chosen, asked, imported>>
DiskChanges ==
  /\ \E f \in Files, k \in FileKinds \cup {Gone} : disk' = [disk EXCEPT ![f] = k]
  /\ UNCHANGED <<blocked, chosen, asked, imported>>

ImportNext ==
  Choose \/ PickType \/ ToggleUnwrap \/ ImportSucceeds \/ TasksChange \/ DiskChanges
ImportSpec == ImportInit /\ [][ImportNext]_importVars

-----------------------------------------------------------------------------
\* An import makes of the files what they could be made of when it ran, however
\* the disk changed since they were looked at, and it takes the line breaks out of
\* a text only if the user asked for that with these files on the page: what was
\* ticked for the files before is no consent for these.
ImportIsMeant ==
  imported.type # NoType =>
    /\ \E f \in DOMAIN imported.kinds :
         \/ imported.type \in ToSet(TypesOfFile(imported.kinds[f]))
         \/ imported.type = "manga" /\ imported.kinds[f] = "image"
    /\ imported.unwrap => DOMAIN imported.kinds \subseteq imported.asked /\ imported.type \in HardWrapTypes
=============================================================================
