------------------------------ MODULE MCScreens ------------------------------
(***************************************************************************)
(* The screens of a project and the task they start most: the translation  *)
(* tab, the OCR tab, the two tables of terms, and translate-and-export;    *)
(* and the setup that the tasks of a project are started with.             *)
(* All are explored; one behaviour is about one of them.                   *)
(***************************************************************************)
EXTENDS TLC, TranslationReview, OcrReview, TermsReview, TranslateAndExport, ProjectSettings

VARIABLE part

\* Profiles are only told apart by what they hold.
ProfileSymmetry == Permutations(Profiles)

MCUnits == 1..2
MCPages == 1..2

NoReview ==
  /\ stored = <<>> /\ misfits = {} /\ texts = 0 /\ task = NoTask /\ events = FALSE
  /\ tab = [shown |-> FALSE] /\ screen = <<>> /\ typed = [u \in Units |-> None]
NoOcr ==
  /\ scans = [p \in Pages |-> [text |-> NoText]] /\ words = 0 /\ runs = <<>> /\ chunked = FALSE /\ posted = FALSE
  /\ pane = [shown |-> FALSE] /\ view = <<>> /\ entered = [p \in Pages |-> NoDraft]
  /\ kept = [p \in Pages |-> NoText]
NoTerms ==
  /\ glossary = [k \in Terms |-> Absent] /\ names = 0 /\ work = "none" /\ notice = FALSE
  /\ place = [page |-> "work", section |-> "other"]
  /\ table = [v \in Views |-> [rows |-> glossary, stale |-> TRUE, owed |-> 0]]
NoExport ==
  /\ row = [status |-> "queued", remote |-> FALSE, cancel |-> FALSE, use_batch |-> FALSE,
            payload |-> ExportSubmitted, error |-> "none"]
  /\ worker = Idle /\ doc = FALSE /\ job = "none"
  /\ files = [final |-> NoFile, backup |-> NoFile, staged |-> NoFile, had |-> FALSE]
  /\ app = "open" /\ foreign = FALSE /\ ended = FALSE
NoSettings ==
  /\ connections = [c \in Connections |-> "absent"] /\ profiles = [p \in Profiles |-> NoConfig]
  /\ default = Nothing /\ projects = [b \in Projects |-> NoProject] /\ editor = Closed /\ acts = 0

Init ==
  \/ part = "translation" /\ ReviewInit /\ NoOcr /\ NoTerms /\ NoExport /\ NoSettings
  \/ part = "ocr" /\ OcrInit /\ NoReview /\ NoTerms /\ NoExport /\ NoSettings
  \/ part = "terms" /\ TermsInit /\ NoReview /\ NoOcr /\ NoExport /\ NoSettings
  \/ part = "export" /\ TaskInit /\ NoReview /\ NoOcr /\ NoTerms /\ NoSettings
  \/ part = "settings" /\ SettingsInit /\ NoReview /\ NoOcr /\ NoTerms /\ NoExport
Next ==
  /\ \/ part = "translation" /\ ReviewNext /\ UNCHANGED <<ocrVars, termsVars, exportVars, settingsVars>>
     \/ part = "ocr" /\ OcrNext /\ UNCHANGED <<reviewVars, termsVars, exportVars, settingsVars>>
     \/ part = "terms" /\ TermsNext /\ UNCHANGED <<reviewVars, ocrVars, exportVars, settingsVars>>
     \/ part = "export" /\ TaskNext /\ UNCHANGED <<reviewVars, ocrVars, termsVars, settingsVars>>
     \/ part = "settings" /\ SettingsNext /\ UNCHANGED <<reviewVars, ocrVars, termsVars, exportVars>>
  /\ UNCHANGED part
Spec == Init /\ [][Next]_<<part, reviewVars, ocrVars, termsVars, exportVars, settingsVars>>

----------------------------------------------------------------------------
\* What the user typed and has not saved is still there, in the editor or as a
\* draft, whatever refreshes, tasks and changes of tab came since, on the translation
\* tab and on the OCR tab; and what was saved there no run of the tab undoes.
DraftsSurvive == TypedTextSurvives /\ EnteredTextSurvives /\ SavedPagesAreKept

\* A screen of a project at rest, with no event under way, shows what is stored:
\* none depends on an event that is never sent.
QuietScreensAreCurrent == QuietTabIsCurrent /\ QuietPagesAreCurrent /\ ProjectTableIsCurrent
==============================================================================
