------------------------- MODULE TranslationReview -------------------------
(***************************************************************************)
(* The translation tab of a document: a list of units, an editor for the   *)
(* selected one, drafts of what was typed and not saved, and refreshes     *)
(* that events trigger while tasks work on the document                    *)
(* (document_translation_view.py, application/services/document.py).       *)
(***************************************************************************)
EXTENDS Naturals, FiniteSets

CONSTANTS
  Units,     \* of the document: 1..n, in the order of the list
  MaxTexts   \* bound: the texts that are typed or that tasks write

ASSUME ReviewAssumption ==
  /\ 1 \in Units /\ IsFiniteSet(Units) /\ Units \subseteq Nat \ {0}
  /\ MaxTexts \in Nat

VARIABLES
  stored,   \* [Units -> text]: the translations in the database; 0 is none
  misfits,  \* the typed texts that have not as many lines as the source
  texts,    \* how many different texts there are
  task,     \* [status, units] of the task that works on the document
  events,   \* an event waits for the thread of the screen
  tab,      \* [shown, dirty]: whether the tab is the current one, and to be refreshed when it is
  screen,   \* [state, canSave, rendered, editor, drafts, suppressed]
  typed     \* (history) [Units -> text]: what was typed and neither saved nor given up; 0 is nothing

reviewVars == <<stored, misfits, texts, task, events, tab, screen, typed>>

None == 0
NoTask == [status |-> "none", units |-> {}]
\* has_active_claims knows the tasks that have a worker.
HoldsClaims(t) == t.status \in {"running", "ended"}
IsActive(t) == t.status # "none"

NoDrafts == [u \in Units |-> None]
Without(drafts, units) == [u \in Units |-> IF u \in units THEN None ELSE drafts[u]]

----------------------------------------------------------------------------
(* What the screen does to itself.                                         *)

\* A mutant: selecting another unit forgets what was typed.
NotCaptured(s) == s

\* _capture_current_draft: the editor, against the state that is there
Captured(s) ==
  LET u == s.rendered IN
  IF u = None THEN s
  ELSE [s EXCEPT !.drafts[u] = IF u \in s.suppressed \/ s.editor = s.state[u] THEN None ELSE s.editor]

\* _render_selected_unit
Rendered(s, u) ==
  [s EXCEPT !.rendered = u, !.editor = IF s.drafts[u] # None THEN s.drafts[u] ELSE s.state[u]]

Pruned(s, new) ==
  [s EXCEPT !.drafts = [u \in Units |-> IF u \in s.suppressed \/ s.drafts[u] = new[u] THEN None
                                        ELSE s.drafts[u]]]

(* _apply_state: the list is filled again, and selecting its row is a      *)
(* selection like any other, with the new state and the old editor.        *)
Applied(s, new, canSave, u) ==
  LET filled == [Pruned(s, new) EXCEPT !.state = new, !.canSave = canSave]
  IN [Rendered(Captured(filled), u) EXCEPT !.suppressed = {}]

FirstUnit == CHOOSE u \in Units : \A v \in Units : u <= v
Selected(s) == IF s.rendered = None THEN FirstUnit ELSE s.rendered
Refreshed(s, new, t) == Applied(Captured(s), new, ~HoldsClaims(t), Selected(s))

\* The workspace refreshes the tab that is shown, and every other when it is shown again.
Refresh(new, t, s) ==
  IF tab.shown THEN /\ screen' = Refreshed(s, new, t)
                    /\ tab' = [tab EXCEPT !.dirty = FALSE]
  ELSE screen' = s /\ tab' = [tab EXCEPT !.dirty = TRUE]

----------------------------------------------------------------------------
ReviewInit ==
  /\ stored \in [Units -> {None, 1}] /\ misfits = {} /\ texts = 1
  /\ task = NoTask /\ events = FALSE
  /\ tab = [shown |-> FALSE, dirty |-> TRUE]
  /\ screen = [state |-> stored, canSave |-> FALSE, rendered |-> None, editor |-> None,
               drafts |-> NoDrafts, suppressed |-> {}]
  /\ typed = NoDrafts

ShowTab ==
  /\ ~tab.shown
  /\ tab' = [shown |-> TRUE, dirty |-> FALSE]
  /\ screen' = IF tab.dirty THEN Refreshed(screen, stored, task) ELSE screen
  /\ UNCHANGED <<stored, misfits, texts, task, events, typed>>
LeaveTab ==
  /\ tab.shown
  /\ tab' = [tab EXCEPT !.shown = FALSE]
  /\ UNCHANGED <<stored, misfits, texts, task, events, screen, typed>>

\* In the editor, or by replacing a text everywhere
Type ==
  /\ tab.shown /\ screen.canSave /\ texts < MaxTexts
  /\ texts' = texts + 1
  /\ screen' = [screen EXCEPT !.editor = texts']
  /\ typed' = [typed EXCEPT ![screen.rendered] = texts']
  /\ \E fits \in BOOLEAN : misfits' = IF fits THEN misfits ELSE misfits \cup {texts'}
  /\ UNCHANGED <<stored, task, events, tab>>

Select(u) ==
  /\ tab.shown /\ u # screen.rendered
  /\ screen' = Rendered(Captured(screen), u)
  /\ UNCHANGED <<stored, misfits, texts, task, events, tab, typed>>

(* Save: the service refuses while a task has claims on the document or    *)
(* when the lines do not fit; it publishes what it did before it answers,  *)
(* which refreshes the screen in the middle of the save.                   *)
Save ==
  LET u == screen.rendered
      new == [stored EXCEPT ![u] = screen.editor]
      nested == Refreshed(screen, new, task)
  IN /\ tab.shown /\ screen.canSave
     /\ IF HoldsClaims(task) \/ screen.editor \in misfits
        THEN /\ screen' = Refreshed(screen, stored, task)
             /\ UNCHANGED <<stored, typed>>
        ELSE /\ stored' = new
             /\ screen' = Applied([nested EXCEPT !.drafts[u] = None], new, ~HoldsClaims(task), u)
             /\ typed' = [typed EXCEPT ![u] = None]
     /\ UNCHANGED <<misfits, texts, task, events, tab>>

(* Submitting a task: the engine starts it at once or marks it failed, and  *)
(* the drafts of its units are given up.                                    *)
Submit(units, suppressed) ==
  LET refreshed == Refreshed([screen EXCEPT !.suppressed = suppressed], stored, task')
  IN /\ task' \in {NoTask, [status |-> "running", units |-> units]}
     /\ events' = TRUE
     /\ screen' = refreshed
     /\ typed' = Without(typed, suppressed)
     /\ UNCHANGED <<stored, misfits, texts, tab>>
Retranslate ==
  /\ tab.shown /\ ~IsActive(task)
  /\ Submit({screen.rendered}, {screen.rendered})
TranslateDocument ==
  /\ tab.shown /\ ~IsActive(task) /\ \E u \in Units : stored[u] = None
  /\ Submit({u \in Units : stored[u] = None}, Units)

----------------------------------------------------------------------------
(* Tasks, from this tab and from elsewhere; every change of a task posts   *)
(* an event.                                                               *)
TaskStep(t) == task' = t /\ events' = TRUE /\ UNCHANGED <<misfits, tab, screen, typed>>

\* A task of the queue that is run again: its row is queued, then started.
SubmitElsewhere ==
  /\ ~IsActive(task) /\ \E u \in Units : stored[u] = None
  /\ TaskStep([status |-> "queued", units |-> {u \in Units : stored[u] = None}])
  /\ UNCHANGED <<stored, texts>>
TaskStarts ==
  /\ task.status = "queued"
  /\ TaskStep([task EXCEPT !.status = "running"])
  /\ UNCHANGED <<stored, texts>>
TaskWrites ==
  /\ task.status = "running" /\ texts < MaxTexts
  /\ \E u \in task.units :
       /\ stored' = [stored EXCEPT ![u] = texts + 1]
       /\ task' = [task EXCEPT !.units = @ \ {u}]
  /\ texts' = texts + 1
  /\ UNCHANGED <<misfits, events, tab, screen, typed>>
\* The worker ends, with everything done or not.
TaskEnds ==
  /\ task.status = "running"
  /\ TaskStep([task EXCEPT !.status = "ended"])
  /\ UNCHANGED <<stored, texts>>
\* A mutant: the claims are released without a word.
TaskIsReleasedSilently ==
  /\ task.status = "ended"
  /\ task' = NoTask
  /\ UNCHANGED <<stored, misfits, texts, events, tab, screen, typed>>
TaskIsReleased ==
  /\ task.status = "ended"
  /\ TaskStep(NoTask)
  /\ UNCHANGED <<stored, texts>>

\* The bridge brings the event to the thread of the screen.
DispatchEvent ==
  /\ events /\ events' = FALSE
  /\ Refresh(stored, task, screen)
  /\ UNCHANGED <<stored, misfits, texts, task, typed>>

ReviewNext ==
  \/ ShowTab \/ LeaveTab \/ Type \/ Save \/ Retranslate \/ TranslateDocument
  \/ \E u \in Units : Select(u)
  \/ SubmitElsewhere \/ TaskStarts \/ TaskWrites \/ TaskEnds \/ TaskIsReleased
  \/ DispatchEvent

ReviewSpec == ReviewInit /\ [][ReviewNext]_reviewVars

----------------------------------------------------------------------------
\* What the tab shows, or would show, for a unit
Shown(s, u) == IF s.rendered = u THEN s.editor ELSE IF s.drafts[u] # None THEN s.drafts[u] ELSE s.state[u]

(* What was typed is there until it is saved or given up by asking for a   *)
(* translation: over selections, refreshes, refused saves and the writes   *)
(* of tasks (tests/ui/test_document_translation_view.py:567).              *)
TypedTextSurvives == \A u \in Units : typed[u] # None => Shown(screen, u) = typed[u]

(* When no event is under way and no task works, the tab that is shown     *)
(* knows the stored translations and lets them be edited: no write and no  *)
(* release stays unannounced (task_engine.py:333-338).                     *)
QuietTabIsCurrent ==
  tab.shown /\ ~tab.dirty /\ ~events /\ ~IsActive(task) => screen.state = stored /\ screen.canSave
============================================================================
