---------------------------- MODULE ScreensProofs ----------------------------
(***************************************************************************)
(* The translation tab, the OCR tab and the tables of terms, for documents *)
(* and glossaries of any size.                                             *)
(*                                                                         *)
(* What was typed survives because a text that was typed is never, at the  *)
(* same place, what is stored or was loaded: a draft is dropped only when  *)
(* it is what the screen has loaded.  What is shown is current because     *)
(* whatever makes it stale leaves an event under way or the tab dirty.     *)
(*                                                                         *)
(* And the setup of any number of connections, profiles and projects.      *)
(* Whatever is stored is NoConfig, complete (every step that is there      *)
(* names a connection and a model), or what the command line stores.  What *)
(* an editor shows of a complete configuration is what its steps call; so  *)
(* saving it untouched writes the fallback of polish down and no more.     *)
(***************************************************************************)
EXTENDS MCScreens, TLAPS

(* The translation tab                                                     *)

ScreenRow(n) ==
  [state : [Units -> 0..n], canSave : BOOLEAN, rendered : Units \cup {None}, editor : 0..n,
   drafts : [Units -> 0..n], suppressed : SUBSET Units]

\* What was typed is in the editor or a draft, and is not what is loaded.
ShowsTyped(s, ty) ==
  \A u \in Units : ty[u] # None =>
    /\ IF u = s.rendered THEN s.editor = ty[u] ELSE s.drafts[u] = ty[u]
    /\ s.state[u] # ty[u]

ReviewTyped ==
  /\ texts \in Nat /\ stored \in [Units -> 0..texts] /\ typed \in [Units -> 0..texts]
  /\ task \in [status : {"none", "queued", "running", "ended"}, units : SUBSET Units]
  /\ events \in BOOLEAN /\ tab \in [shown : BOOLEAN, dirty : BOOLEAN]
  /\ screen \in ScreenRow(texts) /\ screen.suppressed = {}

ReviewInv ==
  /\ ReviewTyped
  /\ tab.shown \/ ~tab.dirty => screen.rendered # None
  /\ ShowsTyped(screen, typed)
  /\ \A u \in Units : typed[u] # None => stored[u] # typed[u]
  /\ ~tab.dirty /\ ~events =>
       /\ task.status # "running" => screen.state = stored
       /\ ~HoldsClaims(task) => screen.canSave

-----------------------------------------------------------------------------
(* The OCR tab                                                             *)

ScanRow(n) == [done : BOOLEAN, boxes : Boxes, text : 0..n]
Draft(n) == [boxes : Boxes, text : 0..n]
ViewRow(n) ==
  [pages : [Pages -> ScanRow(n)], canSave : BOOLEAN, current : Pages \cup {0}, editor : 0..n,
   drafts : [Pages -> Draft(n)]]
RunRow == [status : {"none", "queued", "running", "ended"}, asked : SUBSET Pages, todo : SUBSET Pages]

\* A text that was entered is never what is in those pages.
Differs(en, pages) == \A p \in Pages : en[p] = NoDraft \/ (en[p].text # NoText /\ pages[p].text # en[p].text)

\* What was entered is in the editor, in the layout that is shown, or a draft.
HoldsEntered(v, en) ==
  \A p \in Pages :
    IF p # v.current THEN v.drafts[p] = en[p]
    ELSE IF en[p] = NoDraft THEN v.editor = v.pages[p].text
    ELSE v.editor = en[p].text /\ en[p].boxes = v.pages[p].boxes

OcrTyped ==
  /\ words \in Nat \ {0} /\ scans \in [Pages -> ScanRow(words)] /\ runs \in [Slots -> RunRow]
  /\ chunked \in BOOLEAN /\ posted \in BOOLEAN /\ pane \in [shown : BOOLEAN, dirty : BOOLEAN]
  /\ view \in ViewRow(words) /\ entered \in [Pages -> Draft(words)] /\ kept \in [Pages -> 0..words]

\* No task at work, asked for or started, has a page that was corrected.
KeptInv ==
  \A p \in Pages : kept[p] # NoText =>
    /\ scans[p].done /\ scans[p].text = kept[p]
    /\ \A i \in Slots : /\ runs[i].status = "running" => p \notin runs[i].todo
                        /\ runs[i].status # "none" => p \notin runs[i].asked

OcrInv ==
  /\ OcrTyped /\ KeptInv
  /\ pane.shown \/ ~pane.dirty => view.current # 0
  /\ HoldsEntered(view, entered) /\ Differs(entered, view.pages) /\ Differs(entered, scans)
  /\ ~pane.dirty /\ ~posted =>
       view.pages = scans /\ (view.canSave <=> ~chunked /\ Active(runs) = {})

-----------------------------------------------------------------------------
(* The tables of terms                                                     *)

TermRow == [there : BOOLEAN, inDoc : BOOLEAN, name : Nat, marked : BOOLEAN]
TableRow == [rows : [Terms -> TermRow], stale : BOOLEAN, owed : {0}]

TermsTyped ==
  /\ glossary \in [Terms -> TermRow] /\ names \in Nat /\ work \in {"none", "queued", "running", "ended"}
  /\ notice \in BOOLEAN /\ place \in [page : {"work", "terms"}, section : {"other", "terms"}]
  /\ table \in [Views -> TableRow]

Agrees(rows, g) == \A k \in Terms : rows[k].there \/ g[k].there => rows[k] = g[k]

TermsInv ==
  /\ TermsTyped
  /\ Visible("project") => ~table["project"].stale
  /\ ~table["project"].stale /\ ~notice /\ ~Blocked => Agrees(table["project"].rows, glossary)

\* The screens that a behaviour is not about are as they were.
ScreensInv ==
  /\ IF part = "translation" THEN ReviewInv ELSE typed = [u \in Units |-> None] /\ ~tab.shown
  /\ IF part = "ocr" THEN OcrInv
     ELSE entered = [p \in Pages |-> NoDraft] /\ kept = [p \in Pages |-> NoText] /\ ~pane.shown
  /\ IF part = "terms" THEN TermsInv ELSE place.page = "work"

-----------------------------------------------------------------------------
(* The translation tab: what the screen does to itself                     *)

LEMMA UnitFacts == None \notin Units /\ FirstUnit \in Units
<1>1. 1 \in Units /\ \A v \in Units : 1 <= v
  BY ReviewAssumption
<1>. QED  BY <1>1, ReviewAssumption DEF FirstUnit, None

\* Every typed text is a draft when the editor has been captured.
Holds(s, ty) ==
  \A u \in Units : ty[u] # None => s.drafts[u] = ty[u] /\ (u = s.rendered => s.editor = ty[u])

LEMMA CapturedHolds ==
  ASSUME NEW n \in Nat, NEW s \in ScreenRow(n), NEW ty \in [Units -> Nat], ShowsTyped(s, ty),
         \A u \in s.suppressed : ty[u] = None
  PROVE  /\ Captured(s) \in ScreenRow(n) /\ Captured(s).rendered = s.rendered
         /\ Captured(s).state = s.state /\ Captured(s).suppressed = s.suppressed
         /\ Captured(s).canSave = s.canSave /\ Captured(s).editor = s.editor
         /\ Holds(Captured(s), ty)
<1>1. CASE s.rendered = None
  BY <1>1, UnitFacts DEF Captured, Holds, ShowsTyped
<1>2. CASE s.rendered # None
  <2>. DEFINE u == s.rendered
              draft == IF u \in s.suppressed \/ s.editor = s.state[u] THEN None ELSE s.editor
              drafts == [s.drafts EXCEPT ![u] = draft]
  <2>1. Captured(s) = [s EXCEPT !.drafts = drafts]
    BY <1>2 DEF Captured
  <2>2. u \in Units /\ draft \in 0..n /\ drafts \in [Units -> 0..n]
    BY <1>2 DEF ScreenRow, None
  <2>3. ASSUME NEW v \in Units, ty[v] # None  PROVE drafts[v] = ty[v] /\ (v = u => s.editor = ty[v])
    BY <2>2, <2>3 DEF ShowsTyped, ScreenRow
  <2>. HIDE DEF drafts
  <2>. QED  BY <2>1, <2>2, <2>3 DEF ScreenRow, Holds
<1>. QED  BY <1>1, <1>2

LEMMA AppliedShows ==
  ASSUME NEW n \in Nat, NEW s \in ScreenRow(n), NEW ty \in [Units -> Nat], Holds(s, ty),
         NEW new \in [Units -> 0..n], NEW canSave \in BOOLEAN, NEW u \in Units,
         \A v \in Units : ty[v] # None => new[v] # ty[v] /\ v \notin s.suppressed
  PROVE  LET applied == Applied(s, new, canSave, u)
         IN  /\ applied \in ScreenRow(n) /\ applied.rendered = u /\ applied.state = new
             /\ applied.suppressed = {} /\ applied.canSave = canSave
             /\ ShowsTyped(applied, ty) /\ Holds(applied, ty)
<1>. DEFINE pruned == [v \in Units |-> IF v \in s.suppressed \/ s.drafts[v] = new[v] THEN None ELSE s.drafts[v]]
            filled == [s EXCEPT !.drafts = pruned, !.state = new, !.canSave = canSave]
            captured == Captured(filled)
            text == IF captured.drafts[u] # None THEN captured.drafts[u] ELSE captured.state[u]
            after == [captured EXCEPT !.rendered = u, !.editor = text, !.suppressed = {}]
<1>1. pruned \in [Units -> 0..n] /\ \A v \in Units : ty[v] # None => pruned[v] = ty[v]
  BY DEF ScreenRow, None, Holds
<1>2. Applied(s, new, canSave, u) = [Rendered(captured, u) EXCEPT !.suppressed = {}]
  BY DEF Applied, Pruned
<1>3. Applied(s, new, canSave, u) = after
  BY <1>2 DEF Rendered
<1>4. /\ filled \in ScreenRow(n) /\ filled.rendered = s.rendered /\ filled.editor = s.editor
      /\ filled.suppressed = s.suppressed /\ filled.state = new /\ filled.canSave = canSave
      /\ filled.drafts = pruned
  <2>. HIDE DEF pruned
  <2>. QED  BY <1>1 DEF ScreenRow
<1>5. ShowsTyped(filled, ty) /\ \A v \in filled.suppressed : ty[v] = None
  BY <1>1, <1>4 DEF ShowsTyped, Holds, ScreenRow
<1>. HIDE DEF filled
<1>6. /\ captured \in ScreenRow(n) /\ captured.state = new /\ captured.canSave = canSave
      /\ Holds(captured, ty)
  BY <1>4, <1>5, CapturedHolds
<1>. HIDE DEF captured
<1>7. text \in 0..n /\ (ty[u] # None => text = ty[u])
  BY <1>6 DEF ScreenRow, Holds
<1>. HIDE DEF text
<1>8. /\ after \in ScreenRow(n) /\ after.rendered = u /\ after.state = new
      /\ after.suppressed = {} /\ after.canSave = canSave /\ after.editor = text
      /\ after.drafts = captured.drafts
  BY <1>6, <1>7 DEF ScreenRow
<1>. HIDE DEF after
<1>9. ShowsTyped(after, ty) /\ Holds(after, ty)
  BY <1>6, <1>7, <1>8 DEF ShowsTyped, Holds
<1>. QED  BY <1>3, <1>8, <1>9

LEMMA RefreshedShows ==
  ASSUME NEW n \in Nat, NEW s \in ScreenRow(n), NEW ty \in [Units -> Nat], ShowsTyped(s, ty),
         \A u \in s.suppressed : ty[u] = None,
         NEW new \in [Units -> 0..n], NEW t, \A v \in Units : ty[v] # None => new[v] # ty[v]
  PROVE  LET refreshed == Refreshed(s, new, t)
         IN  /\ refreshed \in ScreenRow(n) /\ refreshed.rendered \in Units
             /\ s.rendered # None => refreshed.rendered = s.rendered
             /\ refreshed.state = new /\ refreshed.suppressed = {}
             /\ refreshed.canSave = ~HoldsClaims(t)
             /\ ShowsTyped(refreshed, ty) /\ Holds(refreshed, ty)
<1>1. (~HoldsClaims(t)) \in BOOLEAN
  BY DEF HoldsClaims
<1>2. Selected(s) \in Units /\ (s.rendered # None => Selected(s) = s.rendered)
  BY UnitFacts DEF Selected, ScreenRow
<1>3. /\ Captured(s) \in ScreenRow(n) /\ Holds(Captured(s), ty)
      /\ Captured(s).suppressed = s.suppressed
  BY CapturedHolds
<1>4. \A v \in Units : ty[v] # None => new[v] # ty[v] /\ v \notin Captured(s).suppressed
  BY <1>3 DEF ScreenRow
<1>. DEFINE can == ~HoldsClaims(t)
<1>5. Refreshed(s, new, t) = Applied(Captured(s), new, can, Selected(s))
  BY DEF Refreshed
<1>. HIDE DEF can
<1>6. can \in BOOLEAN
  BY <1>1 DEF can
<1>7. LET applied == Applied(Captured(s), new, can, Selected(s))
      IN  /\ applied \in ScreenRow(n) /\ applied.rendered = Selected(s) /\ applied.state = new
          /\ applied.suppressed = {} /\ applied.canSave = can
          /\ ShowsTyped(applied, ty) /\ Holds(applied, ty)
  BY <1>2, <1>3, <1>4, <1>6, AppliedShows
<1>. QED  BY <1>2, <1>5, <1>7 DEF can

-----------------------------------------------------------------------------
(* The translation tab: its steps                                          *)

\* The screen that is there may be refreshed with anything that was not typed.
LEMMA ScreenRefreshes ==
  ASSUME ReviewInv, NEW ty \in [Units -> Nat], NEW gone \in SUBSET Units,
         ty = Without(typed, gone), NEW new \in [Units -> 0..texts], NEW t,
         \A v \in Units : ty[v] # None => new[v] # ty[v]
  PROVE  LET refreshed == Refreshed([screen EXCEPT !.suppressed = gone], new, t)
         IN  /\ refreshed \in ScreenRow(texts) /\ refreshed.rendered \in Units
             /\ screen.rendered # None => refreshed.rendered = screen.rendered
             /\ refreshed.state = new /\ refreshed.suppressed = {}
             /\ refreshed.canSave = ~HoldsClaims(t)
             /\ ShowsTyped(refreshed, ty) /\ Holds(refreshed, ty)
<1>. DEFINE s == [screen EXCEPT !.suppressed = gone]
<1>1. /\ texts \in Nat /\ screen \in ScreenRow(texts) /\ ShowsTyped(screen, typed)
  BY DEF ReviewInv, ReviewTyped
<1>2. \A u \in Units : ty[u] # None => ty[u] = typed[u] /\ u \notin gone
  BY DEF Without
<1>3. /\ s \in ScreenRow(texts) /\ s.rendered = screen.rendered /\ s.editor = screen.editor
      /\ s.state = screen.state /\ s.drafts = screen.drafts /\ s.suppressed = gone
  BY <1>1 DEF ScreenRow
<1>. HIDE DEF s
<1>4. ShowsTyped(s, ty) /\ \A u \in s.suppressed : ty[u] = None
  BY <1>1, <1>2, <1>3 DEF ShowsTyped
<1>5. LET refreshed == Refreshed(s, new, t)
      IN  /\ refreshed \in ScreenRow(texts) /\ refreshed.rendered \in Units
          /\ s.rendered # None => refreshed.rendered = s.rendered
          /\ refreshed.state = new /\ refreshed.suppressed = {}
          /\ refreshed.canSave = ~HoldsClaims(t)
          /\ ShowsTyped(refreshed, ty) /\ Holds(refreshed, ty)
  BY <1>1, <1>3, <1>4, RefreshedShows
<1>. QED  BY <1>3, <1>5 DEF s

\* A plain refresh, with what is stored.
LEMMA PlainRefresh ==
  ASSUME ReviewInv, NEW t
  PROVE  LET refreshed == Refreshed(screen, stored, t)
         IN  /\ refreshed \in ScreenRow(texts) /\ refreshed.rendered \in Units
             /\ refreshed.state = stored /\ refreshed.suppressed = {}
             /\ refreshed.canSave = ~HoldsClaims(t) /\ ShowsTyped(refreshed, typed)
<1>1. /\ typed \in [Units -> Nat] /\ stored \in [Units -> 0..texts] /\ texts \in Nat
      /\ screen \in ScreenRow(texts) /\ ShowsTyped(screen, typed) /\ screen.suppressed = {}
      /\ \A v \in Units : typed[v] # None => stored[v] # typed[v]
  BY DEF ReviewInv, ReviewTyped
<1>. QED  BY <1>1, RefreshedShows

LEMMA ReviewInitIsFine == ReviewInit => ReviewInv
<1>. SUFFICES ASSUME ReviewInit  PROVE ReviewInv
  OBVIOUS
<1>1. ReviewTyped
  <2>1. NoDrafts \in [Units -> 0..1] /\ stored \in [Units -> 0..1] /\ None \in 0..1
    BY DEF ReviewInit, NoDrafts, None
  <2>2. screen \in ScreenRow(1) /\ screen.suppressed = {}
    BY <2>1 DEF ReviewInit, ScreenRow
  <2>. QED  BY <2>1, <2>2 DEF ReviewInit, ReviewTyped, NoTask
<1>. QED  BY <1>1 DEF ReviewInit, ReviewInv, ShowsTyped, NoDrafts

LEMMA SaveKeeps ==
  ASSUME ReviewInv, Save
  PROVE  ReviewInv'
<1>. DEFINE u == screen.rendered
            new == [stored EXCEPT ![u] = screen.editor]
            nested == Refreshed(screen, new, task)
            ty == [typed EXCEPT ![u] = None]
<1>1. /\ ReviewTyped /\ tab.shown /\ u \in Units /\ UNCHANGED <<misfits, texts, task, events, tab>>
  BY DEF Save, ReviewInv, ReviewTyped, ScreenRow
<1>2. CASE HoldsClaims(task) \/ screen.editor \in misfits
  <2>1. screen' = Refreshed(screen, stored, task) /\ UNCHANGED <<stored, typed>>
    BY <1>2 DEF Save
  <2>. DEFINE r == Refreshed(screen, stored, task)
  <2>2. /\ r \in ScreenRow(texts) /\ r.rendered \in Units /\ r.state = stored /\ r.suppressed = {}
        /\ r.canSave = ~HoldsClaims(task) /\ ShowsTyped(r, typed)
    BY PlainRefresh
  <2>. HIDE DEF r
  <2>3. ReviewTyped'
    BY <1>1, <2>1, <2>2 DEF ReviewTyped, r
  <2>. QED  BY <1>1, <2>1, <2>2, <2>3, UnitFacts DEF ReviewInv, HoldsClaims, r
<1>3. CASE ~(HoldsClaims(task) \/ screen.editor \in misfits)
  <2>1. /\ stored' = new /\ typed' = ty
        /\ screen' = Applied([nested EXCEPT !.drafts[u] = None], new, ~HoldsClaims(task), u)
    BY <1>3 DEF Save
  <2>2. /\ new \in [Units -> 0..texts] /\ ty \in [Units -> 0..texts] /\ texts \in Nat
        /\ \A v \in Units : ty[v] # None => new[v] # ty[v] /\ ty[v] = typed[v]
    <3>1. /\ stored \in [Units -> 0..texts] /\ typed \in [Units -> 0..texts] /\ texts \in Nat
          /\ screen.editor \in 0..texts
      BY <1>1 DEF ReviewTyped, ScreenRow
    <3>2. None \in 0..texts
      BY <3>1 DEF None
    <3>3. new \in [Units -> 0..texts] /\ ty \in [Units -> 0..texts]
      BY <3>1, <3>2
    <3>4. \A v \in Units : v # u => new[v] = stored[v] /\ ty[v] = typed[v]
      BY <3>1
    <3>5. ty[u] = None
      BY <1>1, <3>1
    <3>. HIDE DEF new, ty
    <3>. QED  BY <3>1, <3>3, <3>4, <3>5 DEF ReviewInv
  <2>3. ShowsTyped(screen, ty) /\ screen \in ScreenRow(texts) /\ ty \in [Units -> Nat]
        /\ \A v \in screen.suppressed : ty[v] = None
    BY <1>1, <2>2 DEF ReviewInv, ReviewTyped, ShowsTyped
  <2>. HIDE DEF new, ty
  <2>4. /\ nested \in ScreenRow(texts) /\ nested.rendered = u /\ nested.suppressed = {} /\ Holds(nested, ty)
    BY <1>1, <2>2, <2>3, UnitFacts, RefreshedShows
  <2>5. ty[u] = None
    BY <1>1 DEF ty, ReviewTyped
  <2>. HIDE DEF nested
  <2>. DEFINE drafts == [nested.drafts EXCEPT ![u] = None]
              s == [nested EXCEPT !.drafts = drafts]
              can == ~HoldsClaims(task)
  <2>6. drafts \in [Units -> 0..texts] /\ \A v \in Units : v # u => drafts[v] = nested.drafts[v]
    BY <1>1, <2>2, <2>4 DEF ScreenRow, None
  <2>. HIDE DEF drafts
  <2>7. /\ s \in ScreenRow(texts) /\ s.drafts = drafts /\ s.rendered = u /\ s.suppressed = {}
    BY <2>4, <2>6 DEF ScreenRow
  <2>8. screen' = Applied(s, new, can, u)
    BY <2>1 DEF drafts
  <2>9. Holds(s, ty)
    BY <2>4, <2>5, <2>6, <2>7 DEF Holds
  <2>10. can \in BOOLEAN
    BY DEF HoldsClaims
  <2>. HIDE DEF s, can
  <2>11. /\ screen' \in ScreenRow(texts) /\ screen'.rendered = u /\ screen'.state = new
         /\ screen'.suppressed = {} /\ screen'.canSave = can /\ ShowsTyped(screen', ty)
    BY <1>1, <2>2, <2>3, <2>7, <2>8, <2>9, <2>10, AppliedShows
  <2>12. ReviewTyped'
    BY <1>1, <2>1, <2>2, <2>11 DEF ReviewTyped
  <2>. QED  BY <1>1, <2>1, <2>2, <2>11, <2>12, UnitFacts DEF ReviewInv, HoldsClaims, can
<1>. QED  BY <1>2, <1>3

LEMMA SubmitKeeps ==
  ASSUME ReviewInv, NEW units \in SUBSET Units, NEW suppressed \in SUBSET Units, Submit(units, suppressed)
  PROVE  ReviewInv'
<1>. DEFINE ty == Without(typed, suppressed)
            r == Refreshed([screen EXCEPT !.suppressed = suppressed], stored, task')
<1>1. /\ ReviewTyped /\ task' \in {NoTask, [status |-> "running", units |-> units]} /\ events' = TRUE
      /\ screen' = r /\ typed' = ty /\ UNCHANGED <<stored, misfits, texts, tab>>
  BY DEF Submit, ReviewInv
<1>2. /\ ty \in [Units -> 0..texts] /\ ty \in [Units -> Nat] /\ stored \in [Units -> 0..texts]
      /\ \A v \in Units : ty[v] # None => stored[v] # ty[v]
  BY <1>1 DEF ReviewInv, ReviewTyped, Without, None
<1>3. task' \in [status : {"none", "queued", "running", "ended"}, units : SUBSET Units]
  BY <1>1 DEF NoTask
<1>. HIDE DEF ty
<1>4. /\ r \in ScreenRow(texts) /\ r.rendered \in Units /\ r.suppressed = {} /\ ShowsTyped(r, ty)
  BY <1>2, ScreenRefreshes DEF ty
<1>. HIDE DEF r
<1>5. ReviewTyped'
  BY <1>1, <1>2, <1>3, <1>4 DEF ReviewTyped
<1>. QED  BY <1>1, <1>2, <1>4, <1>5, UnitFacts DEF ReviewInv

LEMMA ReviewStep == ReviewInv /\ ReviewNext => ReviewInv'
<1>. SUFFICES ASSUME ReviewInv, ReviewNext  PROVE ReviewInv'
  OBVIOUS
<1>1. ReviewTyped /\ ShowsTyped(screen, typed)
  BY DEF ReviewInv
<1>2. CASE ShowTab
  <2>1. CASE tab.dirty
    <3>. DEFINE r == Refreshed(screen, stored, task)
    <3>1. screen' = r /\ tab' = [shown |-> TRUE, dirty |-> FALSE]
          /\ UNCHANGED <<stored, misfits, texts, task, events, typed>>
      BY <1>2, <2>1 DEF ShowTab
    <3>2. /\ r \in ScreenRow(texts) /\ r.rendered \in Units /\ r.state = stored /\ r.suppressed = {}
          /\ r.canSave = ~HoldsClaims(task) /\ ShowsTyped(r, typed)
      BY PlainRefresh
    <3>. HIDE DEF r
    <3>3. ReviewTyped'
      BY <1>1, <3>1, <3>2 DEF ReviewTyped
    <3>. QED  BY <3>1, <3>2, <3>3, UnitFacts DEF ReviewInv, HoldsClaims
  <2>2. CASE ~tab.dirty
    <3>1. ReviewTyped'
      BY <1>1, <1>2, <2>2 DEF ShowTab, ReviewTyped
    <3>. QED  BY <1>2, <2>2, <3>1 DEF ReviewInv, ShowTab, HoldsClaims
  <2>. QED  BY <1>1, <2>1, <2>2 DEF ReviewTyped
<1>3. CASE LeaveTab
  <2>1. tab'.dirty = tab.dirty /\ tab' \in [shown : BOOLEAN, dirty : BOOLEAN] /\ tab.shown /\ ~tab'.shown
    BY <1>1, <1>3 DEF LeaveTab, ReviewTyped
  <2>2. ReviewTyped'
    BY <1>1, <1>3, <2>1 DEF LeaveTab, ReviewTyped
  <2>. QED  BY <1>3, <2>1, <2>2 DEF ReviewInv, LeaveTab, HoldsClaims
<1>4. CASE Type
  <2>1. /\ texts' = texts + 1 /\ texts \in Nat /\ screen.rendered \in Units
        /\ screen' = [screen EXCEPT !.editor = texts + 1]
        /\ typed' = [typed EXCEPT ![screen.rendered] = texts + 1]
        /\ UNCHANGED <<stored, task, events, tab>>
    BY <1>1, <1>4 DEF Type, ReviewInv, ReviewTyped, ScreenRow
  <2>2. 0..texts \subseteq 0..texts' /\ texts' \in 0..texts' /\ texts' \notin 0..texts /\ texts' # None
    BY <2>1 DEF None
  <2>3. screen \in ScreenRow(texts) /\ screen.suppressed = {} /\ typed \in [Units -> 0..texts]
        /\ stored \in [Units -> 0..texts]
    BY <1>1 DEF ReviewTyped
  <2>4. /\ screen' \in ScreenRow(texts') /\ screen'.editor = texts' /\ screen'.state = screen.state
        /\ screen'.drafts = screen.drafts /\ screen'.rendered = screen.rendered /\ screen'.suppressed = {}
        /\ screen'.canSave = screen.canSave
    <3>1. screen.state \in [Units -> 0..texts'] /\ screen.drafts \in [Units -> 0..texts']
      BY <2>2, <2>3 DEF ScreenRow
    <3>. QED  BY <2>1, <2>2, <2>3, <3>1 DEF ScreenRow
  <2>5. typed' \in [Units -> 0..texts'] /\ stored' \in [Units -> 0..texts']
    BY <2>1, <2>2, <2>3
  <2>6. ReviewTyped'
    BY <1>1, <2>1, <2>4, <2>5 DEF ReviewTyped
  <2>7. ShowsTyped(screen', typed')
    BY <1>1, <2>1, <2>2, <2>3, <2>4 DEF ShowsTyped, ScreenRow
  <2>8. \A v \in Units : typed'[v] # None => stored'[v] # typed'[v]
    BY <2>1, <2>2, <2>3 DEF ReviewInv
  <2>. QED  BY <2>1, <2>4, <2>6, <2>7, <2>8 DEF ReviewInv, HoldsClaims
<1>5. ASSUME NEW u \in Units, Select(u)  PROVE ReviewInv'
  <2>. DEFINE c == Captured(screen)
              text == IF c.drafts[u] # None THEN c.drafts[u] ELSE c.state[u]
              s == [c EXCEPT !.rendered = u, !.editor = text]
  <2>1. screen' = s /\ UNCHANGED <<stored, misfits, texts, task, events, tab, typed>>
    BY <1>5 DEF Select, Rendered
  <2>2. /\ c \in ScreenRow(texts) /\ c.state = screen.state /\ c.suppressed = {} /\ c.canSave = screen.canSave
        /\ Holds(c, typed) /\ typed \in [Units -> Nat]
    BY <1>1, CapturedHolds DEF ReviewTyped
  <2>. HIDE DEF c
  <2>3. text \in 0..texts /\ (typed[u] # None => text = typed[u])
    BY <2>2 DEF Holds, ScreenRow
  <2>. HIDE DEF text
  <2>4. /\ s \in ScreenRow(texts) /\ s.rendered = u /\ s.editor = text /\ s.drafts = c.drafts
        /\ s.state = screen.state /\ s.suppressed = {} /\ s.canSave = screen.canSave
    BY <2>2, <2>3 DEF ScreenRow
  <2>. HIDE DEF s
  <2>5. ShowsTyped(s, typed)
    BY <1>1, <2>2, <2>3, <2>4 DEF ShowsTyped, Holds
  <2>6. ReviewTyped'
    BY <1>1, <2>1, <2>4 DEF ReviewTyped
  <2>. QED  BY <2>1, <2>4, <2>5, <2>6, UnitFacts DEF ReviewInv, HoldsClaims
<1>6. CASE Save
  BY <1>6, SaveKeeps
<1>7. CASE Retranslate \/ TranslateDocument
  <2>1. CASE Retranslate
    <3>1. screen.rendered \in Units /\ Submit({screen.rendered}, {screen.rendered})
      BY <1>1, <2>1 DEF Retranslate, ReviewInv, ReviewTyped, ScreenRow
    <3>. QED  BY <3>1, SubmitKeeps
  <2>2. CASE TranslateDocument
    BY <2>2, SubmitKeeps DEF TranslateDocument
  <2>. QED  BY <1>7, <2>1, <2>2
<1>8. CASE SubmitElsewhere \/ TaskStarts \/ TaskEnds \/ TaskIsReleased
  <2>1. /\ task' \in [status : {"none", "queued", "running", "ended"}, units : SUBSET Units]
        /\ events' = TRUE /\ UNCHANGED <<stored, texts, tab, screen, typed>>
    BY <1>1, <1>8 DEF SubmitElsewhere, TaskStarts, TaskEnds, TaskIsReleased, TaskStep, ReviewTyped, NoTask
  <2>2. ReviewTyped'
    BY <1>1, <2>1 DEF ReviewTyped
  <2>. QED  BY <2>1, <2>2 DEF ReviewInv
<1>9. CASE TaskWrites
  <2>1. PICK u \in task.units : /\ stored' = [stored EXCEPT ![u] = texts + 1]
                                /\ task' = [task EXCEPT !.units = task.units \ {u}]
    BY <1>9 DEF TaskWrites
  <2>2. /\ texts' = texts + 1 /\ task.status = "running" /\ UNCHANGED <<misfits, events, tab, screen, typed>>
    BY <1>9 DEF TaskWrites
  <2>3. /\ texts \in Nat /\ u \in Units /\ task'.status = "running"
        /\ task' \in [status : {"none", "queued", "running", "ended"}, units : SUBSET Units]
    BY <1>1, <2>1, <2>2 DEF ReviewTyped
  <2>4. 0..texts \subseteq 0..texts' /\ texts' \in 0..texts' /\ texts' \notin 0..texts
    BY <2>2, <2>3
  <2>5. stored' \in [Units -> 0..texts'] /\ typed' \in [Units -> 0..texts'] /\ screen' \in ScreenRow(texts')
    <3>1. stored' \in [Units -> 0..texts'] /\ typed' \in [Units -> 0..texts']
      BY <1>1, <2>1, <2>2, <2>3, <2>4 DEF ReviewTyped
    <3>2. screen \in ScreenRow(texts)
      BY <1>1 DEF ReviewTyped
    <3>3. screen.state \in [Units -> 0..texts'] /\ screen.drafts \in [Units -> 0..texts'] /\ screen.editor \in 0..texts'
      BY <2>4, <3>2 DEF ScreenRow
    <3>4. screen \in ScreenRow(texts')
      BY <3>2, <3>3 DEF ScreenRow
    <3>. QED  BY <2>2, <3>1, <3>4
  <2>6. ReviewTyped'
    BY <1>1, <2>2, <2>3, <2>5 DEF ReviewTyped
  <2>7. \A v \in Units : typed'[v] # None => stored'[v] # typed'[v]
    BY <1>1, <2>1, <2>2, <2>4 DEF ReviewInv, ReviewTyped
  <2>. QED  BY <2>2, <2>3, <2>6, <2>7 DEF ReviewInv, HoldsClaims
<1>10. CASE DispatchEvent
  <2>1. /\ events' = FALSE /\ UNCHANGED <<stored, misfits, texts, task, typed>> /\ Refresh(stored, task, screen)
    BY <1>10 DEF DispatchEvent
  <2>2. CASE tab.shown
    <3>. DEFINE r == Refreshed(screen, stored, task)
    <3>1. screen' = r /\ tab' = [tab EXCEPT !.dirty = FALSE]
      BY <2>1, <2>2 DEF Refresh
    <3>2. /\ r \in ScreenRow(texts) /\ r.rendered \in Units /\ r.state = stored /\ r.suppressed = {}
          /\ r.canSave = ~HoldsClaims(task) /\ ShowsTyped(r, typed)
      BY PlainRefresh
    <3>. HIDE DEF r
    <3>3. ReviewTyped'
      BY <1>1, <2>1, <3>1, <3>2 DEF ReviewTyped
    <3>. QED  BY <2>1, <3>1, <3>2, <3>3, UnitFacts DEF ReviewInv, HoldsClaims
  <2>3. CASE ~tab.shown
    <3>1. screen' = screen /\ tab'.shown = tab.shown /\ tab'.dirty /\ tab' \in [shown : BOOLEAN, dirty : BOOLEAN]
      BY <1>1, <2>1, <2>3 DEF Refresh, ReviewTyped
    <3>2. ReviewTyped'
      BY <1>1, <2>1, <3>1 DEF ReviewTyped
    <3>. QED  BY <2>1, <2>3, <3>1, <3>2 DEF ReviewInv
  <2>. QED  BY <2>2, <2>3
<1>. QED  BY <1>2, <1>3, <1>4, <1>5, <1>6, <1>7, <1>8, <1>9, <1>10 DEF ReviewNext

\* What the invariant says of the tab.
LEMMA ReviewIsRight == ReviewInv => TypedTextSurvives /\ QuietTabIsCurrent
<1>1. ReviewInv => TypedTextSurvives
  BY DEF ReviewInv, ShowsTyped, TypedTextSurvives, Shown
<1>2. ReviewInv => QuietTabIsCurrent
  BY DEF ReviewInv, QuietTabIsCurrent, IsActive, HoldsClaims
<1>. QED  BY <1>1, <1>2

-----------------------------------------------------------------------------
(* The OCR tab: what it does to itself                                     *)

LEMMA PageFacts == 0 \notin Pages /\ FirstPage \in Pages
<1>1. 1 \in Pages /\ \A q \in Pages : 1 <= q
  BY OcrAssumption
<1>. QED  BY <1>1, OcrAssumption DEF FirstPage

\* What is entered but for some pages.
Cleared(en, ps) == [p \in Pages |-> IF p \in ps THEN NoDraft ELSE en[p]]
\* What is still entered on a screen: a page filled in another layout has lost its draft.
Kept(en, v) ==
  [p \in Pages |-> IF p = v.current /\ en[p].boxes # v.pages[p].boxes THEN NoDraft ELSE en[p]]

LEMMA NoDraftIsDraft == \A n \in Nat : NoDraft \in Draft(n)
BY OcrAssumption DEF NoDraft, Draft, NoText

LEMMA ClearedIsDraft ==
  ASSUME NEW n \in Nat, NEW en \in [Pages -> Draft(n)], NEW ps
  PROVE  Cleared(en, ps) \in [Pages -> Draft(n)]
BY NoDraftIsDraft DEF Cleared

LEMMA StillIsKept ==
  ASSUME OcrTyped, NEW ps
  PROVE  Still(ps) = Kept(Cleared(entered, ps), view')
BY DEF Still, Kept, Cleared

\* Leaving some pages out, the editor remembered: the drafts are what was entered.
LEMMA RememberedDrafts ==
  ASSUME NEW n \in Nat, NEW v \in ViewRow(n), NEW en \in [Pages -> Draft(n)], NEW ps \in SUBSET Pages,
         HoldsEntered(v, en), Differs(en, v.pages)
  PROVE  LET r == Remembered(WithoutDrafts(v, ps), ps)
         IN  /\ r \in ViewRow(n) /\ r.pages = v.pages /\ r.current = v.current /\ r.editor = v.editor
             /\ r.canSave = v.canSave /\ r.drafts = Cleared(en, ps)
<1>. DEFINE out == [p \in Pages |-> IF p \in ps THEN NoDraft ELSE v.drafts[p]]
            w == [v EXCEPT !.drafts = out]
            c == v.current
            draft == IF c \in ps \/ v.editor = v.pages[c].text THEN NoDraft
                     ELSE [boxes |-> v.pages[c].boxes, text |-> v.editor]
            drafts == IF c = 0 THEN out ELSE [out EXCEPT ![c] = draft]
            r == [v EXCEPT !.drafts = drafts]
<1>1. out \in [Pages -> Draft(n)]
  BY NoDraftIsDraft DEF ViewRow
<1>2. WithoutDrafts(v, ps) = w
  BY DEF WithoutDrafts
<1>3. c # 0 => c \in Pages /\ draft \in Draft(n)
  BY NoDraftIsDraft DEF ViewRow, ScanRow, Draft
<1>4. drafts \in [Pages -> Draft(n)]
  BY <1>1, <1>3
<1>5. ASSUME NEW p \in Pages  PROVE drafts[p] = Cleared(en, ps)[p]
  <2>1. CASE p # c
    BY <2>1 DEF HoldsEntered, Cleared
  <2>2. CASE p = c /\ p \in ps
    BY <1>1, <2>2, PageFacts DEF Cleared
  <2>3. CASE p = c /\ p \notin ps /\ en[p] = NoDraft
    BY <1>1, <2>3, PageFacts DEF Cleared, HoldsEntered
  <2>4. CASE p = c /\ p \notin ps /\ en[p] # NoDraft
    <3>1. v.editor = en[p].text /\ en[p].boxes = v.pages[p].boxes /\ v.pages[p].text # en[p].text
      BY <2>4 DEF HoldsEntered, Differs
    <3>2. draft = [boxes |-> en[p].boxes, text |-> en[p].text]
      BY <2>4, <3>1
    <3>3. en[p] = [boxes |-> en[p].boxes, text |-> en[p].text]
      BY DEF Draft
    <3>. HIDE DEF draft
    <3>. QED  BY <1>1, <2>4, <3>2, <3>3, PageFacts DEF Cleared
  <2>. QED  BY <2>1, <2>2, <2>3, <2>4
<1>6. drafts = Cleared(en, ps)
  <2>. HIDE DEF drafts
  <2>. QED  BY <1>4, <1>5 DEF Cleared
<1>7. w \in ViewRow(n) /\ w.current = c /\ w.drafts = out /\ w.pages = v.pages /\ w.editor = v.editor
  <2>. HIDE DEF out
  <2>. QED  BY <1>1 DEF ViewRow
<1>8. Remembered(w, ps) = r
  <2>1. CASE c = 0
    BY <1>7, <2>1 DEF Remembered
  <2>2. CASE c # 0
    <3>1. Remembered(w, ps) = [w EXCEPT !.drafts = [w.drafts EXCEPT ![c] = draft]]
      BY <1>7, <2>2 DEF Remembered
    <3>2. [w EXCEPT !.drafts = drafts] = r
      <4>. HIDE DEF out, drafts
      <4>. QED  BY DEF ViewRow
    <3>. QED  BY <1>7, <2>2, <3>1, <3>2
  <2>. QED  BY <2>1, <2>2
<1>9. r \in ViewRow(n) /\ r.pages = v.pages /\ r.current = c /\ r.editor = v.editor /\ r.canSave = v.canSave
      /\ r.drafts = drafts
  <2>. HIDE DEF drafts
  <2>. QED  BY <1>4 DEF ViewRow
<1>. HIDE DEF r, w
<1>. QED  BY <1>2, <1>6, <1>8, <1>9

\* A page is filled from what was entered, if it has the same layout.
LEMMA OpenedHolds ==
  ASSUME NEW n \in Nat, NEW v \in ViewRow(n), NEW en \in [Pages -> Draft(n)], v.drafts = en, NEW p \in Pages
  PROVE  LET o == Opened(v, p)
         IN  /\ o \in ViewRow(n) /\ o.pages = v.pages /\ o.current = p /\ o.drafts = en /\ o.canSave = v.canSave
             /\ Differs(en, v.pages) => HoldsEntered(o, Kept(en, o)) /\ Differs(Kept(en, o), v.pages)
<1>. DEFINE text == IF en[p].text # NoText /\ en[p].boxes = v.pages[p].boxes THEN en[p].text ELSE v.pages[p].text
            o == [v EXCEPT !.current = p, !.editor = text]
<1>1. Opened(v, p) = o
  BY DEF Opened
<1>2. text \in 0..n
  BY DEF ViewRow, ScanRow, Draft
<1>3. o \in ViewRow(n) /\ o.pages = v.pages /\ o.current = p /\ o.drafts = en /\ o.canSave = v.canSave /\ o.editor = text
  <2>. HIDE DEF text
  <2>. QED  BY <1>2 DEF ViewRow
<1>. HIDE DEF o
<1>4. ASSUME Differs(en, v.pages)  PROVE HoldsEntered(o, Kept(en, o)) /\ Differs(Kept(en, o), v.pages)
  <2>1. NoDraft.text = NoText
    BY DEF NoDraft
  <2>2. ASSUME NEW q \in Pages
        PROVE  IF q # o.current THEN o.drafts[q] = Kept(en, o)[q]
               ELSE IF Kept(en, o)[q] = NoDraft THEN o.editor = o.pages[q].text
               ELSE o.editor = Kept(en, o)[q].text /\ Kept(en, o)[q].boxes = o.pages[q].boxes
    <3>1. CASE q # p
      BY <1>3, <3>1 DEF Kept
    <3>2. CASE q = p /\ en[p].boxes # v.pages[p].boxes
      BY <1>3, <3>2 DEF Kept
    <3>3. CASE q = p /\ en[p].boxes = v.pages[p].boxes
      BY <1>3, <1>4, <2>1, <3>3 DEF Kept, Differs
    <3>. QED  BY <3>1, <3>2, <3>3
  <2>. QED  BY <1>4, <2>2 DEF HoldsEntered, Differs, Kept
<1>. QED  BY <1>1, <1>3, <1>4

\* The tab is filled again: with new pages, on the page it was on.
LEMMA SyncedHolds ==
  ASSUME NEW n \in Nat, NEW v \in ViewRow(n), NEW en \in [Pages -> Draft(n)], v.drafts = en,
         NEW ss \in [Pages -> ScanRow(n)], NEW rs, NEW locked
  PROVE  LET s == Synced(v, ss, rs, locked)
         IN  /\ s \in ViewRow(n) /\ s.pages = ss /\ s.current \in Pages /\ s.drafts = en
             /\ v.current # 0 => s.current = v.current
             /\ s.canSave = (~locked /\ Active(rs) = {})
             /\ Differs(en, ss) => HoldsEntered(s, Kept(en, s)) /\ Differs(Kept(en, s), ss)
<1>. DEFINE can == ~locked /\ Active(rs) = {}
            w == [v EXCEPT !.pages = ss, !.canSave = can]
            at == IF v.current = 0 THEN FirstPage ELSE v.current
<1>1. can \in BOOLEAN
  OBVIOUS
<1>2. Synced(v, ss, rs, locked) = Opened(w, at)
  BY DEF Synced
<1>3. at \in Pages
  BY PageFacts DEF ViewRow
<1>4. w \in ViewRow(n) /\ w.pages = ss /\ w.drafts = en /\ w.canSave = can
  <2>. HIDE DEF can
  <2>. QED  BY <1>1 DEF ViewRow
<1>. HIDE DEF w
<1>5. LET o == Opened(w, at)
      IN  /\ o \in ViewRow(n) /\ o.pages = w.pages /\ o.current = at /\ o.drafts = en /\ o.canSave = w.canSave
          /\ Differs(en, w.pages) => HoldsEntered(o, Kept(en, o)) /\ Differs(Kept(en, o), w.pages)
  BY <1>3, <1>4, OpenedHolds
<1>. QED  BY <1>2, <1>3, <1>4, <1>5

-----------------------------------------------------------------------------
(* The OCR tab: its steps                                                  *)

LEMMA NothingLeftOut ==
  ASSUME NEW n \in Nat, NEW v \in ViewRow(n)
  PROVE  WithoutDrafts(v, {}) = v
BY DEF WithoutDrafts, ViewRow

LEMMA NothingCleared ==
  ASSUME NEW n \in Nat, NEW en \in [Pages -> Draft(n)]
  PROVE  Cleared(en, {}) = en
BY DEF Cleared

\* A refresh of the tab with what the database has.
LEMMA PaneRefreshes ==
  ASSUME OcrInv, NEW ps \in SUBSET Pages, NEW rs, NEW locked
  PROVE  LET r == RefreshedPane(WithoutDrafts(view, ps), ps, scans, rs, locked)
             en == Cleared(entered, ps)
         IN  /\ r \in ViewRow(words) /\ r.pages = scans /\ r.current \in Pages
             /\ r.canSave = (~locked /\ Active(rs) = {})
             /\ HoldsEntered(r, Kept(en, r)) /\ Differs(Kept(en, r), scans)
             /\ Kept(en, r) \in [Pages -> Draft(words)]
<1>. DEFINE en == Cleared(entered, ps)
            v == Remembered(WithoutDrafts(view, ps), ps)
            r == Synced(v, scans, rs, locked)
<1>1. /\ words \in Nat /\ view \in ViewRow(words) /\ entered \in [Pages -> Draft(words)]
      /\ scans \in [Pages -> ScanRow(words)] /\ HoldsEntered(view, entered)
      /\ Differs(entered, view.pages) /\ Differs(entered, scans)
  BY DEF OcrInv, OcrTyped
<1>2. v \in ViewRow(words) /\ v.drafts = en
  BY <1>1, RememberedDrafts
<1>3. en \in [Pages -> Draft(words)] /\ Differs(en, scans)
  BY <1>1, ClearedIsDraft DEF Cleared, Differs
<1>. HIDE DEF v, en
<1>4. /\ r \in ViewRow(words) /\ r.pages = scans /\ r.current \in Pages
      /\ r.canSave = (~locked /\ Active(rs) = {})
      /\ HoldsEntered(r, Kept(en, r)) /\ Differs(Kept(en, r), scans)
  BY <1>1, <1>2, <1>3, SyncedHolds
<1>5. Kept(en, r) \in [Pages -> Draft(words)]
  BY <1>1, <1>3, NoDraftIsDraft DEF Kept
<1>6. RefreshedPane(WithoutDrafts(view, ps), ps, scans, rs, locked) = r
  BY DEF RefreshedPane, v
<1>. HIDE DEF r
<1>. QED  BY <1>4, <1>5, <1>6 DEF en

\* The same, with nothing left out.
LEMMA PlainPaneRefresh ==
  ASSUME OcrInv, view' = RefreshedPane(view, {}, scans, runs, chunked), entered' = Still({})
  PROVE  /\ view' \in ViewRow(words) /\ view'.pages = scans /\ view'.current \in Pages
         /\ view'.canSave = (~chunked /\ Active(runs) = {})
         /\ HoldsEntered(view', entered') /\ Differs(entered', scans)
         /\ entered' \in [Pages -> Draft(words)]
<1>1. OcrTyped /\ view \in ViewRow(words) /\ entered \in [Pages -> Draft(words)] /\ words \in Nat
  BY DEF OcrInv, OcrTyped
<1>2. WithoutDrafts(view, {}) = view
  BY <1>1, NothingLeftOut
<1>. DEFINE r == RefreshedPane(WithoutDrafts(view, {}), {}, scans, runs, chunked)
            en == Cleared(entered, {})
<1>3. /\ r \in ViewRow(words) /\ r.pages = scans /\ r.current \in Pages
      /\ r.canSave = (~chunked /\ Active(runs) = {})
      /\ HoldsEntered(r, Kept(en, r)) /\ Differs(Kept(en, r), scans)
      /\ Kept(en, r) \in [Pages -> Draft(words)]
  BY PaneRefreshes
<1>4. view' = r
  BY <1>2
<1>5. entered' = Kept(en, view')
  BY <1>1, StillIsKept
<1>. HIDE DEF r, en
<1>. QED  BY <1>3, <1>4, <1>5

\* The screen is as it was: so is what is still entered.
LEMMA StillAsItWas ==
  ASSUME OcrInv, view' = view, entered' = Still({})
  PROVE  entered' = entered
<1>1. OcrTyped /\ words \in Nat /\ entered \in [Pages -> Draft(words)]
  BY DEF OcrInv, OcrTyped
<1>2. entered' = Kept(entered, view)
  BY <1>1, StillIsKept, NothingCleared
<1>3. ASSUME NEW p \in Pages  PROVE Kept(entered, view)[p] = entered[p]
  BY DEF Kept, OcrInv, HoldsEntered
<1>. QED  BY <1>1, <1>2, <1>3 DEF Kept

LEMMA OcrInitIsFine == OcrInit => OcrInv
<1>. SUFFICES ASSUME OcrInit  PROVE OcrInv
  OBVIOUS
<1>. DEFINE many == CHOOSE b \in Boxes : b # 0
            page == CHOOSE p \in Pages : TRUE
            some == {[done |-> FALSE, boxes |-> 0, text |-> NoText], [done |-> TRUE, boxes |-> many, text |-> 1]}
            Left(j, asked) == [[i \in Slots |-> NoRun] EXCEPT ![j].status = "queued", ![j].asked = asked]
<1>1. 0 \in Boxes /\ many \in Boxes /\ page \in Pages
  BY OcrAssumption
<1>2. words = 1 /\ NoDraft \in Draft(1) /\ NoText = 0
  BY NoDraftIsDraft DEF OcrInit, NoText
<1>3. scans \in [Pages -> ScanRow(1)]
  <2>1. scans \in [Pages -> some]
    BY DEF OcrInit
  <2>. HIDE DEF many
  <2>2. some \subseteq ScanRow(1)
    BY <1>1, <1>2 DEF ScanRow
  <2>. HIDE DEF some
  <2>. QED  BY <2>1, <2>2
<1>4. view \in ViewRow(1) /\ view.pages = scans /\ view.current = 0
  BY <1>2, <1>3 DEF OcrInit, ViewRow
<1>5. runs \in [Slots -> RunRow]
  <2>1. NoRun \in RunRow
    BY DEF NoRun, RunRow
  <2>2. runs = [i \in Slots |-> NoRun] \/ \E j \in Slots, asked \in {{}, {page}} : runs = Left(j, asked)
    BY DEF OcrInit
  <2>. HIDE DEF page
  <2>3. ASSUME NEW j \in Slots, NEW asked \in {{}, {page}}
        PROVE  Left(j, asked) \in [Slots -> RunRow]
    BY <1>1, <2>1 DEF RunRow
  <2>. HIDE DEF Left
  <2>. QED  BY <2>1, <2>2, <2>3
<1>6. /\ entered = [p \in Pages |-> NoDraft] /\ kept = [p \in Pages |-> 0]
      /\ \A p \in Pages : view.drafts[p] = NoDraft
  BY <1>2 DEF OcrInit
<1>7. OcrTyped
  <2>1. entered \in [Pages -> Draft(1)] /\ kept \in [Pages -> 0..1]
    BY <1>2, <1>6
  <2>2. /\ chunked \in BOOLEAN /\ posted \in BOOLEAN /\ pane \in [shown : BOOLEAN, dirty : BOOLEAN]
    BY DEF OcrInit
  <2>. QED  BY <1>2, <1>3, <1>4, <1>5, <2>1, <2>2 DEF OcrTyped
<1>8. HoldsEntered(view, entered) /\ Differs(entered, view.pages) /\ Differs(entered, scans)
  BY <1>4, <1>6, PageFacts DEF HoldsEntered, Differs
<1>9. KeptInv
  BY <1>2, <1>6 DEF KeptInv
<1>. QED  BY <1>7, <1>8, <1>9 DEF OcrInit, OcrInv

\* A step that only refreshes the tab, or leaves it as it is.
LEMMA PaneStepKeeps ==
  ASSUME OcrInv, ShowPane \/ LeavePane \/ DispatchPosted
  PROVE  OcrInv'
<1>1. /\ OcrTyped /\ pane' \in [shown : BOOLEAN, dirty : BOOLEAN]
      /\ UNCHANGED <<scans, words, runs, chunked, kept>> /\ posted' \in BOOLEAN
  <2>1. OcrTyped /\ pane \in [shown : BOOLEAN, dirty : BOOLEAN] /\ posted \in BOOLEAN
    BY DEF OcrInv, OcrTyped
  <2>2. CASE ShowPane
    BY <2>1, <2>2 DEF ShowPane
  <2>3. CASE LeavePane
    BY <2>1, <2>3 DEF LeavePane
  <2>4. CASE DispatchPosted
    BY <2>1, <2>4 DEF DispatchPosted
  <2>. QED  BY <2>2, <2>3, <2>4
<1>2. KeptInv'
  BY <1>1 DEF KeptInv, OcrInv
<1>3. ASSUME view' = RefreshedPane(view, {}, scans, runs, chunked), entered' = Still({})  PROVE OcrInv'
  <2>1. /\ view' \in ViewRow(words) /\ view'.pages = scans /\ view'.current \in Pages
        /\ view'.canSave = (~chunked /\ Active(runs) = {})
        /\ HoldsEntered(view', entered') /\ Differs(entered', scans)
        /\ entered' \in [Pages -> Draft(words)]
    BY <1>3, PlainPaneRefresh
  <2>2. OcrTyped'
    BY <1>1, <2>1 DEF OcrTyped
  <2>. QED  BY <1>1, <1>2, <2>1, <2>2, PageFacts DEF OcrInv, Active
<1>4. ASSUME view' = view, entered' = Still({}) \/ entered' = entered,
             pane'.shown \/ ~pane'.dirty => view.current # 0,
             ~pane'.dirty /\ ~posted' => ~pane.dirty /\ ~posted
      PROVE  OcrInv'
  <2>1. entered' = entered
    BY <1>4, StillAsItWas
  <2>2. OcrTyped'
    BY <1>1, <1>4, <2>1 DEF OcrTyped
  <2>. QED  BY <1>1, <1>2, <1>4, <2>1, <2>2 DEF OcrInv, Active
<1>5. CASE ShowPane
  BY <1>1, <1>3, <1>4, <1>5 DEF ShowPane, OcrInv
<1>6. CASE LeavePane
  <2>1. pane.shown /\ pane'.dirty = pane.dirty /\ posted' = posted /\ view' = view /\ entered' = entered
    BY <1>1, <1>6 DEF LeavePane, OcrTyped
  <2>. QED  BY <1>4, <2>1 DEF OcrInv
<1>7. CASE DispatchPosted
  <2>1. CASE pane.shown
    BY <1>3, <1>7, <2>1 DEF DispatchPosted
  <2>2. CASE ~pane.shown
    <3>1. view' = view /\ entered' = Still({}) /\ pane'.dirty /\ ~pane'.shown
      BY <1>1, <1>7, <2>2 DEF DispatchPosted, OcrTyped
    <3>. QED  BY <1>4, <3>1
  <2>. QED  BY <2>1, <2>2
<1>. QED  BY <1>5, <1>6, <1>7

\* One text more.
LEMMA RowsGrow ==
  ASSUME NEW n \in Nat
  PROVE  /\ 0..n \subseteq 0..(n + 1) /\ n + 1 \in 0..(n + 1) /\ n + 1 \notin 0..n
         /\ \A r \in ScanRow(n) : r \in ScanRow(n + 1)
         /\ \A d \in Draft(n) : d \in Draft(n + 1)
         /\ \A v \in ViewRow(n) : v \in ViewRow(n + 1)
<1>1. 0..n \subseteq 0..(n + 1) /\ n + 1 \in 0..(n + 1) /\ n + 1 \notin 0..n
  OBVIOUS
<1>2. ASSUME NEW r \in ScanRow(n)  PROVE r \in ScanRow(n + 1)
  BY <1>1 DEF ScanRow
<1>3. ASSUME NEW d \in Draft(n)  PROVE d \in Draft(n + 1)
  BY <1>1 DEF Draft
<1>4. ASSUME NEW v \in ViewRow(n)  PROVE v \in ViewRow(n + 1)
  <2>1. /\ v.pages \in [Pages -> ScanRow(n + 1)] /\ v.drafts \in [Pages -> Draft(n + 1)]
        /\ v.editor \in 0..(n + 1)
    BY <1>1, <1>2, <1>3 DEF ViewRow
  <2>. QED  BY <2>1 DEF ViewRow
<1>. QED  BY <1>1, <1>2, <1>3, <1>4

LEMMA EnterKeeps ==
  ASSUME OcrInv, Enter
  PROVE  OcrInv'
<1>. DEFINE c == view.current
            boxes == view.pages[c].boxes
<1>1. /\ OcrTyped /\ words' = words + 1 /\ words \in Nat /\ words + 1 # NoText
      /\ view' = [view EXCEPT !.editor = words + 1]
      /\ entered' = [entered EXCEPT ![c] = [boxes |-> boxes, text |-> words + 1]]
      /\ UNCHANGED <<scans, runs, chunked, posted, pane, kept>>
  BY DEF OcrInv, OcrTyped, Enter, NoText
<1>2. /\ view \in ViewRow(words) /\ entered \in [Pages -> Draft(words)] /\ scans \in [Pages -> ScanRow(words)]
      /\ kept \in [Pages -> 0..words] /\ c \in Pages
  BY DEF OcrInv, OcrTyped, Enter, ViewRow
<1>3. /\ 0..words \subseteq 0..words' /\ words' \in 0..words' /\ words' \notin 0..words
      /\ view \in ViewRow(words') /\ entered \in [Pages -> Draft(words')] /\ scans \in [Pages -> ScanRow(words')]
      /\ kept \in [Pages -> 0..words']
  BY <1>1, <1>2, RowsGrow
<1>4. /\ view' \in ViewRow(words') /\ view'.editor = words' /\ view'.current = c /\ view'.pages = view.pages
      /\ view'.drafts = view.drafts /\ view'.canSave = view.canSave
  BY <1>1, <1>3 DEF ViewRow
<1>5. [boxes |-> boxes, text |-> words'] \in Draft(words')
  BY <1>2, <1>3 DEF ViewRow, ScanRow, Draft
<1>6. entered' \in [Pages -> Draft(words')] /\ entered'[c] = [boxes |-> boxes, text |-> words']
      /\ \A p \in Pages : p # c => entered'[p] = entered[p]
  BY <1>1, <1>2, <1>3, <1>5
<1>7. entered'[c].text = words' /\ entered'[c].boxes = boxes /\ entered'[c] # NoDraft
  BY <1>1, <1>6 DEF NoDraft
<1>8. \A p \in Pages : view.pages[p].text # words' /\ scans[p].text # words'
  BY <1>2, <1>3 DEF ViewRow, ScanRow
<1>9. HoldsEntered(view', entered')
  BY <1>2, <1>4, <1>6, <1>7 DEF HoldsEntered, OcrInv
<1>10. Differs(entered', view'.pages) /\ Differs(entered', scans')
  BY <1>1, <1>4, <1>6, <1>7, <1>8 DEF Differs, OcrInv
<1>11. OcrTyped'
  BY <1>1, <1>3, <1>4, <1>6 DEF OcrTyped
<1>12. KeptInv'
  BY <1>1 DEF OcrInv, KeptInv
<1>. QED  BY <1>1, <1>4, <1>9, <1>10, <1>11, <1>12 DEF OcrInv, Active

LEMMA TurnKeeps ==
  ASSUME OcrInv, NEW p \in Pages, Turn(p)
  PROVE  OcrInv'
<1>. DEFINE v == Remembered(WithoutDrafts(view, {}), {})
            en == Cleared(entered, {})
            o == Opened(v, p)
<1>1. /\ OcrTyped /\ words \in Nat /\ view \in ViewRow(words) /\ entered \in [Pages -> Draft(words)]
      /\ HoldsEntered(view, entered) /\ Differs(entered, view.pages) /\ Differs(entered, scans)
  BY DEF OcrInv, OcrTyped
<1>2. /\ v \in ViewRow(words) /\ v.pages = view.pages /\ v.drafts = en /\ v.canSave = view.canSave
  BY <1>1, RememberedDrafts
<1>3. en = entered
  BY <1>1, NothingCleared
<1>4. view' = o
  BY <1>1, NothingLeftOut DEF Turn
<1>. HIDE DEF v, en
<1>5. /\ o \in ViewRow(words) /\ o.pages = view.pages /\ o.current = p /\ o.canSave = view.canSave
      /\ HoldsEntered(o, Kept(entered, o)) /\ Differs(Kept(entered, o), view.pages)
  BY <1>1, <1>2, <1>3, OpenedHolds
<1>6. entered' = Kept(entered, view') /\ UNCHANGED <<scans, words, runs, chunked, posted, pane, kept>>
  BY <1>1, <1>3, StillIsKept DEF Turn, en
<1>7. entered' \in [Pages -> Draft(words)] /\ Differs(entered', scans)
  BY <1>1, <1>6, NoDraftIsDraft DEF Kept, Differs
<1>. HIDE DEF o
<1>8. OcrTyped'
  BY <1>1, <1>4, <1>5, <1>6, <1>7 DEF OcrTyped
<1>9. KeptInv'
  BY <1>6 DEF OcrInv, KeptInv
<1>. QED  BY <1>4, <1>5, <1>6, <1>7, <1>8, <1>9, PageFacts DEF OcrInv, Active

\* A save: refused, it refreshes; done, the page is taken from the database.
LEMMA SavePageKeeps ==
  ASSUME OcrInv, SavePage
  PROVE  OcrInv'
<1>. DEFINE p == view.current
            row1 == [done |-> TRUE, boxes |-> scans[p].boxes, text |-> view.editor]
            new == [scans EXCEPT ![p] = row1]
<1>1. /\ OcrTyped /\ words \in Nat /\ view \in ViewRow(words) /\ entered \in [Pages -> Draft(words)]
      /\ scans \in [Pages -> ScanRow(words)] /\ p \in Pages /\ view.editor # NoText
      /\ HoldsEntered(view, entered) /\ Differs(entered, view.pages) /\ Differs(entered, scans)
      /\ UNCHANGED <<words, runs, chunked, posted, pane>>
  BY DEF OcrInv, OcrTyped, SavePage, ViewRow
<1>2. CASE Claiming(runs) # {} \/ chunked
  <2>1. view' = RefreshedPane(view, {}, scans, runs, chunked) /\ entered' = Still({}) /\ UNCHANGED <<scans, kept>>
    BY <1>2 DEF SavePage
  <2>2. /\ view' \in ViewRow(words) /\ view'.pages = scans /\ view'.current \in Pages
        /\ view'.canSave = (~chunked /\ Active(runs) = {})
        /\ HoldsEntered(view', entered') /\ Differs(entered', scans)
        /\ entered' \in [Pages -> Draft(words)]
    BY <2>1, PlainPaneRefresh
  <2>3. OcrTyped'
    BY <1>1, <2>1, <2>2 DEF OcrTyped
  <2>4. KeptInv'
    BY <1>1, <2>1 DEF KeptInv, OcrInv
  <2>. QED  BY <1>1, <2>1, <2>2, <2>3, <2>4, PageFacts DEF OcrInv, Active
<1>3. CASE Claiming(runs) = {} /\ ~chunked
  <2>. DEFINE nested == Synced(Remembered(WithoutDrafts(view, {}), {}), new, runs, chunked)
              en == Cleared(entered, {p})
              v == WithoutDrafts(nested, {p})
              s == Synced(v, new, runs, chunked)
  <2>1. /\ scans' = new /\ entered' = Still({p})
        /\ view' = Synced(WithoutDrafts(RefreshedPane(view, {}, new, runs, chunked), {p}), new, runs, chunked)
        /\ kept' = [kept EXCEPT ![p] = IF \E i \in Active(runs) : p \in runs[i].asked THEN NoText ELSE view.editor]
    BY <1>3 DEF SavePage
  <2>2. view' = s
    BY <1>1, <2>1, NothingLeftOut DEF RefreshedPane
  <2>3. /\ new \in [Pages -> ScanRow(words)] /\ new[p] = row1 /\ \A q \in Pages : q # p => new[q] = scans[q]
    <3>1. row1 \in ScanRow(words)
      BY <1>1 DEF ScanRow, ViewRow
    <3>. QED  BY <1>1, <3>1
  <2>. HIDE DEF new
  <2>4. /\ nested \in ViewRow(words) /\ nested.drafts = Cleared(entered, {}) /\ nested.current = p
    <3>. DEFINE r == Remembered(WithoutDrafts(view, {}), {})
    <3>1. r \in ViewRow(words) /\ r.current = p /\ r.drafts = Cleared(entered, {})
      BY <1>1, RememberedDrafts
    <3>2. Cleared(entered, {}) \in [Pages -> Draft(words)] /\ p # 0
      BY <1>1, ClearedIsDraft, PageFacts
    <3>. HIDE DEF r
    <3>. QED  BY <1>1, <2>3, <3>1, <3>2, SyncedHolds DEF r
  <2>5. nested.drafts = entered
    BY <1>1, <2>4, NothingCleared
  <2>. HIDE DEF nested
  <2>6. v \in ViewRow(words) /\ v.drafts = en /\ v.current = p
    <3>1. v = [nested EXCEPT !.drafts = [q \in Pages |-> IF q \in {p} THEN NoDraft ELSE entered[q]]]
      BY <2>5 DEF WithoutDrafts
    <3>2. en = [q \in Pages |-> IF q \in {p} THEN NoDraft ELSE entered[q]]
      BY DEF Cleared
    <3>3. en \in [Pages -> Draft(words)]
      BY <1>1, ClearedIsDraft
    <3>. HIDE DEF en
    <3>. QED  BY <2>4, <3>1, <3>2, <3>3 DEF ViewRow
  <2>7. en \in [Pages -> Draft(words)] /\ Differs(en, new)
    BY <1>1, <2>3, ClearedIsDraft DEF Cleared, Differs
  <2>. HIDE DEF v, en
  <2>8. /\ s \in ViewRow(words) /\ s.pages = new /\ s.current \in Pages
        /\ s.canSave = (~chunked /\ Active(runs) = {})
        /\ HoldsEntered(s, Kept(en, s)) /\ Differs(Kept(en, s), new)
    BY <1>1, <2>3, <2>6, <2>7, SyncedHolds
  <2>9. entered' = Kept(en, view')
    BY <1>1, <2>1, StillIsKept DEF en
  <2>10. Kept(en, s) \in [Pages -> Draft(words)]
    BY <1>1, <2>7, NoDraftIsDraft DEF Kept
  <2>. HIDE DEF s
  <2>11. kept' \in [Pages -> 0..words] /\ (kept'[p] # NoText => kept'[p] = view.editor /\ \A i \in Active(runs) : p \notin runs[i].asked)
         /\ \A q \in Pages : q # p => kept'[q] = kept[q]
    <3>1. kept \in [Pages -> 0..words] /\ view.editor \in 0..words /\ NoText \in 0..words
      BY <1>1 DEF OcrTyped, ViewRow, NoText
    <3>. QED  BY <1>1, <2>1, <3>1
  <2>12. KeptInv'
    <3>1. ASSUME NEW q \in Pages, kept'[q] # NoText
          PROVE  /\ scans'[q].done /\ scans'[q].text = kept'[q]
                 /\ \A i \in Slots : /\ runs[i].status = "running" => q \notin runs[i].todo
                                     /\ runs[i].status # "none" => q \notin runs[i].asked
      <4>1. CASE q # p
        BY <2>1, <2>3, <2>11, <3>1, <4>1 DEF OcrInv, KeptInv
      <4>2. CASE q = p
        BY <1>3, <2>1, <2>3, <2>11, <3>1, <4>2 DEF Claiming, Active
      <4>. QED  BY <4>1, <4>2
    <3>. QED  BY <1>1, <3>1 DEF KeptInv
  <2>13. OcrTyped'
    <3>1. scans' \in [Pages -> ScanRow(words')]
      BY <1>1, <2>1, <2>3
    <3>2. view' \in ViewRow(words')
      BY <1>1, <2>2, <2>8
    <3>3. entered' \in [Pages -> Draft(words')]
      BY <1>1, <2>2, <2>9, <2>10
    <3>4. kept' \in [Pages -> 0..words']
      BY <1>1, <2>11
    <3>5. /\ words' \in Nat \ {0} /\ runs' \in [Slots -> RunRow] /\ chunked' \in BOOLEAN /\ posted' \in BOOLEAN
          /\ pane' \in [shown : BOOLEAN, dirty : BOOLEAN]
      BY <1>1 DEF OcrTyped
    <3>. QED  BY <3>1, <3>2, <3>3, <3>4, <3>5 DEF OcrTyped
  <2>. QED  BY <1>1, <2>1, <2>2, <2>8, <2>9, <2>12, <2>13, PageFacts DEF OcrInv, Active
<1>. QED  BY <1>2, <1>3

\* A task that begins takes no page that was corrected and not asked for.
LEMMA BegunIsSafe ==
  ASSUME OcrInv, NEW r \in RunRow
  PROVE  /\ Begun(r) \in RunRow /\ Begun(r).status = "running" /\ Begun(r).asked = r.asked
         /\ \A p \in Pages : kept[p] # NoText /\ p \notin r.asked => p \notin Begun(r).todo
<1>1. Todo(r) \in SUBSET Pages /\ \A p \in Pages : kept[p] # NoText /\ p \notin r.asked => p \notin Todo(r)
  BY DEF Todo, Pending, RunRow, OcrInv, KeptInv
<1>2. Begun(r) = [r EXCEPT !.status = "running", !.todo = Todo(r)]
  BY DEF Begun
<1>. QED  BY <1>1, <1>2 DEF RunRow

LEMMA SubmittedIsSafe ==
  ASSUME OcrInv, NEW asked \in SUBSET Pages, Submitted(asked), UNCHANGED scans,
         kept' = [p \in Pages |-> IF p \in asked THEN NoText ELSE kept[p]]
  PROVE  runs' \in [Slots -> RunRow] /\ kept' \in [Pages -> 0..words] /\ KeptInv'
<1>. DEFINE r == [NoRun EXCEPT !.asked = asked]
<1>1. runs \in [Slots -> RunRow] /\ kept \in [Pages -> 0..words] /\ words \in Nat /\ KeptInv
  BY DEF OcrInv, OcrTyped
<1>2. r \in RunRow /\ r.asked = asked
  BY DEF NoRun, RunRow
<1>3. kept' \in [Pages -> 0..words] /\ \A p \in Pages : kept'[p] # NoText => kept'[p] = kept[p] /\ p \notin asked
  BY <1>1 DEF NoText
<1>4. CASE UNCHANGED runs
  BY <1>1, <1>3, <1>4 DEF KeptInv
<1>5. ASSUME NEW i \in Slots, runs' = [runs EXCEPT ![i] = Begun(r)]
      PROVE  runs' \in [Slots -> RunRow] /\ KeptInv'
  <2>1. /\ Begun(r) \in RunRow /\ Begun(r).status = "running" /\ Begun(r).asked = asked
        /\ \A p \in Pages : kept[p] # NoText /\ p \notin asked => p \notin Begun(r).todo
    BY <1>2, BegunIsSafe
  <2>2. runs' \in [Slots -> RunRow] /\ runs'[i] = Begun(r) /\ \A j \in Slots : j # i => runs'[j] = runs[j]
    BY <1>1, <1>5, <2>1
  <2>. HIDE DEF r
  <2>3. KeptInv'
    BY <1>1, <1>3, <2>1, <2>2 DEF KeptInv
  <2>. QED  BY <2>2, <2>3
<1>. QED  BY <1>3, <1>4, <1>5 DEF Submitted

LEMMA RunPagesKeeps ==
  ASSUME OcrInv, NEW asked \in SUBSET Pages, NEW ps \in SUBSET Pages, RunPages(asked, ps)
  PROVE  OcrInv'
<1>1. OcrTyped /\ KeptInv /\ UNCHANGED <<scans, words, chunked, pane>> /\ posted' \in BOOLEAN
  BY DEF OcrInv, OcrTyped, RunPages
<1>2. CASE Accepted(asked)
  <2>. DEFINE r == RefreshedPane(WithoutDrafts(view, ps), ps, scans, runs', chunked)
              en == Cleared(entered, ps)
  <2>1. /\ Submitted(asked) /\ posted' = TRUE /\ view' = r /\ entered' = Still(ps)
        /\ kept' = [p \in Pages |-> IF p \in asked THEN NoText ELSE kept[p]]
    BY <1>2 DEF RunPages
  <2>2. /\ r \in ViewRow(words) /\ r.pages = scans /\ r.current \in Pages
        /\ HoldsEntered(r, Kept(en, r)) /\ Differs(Kept(en, r), scans)
        /\ Kept(en, r) \in [Pages -> Draft(words)]
    BY PaneRefreshes
  <2>3. entered' = Kept(en, view')
    BY <1>1, <2>1, StillIsKept
  <2>. HIDE DEF r, en
  <2>4. runs' \in [Slots -> RunRow] /\ kept' \in [Pages -> 0..words] /\ KeptInv'
    BY <1>1, <2>1, SubmittedIsSafe
  <2>5. OcrTyped'
    BY <1>1, <2>1, <2>2, <2>3, <2>4 DEF OcrTyped
  <2>. QED  BY <1>1, <2>1, <2>2, <2>3, <2>4, <2>5, PageFacts DEF OcrInv
<1>3. CASE ~Accepted(asked)
  <2>1. /\ view' = RefreshedPane(view, {}, scans, runs, chunked) /\ entered' = Still({})
        /\ UNCHANGED <<runs, posted, kept>>
    BY <1>3 DEF RunPages
  <2>2. /\ view' \in ViewRow(words) /\ view'.pages = scans /\ view'.current \in Pages
        /\ view'.canSave = (~chunked /\ Active(runs) = {})
        /\ HoldsEntered(view', entered') /\ Differs(entered', scans)
        /\ entered' \in [Pages -> Draft(words)]
    BY <2>1, PlainPaneRefresh
  <2>3. OcrTyped'
    BY <1>1, <2>1, <2>2 DEF OcrTyped
  <2>4. KeptInv'
    BY <1>1, <2>1 DEF KeptInv
  <2>. QED  BY <1>1, <2>1, <2>2, <2>3, <2>4, PageFacts DEF OcrInv, Active
<1>. QED  BY <1>2, <1>3

\* Tasks elsewhere: they change rows and pages, and post an event.
LEMMA ElsewhereKeeps ==
  ASSUME OcrInv, runs' \in [Slots -> RunRow], kept' \in [Pages -> 0..words], KeptInv', chunked' \in BOOLEAN,
         posted' = TRUE, UNCHANGED <<scans, words, pane, view, entered>>
  PROVE  OcrInv'
<1>1. OcrTyped'
  BY DEF OcrInv, OcrTyped
<1>. QED  BY <1>1 DEF OcrInv

LEMMA RecogniseKeeps ==
  ASSUME OcrInv, NEW i \in Slots, Recognise(i)
  PROVE  OcrInv'
<1>1. PICK p \in runs[i].todo, b \in Boxes :
        /\ scans' = [scans EXCEPT ![p] = [done |-> TRUE, boxes |-> b, text |-> words + 1]]
        /\ runs' = [runs EXCEPT ![i].todo = runs[i].todo \ {p}]
  BY DEF Recognise
<1>2. /\ runs[i].status = "running" /\ words' = words + 1 /\ posted' = TRUE
      /\ UNCHANGED <<chunked, pane, view, entered, kept>>
  BY DEF Recognise
<1>3. /\ OcrTyped /\ words \in Nat /\ runs \in [Slots -> RunRow] /\ scans \in [Pages -> ScanRow(words)]
      /\ view \in ViewRow(words) /\ entered \in [Pages -> Draft(words)] /\ kept \in [Pages -> 0..words]
  BY DEF OcrInv, OcrTyped
<1>4. p \in Pages /\ kept[p] = NoText
  BY <1>2, <1>3 DEF RunRow, OcrInv, KeptInv
<1>. DEFINE r == [runs[i] EXCEPT !.todo = runs[i].todo \ {p}]
<1>5. r \in RunRow /\ r.status = runs[i].status /\ r.asked = runs[i].asked /\ r.todo \subseteq runs[i].todo
  BY <1>3 DEF RunRow
<1>6. runs' = [runs EXCEPT ![i] = r]
  BY <1>1
<1>. HIDE DEF r
<1>7. /\ runs' \in [Slots -> RunRow]
      /\ \A j \in Slots : /\ runs'[j].status = runs[j].status /\ runs'[j].asked = runs[j].asked
                          /\ runs'[j].todo \subseteq runs[j].todo
  BY <1>3, <1>5, <1>6
<1>8. /\ 0..words \subseteq 0..words' /\ words' \in 0..words' /\ words' \notin 0..words
      /\ view \in ViewRow(words') /\ entered \in [Pages -> Draft(words')] /\ scans \in [Pages -> ScanRow(words')]
      /\ kept \in [Pages -> 0..words']
  BY <1>2, <1>3, RowsGrow
<1>9. [done |-> TRUE, boxes |-> b, text |-> words'] \in ScanRow(words')
  BY <1>8 DEF ScanRow
<1>10. /\ scans' \in [Pages -> ScanRow(words')] /\ scans'[p].text = words'
       /\ \A q \in Pages : q # p => scans'[q] = scans[q]
  BY <1>1, <1>2, <1>4, <1>8, <1>9
<1>11. OcrTyped'
  BY <1>2, <1>3, <1>7, <1>8, <1>10 DEF OcrTyped
<1>12. KeptInv'
  BY <1>2, <1>4, <1>7, <1>10 DEF OcrInv, KeptInv
<1>13. Differs(entered, scans')
  <2>1. \A q \in Pages : entered[q].text \in 0..words
    BY <1>3 DEF Draft
  <2>. QED  BY <1>8, <1>10, <2>1 DEF OcrInv, Differs
<1>. QED  BY <1>2, <1>11, <1>12, <1>13 DEF OcrInv

LEMMA OcrStep == OcrInv /\ OcrNext => OcrInv'
<1>. SUFFICES ASSUME OcrInv, OcrNext  PROVE OcrInv'
  OBVIOUS
<1>1. /\ OcrTyped /\ KeptInv /\ runs \in [Slots -> RunRow] /\ kept \in [Pages -> 0..words] /\ chunked \in BOOLEAN
  BY DEF OcrInv, OcrTyped
<1>2. CASE RunCurrent
  <2>1. view.current \in Pages
    BY <1>2 DEF OcrInv, OcrTyped, RunCurrent, RunPages, ViewRow
  <2>. QED  BY <1>2, <2>1, RunPagesKeeps DEF RunCurrent
<1>3. CASE RunPending
  BY <1>3, RunPagesKeeps DEF RunPending, Pending
<1>4. CASE RunElsewhere
  <2>1. PICK asked \in {{}} \cup {{p} : p \in Pages} :
          Submitted(asked) /\ kept' = [p \in Pages |-> IF p \in asked THEN NoText ELSE kept[p]]
    BY <1>4 DEF RunElsewhere
  <2>2. asked \in SUBSET Pages
    BY <2>1
  <2>3. posted' = TRUE /\ UNCHANGED <<scans, words, chunked, pane, view, entered>>
    BY <1>4 DEF RunElsewhere
  <2>. QED  BY <1>1, <2>1, <2>2, <2>3, SubmittedIsSafe, ElsewhereKeeps
<1>5. CASE OtherWork
  <2>1. chunked' \in BOOLEAN /\ posted' = TRUE /\ UNCHANGED <<scans, words, runs, pane, view, entered, kept>>
    BY <1>1, <1>5 DEF OtherWork
  <2>2. KeptInv'
    BY <1>1, <2>1 DEF KeptInv
  <2>. QED  BY <1>1, <2>1, <2>2, ElsewhereKeeps
<1>6. ASSUME NEW i \in Slots, NEW r \in RunRow, runs' = [runs EXCEPT ![i] = r],
             r.asked \subseteq runs[i].asked \/ r.status = "none", r.status # "none" => runs[i].status # "none",
             r.status = "running" => \A p \in Pages : kept[p] # NoText /\ p \notin r.asked => p \notin r.todo,
             posted' = TRUE, UNCHANGED <<scans, words, chunked, pane, view, entered, kept>>
      PROVE  OcrInv'
  <2>1. runs' \in [Slots -> RunRow] /\ runs'[i] = r /\ \A j \in Slots : j # i => runs'[j] = runs[j]
    BY <1>1, <1>6
  <2>2. KeptInv'
    <3>1. ASSUME NEW p \in Pages, kept[p] # NoText, NEW j \in Slots
          PROVE  /\ runs'[j].status = "running" => p \notin runs'[j].todo
                 /\ runs'[j].status # "none" => p \notin runs'[j].asked
      <4>1. CASE j # i
        BY <1>1, <2>1, <3>1, <4>1 DEF KeptInv
      <4>2. CASE j = i
        BY <1>1, <1>6, <2>1, <3>1, <4>2 DEF KeptInv
      <4>. QED  BY <4>1, <4>2
    <3>. QED  BY <1>1, <1>6, <3>1 DEF KeptInv
  <2>. QED  BY <1>1, <1>6, <2>1, <2>2, ElsewhereKeeps
<1>7. ASSUME NEW i \in Slots, StartRun(i)  PROVE OcrInv'
  <2>1. /\ runs[i] \in RunRow /\ runs[i].status # "none"
        /\ runs' = [runs EXCEPT ![i] = Begun(runs[i])] /\ posted' = TRUE
        /\ UNCHANGED <<scans, words, chunked, pane, view, entered, kept>>
    BY <1>1, <1>7 DEF StartRun, Change
  <2>2. /\ Begun(runs[i]) \in RunRow /\ Begun(runs[i]).asked = runs[i].asked
        /\ \A p \in Pages : kept[p] # NoText /\ p \notin runs[i].asked => p \notin Begun(runs[i]).todo
    BY <2>1, BegunIsSafe
  <2>. QED  BY <1>6, <2>1, <2>2
<1>8. ASSUME NEW i \in Slots, EndRun(i)  PROVE OcrInv'
  <2>. DEFINE r == [runs[i] EXCEPT !.status = "ended"]
  <2>1. /\ runs[i] \in RunRow /\ runs[i].status # "none" /\ runs' = [runs EXCEPT ![i] = r] /\ posted' = TRUE
        /\ UNCHANGED <<scans, words, chunked, pane, view, entered, kept>>
    BY <1>1, <1>8 DEF EndRun, Change
  <2>2. r \in RunRow /\ r.asked = runs[i].asked /\ r.status = "ended"
    BY <2>1 DEF RunRow
  <2>. HIDE DEF r
  <2>. QED  BY <1>6, <2>1, <2>2
<1>9. ASSUME NEW i \in Slots, DropRun(i)  PROVE OcrInv'
  <2>1. /\ runs' = [runs EXCEPT ![i] = NoRun] /\ posted' = TRUE
        /\ UNCHANGED <<scans, words, chunked, pane, view, entered, kept>>
    BY <1>9 DEF DropRun, Change
  <2>2. NoRun \in RunRow /\ NoRun.status = "none"
    BY DEF NoRun, RunRow
  <2>. QED  BY <1>6, <2>1, <2>2
<1>. QED
  BY <1>2, <1>3, <1>4, <1>5, <1>7, <1>8, <1>9, EnterKeeps, TurnKeeps, SavePageKeeps, RecogniseKeeps,
     PaneStepKeeps DEF OcrNext

\* What the invariant says of the tab.
LEMMA OcrIsRight == OcrInv => EnteredTextSurvives /\ SavedPagesAreKept /\ QuietPagesAreCurrent
<1>. SUFFICES ASSUME OcrInv  PROVE EnteredTextSurvives /\ SavedPagesAreKept /\ QuietPagesAreCurrent
  OBVIOUS
<1>1. NoDraft.text = NoText
  BY DEF NoDraft
<1>2. EnteredTextSurvives
  BY <1>1 DEF OcrInv, HoldsEntered, Differs, EnteredTextSurvives, StillEntered, PageShown
<1>3. SavedPagesAreKept
  BY DEF OcrInv, KeptInv, SavedPagesAreKept
<1>4. ASSUME NEW p \in Pages, ~StillEntered(p)  PROVE PageShown(p) = view.pages[p].text
  BY <1>1, <1>4 DEF OcrInv, HoldsEntered, Differs, StillEntered, PageShown
<1>5. QuietPagesAreCurrent
  BY <1>4 DEF OcrInv, QuietPagesAreCurrent
<1>. QED  BY <1>2, <1>3, <1>5

-----------------------------------------------------------------------------
(* The tables of terms: their steps                                        *)

LEMMA ViewFacts ==
  /\ "project" \in Views /\ "document" \in Views
  /\ \A v \in Views : Other(v) \in Views /\ Other(v) # v
  /\ Other("document") = "project" /\ Other("project") = "document"
<1>1. Other("document") \in Views /\ Other("document") # "document"
  BY DEF Other, Views
<1>2. Other("project") \in Views /\ Other("project") # "project"
  BY DEF Other, Views
<1>. QED  BY <1>1, <1>2 DEF Views

LEMMA ScopeFacts ==
  ASSUME NEW g \in [Terms -> TermRow], NEW v
  PROVE  Scope(v, g) \in [Terms -> TermRow]
         /\ \A k \in Terms : Scope("project", g)[k].there \/ g[k].there => Scope("project", g)[k] = g[k]
<1>1. Absent \in TermRow /\ ~Absent.there
  BY DEF Absent, TermRow
<1>2. ASSUME NEW k \in Terms, Scope("project", g)[k].there \/ g[k].there  PROVE Scope("project", g)[k] = g[k]
  <2>1. Scope("project", g)[k] = IF g[k].there THEN g[k] ELSE Absent
    BY DEF Scope
  <2>. QED  BY <1>1, <1>2, <2>1
<1>3. Scope(v, g) \in [Terms -> TermRow]
  BY <1>1 DEF Scope
<1>. QED  BY <1>2, <1>3

LEMMA LoadedFacts ==
  ASSUME TermsTyped, NEW g \in [Terms -> TermRow], NEW v \in Views
  PROVE  /\ Loaded(v, g) \in TableRow /\ ~Loaded(v, g).stale /\ Loaded(v, g).rows = Scope(v, g)
         /\ table[v] \in TableRow /\ table[v].owed = 0
<1>1. table[v] \in TableRow
  BY DEF TermsTyped
<1>. QED  BY <1>1, ScopeFacts DEF Loaded, TableRow

\* A write of one's own, from either table.
LEMMA OwnWriteFacts ==
  ASSUME TermsTyped, NEW v \in Views, NEW rows \in [Terms -> TermRow], NEW published \in BOOLEAN,
         AfterOwnWrite(v, rows, published)
  PROVE  /\ table' \in [Views -> TableRow] /\ table'[v].rows = rows /\ table'[v].stale = table[v].stale
         /\ table'[Other(v)].rows = table[Other(v)].rows
         /\ table'[Other(v)].stale = (table[Other(v)].stale \/ published)
<1>. DEFINE mine == [table[v] EXCEPT !.rows = rows]
            either == table[Other(v)].stale \/ published
            other == [table[Other(v)] EXCEPT !.stale = either]
<1>1. /\ table \in [Views -> TableRow] /\ table[v] \in TableRow /\ table[Other(v)] \in TableRow
      /\ table[v].owed = 0 /\ Other(v) \in Views /\ Other(v) # v
  BY ViewFacts DEF TermsTyped, TableRow
<1>2. either \in BOOLEAN
  BY <1>1 DEF TableRow
<1>3. mine \in TableRow /\ mine.rows = rows /\ mine.stale = table[v].stale /\ mine.owed = 0
  BY <1>1 DEF TableRow
<1>. HIDE DEF either
<1>4. other \in TableRow /\ other.rows = table[Other(v)].rows /\ other.stale = either
  BY <1>1, <1>2 DEF TableRow
<1>5. table' = [[table EXCEPT ![v] = mine] EXCEPT ![Other(v)] = other]
  <2>1. table' = [[[table EXCEPT ![v].rows = rows] EXCEPT ![v].owed = 0] EXCEPT ![Other(v)].stale = either]
    BY <1>1 DEF AfterOwnWrite, either
  <2>2. [[table EXCEPT ![v].rows = rows] EXCEPT ![v].owed = 0] = [table EXCEPT ![v] = mine]
    <3>1. [[table EXCEPT ![v].rows = rows] EXCEPT ![v].owed = 0] = [table EXCEPT ![v] = [mine EXCEPT !.owed = 0]]
      BY <1>1
    <3>2. [mine EXCEPT !.owed = 0] = mine
      BY <1>1, <1>3 DEF TableRow
    <3>. QED  BY <3>1, <3>2
  <2>3. [table EXCEPT ![v] = mine][Other(v)] = table[Other(v)]
    BY <1>1
  <2>. HIDE DEF mine
  <2>. QED  BY <1>1, <2>1, <2>2, <2>3
<1>. HIDE DEF mine, other
<1>. QED  BY <1>1, <1>3, <1>4, <1>5 DEF either

LEMMA OwnWriteKeeps ==
  ASSUME TermsInv, NEW v \in Views, Visible(v), NEW rows \in [Terms -> TermRow], NEW published \in BOOLEAN,
         AfterOwnWrite(v, rows, published), glossary' \in [Terms -> TermRow], names' \in Nat,
         UNCHANGED <<work, notice, place>>,
         ~published /\ Agrees(table["project"].rows, glossary) => Agrees(table["project"].rows, glossary'),
         Agrees(table[v].rows, glossary) => Agrees(rows, glossary')
  PROVE  TermsInv'
<1>1. /\ table' \in [Views -> TableRow] /\ table'[v].rows = rows /\ table'[v].stale = table[v].stale
      /\ table'[Other(v)].rows = table[Other(v)].rows
      /\ table'[Other(v)].stale = (table[Other(v)].stale \/ published)
  BY OwnWriteFacts DEF TermsInv
<1>2. TermsTyped'
  BY <1>1 DEF TermsInv, TermsTyped
<1>3. CASE v = "project"
  BY <1>1, <1>2, <1>3 DEF TermsInv, Visible, Blocked
<1>4. CASE v = "document"
  <2>1. place.page # "terms"
    BY <1>4 DEF Visible
  <2>. QED  BY <1>1, <1>2, <1>4, <2>1, ViewFacts DEF TermsInv, Visible, Blocked
<1>. QED  BY <1>3, <1>4 DEF Views

LEMMA AfterWriteKeeps ==
  ASSUME TermsInv, NEW v \in Views, Visible(v), NEW g \in [Terms -> TermRow], AfterWrite(v, g),
         glossary' = g, names' \in Nat, UNCHANGED <<work, notice, place>>
  PROVE  TermsInv'
<1>. DEFINE other == [table[Other(v)] EXCEPT !.stale = TRUE]
<1>1. /\ TermsTyped /\ table \in [Views -> TableRow] /\ Other(v) \in Views /\ Other(v) # v
      /\ table[v] \in TableRow /\ table[Other(v)] \in TableRow
  BY ViewFacts DEF TermsInv, TermsTyped
<1>2. /\ Loaded(v, g) \in TableRow /\ ~Loaded(v, g).stale /\ Loaded(v, g).rows = Scope(v, g)
      /\ table[v].owed = 0
  BY <1>1, LoadedFacts
<1>3. other \in TableRow /\ other.stale
  BY <1>1 DEF TableRow
<1>4. table' = [[table EXCEPT ![v] = Loaded(v, g)] EXCEPT ![Other(v)] = other]
  BY <1>1, <1>2 DEF AfterWrite
<1>. HIDE DEF other
<1>5. /\ table' \in [Views -> TableRow] /\ table'[v] = Loaded(v, g) /\ table'[Other(v)].stale
  BY <1>1, <1>2, <1>3, <1>4
<1>6. TermsTyped'
  BY <1>1, <1>5 DEF TermsTyped
<1>7. CASE v = "project"
  <2>1. Agrees(Scope("project", g), g)
    BY ScopeFacts DEF Agrees
  <2>. QED  BY <1>2, <1>5, <1>6, <1>7, <2>1 DEF TermsInv
<1>8. CASE v = "document"
  <2>1. place.page # "terms"
    BY <1>8 DEF Visible
  <2>. QED  BY <1>5, <1>6, <1>8, <2>1, ViewFacts DEF TermsInv, Visible
<1>. QED  BY <1>7, <1>8 DEF Views

\* While a task works on the glossary a write is refused, and the table loaded.
LEMMA RefuseKeeps ==
  ASSUME TermsInv, NEW v \in Views, Visible(v), Blocked, Refuse(v), UNCHANGED <<names, work, notice, place>>
  PROVE  TermsInv'
<1>1. TermsTyped /\ glossary \in [Terms -> TermRow] /\ table \in [Views -> TableRow]
  BY DEF TermsInv, TermsTyped
<1>2. Loaded(v, glossary) \in TableRow /\ ~Loaded(v, glossary).stale
  BY <1>1, LoadedFacts
<1>3. table' = [table EXCEPT ![v] = Loaded(v, glossary)] /\ glossary' = glossary
  BY DEF Refuse
<1>4. /\ table' \in [Views -> TableRow] /\ ~table'[v].stale
      /\ \A w \in Views : w # v => table'[w] = table[w]
  BY <1>1, <1>2, <1>3
<1>5. TermsTyped'
  BY <1>1, <1>3, <1>4 DEF TermsTyped
<1>6. Visible("project")' => ~table'["project"].stale
  BY <1>4, ViewFacts DEF TermsInv, Visible
<1>. QED  BY <1>5, <1>6 DEF TermsInv, Blocked

\* A table is loaded when it is stale and is shown again.
LEMMA ActivatedFacts ==
  ASSUME TermsInv, NEW v \in Views, table' = Activated(v), UNCHANGED glossary
  PROVE  /\ table' \in [Views -> TableRow] /\ ~table'[v].stale
         /\ \A w \in Views : w # v => table'[w] = table[w]
         /\ IF table[v].stale THEN table'[v].rows = Scope(v, glossary) ELSE table'[v] = table[v]
<1>1. TermsTyped /\ glossary \in [Terms -> TermRow] /\ table \in [Views -> TableRow] /\ table[v] \in TableRow
  BY DEF TermsInv, TermsTyped
<1>2. /\ Loaded(v, glossary) \in TableRow /\ ~Loaded(v, glossary).stale
      /\ Loaded(v, glossary).rows = Scope(v, glossary)
  BY <1>1, LoadedFacts
<1>3. table' = [table EXCEPT ![v] = IF table[v].stale THEN Loaded(v, glossary) ELSE table[v]]
  BY DEF Activated
<1>. QED  BY <1>1, <1>2, <1>3

LEMMA MovesKeep ==
  ASSUME TermsInv, ShowTerms \/ ShowWork \/ ChooseSection
  PROVE  TermsInv'
<1>1. /\ TermsTyped /\ glossary \in [Terms -> TermRow] /\ UNCHANGED <<glossary, names, work, notice>>
      /\ place \in [page : {"work", "terms"}, section : {"other", "terms"}]
  BY DEF TermsInv, TermsTyped, ShowTerms, ShowWork, ChooseSection, Stay
<1>2. CASE ShowTerms
  <2>1. /\ table' \in [Views -> TableRow] /\ ~table'["project"].stale
        /\ IF table["project"].stale THEN table'["project"].rows = Scope("project", glossary)
           ELSE table'["project"] = table["project"]
    BY <1>1, <1>2, ActivatedFacts, ViewFacts DEF ShowTerms
  <2>2. Agrees(Scope("project", glossary), glossary)
    BY <1>1, ScopeFacts DEF Agrees
  <2>3. place' \in [page : {"work", "terms"}, section : {"other", "terms"}]
    BY <1>1, <1>2 DEF ShowTerms
  <2>4. TermsTyped'
    BY <1>1, <2>1, <2>3 DEF TermsTyped
  <2>. QED  BY <1>1, <2>1, <2>2, <2>4 DEF TermsInv, Blocked
<1>3. CASE ShowWork
  <2>1. /\ place' \in [page : {"work", "terms"}, section : {"other", "terms"}] /\ place'.page = "work"
        /\ table' = table
    BY <1>1, <1>3 DEF ShowWork
  <2>2. TermsTyped'
    BY <1>1, <2>1 DEF TermsTyped
  <2>. QED  BY <1>1, <2>1, <2>2 DEF TermsInv, Blocked, Visible
<1>4. CASE ChooseSection
  <2>1. table' = Activated("document") \/ table' = table
    BY <1>4 DEF ChooseSection
  <2>2. table' \in [Views -> TableRow] /\ table'["project"] = table["project"]
    BY <1>1, <2>1, ActivatedFacts, ViewFacts DEF TermsTyped
  <2>3. /\ place' \in [page : {"work", "terms"}, section : {"other", "terms"}] /\ place'.page = "work"
    BY <1>1, <1>4 DEF ChooseSection
  <2>4. TermsTyped'
    BY <1>1, <2>2, <2>3 DEF TermsTyped
  <2>. QED  BY <1>1, <2>2, <2>3, <2>4 DEF TermsInv, Blocked, Visible
<1>. QED  BY <1>2, <1>3, <1>4

\* A table that hears of an event is loaded when it is shown, and stale when it is not.
LEMMA HeardFacts ==
  ASSUME TermsTyped, NEW v \in Views
  PROVE  /\ Heard(v) \in TableRow /\ (Visible(v) => ~Heard(v).stale /\ Heard(v).rows = Scope(v, glossary))
         /\ (~Visible(v) => Heard(v).stale)
<1>1. /\ glossary \in [Terms -> TermRow] /\ table[v] \in TableRow /\ table[v].owed = 0
  BY DEF TermsTyped, TableRow
<1>2. /\ Loaded(v, glossary) \in TableRow /\ ~Loaded(v, glossary).stale
      /\ Loaded(v, glossary).rows = Scope(v, glossary)
  BY <1>1, LoadedFacts
<1>3. [table[v] EXCEPT !.stale = TRUE] \in TableRow /\ [table[v] EXCEPT !.stale = TRUE].stale
  BY <1>1 DEF TableRow
<1>4. Heard(v) = IF Visible(v) THEN Loaded(v, glossary) ELSE [table[v] EXCEPT !.stale = TRUE]
  BY <1>1 DEF Heard
<1>. QED  BY <1>2, <1>3, <1>4

LEMMA DeliverKeeps ==
  ASSUME TermsInv, Deliver
  PROVE  TermsInv'
<1>. DEFINE loaded == [Loaded("document", glossary) EXCEPT !.stale = ~Visible("document")]
            hidden == IF place.section = "terms" THEN loaded ELSE Heard("document")
<1>1. /\ TermsTyped /\ glossary \in [Terms -> TermRow] /\ notice' = FALSE
      /\ UNCHANGED <<glossary, names, work, place>>
      /\ table' = [project |-> Heard("project"), document |-> hidden]
  BY DEF TermsInv, TermsTyped, Deliver
<1>2. /\ Heard("project") \in TableRow /\ Heard("document") \in TableRow
      /\ Visible("project") => ~Heard("project").stale /\ Heard("project").rows = Scope("project", glossary)
      /\ ~Visible("project") => Heard("project").stale
  BY <1>1, HeardFacts, ViewFacts
<1>3. loaded \in TableRow
  <2>1. Loaded("document", glossary) \in TableRow
    BY <1>1, LoadedFacts, ViewFacts
  <2>2. (~Visible("document")) \in BOOLEAN
    OBVIOUS
  <2>. QED  BY <2>1, <2>2 DEF TableRow
<1>. HIDE DEF loaded
<1>4. hidden \in TableRow
  BY <1>2, <1>3
<1>. HIDE DEF hidden
<1>5. table' \in [Views -> TableRow] /\ table'["project"] = Heard("project")
  BY <1>1, <1>2, <1>4 DEF Views
<1>6. Agrees(Scope("project", glossary), glossary)
  BY <1>1, ScopeFacts DEF Agrees
<1>7. TermsTyped'
  BY <1>1, <1>5 DEF TermsTyped
<1>8. Visible("project")' <=> Visible("project")
  BY <1>1 DEF Visible
<1>. QED  BY <1>1, <1>2, <1>5, <1>6, <1>7, <1>8 DEF TermsInv

LEMMA WorkKeeps ==
  ASSUME TermsInv, Progress \/ TaskWritesTerm
  PROVE  TermsInv'
<1>1. /\ TermsTyped /\ glossary \in [Terms -> TermRow] /\ names \in Nat
      /\ UNCHANGED <<place, table>>
  BY DEF TermsInv, TermsTyped, Progress, Announce, TaskWritesTerm
<1>2. CASE Progress
  <2>1. /\ work' \in {"none", "queued", "running", "ended"} /\ notice' = TRUE /\ UNCHANGED <<glossary, names>>
    BY <1>2 DEF Progress, Announce
  <2>2. TermsTyped'
    BY <1>1, <2>1 DEF TermsTyped
  <2>. QED  BY <1>1, <2>1, <2>2 DEF TermsInv, Visible
<1>3. CASE TaskWritesTerm
  <2>1. PICK k \in Terms :
       \/ /\ glossary' = [glossary EXCEPT ![k].there = TRUE, ![k].inDoc = TRUE]
          /\ names' = names
       \/ names' = names + 1 /\ glossary' = [glossary EXCEPT ![k].name = names']
    BY <1>3 DEF TaskWritesTerm
  <2>2. work = "running" /\ UNCHANGED <<work, notice>>
    BY <1>3 DEF TaskWritesTerm
  <2>. DEFINE found == [[glossary[k] EXCEPT !.there = TRUE] EXCEPT !.inDoc = TRUE]
              translated == [glossary[k] EXCEPT !.name = names + 1]
  <2>3. found \in TermRow /\ translated \in TermRow
    <3>1. glossary[k] \in TermRow /\ names + 1 \in Nat
      BY <1>1
    <3>2. found \in TermRow
      BY <3>1 DEF TermRow
    <3>. QED  BY <3>1, <3>2 DEF TermRow
  <2>4. \/ glossary' = [glossary EXCEPT ![k] = found] /\ names' = names
        \/ glossary' = [glossary EXCEPT ![k] = translated] /\ names' = names + 1
    BY <1>1, <2>1
  <2>. HIDE DEF found, translated
  <2>5. glossary' \in [Terms -> TermRow] /\ names' \in Nat
    BY <1>1, <2>3, <2>4
  <2>6. TermsTyped'
    BY <1>1, <2>2, <2>5 DEF TermsTyped
  <2>. QED  BY <1>1, <2>2, <2>6 DEF TermsInv, Visible, Blocked
<1>. QED  BY <1>2, <1>3

\* One cell of a row: the row that is written was the glossary's, but for that cell.
LEMMA WriteRowKeeps ==
  ASSUME TermsInv, NEW v \in Views, NEW k \in Terms, NEW cell \in TermRow, WriteRow(v, k, cell), names' \in Nat,
         Blocked => names' = names,
         table[v].rows[k].there =>
           cell.there = table[v].rows[k].there /\ cell.inDoc = table[v].rows[k].inDoc
  PROVE  TermsInv'
<1>1. /\ TermsTyped /\ glossary \in [Terms -> TermRow] /\ table[v] \in TableRow /\ table[v].rows \in [Terms -> TermRow]
      /\ Visible(v) /\ table[v].rows[k].there /\ UNCHANGED <<work, notice, place>>
  BY DEF TermsInv, TermsTyped, TableRow, WriteRow, Listed
<1>2. CASE Blocked
  BY <1>1, <1>2, RefuseKeeps DEF WriteRow
<1>3. CASE ~Blocked
  <2>. DEFINE rows == [table[v].rows EXCEPT ![k] = cell]
              new == [[glossary[k] EXCEPT !.name = cell.name] EXCEPT !.marked = cell.marked]
  <2>1. new \in TermRow /\ rows \in [Terms -> TermRow]
    BY <1>1 DEF TermRow
  <2>2. /\ AfterOwnWrite(v, rows, glossary[k].there)
        /\ glossary' = IF glossary[k].there THEN [glossary EXCEPT ![k] = new] ELSE glossary
    BY <1>1, <1>3 DEF WriteRow
  <2>3. ASSUME glossary[k].there, glossary[k] = table[v].rows[k]  PROVE new = cell
    BY <1>1, <2>3 DEF TermRow
  <2>. HIDE DEF new
  <2>4. glossary' \in [Terms -> TermRow] /\ glossary[k].there \in BOOLEAN
    BY <1>1, <2>1, <2>2 DEF TermRow
  <2>5. ASSUME Agrees(table[v].rows, glossary)  PROVE Agrees(rows, glossary')
    <3>1. glossary[k] = table[v].rows[k] /\ glossary[k].there
      BY <1>1, <2>5 DEF Agrees
    <3>2. new = cell /\ glossary' = [glossary EXCEPT ![k] = new]
      BY <2>2, <2>3, <3>1
    <3>3. ASSUME NEW j \in Terms, rows[j].there \/ glossary'[j].there  PROVE rows[j] = glossary'[j]
      BY <1>1, <2>5, <3>2, <3>3 DEF Agrees
    <3>. QED  BY <3>3 DEF Agrees
  <2>. HIDE DEF rows
  <2>. QED  BY <1>1, <1>3, <2>1, <2>2, <2>4, <2>5, OwnWriteKeeps
<1>. QED  BY <1>2, <1>3

LEMMA CellsKeep ==
  ASSUME TermsInv, NEW v \in Views, NEW k \in Terms, TickTerm(v, k) \/ EnterName(v, k)
  PROVE  TermsInv'
<1>1. /\ TermsTyped /\ names \in Nat /\ table[v].rows[k] \in TermRow
  BY DEF TermsInv, TermsTyped, TableRow
<1>2. CASE TickTerm(v, k)
  <2>. DEFINE mark == ~table[v].rows[k].marked
              cell == [table[v].rows[k] EXCEPT !.marked = mark]
  <2>1. mark \in BOOLEAN
    OBVIOUS
  <2>2. WriteRow(v, k, cell) /\ names' = names
    BY <1>2 DEF TickTerm
  <2>. HIDE DEF mark
  <2>3. cell \in TermRow /\ cell.there = table[v].rows[k].there /\ cell.inDoc = table[v].rows[k].inDoc
    BY <1>1, <2>1 DEF TermRow
  <2>. HIDE DEF cell
  <2>. QED  BY <1>1, <2>2, <2>3, WriteRowKeeps
<1>3. CASE EnterName(v, k)
  <2>. DEFINE cell == [table[v].rows[k] EXCEPT !.name = names + 1]
  <2>1. WriteRow(v, k, cell)
    BY <1>3 DEF EnterName
  <2>2. cell \in TermRow /\ cell.there = table[v].rows[k].there /\ cell.inDoc = table[v].rows[k].inDoc
    BY <1>1 DEF TermRow
  <2>. HIDE DEF cell
  <2>3. names' \in Nat /\ (Blocked => names' = names)
    BY <1>1, <1>3, <2>1 DEF EnterName, WriteRow
  <2>. QED  BY <1>1, <2>1, <2>2, <2>3, WriteRowKeeps
<1>. QED  BY <1>2, <1>3

LEMMA BulkKeeps ==
  ASSUME TermsInv, NEW v \in Views, NEW ks \in SUBSET Terms, Bulk(v, ks)
  PROVE  TermsInv'
<1>1. /\ TermsTyped /\ glossary \in [Terms -> TermRow] /\ table[v].rows \in [Terms -> TermRow] /\ names \in Nat
      /\ Visible(v) /\ ks \subseteq Listed(v) /\ UNCHANGED <<names, work, notice, place>>
  BY DEF TermsInv, TermsTyped, TableRow, Bulk
<1>2. CASE Blocked
  BY <1>1, <1>2, RefuseKeeps DEF Bulk
<1>3. CASE ~Blocked
  <2>. DEFINE known == {k \in ks : glossary[k].there}
              Marked(f, set) == [k \in Terms |-> IF k \in set THEN [f[k] EXCEPT !.marked = TRUE] ELSE f[k]]
              rows == Marked(table[v].rows, ks)
  <2>1. /\ glossary' = Marked(glossary, known) /\ AfterOwnWrite(v, rows, known # {})
    BY <1>1, <1>3 DEF Bulk
  <2>2. ASSUME NEW r \in TermRow  PROVE [r EXCEPT !.marked = TRUE] \in TermRow
    BY DEF TermRow
  <2>3. rows \in [Terms -> TermRow] /\ glossary' \in [Terms -> TermRow]
    BY <1>1, <2>1, <2>2
  <2>4. ASSUME known = {}  PROVE glossary' = glossary
    BY <1>1, <2>1, <2>4
  <2>5. ASSUME Agrees(table[v].rows, glossary)  PROVE Agrees(rows, glossary')
    <3>1. known = ks
      BY <1>1, <2>5 DEF Agrees, Listed
    <3>2. ASSUME NEW r \in TermRow  PROVE [r EXCEPT !.marked = TRUE].there = r.there
      BY DEF TermRow
    <3>3. ASSUME NEW j \in Terms, rows[j].there \/ glossary'[j].there  PROVE rows[j] = glossary'[j]
      BY <1>1, <2>1, <2>5, <3>1, <3>2, <3>3 DEF Agrees
    <3>. QED  BY <3>3 DEF Agrees
  <2>6. (known # {}) \in BOOLEAN
    OBVIOUS
  <2>. HIDE DEF rows, known
  <2>. QED  BY <1>1, <1>3, <2>1, <2>3, <2>4, <2>5, <2>6, OwnWriteKeeps
<1>. QED  BY <1>2, <1>3

LEMMA DeleteKeeps ==
  ASSUME TermsInv, NEW v \in Views, NEW ks \in SUBSET Terms, Delete(v, ks)
  PROVE  TermsInv'
<1>1. /\ TermsTyped /\ glossary \in [Terms -> TermRow] /\ table[v].rows \in [Terms -> TermRow] /\ names \in Nat
      /\ Visible(v) /\ ks \subseteq Listed(v) /\ UNCHANGED <<names, work, notice, place>>
  BY DEF TermsInv, TermsTyped, TableRow, Delete
<1>2. CASE Blocked
  BY <1>1, <1>2, RefuseKeeps DEF Delete
<1>3. CASE ~Blocked
  <2>. DEFINE gone(f) == [k \in Terms |-> IF k \in ks THEN Absent ELSE f[k]]
              rows == gone(table[v].rows)
              published == \E k \in ks : glossary[k].there
  <2>1. /\ glossary' = gone(glossary) /\ AfterOwnWrite(v, rows, published)
    BY <1>1, <1>3 DEF Delete
  <2>2. Absent \in TermRow
    BY DEF Absent, TermRow
  <2>3. rows \in [Terms -> TermRow] /\ glossary' \in [Terms -> TermRow]
    BY <1>1, <2>1, <2>2
  <2>5. ASSUME Agrees(table[v].rows, glossary)  PROVE Agrees(rows, glossary')
    BY <1>1, <2>1, <2>5 DEF Agrees
  <2>4. ASSUME ~published, Agrees(table["project"].rows, glossary)  PROVE Agrees(table["project"].rows, glossary')
    BY <1>1, <2>1, <2>2, <2>4 DEF Agrees, Absent
  <2>6. published \in BOOLEAN
    OBVIOUS
  <2>. HIDE DEF rows, published
  <2>. QED  BY <1>1, <1>3, <2>1, <2>3, <2>4, <2>5, <2>6, OwnWriteKeeps
<1>. QED  BY <1>2, <1>3

\* A write that is answered with a new table.
LEMMA ReplaceKeeps ==
  ASSUME TermsInv, NEW v \in Views, Visible(v), NEW g \in [Terms -> TermRow], Replace(v, g), names' \in Nat,
         Blocked => names' = names, UNCHANGED <<work, notice, place>>
  PROVE  TermsInv'
<1>1. CASE Blocked
  <2>1. UNCHANGED <<glossary, names, table, work, notice, place>>
    BY <1>1 DEF Replace
  <2>. QED  BY <2>1 DEF TermsInv, TermsTyped, Visible, Blocked
<1>2. CASE ~Blocked
  BY <1>2, AfterWriteKeeps DEF Replace
<1>. QED  BY <1>1, <1>2

LEMMA NamedIsTyped ==
  ASSUME glossary \in [Terms -> TermRow], NEW k \in Terms, NEW n \in Nat
  PROVE  Named(k, n) \in TermRow
<1>1. glossary[k] \in TermRow
  OBVIOUS
<1>2. [[glossary[k] EXCEPT !.name = n] EXCEPT !.marked = TRUE] \in TermRow
  BY <1>1 DEF TermRow
<1>3. [there |-> TRUE, inDoc |-> FALSE, name |-> n, marked |-> TRUE] \in TermRow
  BY DEF TermRow
<1>. QED  BY <1>2, <1>3 DEF Named

LEMMA FilterKeeps ==
  ASSUME TermsInv, NEW v \in Views, FilterRare(v)
  PROVE  TermsInv'
<1>. DEFINE g == [k \in Terms |-> IF k \in Rare(v) THEN [glossary[k] EXCEPT !.marked = TRUE] ELSE glossary[k]]
<1>1. /\ glossary \in [Terms -> TermRow] /\ names \in Nat
  BY DEF TermsInv, TermsTyped
<1>2. ASSUME NEW r \in TermRow  PROVE [r EXCEPT !.marked = TRUE] \in TermRow
  BY DEF TermRow
<1>3. g \in [Terms -> TermRow]
  BY <1>1, <1>2
<1>4. /\ Visible(v) /\ Replace(v, g) /\ UNCHANGED <<names, work, notice, place>>
  BY DEF FilterRare
<1>. HIDE DEF g
<1>. QED  BY <1>1, <1>3, <1>4, ReplaceKeeps

LEMMA UpsertKeeps ==
  ASSUME TermsInv, NEW k \in Terms, Upsert(k)
  PROVE  TermsInv'
<1>. DEFINE cell == Named(k, names + 1)
            g == [glossary EXCEPT ![k] = cell]
<1>1. /\ glossary \in [Terms -> TermRow] /\ names \in Nat
  BY DEF TermsInv, TermsTyped
<1>2. cell \in TermRow
  BY <1>1, NamedIsTyped
<1>3. /\ Visible("project") /\ Replace("project", g) /\ UNCHANGED <<work, notice, place>>
  BY DEF Upsert
<1>4. names' \in Nat /\ (Blocked => names' = names)
  BY <1>1 DEF Upsert, Replace
<1>. HIDE DEF cell
<1>5. g \in [Terms -> TermRow]
  BY <1>1, <1>2
<1>. HIDE DEF g
<1>. QED  BY <1>3, <1>4, <1>5, ReplaceKeeps, ViewFacts

LEMMA ImportKeeps ==
  ASSUME TermsInv, NEW ks \in SUBSET Terms, NEW structured \in BOOLEAN, Import(ks, structured)
  PROVE  TermsInv'
<1>. DEFINE new == [there |-> TRUE, inDoc |-> FALSE, name |-> names + 1, marked |-> FALSE]
            cell(k) == IF k \notin ks THEN (IF structured THEN Absent ELSE glossary[k])
                      ELSE IF structured THEN new ELSE Named(k, names + 1)
            g == [k \in Terms |-> cell(k)]
<1>1. /\ glossary \in [Terms -> TermRow] /\ names \in Nat
  BY DEF TermsInv, TermsTyped
<1>2. new \in TermRow /\ Absent \in TermRow
  BY <1>1 DEF Absent, TermRow
<1>3. /\ Visible("project") /\ Replace("project", g) /\ UNCHANGED <<work, notice, place>>
  BY DEF Import
<1>4. names' \in Nat /\ (Blocked => names' = names)
  BY <1>1 DEF Import, Replace
<1>. HIDE DEF new
<1>5. ASSUME NEW k \in Terms  PROVE cell(k) \in TermRow
  <2>1. Named(k, names + 1) \in TermRow /\ glossary[k] \in TermRow
    BY <1>1, NamedIsTyped
  <2>. QED  BY <1>2, <2>1
<1>. HIDE DEF cell
<1>6. g \in [Terms -> TermRow]
  BY <1>5
<1>. HIDE DEF g
<1>. QED  BY <1>3, <1>4, <1>6, ReplaceKeeps, ViewFacts

LEMMA TermsStep == TermsInv /\ TermsNext => TermsInv'
BY MovesKeep, WorkKeeps, DeliverKeeps, FilterKeeps, CellsKeep, BulkKeeps, DeleteKeeps, UpsertKeeps, ImportKeeps
   DEF TermsNext

LEMMA TermsInitIsFine == TermsInit => TermsInv
<1>. SUFFICES ASSUME TermsInit  PROVE TermsInv
  OBVIOUS
<1>1. Absent \in TermRow /\ 0 \in Nat
  BY DEF Absent, TermRow
<1>2. glossary \in [Terms -> TermRow]
  <2>1. ASSUME NEW r \in [there : {TRUE}, inDoc : BOOLEAN, name : {0}, marked : {FALSE}]  PROVE r \in TermRow
    <3>1. r.there \in {TRUE} /\ r.inDoc \in BOOLEAN /\ r.name \in {0} /\ r.marked \in {FALSE}
      OBVIOUS
    <3>2. r = [there |-> r.there, inDoc |-> r.inDoc, name |-> r.name, marked |-> r.marked]
      OBVIOUS
    <3>3. {TRUE} \subseteq BOOLEAN /\ {FALSE} \subseteq BOOLEAN /\ {0} \subseteq Nat
      OBVIOUS
    <3>4. r.there \in BOOLEAN /\ r.inDoc \in BOOLEAN /\ r.name \in Nat /\ r.marked \in BOOLEAN
      BY <3>1, <3>3
    <3>. QED  BY <3>2, <3>4 DEF TermRow
  <2>. QED  BY <1>1, <2>1 DEF TermsInit
<1>3. table \in [Views -> TableRow] /\ table["project"].stale
  <2>1. [rows |-> [k \in Terms |-> Absent], stale |-> TRUE, owed |-> 0] \in TableRow
    BY <1>1 DEF TableRow
  <2>. QED  BY <2>1, ViewFacts DEF TermsInit
<1>. QED  BY <1>2, <1>3 DEF TermsInit, TermsInv, TermsTyped, Visible

\* What the invariant says of the table of the project.
LEMMA TermsAreRight == TermsInv => ProjectTableIsCurrent
BY DEF TermsInv, Agrees, ProjectTableIsCurrent

-----------------------------------------------------------------------------
(* All the screens                                                         *)

LEMMA ScreensInit == Init => ScreensInv
<1>. SUFFICES ASSUME Init  PROVE ScreensInv
  OBVIOUS
<1>1. NoReview => typed = [u \in Units |-> None] /\ ~tab.shown
  BY DEF NoReview
<1>2. NoOcr => entered = [p \in Pages |-> NoDraft] /\ kept = [p \in Pages |-> NoText] /\ ~pane.shown
  BY DEF NoOcr
<1>3. NoTerms => place.page = "work"
  BY DEF NoTerms
<1>. QED
  BY <1>1, <1>2, <1>3, ReviewInitIsFine, OcrInitIsFine, TermsInitIsFine DEF Init, ScreensInv

LEMMA ScreensStep ==
  ScreensInv /\ [Next]_<<part, reviewVars, ocrVars, termsVars, exportVars, settingsVars>> => ScreensInv'
<1>. SUFFICES ASSUME ScreensInv, [Next]_<<part, reviewVars, ocrVars, termsVars, exportVars, settingsVars>>
              PROVE  ScreensInv'
  OBVIOUS
<1>1. part' = part
  BY DEF Next
<1>2. ASSUME UNCHANGED reviewVars
      PROVE  /\ ReviewInv => ReviewInv'
             /\ typed = [u \in Units |-> None] /\ ~tab.shown => (typed = [u \in Units |-> None] /\ ~tab.shown)'
  BY <1>2 DEF reviewVars, ReviewInv, ReviewTyped
<1>3. ASSUME UNCHANGED ocrVars
      PROVE  /\ OcrInv => OcrInv'
             /\ entered = [p \in Pages |-> NoDraft] /\ kept = [p \in Pages |-> NoText] /\ ~pane.shown =>
                  (entered = [p \in Pages |-> NoDraft] /\ kept = [p \in Pages |-> NoText] /\ ~pane.shown)'
  BY <1>3 DEF ocrVars, OcrInv, OcrTyped, KeptInv, Active
<1>4. ASSUME UNCHANGED termsVars
      PROVE  (TermsInv => TermsInv') /\ (place.page = "work" => place'.page = "work")
  BY <1>4 DEF termsVars, TermsInv, TermsTyped, Visible, Blocked
<1>5. CASE UNCHANGED <<reviewVars, ocrVars, termsVars>>
  BY <1>1, <1>2, <1>3, <1>4, <1>5 DEF ScreensInv
<1>6. CASE part = "translation" /\ ReviewNext /\ UNCHANGED <<ocrVars, termsVars>>
  BY <1>1, <1>3, <1>4, <1>6, ReviewStep DEF ScreensInv
<1>7. CASE part = "ocr" /\ OcrNext /\ UNCHANGED <<reviewVars, termsVars>>
  BY <1>1, <1>2, <1>4, <1>7, OcrStep DEF ScreensInv
<1>8. CASE part = "terms" /\ TermsNext /\ UNCHANGED <<reviewVars, ocrVars>>
  BY <1>1, <1>2, <1>3, <1>8, TermsStep DEF ScreensInv
<1>. QED  BY <1>5, <1>6, <1>7, <1>8 DEF Next

LEMMA ScreensAreSound == Spec => []ScreensInv
<1>. QED  BY ScreensInit, ScreensStep, PTL DEF Spec

(* Whatever refreshes, tasks, events and changes of tab come in whatever    *)
(* order, what the user typed into a translation or a page and has not      *)
(* saved is still in the editor or a draft, and no run of the OCR tab       *)
(* undoes a page that was corrected (document_translation_view.py,          *)
(* document_ocr_tab.py): a draft is dropped when it is what the screen has  *)
(* loaded, and what was typed never is.                                     *)
THEOREM DraftsAreNotLost == Spec => []DraftsSurvive
<1>1. ScreensInv => DraftsSurvive
  <2>. SUFFICES ASSUME ScreensInv  PROVE DraftsSurvive
    OBVIOUS
  <2>1. TypedTextSurvives
    <3>1. CASE part = "translation"
      BY <3>1, ReviewIsRight DEF ScreensInv
    <3>2. CASE part # "translation"
      BY <3>2 DEF ScreensInv, TypedTextSurvives
    <3>. QED  BY <3>1, <3>2
  <2>2. EnteredTextSurvives /\ SavedPagesAreKept
    <3>1. CASE part = "ocr"
      BY <3>1, OcrIsRight DEF ScreensInv
    <3>2. CASE part # "ocr"
      <4>1. \A p \in Pages : entered[p] = NoDraft /\ kept[p] = NoText
        BY <3>2 DEF ScreensInv
      <4>. QED  BY <4>1 DEF EnteredTextSurvives, SavedPagesAreKept, StillEntered, NoDraft
    <3>. QED  BY <3>1, <3>2
  <2>. QED  BY <2>1, <2>2 DEF DraftsSurvive
<1>. QED  BY <1>1, ScreensAreSound, PTL

(* A screen at rest shows what is stored: for the translation tab, the OCR  *)
(* tab and the table of terms of the project, whatever changes what is      *)
(* stored leaves an event under way, or the screen marked to be loaded when *)
(* it is shown again (document_translation_view.py, document_ocr_tab.py,    *)
(* terms_view.py).                                                          *)
THEOREM QuietScreensShowWhatIsStored == Spec => []QuietScreensAreCurrent
<1>1. ScreensInv => QuietScreensAreCurrent
  <2>. SUFFICES ASSUME ScreensInv  PROVE QuietScreensAreCurrent
    OBVIOUS
  <2>1. QuietTabIsCurrent
    <3>1. CASE part = "translation"
      BY <3>1, ReviewIsRight DEF ScreensInv
    <3>2. CASE part # "translation"
      BY <3>2 DEF ScreensInv, QuietTabIsCurrent
    <3>. QED  BY <3>1, <3>2
  <2>2. QuietPagesAreCurrent
    <3>1. CASE part = "ocr"
      BY <3>1, OcrIsRight DEF ScreensInv
    <3>2. CASE part # "ocr"
      BY <3>2 DEF ScreensInv, QuietPagesAreCurrent
    <3>. QED  BY <3>1, <3>2
  <2>3. ProjectTableIsCurrent
    <3>1. CASE part = "terms"
      BY <3>1, TermsAreRight DEF ScreensInv
    <3>2. CASE part # "terms"
      BY <3>2 DEF ScreensInv, ProjectTableIsCurrent, Visible
    <3>. QED  BY <3>1, <3>2
  <2>. QED  BY <2>1, <2>2, <2>3 DEF QuietScreensAreCurrent
<1>. QED  BY <1>1, ScreensAreSound, PTL

-----------------------------------------------------------------------------
(* The settings                                                            *)

Config == [steps : [Steps -> Step], batch : BOOLEAN, source : Profiles \cup {Nothing}]

CompleteStep == [conn : Connections, model : Models, temperature : {Nothing, "own"}, backend : Backends]

\* Routes that can be saved.
CompleteRoutes ==
  {r \in [Steps -> Step] :
     /\ r["translator"] # NoStep
     /\ \A s \in Steps : r[s] = NoStep \/ r[s] \in CompleteStep
     /\ r["translator"].backend = Nothing /\ r["polish"].backend = Nothing}
CompleteConfig ==
  {c \in Config : /\ c.steps \in CompleteRoutes
                  /\ c.steps["image"] = NoStep \/ c.steps["image"].backend # Nothing}
FromCommandLine == [NoConfig EXCEPT !.steps["translator"].conn = Own]

ProjectRow == [status : {"absent", "active", "deleted"}, profile : Profiles \cup {Nothing},
               config : CompleteConfig \cup {NoConfig, FromCommandLine}]

RegistryInv(cs, ps, d, bs) ==
  /\ cs \in [Connections -> Models \cup {Nothing, "absent"}]
  /\ ps \in [Profiles -> CompleteConfig \cup {NoConfig}]
  /\ d \in Profiles \cup {Nothing}
  /\ bs \in [Projects -> ProjectRow]
  /\ \A b \in Projects : bs[b].profile # Nothing => ps[bs[b].profile] # NoConfig
  /\ d # Nothing => ps[d] # NoConfig

\* What an editor shows of a configuration when it opens.
ShownRoutes(c, cs) == Offered(AsShown(c, cs), cs)

\* Routes as an editor may hold them: not all complete, and none of the command line.
Routes ==
  {r \in [Steps -> Step] : /\ \A s \in Steps : r[s].conn # Own
                           /\ r["translator"].backend = Nothing /\ r["polish"].backend = Nothing}

EditorRow == [at : {Nothing, "project", "profile"}, id : Projects \cup Profiles \cup {Nothing},
              routes : Routes, base : Profiles \cup {Nothing},
              selected : Profiles \cup {Custom, Nothing}, touched : BOOLEAN]

\* An editor nobody has touched shows what its profile or its project is now.
EditorInv(e, cs, ps, bs) ==
  /\ e \in EditorRow
  /\ e.at = "profile" =>
       /\ e.id \in Profiles
       /\ e.touched \/ (ps[e.id] # NoConfig /\ e.routes = ShownRoutes(ps[e.id], cs))
  /\ e.at = "project" =>
       /\ e.id \in Projects /\ bs[e.id].status # "absent" /\ e.selected # Nothing
       /\ \/ e.touched
          \/ /\ e.selected = Custom /\ Effective(e.id, bs, ps) # NoConfig
             /\ e.routes = ShownRoutes(Effective(e.id, bs, ps), cs)
          \/ e.selected = bs[e.id].profile /\ e.routes = NoConfig.steps

SettingsInv ==
  /\ RegistryInv(connections, profiles, default, projects)
  /\ EditorInv(editor, connections, profiles, projects)

-----------------------------------------------------------------------------
(* Routes                                                                  *)

LEMMA Sentinels ==
  /\ Nothing \notin Connections /\ Own \notin Connections /\ Nothing # Own
  /\ Nothing \notin Models /\ "absent" \notin Models
  /\ Nothing \notin Profiles /\ Custom \notin Profiles /\ Nothing # Custom
  /\ Nothing \notin Projects /\ Gemini \subseteq Connections
  /\ OwnModel \in Models
BY SettingsAssumption DEF Nothing, Own, Custom, OwnModel

LEMMA StepFacts ==
  /\ NoStep \in Step /\ CompleteStep \subseteq Step /\ NoStep \notin CompleteStep
  /\ NoConfig.steps = [s \in Steps |-> NoStep]
  /\ NoConfig.steps \in Routes /\ NoConfig \in Config
  /\ NoConfig \notin CompleteConfig /\ FromCommandLine # NoConfig /\ FromCommandLine \notin CompleteConfig
<1>1. /\ NoStep \in Step /\ CompleteStep \subseteq Step /\ NoStep \notin CompleteStep
      /\ NoConfig.steps = [s \in Steps |-> NoStep] /\ NoConfig \in Config
  BY Sentinels DEF NoStep, Step, CompleteStep, Backends, NoConfig, Config
<1>2. NoConfig.steps \in Routes
  BY <1>1, Sentinels DEF NoStep, Routes, Steps
<1>3. NoConfig \notin CompleteConfig
  BY <1>1 DEF CompleteConfig, CompleteRoutes, Steps
<1>4. /\ FromCommandLine.steps["translator"].conn = Own
      /\ FromCommandLine.steps["translator"] # NoStep
  BY <1>1, Sentinels DEF FromCommandLine, Steps, NoStep, NoConfig
<1>5. FromCommandLine # NoConfig
  BY <1>1, <1>4 DEF Steps
<1>6. FromCommandLine \notin CompleteConfig
  BY <1>4, Sentinels DEF CompleteConfig, CompleteRoutes, CompleteStep, Steps
<1>. QED  BY <1>1, <1>2, <1>3, <1>5, <1>6

\* The default model of a connection there is, or Nothing.
LEMMA DefaultModels ==
  ASSUME NEW cs \in [Connections -> Models \cup {Nothing, "absent"}], NEW c
  PROVE  DefaultModel(c, cs) \in Models \cup {Nothing} /\ (c \notin Connections => DefaultModel(c, cs) = Nothing)
BY DEF DefaultModel, Present

\* A route is the step, with the model of its connection where it has none.
LEMMA RouteKeeps ==
  ASSUME NEW cs \in [Connections -> Models \cup {Nothing, "absent"}], NEW step \in Step
  PROVE  /\ Route(step, cs) \in Step
         /\ Route(step, cs).conn = step.conn /\ Route(step, cs).backend = step.backend
         /\ step = NoStep \/ step \in CompleteStep => Route(step, cs) = step
<1>. DEFINE model == IF step.model = Nothing THEN DefaultModel(step.conn, cs) ELSE step.model
<1>1. model \in Models \cup {Nothing}
  BY DefaultModels DEF Step
<1>2. Route(step, cs) = [step EXCEPT !.model = model]
  BY DEF Route
<1>3. step \in CompleteStep => model = step.model
  BY Sentinels DEF CompleteStep
<1>4. step = NoStep => model = step.model
  BY DefaultModels, Sentinels DEF NoStep
<1>. QED  BY <1>1, <1>2, <1>3, <1>4 DEF Step, CompleteStep, NoStep

\* What is shown of a complete configuration is what its steps are.
LEMMA ShowsTheSteps ==
  ASSUME NEW cs \in [Connections -> Models \cup {Nothing, "absent"}], NEW c \in CompleteConfig
  PROVE  /\ AsShown(c, cs) = [s \in Steps |-> EffectiveStep(c, s)]
         /\ AsShown(c, cs) \in CompleteRoutes
         /\ EffectiveStep(c, "image") = c.steps["image"]
<1>1. /\ c.steps \in [Steps -> Step] /\ c.steps["translator"] \in CompleteStep
      /\ c.steps["translator"].backend = Nothing
      /\ \A s \in Steps : c.steps[s] = NoStep \/ c.steps[s] \in CompleteStep
      /\ "translator" \in Steps /\ "polish" \in Steps
  BY DEF CompleteConfig, CompleteRoutes, Config, Steps
<1>2. ASSUME NEW s \in Steps  PROVE Route(c.steps[s], cs) = c.steps[s]
  BY <1>1, RouteKeeps
<1>3. [Route(c.steps["translator"], cs) EXCEPT !.backend = Nothing] = c.steps["translator"]
  BY <1>1, <1>2 DEF CompleteStep
<1>4. AsShown(c, cs) = [s \in Steps |-> EffectiveStep(c, s)]
  BY <1>2, <1>3 DEF AsShown, EffectiveStep
<1>5. ASSUME NEW s \in Steps
      PROVE  EffectiveStep(c, s) \in Step /\ (EffectiveStep(c, s) = NoStep \/ EffectiveStep(c, s) \in CompleteStep)
  BY <1>1, StepFacts DEF EffectiveStep
<1>6. EffectiveStep(c, "translator") = c.steps["translator"] /\ EffectiveStep(c, "image") = c.steps["image"]
  BY DEF EffectiveStep
<1>7. EffectiveStep(c, "polish").backend = Nothing
  BY <1>1 DEF EffectiveStep, CompleteConfig, CompleteRoutes
<1>. QED  BY <1>1, <1>4, <1>5, <1>6, <1>7, StepFacts DEF CompleteRoutes

\* Routes that are valid, and none of the command line's, are complete.
LEMMA ValidIsComplete ==
  ASSUME NEW routes \in Routes, ValidRoutes(routes)
  PROVE  routes \in CompleteRoutes
<1>1. ASSUME NEW s \in Steps, routes[s] # NoStep
      PROVE  routes[s] \in CompleteStep
  <2>1. routes[s].conn # Nothing /\ routes[s].model # Nothing
    BY <1>1 DEF ValidRoutes
  <2>. QED  BY <2>1 DEF Routes, Step, CompleteStep
<1>2. routes["translator"] # NoStep
  BY DEF ValidRoutes, NoStep
<1>. QED  BY <1>1, <1>2 DEF Routes, CompleteRoutes

\* Saved, complete routes are the steps: only the image's backend is filled in.
LEMMA SavedIsComplete ==
  ASSUME NEW routes \in CompleteRoutes, NEW source \in Profiles \cup {Nothing}
  PROVE  /\ AsSaved(routes, source) \in CompleteConfig
         /\ routes["image"] = NoStep \/ routes["image"].backend # Nothing =>
              AsSaved(routes, source).steps = routes
<1>. DEFINE image == routes["image"]
            saved == AsSaved(routes, source).steps
<1>1. /\ routes \in [Steps -> Step] /\ image \in Step
      /\ image = NoStep \/ image \in CompleteStep
      /\ "image" \in Steps
  BY DEF CompleteRoutes, Steps
<1>2. saved = [routes EXCEPT !["image"].backend = Backend(image)]
  BY DEF AsSaved
<1>3. saved = [routes EXCEPT !["image"] = [image EXCEPT !.backend = Backend(image)]]
  BY <1>2
<1>4. image = NoStep \/ image.backend # Nothing => Backend(image) = image.backend
  BY Sentinels DEF Backend, NoStep
<1>5. image \in CompleteStep => Backend(image) \in Backends /\ Backend(image) # Nothing
  BY Sentinels DEF Backend, CompleteStep, Backends, Nothing
<1>6. image = NoStep \/ image.backend # Nothing => saved = routes
  <2>1. routes \in [Steps -> Step]
    BY <1>1
  <2>2. [routes EXCEPT !["image"] = routes["image"]] = routes
    BY <2>1
  <2>. HIDE DEF image
  <2>3. [image EXCEPT !.backend = image.backend] = image
    BY <1>1 DEF Step
  <2>4. SUFFICES ASSUME Backend(image) = image.backend  PROVE saved = routes
    BY <1>4
  <2>5. [image EXCEPT !.backend = Backend(image)] = image
    BY <2>3, <2>4
  <2>6. image = routes["image"]
    BY DEF image
  <2>. QED  BY <1>3, <2>2, <2>5, <2>6
<1>7. image \in CompleteStep =>
        /\ [image EXCEPT !.backend = Backend(image)] \in CompleteStep
        /\ [image EXCEPT !.backend = Backend(image)].backend # Nothing
  BY <1>5 DEF CompleteStep
<1>8. saved \in CompleteRoutes /\ (saved["image"] = NoStep \/ saved["image"].backend # Nothing)
  <2>1. CASE image = NoStep
    BY <2>1, <1>6
  <2>2. CASE image \in CompleteStep
    BY <2>2, <1>1, <1>3, <1>7, StepFacts DEF CompleteRoutes, Steps
  <2>. QED  BY <1>1, <2>1, <2>2
<1>9. AsSaved(routes, source) = [steps |-> saved, batch |-> Batchable(routes), source |-> source]
  BY DEF AsSaved
<1>10. AsSaved(routes, source) \in Config
  <2>1. Batchable(routes) \in BOOLEAN
    BY DEF Batchable
  <2>2. saved \in [Steps -> Step]
    BY <1>8 DEF CompleteRoutes
  <2>. HIDE DEF saved
  <2>. QED  BY <1>9, <2>1, <2>2 DEF Config
<1>. QED  BY <1>6, <1>8, <1>9, <1>10 DEF CompleteConfig

Stored == CompleteConfig \cup {NoConfig, FromCommandLine}

LEMMA StoredFacts ==
  ASSUME NEW c \in Stored
  PROVE  /\ c.steps \in [Steps -> Step]
         /\ c.steps["translator"].backend = Nothing /\ c.steps["polish"].backend = Nothing
<1>. CASE c \in CompleteConfig
  BY DEF CompleteConfig, CompleteRoutes
<1>. CASE c = NoConfig
  BY StepFacts DEF Routes
<1>. CASE c = FromCommandLine
  <2>1. c.steps = [NoConfig.steps EXCEPT !["translator"].conn = Own]
    BY DEF FromCommandLine, NoConfig
  <2>2. /\ c.steps \in [Steps -> Step]
        /\ c.steps["translator"] = [NoStep EXCEPT !.conn = Own] /\ c.steps["polish"] = NoStep
    BY <2>1, StepFacts DEF Steps, Step, NoStep
  <2>. QED  BY <2>2 DEF NoStep
<1>. QED  BY DEF Stored

\* What is shown of anything stored can be in an editor.
LEMMA ShownIsRoutes ==
  ASSUME NEW cs \in [Connections -> Models \cup {Nothing, "absent"}], NEW c \in Stored
  PROVE  ShownRoutes(c, cs) \in Routes
<1>1. /\ c.steps \in [Steps -> Step] /\ {"translator", "polish", "image"} = Steps
      /\ c.steps["translator"].backend = Nothing /\ c.steps["polish"].backend = Nothing
  BY StoredFacts DEF Steps
<1>2. ASSUME NEW s \in Steps  PROVE Route(c.steps[s], cs) \in Step /\ Route(c.steps[s], cs).backend = c.steps[s].backend
  BY <1>1, RouteKeeps
<1>3. [Route(c.steps["translator"], cs) EXCEPT !.backend = Nothing] \in Step
  BY <1>1, <1>2 DEF Step, Backends
<1>4. [Route(c.steps["translator"], cs) EXCEPT !.backend = Nothing].backend = Nothing
  BY <1>1, <1>2 DEF Step
<1>. DEFINE shown == AsShown(c, cs)
<1>5. ASSUME NEW s \in Steps  PROVE shown[s] \in Step /\ (s # "image" => shown[s].backend = Nothing)
  BY <1>1, <1>2, <1>3, <1>4 DEF AsShown
<1>6. ASSUME NEW step \in Step
      PROVE  /\ [step EXCEPT !.conn = Nothing] \in Step /\ [step EXCEPT !.conn = Nothing].conn = Nothing
             /\ [step EXCEPT !.conn = Nothing].backend = step.backend
  BY DEF Step
<1>. HIDE DEF shown
<1>7. ASSUME NEW s \in Steps
      PROVE  /\ Offered(shown, cs)[s] \in Step /\ Offered(shown, cs)[s].conn # Own
             /\ s # "image" => Offered(shown, cs)[s].backend = Nothing
  BY <1>5, <1>6, Sentinels DEF Offered, Present
<1>8. Offered(shown, cs) \in [Steps -> Step]
  BY <1>7 DEF Offered
<1>. QED  BY <1>1, <1>7, <1>8 DEF Routes, ShownRoutes, shown

\* What is shown and can be saved as it is, is the whole configuration.
LEMMA ValidShowsAll ==
  ASSUME NEW cs \in [Connections -> Models \cup {Nothing, "absent"}], NEW c \in Stored, c # NoConfig,
         ValidRoutes(ShownRoutes(c, cs))
  PROVE  c \in CompleteConfig /\ ShownRoutes(c, cs) = AsShown(c, cs)
<1>1. ASSUME c = FromCommandLine  PROVE FALSE
  <2>1. c.steps["translator"] = [NoStep EXCEPT !.conn = Own]
    BY <1>1, StepFacts DEF FromCommandLine, Steps, NoConfig
  <2>2. c.steps["translator"] \in Step /\ c.steps["translator"].conn = Own
    BY <2>1, StepFacts, StoredFacts DEF Step, Steps
  <2>3. AsShown(c, cs)["translator"] = Route(c.steps["translator"], cs)
    BY DEF AsShown, Steps
  <2>4. AsShown(c, cs)["translator"] \in Step /\ AsShown(c, cs)["translator"].conn = Own
    BY <2>2, <2>3, RouteKeeps
  <2>5. ShownRoutes(c, cs)["translator"].conn = Nothing
    BY <2>4, Sentinels DEF ShownRoutes, Offered, Present, Steps, Step
  <2>. QED  BY <2>5 DEF ValidRoutes
<1>2. c \in CompleteConfig
  BY <1>1 DEF Stored
<1>3. AsShown(c, cs) \in CompleteRoutes
  BY <1>2, ShowsTheSteps
<1>. DEFINE shown == AsShown(c, cs)
<1>4. ASSUME NEW s \in Steps  PROVE Offered(shown, cs)[s] = shown[s]
  <2>. HIDE DEF shown
  <2>1. Offered(shown, cs)[s] = IF shown[s].conn \in Present(cs) THEN shown[s] ELSE [shown[s] EXCEPT !.conn = Nothing]
    BY DEF Offered
  <2>2. CASE shown[s] = NoStep
    BY <2>1, <2>2, Sentinels DEF NoStep
  <2>3. CASE shown[s] \in CompleteStep /\ shown[s].conn \notin Present(cs)
    <3>1. /\ Offered(shown, cs)[s].conn = Nothing
          /\ Offered(shown, cs)[s].model \in Models
      BY <2>1, <2>3 DEF CompleteStep
    <3>2. Offered(shown, cs)[s] # NoStep
      BY <3>1, Sentinels DEF NoStep
    <3>. QED  BY <3>1, <3>2 DEF ValidRoutes, ShownRoutes, shown
  <2>. QED  BY <1>3, <2>1, <2>2, <2>3 DEF CompleteRoutes, shown
<1>5. Offered(shown, cs) = shown
  BY <1>3, <1>4 DEF Offered, CompleteRoutes
<1>. QED  BY <1>2, <1>5 DEF ShownRoutes

-----------------------------------------------------------------------------
(* The registry and the editor                                             *)

LEMMA ClosedIsFine ==
  ASSUME NEW cs, NEW ps, NEW bs
  PROVE  EditorInv(Closed, cs, ps, bs)
<1>1. /\ Closed.at = Nothing /\ Closed.id = Nothing /\ Closed.routes \in Routes
      /\ Closed.at # "profile" /\ Closed.at # "project"
  BY StepFacts DEF Closed, Nothing
<1>2. Closed \in EditorRow
  BY <1>1 DEF Closed, EditorRow
<1>. QED  BY <1>1, <1>2 DEF EditorInv

LEMMA EffectiveIsStored ==
  ASSUME NEW cs, NEW ps, NEW d, NEW bs, RegistryInv(cs, ps, d, bs), NEW b \in Projects
  PROVE  Effective(b, bs, ps) \in Stored
BY DEF Effective, RegistryInv, ProjectRow, Stored

\* The settings pane shows the project.
LEMMA PaneIsCurrent ==
  ASSUME NEW cs, NEW ps, NEW d, NEW bs, RegistryInv(cs, ps, d, bs),
         NEW b \in Projects, bs[b].status # "absent"
  PROVE  EditorInv(Pane(b, cs, ps, bs), cs, ps, bs)
<1>. DEFINE opened == Pane(b, cs, ps, bs)
<1>1. /\ bs[b] \in ProjectRow /\ cs \in [Connections -> Models \cup {Nothing, "absent"}]
      /\ bs[b].profile \in Profiles \cup {Nothing} /\ bs[b].config \in Stored
      /\ bs[b].config.source \in Profiles \cup {Nothing}
  <2>1. NoConfig.source = Nothing /\ FromCommandLine.source = Nothing
    BY DEF NoConfig, FromCommandLine
  <2>. QED  BY <2>1 DEF RegistryInv, ProjectRow, Stored, CompleteConfig, Config
<1>2. CASE bs[b].profile # Nothing
  <2>1. opened = [Closed EXCEPT !.at = "project", !.id = b, !.selected = bs[b].profile, !.base = bs[b].profile]
    BY <1>2 DEF Pane
  <2>2. /\ opened.at = "project" /\ opened.id = b /\ opened.selected = bs[b].profile
        /\ opened.routes = NoConfig.steps /\ opened \in EditorRow
    BY <1>1, <1>2, <2>1, StepFacts DEF Closed, EditorRow
  <2>. QED  BY <1>2, <2>2 DEF EditorInv
<1>3. CASE bs[b].profile = Nothing /\ bs[b].config = NoConfig
  BY <1>3, ClosedIsFine DEF Pane
<1>4. CASE bs[b].profile = Nothing /\ bs[b].config # NoConfig
  <2>1. PICK base \in Profiles \cup {Nothing} :
          opened = [Closed EXCEPT !.at = "project", !.id = b, !.selected = Custom, !.base = base,
                                !.routes = ShownRoutes(bs[b].config, cs)]
    <3>. DEFINE base == IF bs[b].config.source # Nothing /\ ps[bs[b].config.source] # NoConfig
                        THEN bs[b].config.source ELSE Nothing
    <3>1. base \in Profiles \cup {Nothing}
      BY <1>1
    <3>2. opened = [Closed EXCEPT !.at = "project", !.id = b, !.selected = Custom, !.base = base,
                                !.routes = ShownRoutes(bs[b].config, cs)]
      BY <1>4 DEF Pane, ShownRoutes
    <3>. HIDE DEF base
    <3>. QED  BY <3>1, <3>2
  <2>2. ShownRoutes(bs[b].config, cs) \in Routes
    BY <1>1, ShownIsRoutes
  <2>3. /\ opened.at = "project" /\ opened.id = b /\ opened.selected = Custom
        /\ opened.routes = ShownRoutes(bs[b].config, cs) /\ opened \in EditorRow
    BY <1>1, <2>1, <2>2 DEF Closed, EditorRow
  <2>4. Effective(b, bs, ps) = bs[b].config
    BY <1>4 DEF Effective
  <2>. QED  BY <1>4, <2>3, <2>4, Sentinels DEF EditorInv
<1>. QED  BY <1>2, <1>3, <1>4

\* After an event the pane shows the project as it is now, if it is still there.
LEMMA RefreshedIsCurrent ==
  ASSUME NEW cs, NEW ps, NEW d, NEW bs, RegistryInv(cs, ps, d, bs),
         NEW e, e.at = "project" => e.id \in Projects
  PROVE  EditorInv(IF e.at # "project" THEN Closed
                   ELSE IF bs[e.id].status = "absent" THEN Closed ELSE Pane(e.id, cs, ps, bs), cs, ps, bs)
BY ClosedIsFine, PaneIsCurrent

LEMMA SetConnectionsKeeps ==
  ASSUME SettingsInv, NEW cs \in [Connections -> Models \cup {Nothing, "absent"}], SetConnections(cs)
  PROVE  SettingsInv'
<1>1. RegistryInv(cs, profiles, default, projects)
  BY DEF SettingsInv, RegistryInv
<1>2. editor.at = "project" => editor.id \in Projects
  BY DEF SettingsInv, EditorInv
<1>. QED  BY <1>1, <1>2, RefreshedIsCurrent DEF SettingsInv, SetConnections, RefreshPane

LEMMA SetProfilesKeeps ==
  ASSUME SettingsInv, NEW ps, NEW d, RegistryInv(connections, ps, d, projects), SetProfiles(ps, d)
  PROVE  SettingsInv'
<1>2. editor.at = "project" => editor.id \in Projects
  BY DEF SettingsInv, EditorInv
<1>. QED  BY <1>2, RefreshedIsCurrent DEF SettingsInv, SetProfiles, RefreshPane

LEMMA SetProjectsKeeps ==
  ASSUME SettingsInv, NEW bs, NEW crash, RegistryInv(connections, profiles, default, bs), SetProjects(bs, crash)
  PROVE  SettingsInv'
<1>2. editor.at = "project" => editor.id \in Projects
  BY DEF SettingsInv, EditorInv
<1>. QED  BY <1>2, RefreshedIsCurrent, ClosedIsFine DEF SettingsInv, SetProjects, RefreshPane

-----------------------------------------------------------------------------
(* The acts                                                                *)

\* The wizard's profile is complete.
LEMMA RecommendedIsComplete ==
  ASSUME NEW first \in Connections, NEW second \in Connections, NEW model \in Models
  PROVE  Recommended(first, second, model) \in CompleteConfig
<1>. DEFINE routes == [s \in Steps |-> [NoStep EXCEPT !.conn = IF s = "image" THEN second ELSE first, !.model = model]]
<1>1. ASSUME NEW s \in Steps
      PROVE  routes[s] \in CompleteStep /\ routes[s].backend = Nothing
  BY DEF NoStep, CompleteStep, Backends
<1>2. routes \in CompleteRoutes
  <2>. HIDE DEF routes
  <2>1. routes \in [Steps -> Step]
    BY <1>1, StepFacts DEF routes
  <2>2. {"translator", "polish"} \subseteq Steps
    BY DEF Steps
  <2>. QED  BY <1>1, <2>1, <2>2, StepFacts DEF CompleteRoutes
<1>. QED  BY <1>2, SavedIsComplete DEF Recommended

LEMMA InitIsFine == SettingsInit => SettingsInv
<1>. SUFFICES ASSUME SettingsInit  PROVE SettingsInv
  OBVIOUS
<1>1. NoProject \in ProjectRow /\ NoProject.profile = Nothing
  BY DEF NoProject, ProjectRow
<1>2. projects \in [Projects -> ProjectRow] /\ \A b \in Projects : projects[b].profile = Nothing
  BY <1>1 DEF SettingsInit
<1>3. EditorInv(editor, connections, profiles, projects)
  BY ClosedIsFine DEF SettingsInit
<1>4. CASE /\ connections = [c \in Connections |-> "absent"]
           /\ profiles = [p \in Profiles |-> NoConfig] /\ default = Nothing
  BY <1>2, <1>3, <1>4 DEF SettingsInv, RegistryInv
<1>5. ASSUME NEW p \in Profiles, NEW first \in Connections, NEW second \in Connections, NEW model \in Models,
             connections = [c \in Connections |-> IF c \in {first, second} THEN model ELSE "absent"],
             profiles = [q \in Profiles |-> IF q = p THEN Recommended(first, second, model) ELSE NoConfig],
             default = p
      PROVE  SettingsInv
  <2>1. profiles \in [Profiles -> CompleteConfig \cup {NoConfig}] /\ profiles[p] # NoConfig
    BY <1>5, RecommendedIsComplete, StepFacts
  <2>. QED  BY <1>2, <1>3, <1>5, <2>1 DEF SettingsInv, RegistryInv
<1>. QED  BY <1>4, <1>5 DEF SettingsInit

LEMMA ConnectionStepKeeps == SettingsInv /\ ConnectionStep => SettingsInv'
<1>. SUFFICES ASSUME SettingsInv, ConnectionStep  PROVE SettingsInv'
  OBVIOUS
<1>1. connections \in [Connections -> Models \cup {Nothing, "absent"}]
  BY DEF SettingsInv, RegistryInv
<1>2. ASSUME NEW c \in Connections, DeleteConnection(c)  PROVE SettingsInv'
  <2>1. [connections EXCEPT ![c] = "absent"] \in [Connections -> Models \cup {Nothing, "absent"}]
    BY <1>1
  <2>. QED  BY <1>2, <2>1, SetConnectionsKeeps DEF DeleteConnection
<1>3. ASSUME NEW c \in Connections, NEW m \in Models \cup {Nothing}, SaveConnection(c, m)  PROVE SettingsInv'
  <2>1. [connections EXCEPT ![c] = m] \in [Connections -> Models \cup {Nothing, "absent"}]
    BY <1>1
  <2>. QED  BY <1>3, <2>1, SetConnectionsKeeps DEF SaveConnection
<1>. QED  BY <1>2, <1>3 DEF ConnectionStep

\* A complete profile may be stored in any place, a default that exists chosen.
LEMMA ProfileIsStored ==
  ASSUME SettingsInv, NEW p \in Profiles, NEW c \in CompleteConfig, NEW d \in Profiles \cup {Nothing},
         d = p \/ d = default
  PROVE  RegistryInv(connections, [profiles EXCEPT ![p] = c], d, projects)
BY StepFacts DEF SettingsInv, RegistryInv

LEMMA StoredProfile ==
  ASSUME SettingsInv, NEW p \in Profiles, Exists(p)
  PROVE  /\ profiles[p] \in CompleteConfig /\ profiles[p] \in Stored
         /\ connections \in [Connections -> Models \cup {Nothing, "absent"}]
         /\ default \in Profiles \cup {Nothing}
         /\ AsSaved(AsShown(profiles[p], connections), Nothing) \in CompleteConfig
         /\ AsSaved(AsShown(profiles[p], connections), Nothing).steps = AsShown(profiles[p], connections)
<1>1. /\ profiles[p] \in CompleteConfig /\ profiles[p] \in Stored
      /\ connections \in [Connections -> Models \cup {Nothing, "absent"}] /\ default \in Profiles \cup {Nothing}
  BY DEF SettingsInv, RegistryInv, Exists, Stored
<1>2. AsShown(profiles[p], connections) \in CompleteRoutes
  BY <1>1, ShowsTheSteps
<1>3. AsShown(profiles[p], connections)["image"] = profiles[p].steps["image"]
  BY <1>1, ShowsTheSteps DEF Steps
<1>. QED  BY <1>1, <1>2, <1>3, SavedIsComplete DEF CompleteConfig

\* What can be saved from an editor is complete.
LEMMA SavedFromEditor ==
  ASSUME SettingsInv, ValidRoutes(editor.routes), NEW source \in Profiles \cup {Nothing}
  PROVE  AsSaved(editor.routes, source) \in CompleteConfig
<1>1. editor.routes \in Routes
  BY DEF SettingsInv, EditorInv, EditorRow
<1>. QED  BY <1>1, ValidIsComplete, SavedIsComplete

\* A profile opened for editing.
LEMMA OpenEditorKeeps ==
  ASSUME SettingsInv, NEW p \in Profiles, OpenEditor(p)
  PROVE  SettingsInv'
<1>. DEFINE Fresh(c) == [s \in Steps |-> [NoStep EXCEPT !.conn = c, !.model = connections[c]]]
<1>1. connections \in [Connections -> Models \cup {Nothing, "absent"}] /\ profiles \in [Profiles -> CompleteConfig \cup {NoConfig}]
  BY DEF SettingsInv, RegistryInv
<1>2. ASSUME NEW c \in Present(connections)  PROVE Offered(Fresh(c), connections) \in Routes
  <2>1. c \in Connections /\ connections[c] \in Models \cup {Nothing}
    BY <1>1 DEF Present
  <2>2. [NoStep EXCEPT !.conn = c, !.model = connections[c]] \in Step
    BY <2>1 DEF NoStep, Step, Backends
  <2>3. ASSUME NEW s \in Steps
        PROVE  /\ Fresh(c)[s] \in Step /\ Fresh(c)[s].conn = c /\ Fresh(c)[s].backend = Nothing
    BY <2>2 DEF NoStep
  <2>. HIDE DEF Fresh
  <2>4. ASSUME NEW s \in Steps  PROVE Offered(Fresh(c), connections)[s] = Fresh(c)[s]
    BY <2>3 DEF Offered
  <2>5. Offered(Fresh(c), connections) \in [Steps -> Step] /\ {"translator", "polish"} \subseteq Steps
    BY <2>3, <2>4 DEF Offered, Steps
  <2>. QED  BY <2>1, <2>3, <2>4, <2>5, Sentinels DEF Routes
<1>3. PICK shown : /\ Offered(shown, connections) \in Routes
                   /\ Exists(p) => Offered(shown, connections) = ShownRoutes(profiles[p], connections)
                   /\ editor' = [Closed EXCEPT !.at = "profile", !.id = p, !.routes = Offered(shown, connections),
                                               !.touched = ~Exists(p)]
  <2>1. PICK shown \in IF Exists(p) THEN {AsShown(profiles[p], connections)}
                       ELSE IF \E q \in Profiles : Exists(q)
                       THEN {AsShown(profiles[q], connections) : q \in {q \in Profiles : Exists(q)}}
                       ELSE {Fresh(c) : c \in Present(connections)} :
          editor' = [Closed EXCEPT !.at = "profile", !.id = p, !.routes = Offered(shown, connections),
                                   !.touched = ~Exists(p)]
    BY DEF OpenEditor
  <2>2. ASSUME NEW q \in Profiles  PROVE Offered(AsShown(profiles[q], connections), connections) \in Routes
    BY <1>1, ShownIsRoutes DEF ShownRoutes, Stored
  <2>. HIDE DEF Fresh
  <2>3. CASE Exists(p)
    BY <2>1, <2>2, <2>3 DEF ShownRoutes
  <2>4. CASE ~Exists(p) /\ \E q \in Profiles : Exists(q)
    <3>1. PICK q \in Profiles : shown = AsShown(profiles[q], connections)
      BY <2>1, <2>4
    <3>. QED  BY <2>1, <2>2, <2>4, <3>1
  <2>5. CASE ~Exists(p) /\ ~\E q \in Profiles : Exists(q)
    <3>1. PICK c \in Present(connections) : shown = Fresh(c)
      BY <2>1, <2>5
    <3>. QED  BY <1>2, <2>1, <2>5, <3>1
  <2>. QED  BY <2>3, <2>4, <2>5
<1>4. /\ editor'.at = "profile" /\ editor'.id = p /\ editor'.routes = Offered(shown, connections)
      /\ editor'.touched = ~Exists(p)
  BY <1>3 DEF Closed
<1>5. Exists(p) \in BOOLEAN
  BY DEF Exists
<1>6. editor' \in EditorRow
  BY <1>3, <1>5 DEF Closed, EditorRow
<1>7. EditorInv(editor', connections, profiles, projects)
  BY <1>3, <1>4, <1>6 DEF EditorInv, Exists
<1>. QED  BY <1>7 DEF SettingsInv, OpenEditor

LEMMA ProfileStepKeeps == SettingsInv /\ ProfileStep => SettingsInv'
<1>. SUFFICES ASSUME SettingsInv, ProfileStep  PROVE SettingsInv'
  OBVIOUS
<1>1. /\ RegistryInv(connections, profiles, default, projects)
      /\ EditorInv(editor, connections, profiles, projects)
  BY DEF SettingsInv
<1>2. ASSUME NEW p \in Profiles, SetDefault(p)  PROVE SettingsInv'
  <2>. DEFINE config == AsSaved(AsShown(profiles[p], connections), Nothing)
  <2>1. Exists(p) /\ SetProfiles([profiles EXCEPT ![p] = config], p)
    BY <1>2 DEF SetDefault
  <2>2. config \in CompleteConfig
    BY <2>1, StoredProfile
  <2>. QED  BY <2>1, <2>2, ProfileIsStored, SetProfilesKeeps
<1>3. ASSUME NEW p \in Profiles, DeleteProfile(p)  PROVE SettingsInv'
  <2>. DEFINE d == IF default = p THEN Nothing ELSE default
  <2>1. /\ SetProfiles([profiles EXCEPT ![p] = NoConfig], d) /\ \A b \in Projects : projects[b].profile # p
    BY <1>3 DEF DeleteProfile
  <2>2. RegistryInv(connections, [profiles EXCEPT ![p] = NoConfig], d, projects)
    BY <1>1, <2>1, Sentinels DEF RegistryInv, ProjectRow
  <2>. QED  BY <2>1, <2>2, SetProfilesKeeps
<1>4. ASSUME NEW p \in Profiles, NEW copy \in Profiles, DuplicateProfile(p, copy)  PROVE SettingsInv'
  <2>1. Exists(p) /\ SetProfiles([profiles EXCEPT ![copy] = profiles[p]], default)
    BY <1>4 DEF DuplicateProfile, Inserted
  <2>2. profiles[p] \in CompleteConfig /\ default \in Profiles \cup {Nothing}
    BY <2>1, StoredProfile
  <2>. QED  BY <2>1, <2>2, ProfileIsStored, SetProfilesKeeps
<1>5. ASSUME NEW p \in Profiles, NEW c \in Connections, NEW d \in Connections, NEW m \in Models,
             NEW whole \in BOOLEAN, RunWizard(p, c, d, m, whole)
      PROVE  SettingsInv'
  <2>1. CASE ~whole
    <3>1. /\ connections' = [connections EXCEPT ![c] = m] /\ profiles' = profiles /\ default' = default
          /\ projects' = projects /\ editor' = Closed
      BY <1>5, <2>1 DEF RunWizard
    <3>2. RegistryInv(connections', profiles, default, projects)
      BY <1>1, <3>1 DEF RegistryInv
    <3>. QED  BY <3>1, <3>2, ClosedIsFine DEF SettingsInv
  <2>2. CASE whole
    <3>. DEFINE cs == [x \in Connections |-> IF x \in {c, d} THEN m ELSE connections[x]]
                ps == [profiles EXCEPT ![p] = Recommended(c, d, m)]
    <3>1. /\ connections' = cs /\ profiles' = ps /\ default' = p /\ projects' = projects
          /\ RefreshPane(cs, ps, projects)
      BY <1>5, <2>2 DEF RunWizard
    <3>2. RegistryInv(connections, ps, p, projects)
      BY RecommendedIsComplete, ProfileIsStored
    <3>3. RegistryInv(cs, ps, p, projects)
      BY <1>1, <3>2 DEF RegistryInv
    <3>4. editor.at = "project" => editor.id \in Projects
      BY <1>1 DEF EditorInv
    <3>. HIDE DEF cs, ps
    <3>. QED  BY <3>1, <3>3, <3>4, RefreshedIsCurrent DEF SettingsInv, RefreshPane
  <2>. QED  BY <2>1, <2>2
<1>6. CASE CancelEditor
  BY <1>1, <1>6, ClosedIsFine DEF CancelEditor, SettingsInv
<1>7. CASE SaveEditor
  <2>. DEFINE config == AsSaved(editor.routes, Nothing)
              d == IF Exists(editor.id) THEN default ELSE Inserted(editor.id, config)[2]
  <2>1. /\ editor.id \in Profiles /\ ValidRoutes(editor.routes)
        /\ SetProfiles([profiles EXCEPT ![editor.id] = config], d)
    BY <1>1, <1>7 DEF SaveEditor, EditorInv
  <2>2. config \in CompleteConfig
    BY <2>1, SavedFromEditor
  <2>3. d = editor.id \/ d = default
    BY DEF Inserted
  <2>4. d \in Profiles \cup {Nothing}
    BY <1>1, <2>1, <2>3 DEF RegistryInv
  <2>. HIDE DEF config, d
  <2>. QED  BY <2>1, <2>2, <2>3, <2>4, ProfileIsStored, SetProfilesKeeps
<1>. QED  BY <1>2, <1>3, <1>4, <1>5, <1>6, <1>7, OpenEditorKeeps DEF ProfileStep

\* A change of one route that leaves its backend, and names no connection that is not there.
LEMMA EditKeeps ==
  ASSUME SettingsInv, NEW s \in Steps, NEW route \in Step, EditRoute(s, route),
         route.conn # Own, route.backend = editor.routes[s].backend
  PROVE  SettingsInv'
<1>1. editor \in EditorRow /\ editor.routes \in Routes
  BY DEF SettingsInv, EditorInv, EditorRow
<1>. DEFINE routes == [editor.routes EXCEPT ![s] = route]
<1>2. routes \in Routes
  <2>1. ASSUME NEW t \in Steps
        PROVE  routes[t].conn # Own /\ routes[t].backend = editor.routes[t].backend
    BY <1>1 DEF Routes
  <2>2. routes \in [Steps -> Step] /\ {"translator", "polish"} \subseteq Steps
    BY <1>1 DEF Routes, Steps
  <2>. QED  BY <1>1, <2>1, <2>2 DEF Routes
<1>3. editor' = [editor EXCEPT !.routes = routes, !.touched = TRUE]
  BY DEF EditRoute
<1>. HIDE DEF routes
<1>4. editor' \in EditorRow /\ editor'.touched
  BY <1>1, <1>2, <1>3 DEF EditorRow
<1>5. editor'.at = editor.at /\ editor'.id = editor.id /\ editor'.selected = editor.selected
  BY <1>1, <1>3 DEF EditorRow
<1>. QED  BY <1>4, <1>5 DEF SettingsInv, EditorInv, EditRoute

LEMMA EditStepKeeps == SettingsInv /\ EditStep => SettingsInv'
<1>. SUFFICES ASSUME SettingsInv, EditStep  PROVE SettingsInv'
  OBVIOUS
<1>1. /\ connections \in [Connections -> Models \cup {Nothing, "absent"}]
      /\ \A s \in Steps : editor.routes[s] \in Step /\ editor.routes[s].conn # Own
  BY DEF SettingsInv, RegistryInv, EditorInv, EditorRow, Routes
<1>2. ASSUME NEW s \in Steps, NEW c \in Present(connections) \cup {Nothing}, ChooseConnection(s, c)
      PROVE  SettingsInv'
  <2>. DEFINE step == editor.routes[s]
              model == IF c # Nothing /\ connections[c] # Nothing THEN connections[c] ELSE step.model
              route == [step EXCEPT !.conn = c, !.model = model]
  <2>1. EditRoute(s, route)
    BY <1>2 DEF ChooseConnection
  <2>2. model \in Models \cup {Nothing} /\ c \in Connections \cup {Nothing}
    BY <1>1 DEF Present, Step
  <2>3. route \in Step /\ route.conn = c /\ route.backend = step.backend
    BY <1>1, <2>2 DEF Step
  <2>. QED  BY <2>1, <2>2, <2>3, EditKeeps, Sentinels
<1>3. ASSUME NEW s \in Steps, NEW m \in Models \cup {Nothing}, TypeModel(s, m)  PROVE SettingsInv'
  <2>. DEFINE route == [editor.routes[s] EXCEPT !.model = m]
  <2>1. EditRoute(s, route)
    BY <1>3 DEF TypeModel
  <2>2. route \in Step /\ route.conn = editor.routes[s].conn /\ route.backend = editor.routes[s].backend
    BY <1>1 DEF Step
  <2>. QED  BY <1>1, <2>1, <2>2, EditKeeps
<1>4. ASSUME NEW s \in Steps, ToggleOverride(s)  PROVE SettingsInv'
  <2>. DEFINE own == IF editor.routes[s].temperature = Nothing THEN "own" ELSE Nothing
              route == [editor.routes[s] EXCEPT !.temperature = own]
  <2>1. EditRoute(s, route)
    BY <1>4 DEF ToggleOverride
  <2>2. route \in Step /\ route.conn = editor.routes[s].conn /\ route.backend = editor.routes[s].backend
    BY <1>1 DEF Step
  <2>. QED  BY <1>1, <2>1, <2>2, EditKeeps
<1>. QED  BY <1>2, <1>3, <1>4 DEF EditStep

-----------------------------------------------------------------------------
(* Projects                                                                *)

\* A project may be stored with the profile it has or one that exists, and with
\* anything that can be stored.
LEMMA ProjectIsStored ==
  ASSUME SettingsInv, NEW b \in Projects, NEW r \in ProjectRow, r.profile # Nothing => Exists(r.profile)
  PROVE  RegistryInv(connections, profiles, default, [projects EXCEPT ![b] = r])
BY DEF SettingsInv, RegistryInv, Exists

\* A project gets a configuration of its own, or loses its profile only.
LEMMA CustomisedIsStored ==
  ASSUME SettingsInv, NEW b \in Projects, NEW config \in Stored, NEW crash \in BOOLEAN
  PROVE  RegistryInv(connections, profiles, default, Customised(b, config, crash))
<1>. DEFINE left == IF crash THEN projects[b].config ELSE config
            r == [projects[b] EXCEPT !.profile = Nothing, !.config = left]
<1>1. projects \in [Projects -> ProjectRow] /\ projects[b] \in ProjectRow
  BY DEF SettingsInv, RegistryInv
<1>2. r \in ProjectRow /\ r.profile = Nothing
  BY <1>1 DEF ProjectRow, Stored
<1>3. Customised(b, config, crash) = [projects EXCEPT ![b] = r]
  BY <1>1 DEF Customised, ProjectRow
<1>. HIDE DEF r
<1>. QED  BY <1>2, <1>3, ProjectIsStored

LEMMA CreateProjectKeeps ==
  ASSUME SettingsInv, NEW b \in Projects, NEW p \in Profiles, NEW copy \in BOOLEAN, CreateProject(b, p, copy)
  PROVE  SettingsInv'
<1>. DEFINE config == IF copy THEN [profiles[p] EXCEPT !.source = p] ELSE NoConfig
            r == [status |-> "active", profile |-> IF copy THEN Nothing ELSE p, config |-> config]
<1>1. Exists(p) /\ SetProjects([projects EXCEPT ![b] = r], FALSE)
  BY DEF CreateProject
<1>2. profiles[p] \in CompleteConfig
  BY <1>1, StoredProfile
<1>3. [profiles[p] EXCEPT !.source = p] \in CompleteConfig
  BY <1>2 DEF CompleteConfig, Config
<1>4. r \in ProjectRow /\ (r.profile # Nothing => Exists(r.profile))
  BY <1>1, <1>3 DEF ProjectRow
<1>. HIDE DEF r
<1>. QED  BY <1>1, <1>4, ProjectIsStored, SetProjectsKeeps

\* What the command line does to a project that no pane shows.
LEMMA FromOutsideKeeps ==
  ASSUME SettingsInv, NEW b \in Projects, NEW r \in ProjectRow, r.profile # Nothing => Exists(r.profile),
         editor.at = "project" => editor.id # b,
         projects' = [projects EXCEPT ![b] = r], UNCHANGED <<connections, profiles, default, editor>>
  PROVE  SettingsInv'
<1>1. RegistryInv(connections', profiles', default', projects')
  BY ProjectIsStored
<1>2. editor.at = "project" => projects'[editor.id] = projects[editor.id]
  BY DEF SettingsInv, RegistryInv
<1>. QED  BY <1>1, <1>2 DEF SettingsInv, EditorInv, Effective

LEMMA ProjectStepKeeps == SettingsInv /\ ProjectStep => SettingsInv'
<1>. SUFFICES ASSUME SettingsInv, ProjectStep  PROVE SettingsInv'
  OBVIOUS
<1>1. /\ RegistryInv(connections, profiles, default, projects)
      /\ EditorInv(editor, connections, profiles, projects)
      /\ editor \in EditorRow /\ projects \in [Projects -> ProjectRow]
  BY DEF SettingsInv, EditorInv, RegistryInv
<1>2. ASSUME NEW b \in Projects, OpenPane(b)  PROVE SettingsInv'
  BY <1>1, <1>2, PaneIsCurrent DEF OpenPane, SettingsInv
<1>3. ASSUME NEW b \in Projects, RunFromCommandLine(b)  PROVE SettingsInv'
  <2>. DEFINE r == [status |-> "active", profile |-> Nothing, config |-> FromCommandLine]
  <2>1. /\ projects' = [projects EXCEPT ![b] = r] /\ projects[b].status = "absent"
        /\ UNCHANGED <<connections, profiles, default, editor>>
    BY <1>3 DEF RunFromCommandLine, FromCommandLine
  <2>2. r \in ProjectRow /\ r.profile = Nothing
    BY DEF ProjectRow
  <2>3. editor.at = "project" => editor.id # b
    BY <1>1, <2>1 DEF EditorInv
  <2>. HIDE DEF r
  <2>. QED  BY <2>1, <2>2, <2>3, FromOutsideKeeps
<1>4. ASSUME NEW b \in Projects, DeleteFromCommandLine(b)  PROVE SettingsInv'
  <2>. DEFINE r == [projects[b] EXCEPT !.status = "deleted"]
  <2>1. /\ projects' = [projects EXCEPT ![b] = r] /\ editor.id # b
        /\ UNCHANGED <<connections, profiles, default, editor>>
    BY <1>4 DEF DeleteFromCommandLine
  <2>2. r \in ProjectRow /\ r.profile = projects[b].profile
    BY <1>1 DEF ProjectRow
  <2>3. r.profile # Nothing => Exists(r.profile)
    BY <1>1, <2>2 DEF RegistryInv, Exists
  <2>. HIDE DEF r
  <2>. QED  BY <2>1, <2>2, <2>3, FromOutsideKeeps
<1>5. ASSUME NEW b \in Projects, DeleteProject(b)  PROVE SettingsInv'
  <2>1. NoProject \in ProjectRow /\ NoProject.profile = Nothing
    BY DEF NoProject, ProjectRow
  <2>. QED  BY <1>5, <2>1, ProjectIsStored, SetProjectsKeeps DEF DeleteProject
<1>6. ASSUME NEW b \in Projects, NEW crash \in BOOLEAN, SetLanguage(b, crash)  PROVE SettingsInv'
  <2>. DEFINE config == Effective(b, projects, profiles)
              own == IF projects[b].profile = Nothing THEN config
                     ELSE [config EXCEPT !.source = projects[b].profile]
  <2>1. config # NoConfig /\ SetProjects(Customised(b, own, crash), crash)
    BY <1>6 DEF SetLanguage
  <2>2. config \in Stored /\ projects[b].profile \in Profiles \cup {Nothing}
    BY <1>1, EffectiveIsStored DEF ProjectRow
  <2>3. projects[b].profile # Nothing => config \in CompleteConfig
    BY <1>1, <2>1, <2>2 DEF Effective, RegistryInv
  <2>4. own \in Stored
    BY <2>2, <2>3 DEF Stored, CompleteConfig, Config
  <2>. HIDE DEF own
  <2>. QED  BY <2>1, <2>4, CustomisedIsStored, SetProjectsKeeps
<1>7. ASSUME NEW p \in Profiles, SelectShared(p)  PROVE SettingsInv'
  <2>1. editor' = [editor EXCEPT !.selected = p, !.base = p, !.touched = TRUE]
    BY <1>7 DEF SelectShared
  <2>2. /\ editor' \in EditorRow /\ editor'.touched /\ editor'.selected # Nothing
        /\ editor'.at = editor.at /\ editor'.id = editor.id
    BY <1>1, <2>1, Sentinels DEF EditorRow
  <2>3. UNCHANGED <<connections, profiles, default, projects>>
    BY <1>7 DEF SelectShared
  <2>. QED  BY <1>1, <2>2, <2>3 DEF SettingsInv, EditorInv
<1>8. CASE SelectCustom
  <2>. DEFINE shown == ShownRoutes(profiles[editor.selected], connections)
              routes == IF editor.routes # NoConfig.steps THEN editor.routes ELSE shown
  <2>1. /\ editor' = [editor EXCEPT !.selected = Custom, !.routes = routes]
        /\ editor.at = "project" /\ editor.selected # Custom
        /\ UNCHANGED <<connections, profiles, default, projects>>
    BY <1>8 DEF SelectCustom, ShownRoutes
  <2>2. editor.selected \in Profiles /\ editor.routes \in Routes
    BY <1>1, <2>1 DEF EditorInv, EditorRow
  <2>3. shown \in Routes
    BY <1>1, <2>2, ShownIsRoutes DEF RegistryInv, Stored
  <2>4. routes \in Routes
    BY <2>2, <2>3
  <2>5. ~editor.touched => /\ editor.selected = projects[editor.id].profile
                           /\ routes = shown
    BY <1>1, <2>1 DEF EditorInv
  <2>6. ~editor.touched => /\ Effective(editor.id, projects, profiles) = profiles[editor.selected]
                           /\ profiles[editor.selected] # NoConfig
    BY <1>1, <2>1, <2>2, <2>5, Sentinels DEF Effective, EditorInv, RegistryInv
  <2>. HIDE DEF routes
  <2>7. /\ editor' \in EditorRow /\ editor'.selected = Custom /\ editor'.routes = routes
        /\ editor'.at = editor.at /\ editor'.id = editor.id /\ editor'.touched = editor.touched
    BY <1>1, <2>1, <2>4 DEF EditorRow
  <2>. QED  BY <1>1, <2>1, <2>5, <2>6, <2>7, Sentinels DEF SettingsInv, EditorInv
<1>9. CASE SaveShared
  <2>. DEFINE r == [projects[editor.id] EXCEPT !.profile = editor.selected]
  <2>1. /\ editor.id \in Projects /\ editor.selected \in Profiles /\ Exists(editor.selected)
        /\ SetProjects([projects EXCEPT ![editor.id] = r], FALSE)
    BY <1>1, <1>9 DEF SaveShared, EditorInv
  <2>2. r \in ProjectRow /\ r.profile = editor.selected
    BY <1>1, <2>1 DEF ProjectRow
  <2>. HIDE DEF r
  <2>. QED  BY <2>1, <2>2, ProjectIsStored, SetProjectsKeeps
<1>10. ASSUME NEW crash \in BOOLEAN, SaveCustom(crash)  PROVE SettingsInv'
  <2>. DEFINE config == AsSaved(editor.routes, editor.base)
  <2>1. /\ editor.id \in Projects /\ ValidRoutes(editor.routes) /\ editor.base \in Profiles \cup {Nothing}
        /\ SetProjects(Customised(editor.id, config, crash), crash)
    BY <1>1, <1>10 DEF SaveCustom, EditorInv, EditorRow
  <2>2. config \in Stored
    BY <2>1, SavedFromEditor DEF Stored
  <2>. HIDE DEF config
  <2>. QED  BY <2>1, <2>2, CustomisedIsStored, SetProjectsKeeps
<1>. QED  BY <1>2, <1>3, <1>4, <1>5, <1>6, <1>7, <1>8, <1>9, <1>10, CreateProjectKeeps DEF ProjectStep

-----------------------------------------------------------------------------
(* The results                                                             *)

\* The registry refers to what exists, and an untouched editor shows what is stored.
THEOREM SettingsAreSound == SettingsSpec => []SettingsInv
<1>1. SettingsInv /\ [SettingsNext]_settingsVars => SettingsInv'
  <2>. SUFFICES ASSUME SettingsInv, [SettingsNext]_settingsVars  PROVE SettingsInv'
    OBVIOUS
  <2>1. CASE UNCHANGED settingsVars
    BY <2>1 DEF settingsVars, SettingsInv
  <2>. QED
    BY <2>1, ConnectionStepKeeps, ProfileStepKeeps, EditStepKeeps, ProjectStepKeeps DEF SettingsNext
<1>. QED  BY <1>1, InitIsFine, PTL DEF SettingsSpec

\* While what they name is there, the steps of anything stored can be called, and
\* are read back from a snapshot as they were taken.
LEMMA StoredResolves ==
  ASSUME NEW cs \in [Connections -> Models \cup {Nothing, "absent"}], NEW c \in Stored, c # NoConfig,
         \A s \in Steps : c.steps[s].conn # Nothing => Known(c.steps[s].conn, cs)
  PROVE  /\ Resolves(c, cs)
         /\ \A s \in Steps : c.steps[s] # NoStep =>
              Reread(Resolved(c.steps[s], cs), cs) = Resolved(c.steps[s], cs)
<1>1. c.steps["translator"] # NoStep
  <2>1. CASE c \in CompleteConfig
    BY <2>1 DEF CompleteConfig, CompleteRoutes
  <2>2. CASE c = FromCommandLine
    BY <2>2, Sentinels DEF FromCommandLine, NoConfig, Steps, NoStep
  <2>. QED  BY <2>1, <2>2 DEF Stored
<1>2. ASSUME NEW s \in Steps, c.steps[s] # NoStep
      PROVE  c.steps[s].conn # Nothing /\ (c.steps[s] \in CompleteStep \/ c.steps[s].conn = Own)
  <2>1. CASE c \in CompleteConfig
    BY <1>2, <2>1, Sentinels DEF CompleteConfig, CompleteRoutes, CompleteStep
  <2>2. CASE c = FromCommandLine
    <3>1. c.steps = [NoConfig.steps EXCEPT !["translator"].conn = Own]
      BY <2>2 DEF FromCommandLine, NoConfig
    <3>2. s = "translator"
      BY <1>2, <3>1, StepFacts
    <3>3. c.steps[s].conn = Own
      BY <3>1, <3>2, StepFacts DEF NoStep
    <3>. QED  BY <3>3, Sentinels
  <2>. QED  BY <2>1, <2>2 DEF Stored
<1>3. ASSUME NEW s \in Steps, c.steps[s] # NoStep
      PROVE  /\ Known(c.steps[s].conn, cs) /\ Resolved(c.steps[s], cs).model \in Models
             /\ Reread(Resolved(c.steps[s], cs), cs) = Resolved(c.steps[s], cs)
  <2>. DEFINE step == c.steps[s]
              taken == Resolved(step, cs)
  <2>1. Known(step.conn, cs)
    BY <1>2, <1>3
  <2>2. step \in Step
    BY StoredFacts
  <2>3. taken.model \in Models /\ taken.conn = step.conn /\ taken.temperature = Nothing /\ taken.backend # Nothing
    <3>1. CASE step \in CompleteStep
      BY <3>1, Sentinels DEF Resolved, CompleteStep, Nothing
    <3>2. CASE step.conn = Own
      BY <2>2, <3>2, Sentinels DEF Resolved, Step, Nothing
    <3>. QED  BY <1>2, <1>3, <3>1, <3>2
  <2>4. taken = [conn |-> taken.conn, model |-> taken.model, temperature |-> Nothing, backend |-> taken.backend]
    BY DEF Resolved
  <2>. HIDE DEF taken
  <2>5. Resolved(taken, cs) = taken
    BY <2>3, <2>4, Sentinels DEF Resolved
  <2>6. [taken EXCEPT !.temperature = taken.temperature] = taken
    BY <2>3, <2>4
  <2>. QED  BY <2>1, <2>3, <2>5, <2>6 DEF Reread, taken
<1>. QED  BY <1>1, <1>3, Sentinels DEF Resolves

\* Whatever is saved, copied and deleted, by the window or the command line, a
\* project finds its profile and each of its steps what it calls (delete_profile,
\* update_project, validate_workflow_routes).
THEOREM ProjectsStayCallable == SettingsSpec => []ProjectsStayUsable
<1>1. SettingsInv => UsedProfilesExist
  BY DEF SettingsInv, RegistryInv, UsedProfilesExist, Exists
<1>2. SettingsInv => ProjectsResolve
  <2>. SUFFICES ASSUME SettingsInv, NEW b \in Projects,
                       LET config == Effective(b, projects, profiles)
                           named == {config.steps[s].conn : s \in Steps} \ {Nothing}
                       IN  config # NoConfig /\ (\A c \in named : Known(c, connections))
                PROVE  LET config == Effective(b, projects, profiles)
                       IN  /\ Resolves(config, connections)
                           /\ \A s \in Steps : config.steps[s] # NoStep =>
                                LET taken == Resolved(config.steps[s], connections)
                                IN  Reread(taken, connections) = taken
    BY DEF ProjectsResolve
  <2>1. /\ Effective(b, projects, profiles) \in Stored
        /\ connections \in [Connections -> Models \cup {Nothing, "absent"}]
    BY EffectiveIsStored DEF SettingsInv, RegistryInv
  <2>. QED  BY <2>1, StoredResolves
<1>. QED  BY <1>1, <1>2, SettingsAreSound, PTL DEF ProjectsStayUsable

\* A complete configuration saved as it is shown: every step calls what it called.
LEMMA SavedAsShown ==
  ASSUME NEW cs \in [Connections -> Models \cup {Nothing, "absent"}], NEW c \in CompleteConfig,
         NEW source \in Profiles \cup {Nothing}, NEW s \in Steps
  PROVE  EffectiveStep(AsSaved(AsShown(c, cs), source), s) = EffectiveStep(c, s)
<1>. DEFINE saved == AsSaved(AsShown(c, cs), source)
<1>1. saved.steps = AsShown(c, cs)
  <2>1. AsShown(c, cs) \in CompleteRoutes /\ AsShown(c, cs)["image"] = c.steps["image"]
    BY ShowsTheSteps DEF Steps
  <2>. QED  BY <2>1, SavedIsComplete DEF CompleteConfig
<1>2. \A t \in Steps : saved.steps[t] = EffectiveStep(c, t)
  BY <1>1, ShowsTheSteps
<1>. HIDE DEF saved
<1>3. EffectiveStep(saved, s) = saved.steps[s]
  BY <1>2 DEF EffectiveStep, Steps
<1>. QED  BY <1>2, <1>3 DEF saved

\* Saving what nobody touched, or making a profile the default, changes no call of
\* any project (build_workflow_profile_detail, build_workflow_profile_payload).
THEOREM SavingChangesNoCall == SettingsSpec => SavingKeepsCalls
<1>1. ASSUME SettingsInv, SavesUntouched, NEW b \in Projects, Effective(b, projects, profiles) # NoConfig
      PROVE  Calls(b, projects', profiles', connections') = Calls(b, projects, profiles, connections)
  <2>. DEFINE config == Effective(b, projects, profiles)
              later == Effective(b, projects', profiles')
  <2>1. /\ RegistryInv(connections, profiles, default, projects)
        /\ EditorInv(editor, connections, profiles, projects) /\ editor \in EditorRow
        /\ connections \in [Connections -> Models \cup {Nothing, "absent"}]
        /\ profiles \in [Profiles -> CompleteConfig \cup {NoConfig}]
        /\ projects \in [Projects -> ProjectRow]
    BY <1>1 DEF SettingsInv, RegistryInv, EditorInv
  \* What the profile p and the projects that use it become.
  <2>2. ASSUME NEW p \in Profiles, Exists(p), NEW d, projects' = projects,
               profiles' = [profiles EXCEPT ![p] = AsSaved(AsShown(profiles[p], connections), Nothing)]
        PROVE  \A s \in Steps : EffectiveStep(later, s) = EffectiveStep(config, s)
    <3>1. CASE projects[b].profile = p
      <4>1. config = profiles[p] /\ later = AsSaved(AsShown(profiles[p], connections), Nothing)
        BY <2>1, <2>2, <3>1, Sentinels DEF Effective
      <4>. QED  BY <1>1, <2>2, <4>1, StoredProfile, SavedAsShown
    <3>2. CASE projects[b].profile # p
      BY <2>1, <2>2, <3>2 DEF Effective, RegistryInv, ProjectRow
    <3>. QED  BY <3>1, <3>2
  <2>3. ASSUME NEW p \in Profiles, SetDefault(p)
        PROVE  connections' = connections /\ \A s \in Steps : EffectiveStep(later, s) = EffectiveStep(config, s)
    BY <2>2, <2>3 DEF SetDefault, SetProfiles
  <2>4. ASSUME ~editor.touched, SaveEditor
        PROVE  connections' = connections /\ \A s \in Steps : EffectiveStep(later, s) = EffectiveStep(config, s)
    <3>1. /\ editor.id \in Profiles /\ profiles[editor.id] # NoConfig
          /\ editor.routes = ShownRoutes(profiles[editor.id], connections) /\ ValidRoutes(editor.routes)
      BY <2>1, <2>4 DEF SaveEditor, EditorInv
    <3>2. editor.routes = AsShown(profiles[editor.id], connections)
      BY <2>1, <3>1, ValidShowsAll DEF Stored
    <3>. QED  BY <2>2, <2>4, <3>1, <3>2 DEF SaveEditor, SetProfiles, Exists
  <2>5. ASSUME ~editor.touched, SaveCustom(FALSE)
        PROVE  connections' = connections /\ \A s \in Steps : EffectiveStep(later, s) = EffectiveStep(config, s)
    <3>. DEFINE shown == Effective(editor.id, projects, profiles)
                saved == AsSaved(editor.routes, editor.base)
    <3>1. /\ editor.id \in Projects /\ editor.selected = Custom /\ editor.base \in Profiles \cup {Nothing}
          /\ ValidRoutes(editor.routes) /\ connections' = connections /\ profiles' = profiles
          /\ projects' = Customised(editor.id, saved, FALSE)
      BY <2>1, <2>5 DEF SaveCustom, SetProjects, EditorInv, EditorRow
    <3>2. shown # NoConfig /\ editor.routes = ShownRoutes(shown, connections) /\ shown \in Stored
      <4>1. projects[editor.id].profile # Custom
        BY <2>1, <3>1, Sentinels DEF ProjectRow
      <4>. QED  BY <2>1, <2>5, <3>1, <4>1, EffectiveIsStored DEF EditorInv, SaveCustom
    <3>3. shown \in CompleteConfig /\ editor.routes = AsShown(shown, connections)
      BY <2>1, <3>1, <3>2, ValidShowsAll
    <3>4. CASE b = editor.id
      <4>1. projects'[b].profile = Nothing /\ projects'[b].config = saved
        BY <2>1, <3>1, <3>4 DEF Customised, ProjectRow
      <4>2. later = saved
        BY <4>1 DEF Effective
      <4>3. config = shown /\ later = AsSaved(AsShown(shown, connections), editor.base)
        BY <3>3, <3>4, <4>2
      <4>. HIDE DEF config, later, shown
      <4>. QED  BY <2>1, <3>1, <3>3, <4>3, SavedAsShown
    <3>5. CASE b # editor.id
      BY <2>1, <3>1, <3>5 DEF Customised, Effective
    <3>. QED  BY <3>1, <3>4, <3>5
  <2>. HIDE DEF config, later
  <2>6. connections' = connections /\ \A s \in Steps : EffectiveStep(later, s) = EffectiveStep(config, s)
    BY <1>1, <2>3, <2>4, <2>5 DEF SavesUntouched
  <2>. QED  BY <2>6 DEF Calls, config, later
<1>2. SettingsInv =>
        [SavesUntouched =>
           \A b \in Projects : Effective(b, projects, profiles) # NoConfig =>
             Calls(b, projects', profiles', connections') = Calls(b, projects, profiles, connections)]_settingsVars
  BY <1>1
<1>. QED  BY <1>2, SettingsAreSound, PTL DEF SavingKeepsCalls

\* A project goes on calling what it called: something, and after a save of what was
\* shown the same.
THEOREM ProjectsKeepTheirCalls == SettingsSpec => CallsAreKept
BY ProjectsStayCallable, SavingChangesNoCall DEF CallsAreKept
=============================================================================
