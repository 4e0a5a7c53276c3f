------------------------------ MODULE TermsReview ------------------------------
(***************************************************************************)
(* The two tables of terms of a project: that of the whole project and     *)
(* that of the open document, a tab of its workspace.  Both keep rows they *)
(* write back whole (terms_view.py, terms_table_widget.py,                 *)
(* application/services/terms.py).                                         *)
(***************************************************************************)
EXTENDS Naturals, FiniteSets

CONSTANTS
  Terms,      \* that the project may have
  Once,       \* those that occur in a single chunk
  MaxNames    \* bound: the translations that are entered, imported or written by tasks

ASSUME TermsAssumption == IsFiniteSet(Terms) /\ Once \subseteq Terms /\ MaxNames \in Nat

VARIABLES
  glossary,   \* [Terms -> [there, inDoc, name, marked]]: what the database has
  names,      \* how many translations there are; 0 is none
  work,       \* "none", "queued", "running" or "ended": a task on the glossary
  notice,     \* an event of the task waits for the thread of the screens
  place,      \* [page, section]: the page of the project and the tab of the workspace
  table       \* [Views -> [rows, stale, owed]]

termsVars == <<glossary, names, work, notice, place, table>>

Views == {"project", "document"}
Absent == [there |-> FALSE, inDoc |-> FALSE, name |-> 0, marked |-> FALSE]
Visible(v) ==
  CASE v = "project" -> place.page = "terms"
    [] v = "document" -> place.page = "work" /\ place.section = "terms"

\* _glossary_mutation_blocker
Blocked == work \in {"running", "ended"}

\* _load_scope_term_records
Scope(v, g) ==
  [k \in Terms |-> IF g[k].there /\ (v = "project" \/ g[k].inDoc) THEN g[k] ELSE Absent]
Listed(v) == {k \in Terms : table[v].rows[k].there}
\* _get_rare_term_keys: neither ignored nor reviewed, and in one chunk or none
Rare(v) == {k \in Terms : Scope(v, glossary)[k].there /\ ~glossary[k].marked /\ (k \in Once \/ ~glossary[k].inDoc)}

Loaded(v, g) == [rows |-> Scope(v, g), stale |-> FALSE, owed |-> table[v].owed]

----------------------------------------------------------------------------
(* A write of table v: its own event is passed over, as it has the rows;   *)
(* the other table is not on the screen and is to be loaded when shown.    *)
Other(v) == CHOOSE u \in Views : u # v
AfterOwnWrite(v, rows, published) ==
  table' = [table EXCEPT ![v].rows = rows, ![v].owed = IF @ > 0 THEN @ - 1 ELSE 0,
                         ![Other(v)].stale = @ \/ published]

(* A write that changes rows in the database only: the table is loaded.     *)
AfterWrite(v, g) ==
  table' = [table EXCEPT ![v] = IF @.owed > 0 THEN [@ EXCEPT !.rows = Scope(v, g), !.owed = @ - 1]
                                ELSE Loaded(v, g),
                         ![Other(v)].stale = TRUE]
Refuse(v) ==
  /\ table' = [table EXCEPT ![v] = Loaded(v, glossary)]
  /\ UNCHANGED glossary

TermsInit ==
  /\ glossary \in [Terms -> {Absent} \cup [there : {TRUE}, inDoc : BOOLEAN, name : {0}, marked : {FALSE}]]
  /\ names = 0 /\ work = "none" /\ notice = FALSE
  /\ place = [page |-> "work", section |-> "other"]
  /\ table = [v \in Views |-> [rows |-> [k \in Terms |-> Absent], stale |-> TRUE, owed |-> 0]]

----------------------------------------------------------------------------
(* Moving between the pages: the table of the project is loaded when it is  *)
(* stale, that of the document only when its tab is chosen.                 *)
Activated(v) == [table EXCEPT ![v] = IF @.stale THEN Loaded(v, glossary) ELSE @]
Stay == UNCHANGED <<glossary, names, work, notice>>

ShowTerms ==
  /\ place.page = "work" /\ place' = [place EXCEPT !.page = "terms"]
  /\ table' = Activated("project") /\ Stay
ShowWork ==
  /\ place.page = "terms" /\ place' = [place EXCEPT !.page = "work"]
  /\ table' = table /\ Stay
ChooseSection ==
  /\ place.page = "work"
  /\ \/ /\ place.section = "other" /\ place' = [place EXCEPT !.section = "terms"]
        /\ table' = Activated("document")
     \/ /\ place.section = "terms" /\ place' = [place EXCEPT !.section = "other"]
        /\ table' = table
  /\ Stay

(* _on_item_changed and update_term_rows: the row of the table, with the    *)
(* one cell that changed, replaces the one in the database.                 *)
WriteRow(v, k, row) ==
  /\ Visible(v) /\ k \in Listed(v)
  /\ IF Blocked THEN Refuse(v) /\ UNCHANGED names
     ELSE /\ glossary' = IF glossary[k].there
                         THEN [glossary EXCEPT ![k].name = row.name, ![k].marked = row.marked] ELSE glossary
          /\ AfterOwnWrite(v, [table[v].rows EXCEPT ![k] = row], glossary[k].there)
  /\ UNCHANGED <<work, notice, place>>
TickTerm(v, k) ==
  /\ WriteRow(v, k, [table[v].rows[k] EXCEPT !.marked = ~@])
  /\ UNCHANGED names
EnterName(v, k) ==
  /\ names < MaxNames
  /\ WriteRow(v, k, [table[v].rows[k] EXCEPT !.name = names + 1])
  /\ Blocked \/ names' = names + 1

\* _run_bulk_update and update_terms_bulk: by key, only the flags
Bulk(v, ks) ==
  /\ Visible(v) /\ ks # {}
  /\ ks \subseteq {k \in Listed(v) : ~table[v].rows[k].marked}
  /\ IF Blocked THEN Refuse(v)
     ELSE LET known == {k \in ks : glossary[k].there}
              rows == [k \in Terms |-> IF k \in ks THEN [table[v].rows[k] EXCEPT !.marked = TRUE]
                                       ELSE table[v].rows[k]]
          IN /\ glossary' = [k \in Terms |-> IF k \in known THEN [glossary[k] EXCEPT !.marked = TRUE]
                                             ELSE glossary[k]]
             /\ AfterOwnWrite(v, rows, known # {})
  /\ UNCHANGED <<names, work, notice, place>>
Delete(v, ks) ==
  /\ Visible(v) /\ ks # {} /\ ks \subseteq Listed(v)
  /\ IF Blocked THEN Refuse(v)
     ELSE LET Gone(f) == [k \in Terms |-> IF k \in ks THEN Absent ELSE f[k]]
          IN /\ glossary' = Gone(glossary)
             /\ AfterOwnWrite(v, Gone(table[v].rows), \E k \in ks : glossary[k].there)
  /\ UNCHANGED <<names, work, notice, place>>

----------------------------------------------------------------------------
(* Writes that are answered with a new table.                               *)
Replace(v, g) ==
  IF Blocked THEN table' = table /\ UNCHANGED <<glossary, names>>
  ELSE glossary' = g /\ AfterWrite(v, g)
Named(k, n) ==
  IF glossary[k].there THEN [glossary[k] EXCEPT !.name = n, !.marked = TRUE]
  ELSE [there |-> TRUE, inDoc |-> FALSE, name |-> n, marked |-> TRUE]

FilterRare(v) ==
  /\ Visible(v) /\ Rare(v) # {}
  /\ Replace(v, [k \in Terms |-> IF k \in Rare(v) THEN [glossary[k] EXCEPT !.marked = TRUE] ELSE glossary[k]])
  /\ UNCHANGED <<names, work, notice, place>>
Upsert(k) ==
  /\ Visible("project") /\ names < MaxNames
  /\ Replace("project", [glossary EXCEPT ![k] = Named(k, names + 1)])
  /\ Blocked \/ names' = names + 1
  /\ UNCHANGED <<work, notice, place>>
\* A structured file replaces the glossary, a flat one is merged into it.
Import(ks, structured) ==
  /\ Visible("project") /\ names < MaxNames /\ ks # {}
  /\ Replace("project",
       [k \in Terms |-> IF k \notin ks THEN (IF structured THEN Absent ELSE glossary[k])
                        ELSE IF structured THEN [there |-> TRUE, inDoc |-> FALSE, name |-> names + 1, marked |-> FALSE]
                        ELSE Named(k, names + 1)])
  /\ Blocked \/ names' = names + 1
  /\ UNCHANGED <<work, notice, place>>

----------------------------------------------------------------------------
(* A task on the glossary, and the delivery of its events.                  *)
Announce(s) == work' = s /\ notice' = TRUE /\ UNCHANGED <<glossary, names, place, table>>
Progress ==
  \/ work = "none" /\ \E s \in {"queued", "running"} : Announce(s)
  \/ work = "queued" /\ \E s \in {"running", "none"} : Announce(s)
  \/ work = "running" /\ Announce("ended")
  \/ work = "ended" /\ Announce("none")
\* It finds a term in the document, or translates one that has no translation.
TaskWritesTerm ==
  /\ work = "running"
  /\ \E k \in Terms :
       \/ /\ ~glossary[k].inDoc
          /\ glossary' = [glossary EXCEPT ![k].there = TRUE, ![k].inDoc = TRUE]
          /\ names' = names
       \/ /\ glossary[k].there /\ glossary[k].name = 0 /\ names < MaxNames
          /\ names' = names + 1 /\ glossary' = [glossary EXCEPT ![k].name = names']
  /\ UNCHANGED <<work, notice, place, table>>

\* The table takes the next event for its own while it expects one.
Heard(v) == IF table[v].owed > 0 THEN [table[v] EXCEPT !.owed = @ - 1]
            ELSE IF Visible(v) THEN Loaded(v, glossary) ELSE [table[v] EXCEPT !.stale = TRUE]
\* The workspace reloads its current tab, hidden or not, before the terms hear of it.
Deliver ==
  /\ notice /\ notice' = FALSE
  /\ table' = [project |-> Heard("project"),
               document |-> IF place.section = "terms"
                            THEN [Loaded("document", glossary) EXCEPT !.stale = ~Visible("document")]
                            ELSE Heard("document")]
  /\ UNCHANGED <<glossary, names, work, place>>

TermsNext ==
  \/ ShowTerms \/ ShowWork \/ ChooseSection \/ Progress \/ TaskWritesTerm \/ Deliver
  \/ \E v \in Views :
       \/ FilterRare(v)
       \/ \E k \in Terms : TickTerm(v, k) \/ EnterName(v, k)
       \/ \E ks \in SUBSET Terms : Bulk(v, ks) \/ Delete(v, ks)
  \/ \E k \in Terms : Upsert(k)
  \/ \E ks \in SUBSET Terms, structured \in BOOLEAN : Import(ks, structured)

TermsSpec == TermsInit /\ [][TermsNext]_termsVars

----------------------------------------------------------------------------
(* Once events are delivered and no task works, the table of the project    *)
(* shows the glossary: it misses neither writes of the document's table nor *)
(* of tasks, though it passes over the events of its own writes             *)
(* (terms_view.py:1063-1104).                                               *)
ProjectTableIsCurrent ==
  Visible("project") /\ ~notice /\ ~Blocked =>
    \A k \in Terms : table["project"].rows[k].there \/ glossary[k].there =>
      table["project"].rows[k] = glossary[k]
================================================================================
