----------------------------- MODULE TermMemory -----------------------------
(***************************************************************************)
(* The memory of one recurring term: summaries of what the chunks so far   *)
(* say of it, each taking effect after the last chunk it knows of, so that *)
(* a translation is told nothing that the book has not said yet            *)
(* (core/term_memory_builder.py and its table in the book's database).     *)
(*                                                                         *)
(* A build reads the evidence in windows and asks the model of each        *)
(* whether it changes the summary; of a wide window that does, how short a *)
(* part suffices.  A summary is modelled by the chunks it has read.        *)
(***************************************************************************)
EXTENDS Integers, Sequences, FiniteSets, FiniteSetsExt, SequencesExt

CONSTANTS
  Histories,      \* the sets of chunks in which a term can have been described
  LaterChunks,    \* the chunks that a later extraction can describe it in
  InitialWindow,  \* 4: the entries of the first summary
  DenseLimit,     \* 8: up to here one entry at a time
  WidestWindow,   \* 32
  RefineSizes,    \* <<8, 2>>: the steps in which a wide window is shortened
  MaxChanges      \* bound: the extractions and resets after the first build

\* -1 is the chunk index of an imported description
ASSUME TermMemoryAssumption ==
  /\ \A h \in Histories : h \subseteq Nat \cup {-1}
  /\ LaterChunks \subseteq Nat
  /\ {InitialWindow, DenseLimit, WidestWindow} \subseteq Nat \ {0}
  /\ RefineSizes \in Seq(Nat \ {0}) /\ MaxChanges \in Nat

VARIABLES
  evidence, \* the chunks that describe the term
  stored,   \* its versions in the database, oldest first
  build,    \* the build at work
  changes   \* the changes so far

memoryVars == <<evidence, stored, build, changes>>

NoBuild == [pc |-> "idle", versions |-> <<>>, current |-> {}, cursor |-> 0,
            probe |-> <<>>, offered |-> {}]

MemoryInit ==
  /\ evidence \in Histories /\ stored = <<>>
  /\ build = NoBuild /\ changes = 0

MemoryBatches ==
  [i \in 1..Cardinality(evidence) |-> CHOOSE c \in evidence : Cardinality({d \in evidence : d < c}) = i - 1]
Window(from, to) == {MemoryBatches[i] : i \in (from + 1)..to}

\* (mutant of Version: in effect in the very chunk that it was taken from)
VersionOfItsChunk(upto, covers, kind) ==
  [start |-> MemoryBatches[upto], latest |-> MemoryBatches[upto], covers |-> covers, kind |-> kind]
Version(upto, covers, kind) ==
  [start |-> MemoryBatches[upto] + 1, latest |-> MemoryBatches[upto], covers |-> covers, kind |-> kind]

\* get_latest_term_memory_before
Before(query) == {i \in DOMAIN stored : stored[i].start <= query}
Remembered(query) == stored[CHOOSE i \in Before(query) : \A j \in Before(query) : stored[j].start <= stored[i].start]

\* _best_available_summary: the memory as of a chunk, else the raw descriptions
DescriptionFor(query) ==
  IF Before(query) # {} THEN Remembered(query).covers ELSE {c \in evidence : c < query}

-----------------------------------------------------------------------------
\* _term_memory_is_current
IsCurrent ==
  /\ Len(stored) > 0 /\ Cardinality(evidence) >= 2
  /\ Last(stored).latest >= Max(evidence)

\* A term with a single description has no memory.
StartBuild ==
  /\ build.pc = "idle" /\ evidence # {} /\ ~IsCurrent
  /\ IF Cardinality(evidence) < 2
     THEN stored' = <<>> /\ UNCHANGED build
     ELSE build' = [NoBuild EXCEPT !.pc = "bootstrap"] /\ UNCHANGED stored
  /\ UNCHANGED <<evidence, changes>>

Bootstrap ==
  /\ build.pc = "bootstrap"
  /\ LET n == Min({InitialWindow, Len(MemoryBatches)}) IN
     \/ build' = [build EXCEPT !.pc = "evaluate", !.cursor = n, !.current = Window(0, n),
                               !.offered = Window(0, n),
                               !.versions = <<Version(n, Window(0, n), "bootstrap")>>]
        /\ UNCHANGED stored
     \/ build' = NoBuild /\ stored' = <<>>    \* nothing worth a summary
  /\ UNCHANGED <<evidence, changes>>

WindowEnd ==
  Min({Len(MemoryBatches), build.cursor + (IF build.cursor < DenseLimit THEN 1 ELSE WidestWindow)})
\* (mutant of Moved: goes on one entry too far)
MovedTooFar(b, end) == [b EXCEPT !.cursor = end + 1, !.pc = "evaluate", !.probe = <<>>]
Moved(b, end) == [b EXCEPT !.cursor = end, !.pc = "evaluate", !.probe = <<>>]
Revised(b, upto, covers) ==
  [b EXCEPT !.current = covers, !.versions = Append(@, Version(upto, covers, "revision"))]

\* _evaluate_window: does the window change the summary?
EvaluateWindow ==
  /\ build.pc = "evaluate" /\ build.cursor < Len(MemoryBatches)
  /\ LET from == build.cursor
         end  == WindowEnd
         read == [build EXCEPT !.offered = @ \cup Window(from, end)]
     IN \/ build' = Moved(read, end)
        \/ IF end - from <= 2
           THEN build' = Moved(Revised(read, end, read.current \cup Window(from, end)), end)
           ELSE build' = [read EXCEPT !.pc = "refine",
                            !.probe = [sizes |-> RefineSizes, upto |-> from + RefineSizes[1],
                                       end |-> end, best |-> end, covers |-> read.current]]
  /\ UNCHANGED <<evidence, stored, changes>>

\* _refine_positive_window: of each size, the shortest multiple that still
\* changes the summary.  When none does, the version is for the whole window
\* and its text is the old one.
Probe ==
  /\ build.pc = "refine"
  /\ LET p    == build.probe
         next == [p EXCEPT !.sizes = Tail(@),
                           !.upto = IF Len(p.sizes) > 1 THEN build.cursor + p.sizes[2] ELSE 0]
     IN IF p.sizes = <<>>
        THEN build' = Moved(Revised(build, p.best, p.covers), p.end)
        ELSE IF p.best - build.cursor <= p.sizes[1] \/ p.upto > p.best
        THEN build' = [build EXCEPT !.probe = next]
        ELSE \/ build' = [build EXCEPT !.probe.upto = @ + p.sizes[1]]
             \/ build' = [build EXCEPT !.probe = [next EXCEPT
                            !.best = p.upto,
                            !.covers = build.current \cup Window(build.cursor, p.upto)]]
  /\ UNCHANGED <<evidence, stored, changes>>

\* _append_coverage_checkpoint, and the versions replace those of before
Checkpointed(versions) ==
  IF Last(versions).latest >= Max(evidence) THEN versions
  ELSE Append(versions, Version(Len(MemoryBatches), build.current, "checkpoint"))
Store ==
  /\ build.pc = "evaluate" /\ build.cursor >= Len(MemoryBatches)
  /\ stored' = Checkpointed(build.versions) /\ build' = NoBuild
  /\ UNCHANGED <<evidence, changes>>

\* No valid answer after all attempts, or a cancellation: the old versions stay.
BuildFails ==
  /\ build.pc # "idle" /\ build' = NoBuild
  /\ UNCHANGED <<evidence, stored, changes>>

-----------------------------------------------------------------------------
(* Between builds: the claims on term_memory keep both away from a build.  *)

Change == build.pc = "idle" /\ changes < MaxChanges /\ changes' = changes + 1 /\ UNCHANGED build

Extract ==
  /\ Change
  /\ \E c \in LaterChunks \ evidence : evidence' = evidence \cup {c}
  /\ UNCHANGED stored

\* reset_documents_from, prune_term_memory_from
Pruned(from) == SelectSeq(stored, LAMBDA v : v.start < from /\ v.latest < from)
ResetFrom ==
  /\ Change
  /\ \E from \in evidence \ {-1} :
       evidence' = {c \in evidence : c < from} /\ stored' = Pruned(from)

BuildStep == StartBuild \/ Bootstrap \/ EvaluateWindow \/ Probe \/ Store \/ BuildFails
MemoryNext == BuildStep \/ Extract \/ ResetFrom

-----------------------------------------------------------------------------
\* Positions stay inside the evidence, and what a build has read is evidence.
MemoryTypeOK ==
  /\ evidence \subseteq Nat \cup {-1}
  /\ build.cursor \in 0..Len(MemoryBatches) /\ build.offered \subseteq evidence
  /\ \A i \in DOMAIN stored : stored[i].covers \subseteq evidence

\* No description is of the chunk it is asked for, or of a later one: whatever
\* version is in effect, across builds that failed, resets and evidence that
\* came in late.
DescriptionIsCausal ==
  \A query \in 0..(Max(evidence \cup LaterChunks) + 2) :
    \A c \in DescriptionFor(query) : c < query

\* Versions take effect one after another (their table has one row for a term
\* and a start), and a newer one has read all that an older one had.
VersionsAdvance ==
  \A i, j \in DOMAIN stored : i < j =>
    /\ stored[i].start < stored[j].start
    /\ stored[i].covers \subseteq stored[j].covers

\* The build that is stored has offered all the evidence to the model: none is
\* passed over when a window is shortened or the windows change their width.
EvidenceIsOffered == [][Store => build.offered = evidence]_memoryVars
=============================================================================
