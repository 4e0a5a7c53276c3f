---------------------------- MODULE MCTranslation ----------------------------
(***************************************************************************)
(* What a translation prepares and asks: the memory of a term; the plans    *)
(* of a run; and the calls of two runs at one endpoint, a text whose batch  *)
(* needs a summary and a manga of two pages.  All are explored; one         *)
(* behaviour is about one of them.                                          *)
(***************************************************************************)
EXTENDS TermMemory, TranslationPlan, ChunkTranslation

CONSTANTS r1, r2
VARIABLE part

MCWork ==
  (r1 :> <<[manga |-> FALSE, briefs |-> {"s1"}, batches |-> {"b1"}]>>)
  @@ (r2 :> <<[manga |-> TRUE, briefs |-> {}, batches |-> {"p1", "p2"}]>>)

MCHistories == {(-1)..1, {3}} \cup {{2 * i : i \in 0..n} : n \in {3, 10}}
MCLaterChunks == {5, 30}
MCRefineSizes == <<4, 2>>

\* Six chunks, with a gap or a change of document somewhere or not
Lists(n) ==
  {[i \in 1..n |-> [id |-> IF i > gap THEN i + 1 ELSE i, doc |-> IF i > new THEN 2 ELSE 1,
                    size |-> sizes[i], memo |-> IF i \in dear THEN 2 ELSE 0]] :
     gap \in {0, 3}, new \in {0, 4}, sizes \in [1..n -> {1, 3}], dear \in {{}, {2}, {3, 5}, 1..n}}
MCChunkInputs == [chunks : Lists(6) \cup Lists(1), budget : {4, 7}, cap : {0, 4}]

MCTermInputs ==
  {[n |-> 4, named |-> named, similar |-> similar, limit |-> limit] :
     named \in {{}, {2}, {4}, {1, 4}}, limit \in 1..3,
     similar \in SUBSET {{1, 2}, {1, 3}, {1, 4}, {2, 3}, {2, 4}, {3, 4}}}
MCSummaryInputs ==
  [records : UNION {[1..n -> 1..4] : n \in 0..4}, budget : {0, 3, 5}]

NoMemory == evidence = {} /\ stored = <<>> /\ build = NoBuild /\ changes = 0
NoInput == input = <<"none">> /\ plan = NoPlan
NoCalls ==
  /\ run = [r \in Runs |-> [doc |-> 1, phase |-> "none", cancelled |-> FALSE, result |-> "done"]]
  /\ job = [j \in Jobs |-> NewJob(j)]
  /\ translated = {} /\ briefed = {} /\ used = 0 /\ resets = 0

Init ==
  \/ part = "memory" /\ MemoryInit /\ NoInput /\ NoCalls
  \/ part = "plan" /\ PlanInit /\ NoMemory /\ NoCalls
  \/ part = "calls" /\ CallsInit /\ NoMemory /\ NoInput
Next ==
  /\ \/ part = "memory" /\ MemoryNext /\ UNCHANGED <<planVars, callVars>>
     \/ part = "plan" /\ PlanNext /\ UNCHANGED <<memoryVars, callVars>>
     \/ part = "calls" /\ CallsNext /\ UNCHANGED <<memoryVars, planVars>>
  /\ UNCHANGED part
Spec ==
  /\ Init /\ [][Next]_<<part, memoryVars, planVars, callVars>>
  /\ CallsFairness

-----------------------------------------------------------------------------
\* The memory a chunk is given was made of evidence before it, its versions follow
\* each other, and no evidence was passed over.
MemoryIsSound == [](DescriptionIsCausal /\ VersionsAdvance) /\ EvidenceIsOffered
=============================================================================
