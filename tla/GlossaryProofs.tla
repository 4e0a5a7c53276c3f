--------------------------- MODULE GlossaryProofs ---------------------------
(***************************************************************************)
(* The evidence of the terms, for every set of terms, every text and any   *)
(* number of chunks and edits.                                             *)
(*                                                                         *)
(* EvidenceIsLive is not inductive.  A review writes rows it has read      *)
(* before, so that what it holds must be what is there (WorkInv); a reset  *)
(* keeps the summaries that end before the cutoff, so that a summary must  *)
(* have an end, and belong to a term (EvidenceInv); and a chunk gets the   *)
(* number of chunks for its id, which must be free (GlossaryTyped).        *)
(***************************************************************************)
EXTENDS GlossaryWork, FiniteSetTheorems, WellFoundedInduction, TLAPS

ChunkRow == [text : SUBSET Term, extracted : BOOLEAN, mapped : BOOLEAN]
Names == {NoName, Cleared, "llm", "user"}
TermRow == [chunks : SUBSET Nat, imported : BOOLEAN, occurrence : SUBSET Nat, name : Names,
            ignored : BOOLEAN, reviewed : BOOLEAN, checked : BOOLEAN]
Snapshot == UNION {[ts -> TermRow] : ts \in SUBSET Term}
WorkRow == [task : {"none", "extraction", "review", "translation", "memory"},
            pc : {"none", "extract", "review", "translate", "remember"},
            todo : SUBSET (Nat \cup Term), seen : Snapshot, docs : SUBSET Nat, failed : BOOLEAN]

\* Chunks are numbered from 0 without a gap.
GlossaryTyped ==
  /\ rows \in [DOMAIN rows -> ChunkRow] /\ \E n \in Nat : DOMAIN rows = 0 .. (n - 1)
  /\ terms \in [DOMAIN terms -> TermRow] /\ DOMAIN terms \subseteq Term
  /\ memory \in [DOMAIN memory -> SUBSET Nat] /\ DOMAIN memory \subseteq DOMAIN terms
  /\ work \in WorkRow /\ edits \in Nat

\* What a task has still to do is there to be done, and a review holds the
\* rows of its terms as they are.
WorkInv ==
  /\ work.pc = "none" => work = NoWork
  /\ work.pc = "extract" =>
       /\ work.task = "extraction" /\ work.docs \subseteq DOMAIN rows
       /\ work.todo \subseteq Unextracted
       /\ ~work.failed => \A c \in work.docs \ work.todo : rows[c].extracted
  /\ work.pc = "review" =>
       /\ work.task = "review" /\ work.todo \subseteq DOMAIN terms \cap DOMAIN work.seen
       /\ \A t \in work.todo : work.seen[t] = terms[t]
  /\ work.pc = "translate" => work.task = "translation" /\ work.todo \subseteq DOMAIN terms
  /\ work.pc = "remember" => work.task = "memory" /\ work.todo \subseteq DOMAIN terms

\* A chunk whose text was mapped has been extracted before, and counts for
\* every term of it.
MappingIsComplete ==
  /\ \A c \in DOMAIN rows : rows[c].mapped => rows[c].extracted
  /\ \A t \in DOMAIN terms : \A c \in terms[t].chunks :
       rows[c].mapped /\ t \in rows[c].text => c \in terms[t].occurrence

SummariesCoverSomething == \A t \in DOMAIN memory : memory[t] # {}

EvidenceInv == EvidenceIsLive /\ MappingIsComplete /\ SummariesCoverSomething

GlossaryInv == GlossaryTyped /\ WorkInv /\ EvidenceInv

-----------------------------------------------------------------------------
(* Sets of numbers, and functions of which some keys are left out.         *)

\* What a batch of a review writes
LEMMA ReviewWrites ==
  ASSUME ReviewBatch
  PROVE  \E batch, ignore :
           /\ batch \in SUBSET work.todo /\ ignore \in SUBSET batch
           /\ terms' = [t \in DOMAIN terms \cup batch |->
                       IF t \in batch
                       THEN [work.seen[t] EXCEPT !.ignored = t \in ignore, !.reviewed = TRUE]
                       ELSE terms[t]]
<1>. DEFINE Written(batch, ignore) ==
              [t \in DOMAIN terms \cup batch |->
                 IF t \in batch
                 THEN [work.seen[t] EXCEPT !.ignored = t \in ignore, !.reviewed = TRUE]
                 ELSE terms[t]]
<1>1. \E batch \in (SUBSET work.todo) \ {{}} : \E ignore \in SUBSET batch : terms' = Written(batch, ignore) /\ Did(batch)
  BY DEF ReviewBatch
<1>. HIDE DEF Written
<1>2. PICK batch \in (SUBSET work.todo) \ {{}} : \E ignore \in SUBSET batch : terms' = Written(batch, ignore)
  BY <1>1
<1>3. PICK ignore \in SUBSET batch : terms' = Written(batch, ignore)
  BY <1>2
<1>4. batch \in SUBSET work.todo /\ ignore \in SUBSET batch
  OBVIOUS
<1>. QED  BY <1>3, <1>4, Zenon DEF Written

\* A set of naturals with a bound has a greatest element, so that Max is it.
LEMMA MaxIsGreatest ==
  ASSUME NEW S \in SUBSET Nat, S # {}, NEW n \in Nat, \A x \in S : x <= n
  PROVE  Max(S) \in S /\ \A x \in S : x <= Max(S)
<1>. DEFINE below == {n - x : x \in S}
<1>1. IsWellFoundedOn(OpToRel(<, Nat), Nat)
  BY NatLessThanWellFounded
<1>2. below \subseteq Nat /\ below # {}
  <2>1. \A x \in S : n - x \in Nat
    OBVIOUS
  <2>2. PICK x \in S : TRUE
    OBVIOUS
  <2>. QED  BY <2>1, <2>2
<1>3. PICK d \in below : \A y \in below : ~(<<y, d>> \in OpToRel(<, Nat))
  BY <1>1, <1>2, WFMin
<1>4. \A y \in below : d <= y
  <2>. SUFFICES ASSUME NEW y \in below, ~(d <= y) PROVE FALSE
    OBVIOUS
  <2>1. y \in Nat /\ d \in Nat /\ y < d
    BY <1>2
  <2>2. <<y, d>> \in {ss \in Nat \X Nat : ss[1] < ss[2]}
    BY <2>1
  <2>3. {ss \in Nat \X Nat : ss[1] < ss[2]} = OpToRel(<, Nat)
    BY Zenon DEF OpToRel
  <2>. QED  BY <1>3, <2>2, <2>3
<1>5. PICK m \in S : d = n - m
  OBVIOUS
<1>6. \A x \in S : x <= m
  <2>. SUFFICES ASSUME NEW x \in S PROVE x <= m
    OBVIOUS
  <2>1. n - x \in below
    OBVIOUS
  <2>. QED  BY <1>4, <1>5, <2>1
<1>. QED  BY <1>5, <1>6 DEF Max

LEMMA EmptyTyped ==
  ASSUME NEW S
  PROVE  Empty \in [DOMAIN Empty -> S] /\ DOMAIN Empty = {}
BY DEF Empty

LEMMA PutTyped ==
  ASSUME NEW S, NEW f, f \in [DOMAIN f -> S], NEW k, NEW v \in S
  PROVE  Put(f, k, v) \in [DOMAIN Put(f, k, v) -> S] /\ DOMAIN Put(f, k, v) = DOMAIN f \cup {k}
BY DEF Put

LEMMA WithoutTyped ==
  ASSUME NEW S, NEW f, f \in [DOMAIN f -> S], NEW ks
  PROVE  Without(f, ks) \in [DOMAIN Without(f, ks) -> S] /\ DOMAIN Without(f, ks) = DOMAIN f \ ks
BY DEF Without

\* The number of chunks is the first id that is free.
LEMMA NextChunk ==
  ASSUME GlossaryTyped
  PROVE  /\ Cardinality(DOMAIN rows) \in Nat
         /\ DOMAIN rows = 0 .. (Cardinality(DOMAIN rows) - 1)
<1>1. PICK n \in Nat : DOMAIN rows = 0 .. (n - 1)
  BY DEF GlossaryTyped
<1>2. Cardinality(0 .. (n - 1)) = n
  BY FS_Interval
<1>. QED  BY <1>1, <1>2

\* The evidence of a term is of the chunks there are, and so is what a summary
\* covers: it has a greatest element.
LEMMA SummaryHasEnd ==
  ASSUME GlossaryTyped, EvidenceInv, NEW t \in DOMAIN memory
  PROVE  /\ memory[t] \subseteq Evidence(terms[t])
         /\ Max(memory[t]) \in memory[t] /\ \A x \in memory[t] : x \in Nat /\ x <= Max(memory[t])
<1>. DEFINE n == Cardinality(DOMAIN rows)
<1>1. memory[t] \in SUBSET Nat /\ memory[t] # {} /\ t \in DOMAIN terms
  BY DEF GlossaryTyped, EvidenceInv, SummariesCoverSomething
<1>2. memory[t] \subseteq Evidence(terms[t]) /\ terms[t].chunks \subseteq DOMAIN rows
  BY <1>1 DEF EvidenceInv, EvidenceIsLive
<1>3. n \in Nat /\ DOMAIN rows = 0 .. (n - 1)
  BY NextChunk
<1>4. \A x \in memory[t] : x <= n
  BY <1>2, <1>3 DEF Evidence
<1>. HIDE DEF n
<1>. QED  BY <1>1, <1>2, <1>3, <1>4, MaxIsGreatest

-----------------------------------------------------------------------------
(* Types.                                                                  *)

LEMMA GlossaryInitInv == GlossaryInit => GlossaryInv
<1>. SUFFICES ASSUME GlossaryInit PROVE GlossaryInv
  OBVIOUS
<1>1. DOMAIN rows = {} /\ DOMAIN terms = {} /\ DOMAIN memory = {}
      /\ rows \in [DOMAIN rows -> ChunkRow] /\ terms \in [DOMAIN terms -> TermRow]
      /\ memory \in [DOMAIN memory -> SUBSET Nat]
  BY EmptyTyped DEF GlossaryInit
<1>2. DOMAIN rows = 0 .. (0 - 1)
  BY <1>1
<1>3. Empty \in Snapshot
  <2>1. Empty \in [{} -> TermRow]
    BY EmptyTyped
  <2>. QED  BY <2>1 DEF Snapshot
<1>4. work \in WorkRow /\ work = NoWork /\ edits \in Nat
  BY <1>3 DEF GlossaryInit, NoWork, WorkRow
<1>5. GlossaryTyped
  BY <1>1, <1>2, <1>4 DEF GlossaryTyped
<1>6. WorkInv
  BY <1>4 DEF WorkInv, NoWork
<1>. QED
  BY <1>1, <1>5, <1>6 DEF GlossaryInv, EvidenceInv, EvidenceIsLive, MappingIsComplete, SummariesCoverSomething

LEMMA NoWorkTyped == NoWork \in WorkRow
<1>1. Empty \in [{} -> TermRow]
  BY EmptyTyped
<1>2. Empty \in Snapshot
  BY <1>1 DEF Snapshot
<1>. QED  BY <1>2 DEF NoWork, WorkRow

\* How a job begins, goes on and ends.
LEMMA BeginTyped ==
  ASSUME NEW task \in {"review", "translation", "memory"}, NEW pc \in {"review", "translate", "remember"},
         NEW todo \in SUBSET Term, NEW seen \in Snapshot, Begin(task, pc, todo, seen)
  PROVE  /\ work' \in WorkRow /\ work'.task = task /\ work'.pc = pc /\ work'.todo = todo
         /\ work'.seen = seen
BY NoWorkTyped DEF Begin, NoWork, WorkRow

LEMMA GoesOn ==
  ASSUME work \in WorkRow, NEW batch, Did(batch) \/ Failed(batch)
  PROVE  /\ work' \in WorkRow /\ work'.task = work.task /\ work'.pc = work.pc
         /\ work'.todo = work.todo \ batch /\ work'.seen = work.seen /\ work'.docs = work.docs
         /\ Did(batch) => work'.failed = work.failed
         /\ Failed(batch) => work'.failed = TRUE
BY ZenonT(30) DEF Did, Failed, WorkRow

LEMMA TypedRows ==
  ASSUME GlossaryInv, GlossaryNext
  PROVE  rows' \in [DOMAIN rows' -> ChunkRow] /\ \E n \in Nat : DOMAIN rows' = 0 .. (n - 1)
<1>0. rows \in [DOMAIN rows -> ChunkRow] /\ \E n \in Nat : DOMAIN rows = 0 .. (n - 1)
  BY DEF GlossaryInv, GlossaryTyped
<1>1. CASE AddChunk
  <2>. DEFINE n == Cardinality(DOMAIN rows)
  <2>1. PICK x \in ChunkTexts : rows' = Put(rows, n, [text |-> x, extracted |-> FALSE, mapped |-> FALSE])
    BY <1>1 DEF AddChunk
  <2>2. n \in Nat /\ DOMAIN rows = 0 .. (n - 1)
    BY NextChunk DEF GlossaryInv
  <2>3. [text |-> x, extracted |-> FALSE, mapped |-> FALSE] \in ChunkRow
    BY GlossaryAssumption DEF ChunkRow
  <2>. HIDE DEF n
  <2>4. rows' \in [DOMAIN rows' -> ChunkRow] /\ DOMAIN rows' = DOMAIN rows \cup {n}
    BY <1>0, <2>1, <2>3 DEF Put
  <2>5. DOMAIN rows' = 0 .. ((n + 1) - 1)
    BY <2>2, <2>4
  <2>. QED  BY <2>2, <2>4, <2>5
<1>2. CASE ExtractChunk
  BY ZenonT(30), <1>0, <1>2 DEF ExtractChunk, ChunkRow
<1>3. CASE ExtractDone
  <2>1. CASE work.failed
    BY <1>0, <1>3, <2>1 DEF ExtractDone
  <2>2. CASE ~work.failed
    <3>1. rows' = [c \in DOMAIN rows |-> [rows[c] EXCEPT !.mapped = @ \/ c \in work.docs]]
      BY <1>3, <2>2 DEF ExtractDone
    <3>2. ASSUME NEW c \in DOMAIN rows
          PROVE  [rows[c] EXCEPT !.mapped = @ \/ c \in work.docs] \in ChunkRow
      BY <1>0 DEF ChunkRow
    <3>3. DOMAIN rows' = DOMAIN rows
      BY <3>1
    <3>. QED  BY <1>0, <3>1, <3>2, <3>3
  <2>. QED  BY <2>1, <2>2
<1>4. CASE ResetDocuments
  <2>1. PICK from \in DOMAIN rows : rows' = Without(rows, {c \in DOMAIN rows : c >= from})
    BY <1>4 DEF ResetDocuments
  <2>2. PICK n \in Nat : DOMAIN rows = 0 .. (n - 1)
    BY <1>0
  <2>3. rows' \in [DOMAIN rows' -> ChunkRow] /\ DOMAIN rows' = DOMAIN rows \ {c \in DOMAIN rows : c >= from}
    BY <1>0, <2>1, WithoutTyped
  <2>4. from \in Nat /\ DOMAIN rows' = 0 .. (from - 1)
    BY <2>2, <2>3
  <2>. QED  BY <2>3, <2>4
<1>5. CASE rows' = rows
  BY <1>0, <1>5
<1>. QED
  BY <1>1, <1>2, <1>3, <1>4, <1>5 DEF GlossaryNext, Extraction, Batches, Memory, UserEdit, StartExtraction,
     ExtractFails, StartReview, ReviewBatch, StartTranslation, TranslateBatch, BatchFails, BatchesDone,
     StartMemory, Remember, Remembers, WorkStops, UpdateTerm, UpdateTermRows, UpsertTerm,
     ImportGlossary, FilterNoise, DeleteTerms

LEMMA TypedTerms ==
  ASSUME GlossaryInv, GlossaryNext
  PROVE  terms' \in [DOMAIN terms' -> TermRow] /\ DOMAIN terms' \subseteq Term
<1>0. terms \in [DOMAIN terms -> TermRow] /\ DOMAIN terms \subseteq Term /\ work \in WorkRow
      /\ DOMAIN rows \subseteq Nat
  BY DEF GlossaryInv, GlossaryTyped
<1>t. TermRecord \in TermRow
  BY DEF TermRecord, TermRow, Names
<1>1. CASE ExtractChunk
  <2>1. PICK c \in work.todo, found \in SUBSET Term :
          terms' = [t \in DOMAIN terms \cup found |->
                      IF t \notin found THEN terms[t]
                      ELSE IF t \in DOMAIN terms THEN MergedTerm(terms[t], c)
                      ELSE MergedTerm(TermRecord, c)]
    BY <1>1 DEF ExtractChunk
  <2>2. c \in Nat
    BY <1>0, <1>1 DEF ExtractChunk, GlossaryInv, WorkInv, Unextracted
  <2>3. \A r \in TermRow : MergedTerm(r, c) \in TermRow
    BY <2>2 DEF MergedTerm, TermRow
  <2>. QED  BY <1>0, <1>t, <2>1, <2>3
<1>2. CASE ExtractDone
  <2>1. \A t : FoundIn(t) \subseteq Nat
    BY <1>0 DEF FoundIn, Unmapped
  <2>2. CASE terms' = terms
    BY <1>0, <2>2
  <2>3. CASE terms' = [t \in DOMAIN terms |-> [terms[t] EXCEPT !.occurrence = @ \cup FoundIn(t)]]
    <3>1. \A t \in DOMAIN terms : [terms[t] EXCEPT !.occurrence = @ \cup FoundIn(t)] \in TermRow
      BY <1>0, <2>1 DEF TermRow
    <3>. QED  BY <1>0, <2>3, <3>1
  <2>. QED  BY <1>2, <2>2, <2>3 DEF ExtractDone
<1>3. CASE StartReview
  <2>0. PICK s, newly : s \in GlossaryScopes /\ terms' = MarkNoise(s[2], s[1], newly)
    BY <1>3 DEF StartReview
  <2>. DEFINE scope == s[2]
              all    == s[1]
  <2>1. terms' = MarkNoise(scope, all, newly) /\ all \in BOOLEAN
    <3>1. s = <<TRUE, DOMAIN terms>> \/ \E c \in DOMAIN rows : s = <<FALSE, Touching(c)>>
      BY <2>0 DEF GlossaryScopes
    <3>2. CASE s = <<TRUE, DOMAIN terms>>
      BY <3>2, <2>0
    <3>3. CASE \E c \in DOMAIN rows : s = <<FALSE, Touching(c)>>
      <4>1. PICK c \in DOMAIN rows : s = <<FALSE, Touching(c)>>
        BY <3>3
      <4>. QED  BY <4>1, <2>0
    <3>. QED  BY <3>1, <3>2, <3>3
  <2>. HIDE DEF scope, all
  <2>. DEFINE looked == NoiseCandidates(scope, all)
              kept   == DOMAIN terms \ {t \in looked : Noise(t)}
              new(t) == IF t \in looked \cap Symbolic
                        THEN [terms[t] EXCEPT !.ignored = TRUE, !.reviewed = TRUE] ELSE terms[t]
  <2>2. terms' = [t \in kept |-> [new(t) EXCEPT !.checked = @ \/ (all /\ t \in looked \cup newly)]]
    BY <2>1 DEF MarkNoise
  <2>3. \A t \in kept : new(t) \in TermRow
    BY <1>0 DEF TermRow
  <2>. HIDE DEF new, looked
  <2>4. \A t \in kept : [new(t) EXCEPT !.checked = @ \/ (all /\ t \in looked \cup newly)] \in TermRow
    BY <2>3 DEF TermRow
  <2>. QED  BY <1>0, <2>2, <2>4
<1>4. CASE ReviewBatch
  <2>1. PICK batch, ignore :
          /\ batch \in SUBSET work.todo /\ ignore \in SUBSET batch
          /\ terms' = [t \in DOMAIN terms \cup batch |->
                      IF t \in batch
                      THEN [work.seen[t] EXCEPT !.ignored = t \in ignore, !.reviewed = TRUE]
                      ELSE terms[t]]
    BY Zenon, <1>4, ReviewWrites
  <2>2. \A t \in batch : t \in DOMAIN terms /\ work.seen[t] = terms[t]
    BY <1>4, <2>1 DEF ReviewBatch, GlossaryInv, WorkInv
  <2>3. ASSUME NEW t \in batch
        PROVE  [work.seen[t] EXCEPT !.ignored = t \in ignore, !.reviewed = TRUE] \in TermRow
    <3>1. work.seen[t] \in TermRow
      BY <1>0, <2>2
    <3>2. (t \in ignore) \in BOOLEAN
      OBVIOUS
    <3>. QED  BY <3>1, <3>2 DEF TermRow
  <2>. QED  BY <1>0, <2>1, <2>2, <2>3
<1>5. CASE TranslateBatch
  <2>1. CASE terms' = terms
    BY <1>0, <2>1
  <2>2. CASE terms' # terms
    <3>1. PICK batch, answered :
            /\ batch \in SUBSET work.todo /\ answered \in SUBSET batch
            /\ terms' = [t \in DOMAIN terms \cup answered |-> IF t \in answered THEN Named(t) ELSE terms[t]]
      BY <1>5, <2>2 DEF TranslateBatch
    <3>2. answered \subseteq DOMAIN terms
      BY <1>5, <3>1 DEF TranslateBatch, GlossaryInv, WorkInv
    <3>3. \A t \in answered : Named(t) \in TermRow
      BY <1>0, <3>2 DEF Named, TermRow, Names
    <3>. QED  BY <1>0, <3>1, <3>2, <3>3
  <2>. QED  BY <2>1, <2>2
<1>6. CASE UpdateTerm
  <2>1. PICK t \in DOMAIN terms :
          \/ \E n \in {"user", Cleared} : terms' = [terms EXCEPT ![t].name = n]
          \/ \E i \in BOOLEAN : terms' = [terms EXCEPT ![t].ignored = i]
          \/ \E i \in BOOLEAN : terms' = [terms EXCEPT ![t].reviewed = i]
    BY <1>6 DEF UpdateTerm
  <2>. QED  BY <1>0, <2>1 DEF TermRow, Names
<1>7. CASE UpdateTermRows
  BY <1>0, <1>7 DEF UpdateTermRows, TermRow, Names
<1>8. CASE UpsertTerm
  <2>1. PICK t \in Term :
          terms' = Put(terms, t, [IF t \in DOMAIN terms THEN terms[t] ELSE TermRecord
                                  EXCEPT !.name = "user", !.ignored = FALSE, !.reviewed = TRUE])
    BY <1>8 DEF UpsertTerm
  <2>2. (IF t \in DOMAIN terms THEN terms[t] ELSE TermRecord) \in TermRow
    BY <1>0, <1>t
  <2>3. [IF t \in DOMAIN terms THEN terms[t] ELSE TermRecord
         EXCEPT !.name = "user", !.ignored = FALSE, !.reviewed = TRUE] \in TermRow
    BY <2>2 DEF TermRow, Names
  <2>. QED  BY <1>0, <2>1, <2>3 DEF Put
<1>9. CASE ImportGlossary
  <2>1. PICK ts \in SUBSET Term, described \in BOOLEAN, n \in {NoName, "user"}, i \in BOOLEAN, v \in BOOLEAN :
          terms' = [t \in ts |-> [TermRecord EXCEPT !.imported = described, !.name = n,
                                                    !.ignored = i, !.reviewed = v]]
    BY <1>9 DEF ImportGlossary
  <2>2. [TermRecord EXCEPT !.imported = described, !.name = n, !.ignored = i, !.reviewed = v] \in TermRow
    BY <1>t DEF TermRow, Names
  <2>. QED  BY <2>1, <2>2
<1>10. CASE FilterNoise
  <2>. DEFINE new(t) == IF Rare(t) THEN [terms[t] EXCEPT !.ignored = TRUE, !.reviewed = TRUE] ELSE terms[t]
  <2>1. terms' = [t \in DOMAIN terms |-> new(t)]
    BY <1>10 DEF FilterNoise
  <2>2. \A t \in DOMAIN terms : new(t) \in TermRow
    BY <1>0 DEF TermRow
  <2>. HIDE DEF new
  <2>. QED  BY <1>0, <2>1, <2>2
<1>11. CASE DeleteTerms
  BY <1>0, <1>11 DEF DeleteTerms, Without
<1>12. CASE ResetDocuments
  <2>1. PICK from \in DOMAIN rows :
          terms' = [t \in {u \in DOMAIN terms : HasDescription(PrunedTerm(terms[u], from))} |->
                      PrunedTerm(terms[t], from)]
    BY <1>12 DEF ResetDocuments
  <2>2. \A r \in TermRow : PrunedTerm(r, from) \in TermRow
    BY DEF PrunedTerm, TermRow
  <2>. QED  BY <1>0, <2>1, <2>2
<1>13. CASE terms' = terms
  BY <1>0, <1>13
<1>. QED
  BY <1>1, <1>2, <1>3, <1>4, <1>5, <1>6, <1>7, <1>8, <1>9, <1>10, <1>11, <1>12, <1>13
     DEF GlossaryNext, AddChunk, Extraction, Batches, Memory, UserEdit, StartExtraction, ExtractFails,
     StartTranslation, BatchFails, BatchesDone, StartMemory, Remember, Remembers, WorkStops

-----------------------------------------------------------------------------
(* The task at work.                                                       *)

\* The fields of a task that has begun, and the rows it has read.
LEMMA TypedWork ==
  ASSUME GlossaryInv, GlossaryNext
  PROVE  work' \in WorkRow /\ WorkInv' /\ edits' \in Nat
<1>0. /\ work \in WorkRow /\ edits \in Nat /\ DOMAIN rows \subseteq Nat
      /\ terms \in [DOMAIN terms -> TermRow] /\ DOMAIN terms \subseteq Term
      /\ WorkInv
  BY DEF GlossaryInv, GlossaryTyped
<1>ended. ASSUME WorkEnds, edits' \in Nat PROVE work' \in WorkRow /\ WorkInv' /\ edits' \in Nat
  BY <1>ended, NoWorkTyped DEF WorkEnds, WorkInv, NoWork
<1>edit. ASSUME EditGlossary PROVE work' \in WorkRow /\ WorkInv' /\ edits' \in Nat
  <2>1. work' = NoWork /\ edits' = edits + 1
    BY <1>edit DEF EditGlossary, GlossaryBusy
  <2>. QED  BY <1>0, <2>1, NoWorkTyped DEF WorkInv, NoWork
<1>1. CASE AddChunk
  <2>1. work' = NoWork /\ edits' = edits
    BY <1>1 DEF AddChunk
  <2>. QED  BY <1>0, <2>1, NoWorkTyped DEF WorkInv, NoWork
<1>2. CASE StartExtraction
  <2>1. PICK docs \in (SUBSET (Unextracted \cup Unmapped)) \ {{}} :
          work' = [NoWork EXCEPT !.task = "extraction", !.pc = "extract",
                                 !.todo = docs \cap Unextracted, !.docs = docs]
    BY <1>2 DEF StartExtraction
  <2>2. docs \subseteq DOMAIN rows /\ docs \subseteq Nat
    BY <1>0 DEF Unextracted, Unmapped
  <2>3. /\ work' \in WorkRow /\ work'.task = "extraction" /\ work'.pc = "extract"
        /\ work'.todo = docs \cap Unextracted /\ work'.docs = docs
    BY <2>1, <2>2, NoWorkTyped DEF NoWork, WorkRow
  <2>4. rows' = rows /\ edits' = edits
    BY <1>2 DEF StartExtraction
  <2>5. \A c \in docs \ (docs \cap Unextracted) : rows[c].extracted
    BY <2>2 DEF Unextracted
  <2>. QED  BY <1>0, <2>2, <2>3, <2>4, <2>5 DEF WorkInv, Unextracted
<1>3. CASE ExtractChunk
  <2>1. PICK c \in work.todo : Did({c}) /\ rows' = [rows EXCEPT ![c].extracted = TRUE]
    BY <1>3 DEF ExtractChunk
  <2>2. /\ work' \in WorkRow /\ work'.task = work.task /\ work'.pc = "extract"
        /\ work'.todo = work.todo \ {c} /\ work'.docs = work.docs /\ work'.failed = work.failed
    BY <1>0, <1>3, <2>1, GoesOn DEF ExtractChunk
  <2>3. work.task = "extraction" /\ work.docs \subseteq DOMAIN rows /\ work.todo \subseteq Unextracted
        /\ (~work.failed => \A d \in work.docs \ work.todo : rows[d].extracted)
    BY <1>0, <1>3 DEF ExtractChunk, WorkInv
  <2>4. /\ DOMAIN rows' = DOMAIN rows /\ \A d \in DOMAIN rows : d # c => rows'[d] = rows[d]
        /\ c \in DOMAIN rows => rows'[c].extracted
    BY <2>1 DEF GlossaryInv, GlossaryTyped, ChunkRow
  <2>5. work'.todo \subseteq Unextracted'
    BY <2>2, <2>3, <2>4 DEF Unextracted
  <2>6. ~work'.failed => \A d \in work'.docs \ work'.todo : rows'[d].extracted
    BY <2>2, <2>3, <2>4
  <2>7. edits' = edits
    BY <1>3 DEF ExtractChunk
  <2>. QED  BY <1>0, <2>2, <2>3, <2>4, <2>5, <2>6, <2>7 DEF WorkInv
<1>4. CASE ExtractFails
  <2>1. PICK c \in work.todo : Failed({c})
    BY <1>4 DEF ExtractFails
  <2>2. /\ work' \in WorkRow /\ work'.task = work.task /\ work'.pc = "extract"
        /\ work'.todo = work.todo \ {c} /\ work'.docs = work.docs /\ work'.failed
    BY <1>0, <1>4, <2>1, GoesOn DEF ExtractFails
  <2>3. rows' = rows /\ edits' = edits
    BY <1>4 DEF ExtractFails
  <2>. QED  BY <1>0, <1>4, <2>2, <2>3 DEF ExtractFails, WorkInv, Unextracted
<1>5. CASE ExtractDone
  BY <1>0, <1>5, <1>ended DEF ExtractDone
<1>6. CASE StartReview
  <2>1. PICK s, new, pend :
          /\ pend = {t \in s[2] \cap DOMAIN new : ~new[t].reviewed} /\ terms' = new
          /\ Begin("review", "review", pend, [t \in pend |-> new[t]])
    BY <1>6 DEF StartReview
  <2>2. terms' \in [DOMAIN terms' -> TermRow] /\ DOMAIN terms' \subseteq Term
    BY <1>6, TypedTerms DEF GlossaryNext, Batches
  <2>3. pend \in SUBSET Term /\ pend \subseteq DOMAIN terms' /\ [t \in pend |-> new[t]] \in Snapshot
    BY <2>1, <2>2 DEF Snapshot
  <2>4. /\ work' \in WorkRow /\ work'.task = "review" /\ work'.pc = "review" /\ work'.todo = pend
        /\ work'.seen = [t \in pend |-> terms'[t]]
    BY <2>1, <2>3, BeginTyped
  <2>5. edits' = edits
    BY <1>6 DEF StartReview
  <2>. QED  BY <1>0, <2>3, <2>4, <2>5 DEF WorkInv
<1>7. CASE ReviewBatch
  <2>1. PICK batch, ignore :
          /\ batch \in (SUBSET work.todo) \ {{}} /\ ignore \in SUBSET batch
          /\ terms' = [t \in DOMAIN terms \cup batch |->
                         IF t \in batch
                         THEN [work.seen[t] EXCEPT !.ignored = t \in ignore, !.reviewed = TRUE]
                         ELSE terms[t]]
          /\ Did(batch)
    BY <1>7 DEF ReviewBatch
  <2>2. /\ work' \in WorkRow /\ work'.task = work.task /\ work'.pc = "review"
        /\ work'.todo = work.todo \ batch /\ work'.seen = work.seen
    BY <1>0, <1>7, <2>1, GoesOn DEF ReviewBatch
  <2>3. /\ work.task = "review" /\ work.todo \subseteq DOMAIN terms \cap DOMAIN work.seen
        /\ \A t \in work.todo : work.seen[t] = terms[t]
    BY <1>0, <1>7 DEF ReviewBatch, WorkInv
  <2>4. /\ DOMAIN terms \subseteq DOMAIN terms' /\ \A t \in work.todo \ batch : terms'[t] = terms[t]
    BY <2>1, <2>3
  <2>5. edits' = edits
    BY <1>7 DEF ReviewBatch
  <2>6. /\ work'.todo \subseteq DOMAIN terms' \cap DOMAIN work'.seen
        /\ \A t \in work'.todo : work'.seen[t] = terms'[t]
    BY <2>2, <2>3, <2>4
  <2>. QED  BY <1>0, <2>2, <2>3, <2>5, <2>6 DEF WorkInv
<1>8. CASE StartTranslation
  <2>1. PICK s, pend :
          /\ s \in GlossaryScopes
          /\ pend = {t \in s[2] : ~terms[t].ignored /\ Untranslated(terms[t])}
          /\ Begin("translation", "translate", pend, [t \in pend |-> terms[t]])
    BY <1>8 DEF StartTranslation
  <2>2. s[2] \subseteq DOMAIN terms
    <3>1. s = <<TRUE, DOMAIN terms>> \/ \E c \in DOMAIN rows : s = <<FALSE, Touching(c)>>
      BY <2>1 DEF GlossaryScopes
    <3>2. CASE s = <<TRUE, DOMAIN terms>>
      BY <3>2
    <3>3. CASE \E c \in DOMAIN rows : s = <<FALSE, Touching(c)>>
      <4>1. PICK c \in DOMAIN rows : s = <<FALSE, Touching(c)>>
        BY <3>3
      <4>. QED  BY <4>1 DEF Touching
    <3>. QED  BY <3>1, <3>2, <3>3
  <2>3. pend \in SUBSET Term /\ pend \subseteq DOMAIN terms /\ [t \in pend |-> terms[t]] \in Snapshot
    BY <1>0, <2>1, <2>2 DEF Snapshot
  <2>4. /\ work' \in WorkRow /\ work'.task = "translation" /\ work'.pc = "translate"
        /\ work'.todo = pend
    BY <2>1, <2>3, BeginTyped
  <2>5. edits' = edits /\ terms' = terms
    BY <1>8 DEF StartTranslation
  <2>. QED  BY <1>0, <2>3, <2>4, <2>5 DEF WorkInv
<1>9. CASE TranslateBatch
  <2>1. PICK batch \in (SUBSET work.todo) \ {{}} : Did(batch) \/ Failed(batch)
    BY <1>9 DEF TranslateBatch
  <2>2. /\ work' \in WorkRow /\ work'.task = work.task /\ work'.pc = "translate"
        /\ work'.todo = work.todo \ batch
    BY <1>0, <1>9, <2>1, GoesOn DEF TranslateBatch
  <2>3. DOMAIN terms \subseteq DOMAIN terms'
    BY <1>9 DEF TranslateBatch
  <2>4. edits' = edits /\ work.task = "translation" /\ work.todo \subseteq DOMAIN terms
    BY <1>0, <1>9 DEF TranslateBatch, WorkInv
  <2>. QED  BY <1>0, <2>2, <2>3, <2>4 DEF WorkInv
<1>10. CASE BatchFails
  <2>1. PICK batch \in (SUBSET work.todo) \ {{}} : Failed(batch)
    BY <1>10 DEF BatchFails
  <2>2. /\ work' \in WorkRow /\ work'.task = work.task /\ work'.pc = work.pc
        /\ work'.todo = work.todo \ batch /\ work'.seen = work.seen
    BY <1>0, <2>1, GoesOn
  <2>3. rows' = rows /\ terms' = terms /\ edits' = edits /\ work.pc \in {"review", "translate"}
    BY <1>10 DEF BatchFails
  <2>. QED  BY <1>0, <2>2, <2>3 DEF WorkInv
<1>11. CASE BatchesDone
  BY <1>0, <1>11, <1>ended DEF BatchesDone
<1>12. CASE StartMemory
  <2>. DEFINE pend == {t \in DOMAIN terms : NeedsMemory(t) /\ ~MemoryIsCurrent(t)}
  <2>1. Begin("memory", "remember", pend, Empty) /\ edits' = edits /\ terms' = terms
    BY <1>12 DEF StartMemory
  <2>2. Empty \in Snapshot
    BY NoWorkTyped DEF NoWork, WorkRow
  <2>3. pend \in SUBSET Term /\ pend \subseteq DOMAIN terms
    BY <1>0
  <2>. HIDE DEF pend
  <2>4. work' \in WorkRow /\ work'.task = "memory" /\ work'.pc = "remember" /\ work'.todo = pend
    BY <2>1, <2>2, <2>3, BeginTyped
  <2>. QED  BY <1>0, <2>1, <2>3, <2>4 DEF WorkInv
<1>13. CASE Remember
  <2>1. PICK t \in work.todo : Did({t})
    BY <1>13 DEF Remember
  <2>2. /\ work' \in WorkRow /\ work'.task = work.task /\ work'.pc = "remember"
        /\ work'.todo = work.todo \ {t}
    BY <1>0, <1>13, <2>1, GoesOn DEF Remember
  <2>3. terms' = terms /\ edits' = edits /\ work.task = "memory" /\ work.todo \subseteq DOMAIN terms
    BY <1>0, <1>13 DEF Remember, WorkInv
  <2>. QED  BY <1>0, <2>2, <2>3 DEF WorkInv
<1>14. CASE Remembers
  BY <1>0, <1>14, <1>ended DEF Remembers
<1>15. CASE WorkStops
  BY <1>0, <1>15, <1>ended DEF WorkStops
<1>16. CASE UserEdit
  BY <1>16, <1>edit DEF UserEdit, UpdateTerm, UpdateTermRows, UpsertTerm, ImportGlossary, FilterNoise,
     DeleteTerms, ResetDocuments
<1>. QED
  BY <1>1, <1>2, <1>3, <1>4, <1>5, <1>6, <1>7, <1>8, <1>9, <1>10, <1>11, <1>12, <1>13, <1>14, <1>15,
     <1>16 DEF GlossaryNext, Extraction, Batches, Memory

-----------------------------------------------------------------------------
(* The evidence.                                                           *)

\* Steps that leave every term its evidence or take all of it, and write no
\* summary, keep what is said of it.
LEMMA EvidenceUntouched ==
  ASSUME GlossaryInv, rows' = rows,
         \A t \in DOMAIN terms' :
           \/ /\ t \in DOMAIN terms /\ terms'[t].chunks = terms[t].chunks
              /\ terms'[t].occurrence = terms[t].occurrence /\ terms'[t].imported = terms[t].imported
           \/ terms'[t].chunks = {} /\ terms'[t].occurrence = {} /\ t \notin DOMAIN memory',
         \A t \in DOMAIN memory' :
           t \in DOMAIN memory /\ t \in DOMAIN terms' /\ memory'[t] = memory[t],
         memory' \in [DOMAIN memory' -> SUBSET Nat]
  PROVE  EvidenceInv' /\ memory' \in [DOMAIN memory' -> SUBSET Nat] /\ DOMAIN memory' \subseteq DOMAIN terms'
<1>0. EvidenceIsLive /\ MappingIsComplete /\ SummariesCoverSomething
  BY DEF GlossaryInv, EvidenceInv
<1>1. EvidenceIsLive'
  BY <1>0 DEF EvidenceIsLive, Evidence
<1>2. MappingIsComplete'
  BY <1>0 DEF MappingIsComplete
<1>3. SummariesCoverSomething'
  BY <1>0 DEF SummariesCoverSomething
<1>. QED  BY <1>1, <1>2, <1>3 DEF EvidenceInv

EvidenceStays ==
  EvidenceInv' /\ memory' \in [DOMAIN memory' -> SUBSET Nat] /\ DOMAIN memory' \subseteq DOMAIN terms'

LEMMA EvidenceStep ==
  ASSUME GlossaryInv, GlossaryNext
  PROVE  EvidenceStays
<1>0. /\ memory \in [DOMAIN memory -> SUBSET Nat] /\ DOMAIN memory \subseteq DOMAIN terms
      /\ terms \in [DOMAIN terms -> TermRow] /\ rows \in [DOMAIN rows -> ChunkRow]
      /\ EvidenceIsLive /\ MappingIsComplete /\ SummariesCoverSomething /\ DOMAIN rows \subseteq Nat
  BY DEF GlossaryInv, GlossaryTyped, EvidenceInv
<1>u. ASSUME rows' = rows, terms' = terms, memory' = memory PROVE EvidenceStays
  BY <1>0, <1>u, EvidenceUntouched DEF EvidenceStays
<1>1. CASE AddChunk
  <2>. DEFINE n == Cardinality(DOMAIN rows)
  <2>1. PICK x \in ChunkTexts : rows' = Put(rows, n, [text |-> x, extracted |-> FALSE, mapped |-> FALSE])
    BY <1>1 DEF AddChunk
  <2>2. n \notin DOMAIN rows
    BY NextChunk DEF GlossaryInv
  <2>. HIDE DEF n
  <2>3. /\ DOMAIN rows' = DOMAIN rows \cup {n} /\ \A c \in DOMAIN rows : rows'[c] = rows[c]
        /\ ~rows'[n].mapped
    BY <2>1, <2>2 DEF Put
  <2>4. terms' = terms /\ memory' = memory
    BY <1>1 DEF AddChunk
  <2>5. EvidenceIsLive'
    BY <1>0, <2>3, <2>4 DEF EvidenceIsLive, Evidence
  <2>6. MappingIsComplete'
    BY <1>0, <2>3, <2>4 DEF MappingIsComplete, EvidenceIsLive
  <2>. QED  BY <1>0, <2>4, <2>5, <2>6 DEF EvidenceStays, EvidenceInv, SummariesCoverSomething
<1>2. CASE ExtractChunk
  <2>1. PICK c \in work.todo, found \in SUBSET Term :
          /\ terms' = [t \in DOMAIN terms \cup found |->
                         IF t \notin found THEN terms[t]
                         ELSE IF t \in DOMAIN terms THEN MergedTerm(terms[t], c)
                         ELSE MergedTerm(TermRecord, c)]
          /\ rows' = [rows EXCEPT ![c].extracted = TRUE] /\ memory' = memory
    BY <1>2 DEF ExtractChunk
  <2>2. c \in DOMAIN rows /\ ~rows[c].extracted /\ ~rows[c].mapped
    BY <1>0, <1>2 DEF ExtractChunk, GlossaryInv, WorkInv, Unextracted, MappingIsComplete
  <2>3. /\ DOMAIN rows' = DOMAIN rows /\ rows'[c].extracted /\ ~rows'[c].mapped
        /\ \A d \in DOMAIN rows : /\ rows'[d].mapped = rows[d].mapped /\ rows'[d].text = rows[d].text
                                  /\ rows[d].extracted => rows'[d].extracted
    BY <1>0, <2>1, <2>2 DEF ChunkRow
  <2>4. DOMAIN terms' = DOMAIN terms \cup found
    BY <2>1
  <2>5. ASSUME NEW t \in DOMAIN terms, t \in DOMAIN terms'
        PROVE  /\ terms'[t].chunks \subseteq terms[t].chunks \cup {c} /\ terms[t].chunks \subseteq terms'[t].chunks
               /\ terms'[t].occurrence = terms[t].occurrence /\ terms'[t].imported = terms[t].imported
    BY <1>0, <2>1, <2>5 DEF MergedTerm, TermRow
  <2>6. ASSUME NEW t \in DOMAIN terms', t \notin DOMAIN terms
        PROVE  terms'[t].chunks \subseteq {c} /\ terms'[t].occurrence = {}
    BY <2>1, <2>4, <2>6 DEF MergedTerm, TermRecord
  <2>7. EvidenceIsLive'
    <3>1. ASSUME NEW t \in DOMAIN terms', NEW d \in terms'[t].chunks
          PROVE  d \in DOMAIN rows' /\ rows'[d].extracted
      <4>1. d = c \/ (t \in DOMAIN terms /\ d \in terms[t].chunks)
        BY <2>5, <2>6, <3>1
      <4>. QED  BY <1>0, <2>2, <2>3, <4>1 DEF EvidenceIsLive
    <3>2. ASSUME NEW t \in DOMAIN terms', NEW d \in terms'[t].occurrence
          PROVE  d \in DOMAIN rows' /\ rows'[d].mapped /\ t \in rows'[d].text
      <4>1. t \in DOMAIN terms /\ d \in terms[t].occurrence
        BY <2>5, <2>6, <3>2
      <4>. QED  BY <1>0, <2>2, <2>3, <4>1 DEF EvidenceIsLive
    <3>3. ASSUME NEW t \in DOMAIN terms', t \in DOMAIN memory'
          PROVE  memory'[t] \subseteq Evidence(terms'[t])
      <4>1. t \in DOMAIN terms /\ memory'[t] \subseteq Evidence(terms[t])
        BY <1>0, <2>1, <3>3 DEF EvidenceIsLive
      <4>2. terms[t].chunks \subseteq terms'[t].chunks /\ terms'[t].imported = terms[t].imported
        BY <2>5, <3>3, <4>1
      <4>. QED  BY <4>1, <4>2 DEF Evidence
    <3>. QED  BY <3>1, <3>2, <3>3 DEF EvidenceIsLive
  <2>8. MappingIsComplete'
    BY <1>0, <2>2, <2>3, <2>4, <2>5, <2>6 DEF MappingIsComplete, EvidenceIsLive
  <2>. QED
    BY <1>0, <2>1, <2>4, <2>7, <2>8 DEF EvidenceStays, EvidenceInv, SummariesCoverSomething
<1>3. CASE ExtractDone
  <2>0. memory' = memory
    BY <1>3 DEF ExtractDone
  <2>1. CASE work.failed
    BY <1>3, <1>u, <2>0, <2>1 DEF ExtractDone
  <2>2. CASE ~work.failed
    <3>1. /\ terms' = [t \in DOMAIN terms |-> [terms[t] EXCEPT !.occurrence = @ \cup FoundIn(t)]]
          /\ rows' = [c \in DOMAIN rows |-> [rows[c] EXCEPT !.mapped = @ \/ c \in work.docs]]
      BY <1>3, <2>2 DEF ExtractDone
    <3>2. work.docs \subseteq DOMAIN rows /\ \A c \in work.docs : rows[c].extracted
      BY <1>3, <2>2 DEF ExtractDone, GlossaryInv, WorkInv
    <3>3. DOMAIN rows' = DOMAIN rows /\ \A c \in DOMAIN rows :
            /\ rows'[c].text = rows[c].text /\ rows'[c].extracted = rows[c].extracted
            /\ rows'[c].mapped <=> rows[c].mapped \/ c \in work.docs
      BY <1>0, <3>1 DEF ChunkRow
    <3>4. DOMAIN terms' = DOMAIN terms /\ \A t \in DOMAIN terms :
            /\ terms'[t].chunks = terms[t].chunks /\ terms'[t].imported = terms[t].imported
            /\ terms'[t].occurrence = terms[t].occurrence \cup FoundIn(t)
      BY <1>0, <3>1 DEF TermRow
    <3>5. \A t : FoundIn(t) = {c \in DOMAIN rows : ~rows[c].mapped /\ c \in work.docs /\ t \in rows[c].text}
      BY DEF FoundIn, Unmapped
    <3>6. EvidenceIsLive'
      BY <1>0, <2>0, <3>3, <3>4, <3>5 DEF EvidenceIsLive, Evidence
    <3>7. MappingIsComplete'
      BY <1>0, <3>2, <3>3, <3>4, <3>5 DEF MappingIsComplete, EvidenceIsLive
    <3>. QED
      BY <1>0, <2>0, <3>4, <3>6, <3>7 DEF EvidenceStays, EvidenceInv, SummariesCoverSomething
  <2>. QED  BY <2>1, <2>2
<1>4. CASE StartReview
  <2>1. PICK s, newly : /\ s \in GlossaryScopes /\ terms' = MarkNoise(s[2], s[1], newly)
                        /\ memory' = Without(memory, DOMAIN terms \ DOMAIN terms')
    BY <1>4 DEF StartReview
  <2>2. /\ DOMAIN terms' \subseteq DOMAIN terms
        /\ \A t \in DOMAIN terms' :
             /\ terms'[t].chunks = terms[t].chunks /\ terms'[t].occurrence = terms[t].occurrence
             /\ terms'[t].imported = terms[t].imported
    <3>. DEFINE all     == s[1]
                looked  == NoiseCandidates(s[2], all)
                Row(t)  == IF t \in looked \cap Symbolic
                           THEN [terms[t] EXCEPT !.ignored = TRUE, !.reviewed = TRUE] ELSE terms[t]
                Seen(t) == all /\ t \in looked \cup newly
    <3>1. /\ DOMAIN terms' \subseteq DOMAIN terms
          /\ \A t \in DOMAIN terms' : terms'[t] = [Row(t) EXCEPT !.checked = @ \/ Seen(t)]
      BY <2>1 DEF MarkNoise
    <3>2. ASSUME NEW t \in DOMAIN terms
          PROVE  /\ Row(t) \in TermRow /\ Row(t).chunks = terms[t].chunks
                 /\ Row(t).occurrence = terms[t].occurrence /\ Row(t).imported = terms[t].imported
      <4>1. terms[t] \in TermRow
        BY <1>0
      <4>. QED  BY <4>1 DEF TermRow
    <3>3. ASSUME NEW r \in TermRow, NEW b
          PROVE  /\ [r EXCEPT !.checked = @ \/ b].chunks = r.chunks
                 /\ [r EXCEPT !.checked = @ \/ b].occurrence = r.occurrence
                 /\ [r EXCEPT !.checked = @ \/ b].imported = r.imported
      BY DEF TermRow
    <3>. HIDE DEF Row, Seen
    <3>4. ASSUME NEW t \in DOMAIN terms'
          PROVE  /\ terms'[t].chunks = terms[t].chunks /\ terms'[t].occurrence = terms[t].occurrence
                 /\ terms'[t].imported = terms[t].imported
      <4>1. t \in DOMAIN terms /\ terms'[t] = [Row(t) EXCEPT !.checked = @ \/ Seen(t)]
        BY <3>1
      <4>2. /\ Row(t) \in TermRow /\ Row(t).chunks = terms[t].chunks
            /\ Row(t).occurrence = terms[t].occurrence /\ Row(t).imported = terms[t].imported
        BY <3>2, <4>1
      <4>. QED  BY <3>3, <4>1, <4>2
    <3>. QED  BY <3>1, <3>4
  <2>3. /\ memory' \in [DOMAIN memory' -> SUBSET Nat]
        /\ \A t \in DOMAIN memory' :
             t \in DOMAIN memory /\ t \in DOMAIN terms' /\ memory'[t] = memory[t]
    BY <1>0, <2>1 DEF Without
  <2>4. rows' = rows
    BY <1>4 DEF StartReview
  <2>. QED  BY <2>2, <2>3, <2>4, EvidenceUntouched DEF EvidenceStays
<1>5. CASE ReviewBatch
  <2>1. PICK batch, ignore :
          /\ batch \in SUBSET work.todo /\ ignore \in SUBSET batch
          /\ terms' = [t \in DOMAIN terms \cup batch |->
                      IF t \in batch
                      THEN [work.seen[t] EXCEPT !.ignored = t \in ignore, !.reviewed = TRUE]
                      ELSE terms[t]]
    BY Zenon, <1>5, ReviewWrites
  <2>2. \A t \in batch : t \in DOMAIN terms /\ work.seen[t] = terms[t]
    BY <1>5, <2>1 DEF ReviewBatch, GlossaryInv, WorkInv
  <2>3. DOMAIN terms' = DOMAIN terms /\ \A t \in DOMAIN terms :
             /\ terms'[t].chunks = terms[t].chunks /\ terms'[t].occurrence = terms[t].occurrence
             /\ terms'[t].imported = terms[t].imported
    BY <1>0, <2>1, <2>2 DEF TermRow
  <2>4. rows' = rows /\ memory' = memory
    BY <1>5 DEF ReviewBatch
  <2>. QED  BY <1>0, <2>3, <2>4, EvidenceUntouched DEF EvidenceStays
<1>6. CASE TranslateBatch
  <2>0. rows' = rows /\ memory' = memory
    BY <1>6 DEF TranslateBatch
  <2>1. CASE terms' = terms
    BY <1>u, <2>0, <2>1
  <2>2. CASE terms' # terms
    <3>1. PICK batch, answered :
            /\ batch \in SUBSET work.todo /\ answered \in SUBSET batch
            /\ terms' = [t \in DOMAIN terms \cup answered |-> IF t \in answered THEN Named(t) ELSE terms[t]]
      BY <1>6, <2>2 DEF TranslateBatch
    <3>2. answered \subseteq DOMAIN terms
      BY <1>6, <3>1 DEF TranslateBatch, GlossaryInv, WorkInv
    <3>3. DOMAIN terms' = DOMAIN terms /\ \A t \in DOMAIN terms :
               /\ terms'[t].chunks = terms[t].chunks /\ terms'[t].occurrence = terms[t].occurrence
               /\ terms'[t].imported = terms[t].imported
      BY <1>0, <3>1, <3>2 DEF Named, TermRow
    <3>. QED  BY <1>0, <2>0, <3>3, EvidenceUntouched DEF EvidenceStays
  <2>. QED  BY <2>1, <2>2
<1>7. CASE StartMemory
  <2>1. /\ memory' = Without(memory, {t \in DOMAIN terms : ~NeedsMemory(t)})
        /\ rows' = rows /\ terms' = terms
    BY <1>7 DEF StartMemory
  <2>2. /\ memory' \in [DOMAIN memory' -> SUBSET Nat]
        /\ \A t \in DOMAIN memory' :
             t \in DOMAIN memory /\ t \in DOMAIN terms' /\ memory'[t] = memory[t]
    BY <1>0, <2>1 DEF Without
  <2>. QED  BY <2>1, <2>2, EvidenceUntouched DEF EvidenceStays
<1>8. CASE Remember
  <2>1. PICK t \in work.todo, answered \in BOOLEAN :
          memory' = IF answered /\ Cardinality(Evidence(terms[t])) >= 2
                    THEN Put(memory, t, Evidence(terms[t])) ELSE Without(memory, {t})
    BY <1>8 DEF Remember
  <2>2. rows' = rows /\ terms' = terms /\ t \in DOMAIN terms
    BY <1>8, <2>1 DEF Remember, GlossaryInv, WorkInv
  <2>3. CASE memory' = Without(memory, {t})
    <3>1. /\ memory' \in [DOMAIN memory' -> SUBSET Nat]
          /\ \A u \in DOMAIN memory' :
               u \in DOMAIN memory /\ u \in DOMAIN terms' /\ memory'[u] = memory[u]
      BY <1>0, <2>2, <2>3 DEF Without
    <3>. QED  BY <2>2, <3>1, EvidenceUntouched DEF EvidenceStays
  <2>4. CASE Cardinality(Evidence(terms[t])) >= 2 /\ memory' = Put(memory, t, Evidence(terms[t]))
    <3>1. Evidence(terms[t]) \in SUBSET Nat
      BY <1>0, <2>2 DEF Evidence, TermRow
    <3>2. Evidence(terms[t]) # {}
      BY <2>4, FS_EmptySet
    <3>3. /\ memory' \in [DOMAIN memory' -> SUBSET Nat] /\ DOMAIN memory' = DOMAIN memory \cup {t}
          /\ memory'[t] = Evidence(terms[t]) /\ \A u \in DOMAIN memory : u # t => memory'[u] = memory[u]
      BY <1>0, <2>4, <3>1 DEF Put
    <3>4. EvidenceIsLive'
      BY <1>0, <2>2, <3>3 DEF EvidenceIsLive, Evidence
    <3>5. MappingIsComplete'
      BY <1>0, <2>2 DEF MappingIsComplete
    <3>6. SummariesCoverSomething'
      BY <1>0, <3>2, <3>3 DEF SummariesCoverSomething
    <3>. QED  BY <1>0, <2>2, <3>3, <3>4, <3>5, <3>6 DEF EvidenceStays, EvidenceInv
  <2>. QED  BY <2>1, <2>3, <2>4
<1>9. CASE UpdateTerm \/ UpdateTermRows
  <2>1. DOMAIN terms' = DOMAIN terms /\ \A t \in DOMAIN terms :
             /\ terms'[t].chunks = terms[t].chunks /\ terms'[t].occurrence = terms[t].occurrence
             /\ terms'[t].imported = terms[t].imported
    <3>1. CASE UpdateTerm
      <4>1. PICK k \in DOMAIN terms :
              \/ \E n \in {"user", Cleared} : terms' = [terms EXCEPT ![k].name = n]
              \/ \E i \in BOOLEAN : terms' = [terms EXCEPT ![k].ignored = i]
              \/ \E i \in BOOLEAN : terms' = [terms EXCEPT ![k].reviewed = i]
        BY <3>1 DEF UpdateTerm
      <4>. QED  BY <1>0, <4>1 DEF TermRow
    <3>2. CASE UpdateTermRows
      <4>1. PICK k \in DOMAIN terms, n \in {Cleared, "user"}, i \in BOOLEAN, v \in BOOLEAN :
              terms' = [terms EXCEPT ![k].name = n, ![k].ignored = i, ![k].reviewed = v]
        BY <3>2 DEF UpdateTermRows
      <4>. QED  BY <1>0, <4>1 DEF TermRow
    <3>. QED  BY <1>9, <3>1, <3>2
  <2>2. rows' = rows /\ memory' = memory
    BY <1>9 DEF UpdateTerm, UpdateTermRows
  <2>. QED  BY <1>0, <2>1, <2>2, EvidenceUntouched DEF EvidenceStays
<1>10. CASE UpsertTerm
  <2>1. PICK k \in Term :
          terms' = Put(terms, k, [IF k \in DOMAIN terms THEN terms[k] ELSE TermRecord
                                  EXCEPT !.name = "user", !.ignored = FALSE, !.reviewed = TRUE])
    BY <1>10 DEF UpsertTerm
  <2>2. DOMAIN terms' = DOMAIN terms \cup {k} /\ \A t \in DOMAIN terms :
             /\ terms'[t].chunks = terms[t].chunks /\ terms'[t].occurrence = terms[t].occurrence
             /\ terms'[t].imported = terms[t].imported
    BY <1>0, <2>1 DEF Put, TermRow
  <2>3. k \notin DOMAIN terms => terms'[k].chunks = {} /\ terms'[k].occurrence = {}
    BY <2>1 DEF Put, TermRecord
  <2>4. rows' = rows /\ memory' = memory
    BY <1>10 DEF UpsertTerm
  <2>. QED  BY <1>0, <2>2, <2>3, <2>4, EvidenceUntouched DEF EvidenceStays
<1>11. CASE ImportGlossary
  <2>1. /\ rows' = rows /\ DOMAIN memory' = {} /\ memory' \in [DOMAIN memory' -> SUBSET Nat]
    BY <1>11, EmptyTyped DEF ImportGlossary
  <2>2. \A t \in DOMAIN terms' : terms'[t].chunks = {} /\ terms'[t].occurrence = {}
    BY ZenonT(30), <1>11 DEF ImportGlossary, TermRecord
  <2>. QED  BY <2>1, <2>2, EvidenceUntouched DEF EvidenceStays
<1>12. CASE FilterNoise
  <2>1. DOMAIN terms' = DOMAIN terms /\ \A t \in DOMAIN terms :
             /\ terms'[t].chunks = terms[t].chunks /\ terms'[t].occurrence = terms[t].occurrence
             /\ terms'[t].imported = terms[t].imported
    BY <1>0, <1>12 DEF FilterNoise, TermRow
  <2>2. rows' = rows /\ memory' = memory
    BY <1>12 DEF FilterNoise
  <2>. QED  BY <1>0, <2>1, <2>2, EvidenceUntouched DEF EvidenceStays
<1>13. CASE DeleteTerms
  <2>1. PICK ts : terms' = Without(terms, ts) /\ memory' = Without(memory, ts) /\ rows' = rows
    BY <1>13 DEF DeleteTerms
  <2>2. DOMAIN terms' = DOMAIN terms \ ts /\ \A t \in DOMAIN terms' : terms'[t] = terms[t]
    BY <2>1 DEF Without
  <2>3. /\ memory' \in [DOMAIN memory' -> SUBSET Nat]
        /\ \A t \in DOMAIN memory' :
             t \in DOMAIN memory /\ t \in DOMAIN terms' /\ memory'[t] = memory[t]
    BY <1>0, <2>1, <2>2 DEF Without
  <2>. QED  BY <2>1, <2>2, <2>3, EvidenceUntouched DEF EvidenceStays
<1>14. CASE ResetDocuments
  <2>1. PICK from \in DOMAIN rows :
          /\ rows' = Without(rows, {c \in DOMAIN rows : c >= from})
          /\ terms' = [t \in {u \in DOMAIN terms : HasDescription(PrunedTerm(terms[u], from))} |->
                         PrunedTerm(terms[t], from)]
          /\ memory' = PrunedMemory(from)
    BY <1>14 DEF ResetDocuments
  <2>2. from \in Nat
    BY <1>0, <2>1
  <2>3. /\ DOMAIN rows' = {c \in DOMAIN rows : c < from}
        /\ \A c \in DOMAIN rows' : rows'[c] = rows[c]
    BY <1>0, <2>1, <2>2 DEF Without
  <2>4. \A t \in DOMAIN terms' :
          /\ t \in DOMAIN terms /\ terms'[t].chunks = {c \in terms[t].chunks : c < from}
          /\ terms'[t].occurrence = {c \in terms[t].occurrence : c < from}
          /\ terms'[t].imported = terms[t].imported
    BY <1>0, <2>1 DEF PrunedTerm, TermRow
  <2>5. /\ memory' \in [DOMAIN memory' -> SUBSET Nat]
        /\ \A t \in DOMAIN memory' : t \in DOMAIN memory /\ memory'[t] = memory[t] /\ ~(Max(memory[t]) >= from)
    BY <1>0, <2>1 DEF PrunedMemory, Without
  <2>6. ASSUME NEW t \in DOMAIN memory'
        PROVE  \A x \in memory[t] : x < from /\ x \in Evidence(terms[t])
    <3>1. t \in DOMAIN memory /\ ~(Max(memory[t]) >= from)
      BY <2>5, <2>6
    <3>2. /\ memory[t] \subseteq Evidence(terms[t]) /\ Max(memory[t]) \in Nat
          /\ \A x \in memory[t] : x \in Nat /\ x <= Max(memory[t])
      BY <3>1, SummaryHasEnd DEF GlossaryInv
    <3>. QED  BY <2>2, <3>1, <3>2
  <2>7. ASSUME NEW t \in DOMAIN memory' PROVE t \in DOMAIN terms'
    <3>1. t \in DOMAIN memory /\ t \in DOMAIN terms /\ memory[t] # {}
      BY <1>0, <2>5, <2>7 DEF SummariesCoverSomething
    <3>2. PICK x \in memory[t] : x < from /\ x \in Evidence(terms[t])
      BY <2>6, <2>7, <3>1
    <3>3. terms[t].imported \/ \E c \in terms[t].chunks : c < from
      <4>1. CASE \E c \in terms[t].chunks : x = c + 1
        <5>1. PICK c \in terms[t].chunks : x = c + 1
          BY <4>1
        <5>2. c \in Nat
          BY <1>0, <3>1 DEF TermRow
        <5>. QED  BY <2>2, <3>2, <5>1, <5>2
      <4>2. CASE ~\E c \in terms[t].chunks : x = c + 1
        BY <3>2, <4>2 DEF Evidence
      <4>. QED  BY <4>1, <4>2
    <3>4. HasDescription(PrunedTerm(terms[t], from))
      <4>1. terms[t] \in TermRow
        BY <1>0, <3>1
      <4>. QED  BY <3>3, <4>1 DEF HasDescription, PrunedTerm, TermRow
    <3>. QED  BY <2>1, <3>1, <3>4
  <2>8. EvidenceIsLive'
    <3>1. ASSUME NEW t \in DOMAIN terms', t \in DOMAIN memory'
          PROVE  memory'[t] \subseteq Evidence(terms'[t])
      <4>1. SUFFICES ASSUME NEW x \in memory[t] PROVE x \in Evidence(terms'[t])
        BY <2>5, <3>1
      <4>2. x < from /\ x \in Evidence(terms[t])
        BY <2>6, <3>1
      <4>3. terms[t].chunks \subseteq Nat
        BY <1>0, <2>4 DEF TermRow
      <4>4. /\ terms'[t].chunks = {c \in terms[t].chunks : c < from}
            /\ terms'[t].imported = terms[t].imported
        BY <2>4
      <4>. QED  BY <2>2, <4>2, <4>3, <4>4 DEF Evidence
    <3>2. ASSUME NEW t \in DOMAIN terms'
          PROVE  /\ \A c \in terms'[t].chunks : c \in DOMAIN rows' /\ rows'[c].extracted
                 /\ \A c \in terms'[t].occurrence :
                      c \in DOMAIN rows' /\ rows'[c].mapped /\ t \in rows'[c].text
      BY <1>0, <2>3, <2>4 DEF EvidenceIsLive
    <3>. QED  BY <3>1, <3>2 DEF EvidenceIsLive
  <2>9. MappingIsComplete'
    <3>1. \A c \in DOMAIN rows' : rows'[c].mapped => rows'[c].extracted
      BY <1>0, <2>3 DEF MappingIsComplete
    <3>2. ASSUME NEW t \in DOMAIN terms', NEW c \in terms'[t].chunks, rows'[c].mapped, t \in rows'[c].text
          PROVE  c \in terms'[t].occurrence
      <4>1. t \in DOMAIN terms /\ c \in terms[t].chunks /\ c < from /\ c \in DOMAIN rows
        BY <1>0, <2>4 DEF EvidenceIsLive
      <4>2. rows'[c] = rows[c]
        BY <2>3, <4>1
      <4>3. c \in terms[t].occurrence
        BY <1>0, <3>2, <4>1, <4>2 DEF MappingIsComplete
      <4>. QED  BY <2>4, <4>1, <4>3
    <3>. QED  BY <3>1, <3>2 DEF MappingIsComplete
  <2>10. SummariesCoverSomething'
    BY <1>0, <2>5 DEF SummariesCoverSomething
  <2>. QED  BY <2>5, <2>7, <2>8, <2>9, <2>10 DEF EvidenceStays, EvidenceInv
<1>15. CASE StartExtraction \/ ExtractFails \/ StartTranslation \/ BatchFails \/ BatchesDone
            \/ Remembers \/ WorkStops
  BY <1>15, <1>u DEF StartExtraction, ExtractFails, StartTranslation, BatchFails, BatchesDone,
     Remembers, WorkStops
<1>. QED
  BY <1>1, <1>2, <1>3, <1>4, <1>5, <1>6, <1>7, <1>8, <1>9, <1>10, <1>11, <1>12, <1>13, <1>14, <1>15
     DEF GlossaryNext, Extraction, Batches, Memory, UserEdit

LEMMA GlossaryStep ==
  GlossaryInv /\ [GlossaryNext]_glossaryVars => GlossaryInv'
<1>1. ASSUME GlossaryInv, GlossaryNext PROVE GlossaryInv'
  BY <1>1, TypedRows, TypedTerms, TypedWork, EvidenceStep DEF GlossaryInv, GlossaryTyped, EvidenceStays
<1>2. ASSUME GlossaryInv, UNCHANGED glossaryVars PROVE GlossaryInv'
  BY <1>2 DEF glossaryVars, GlossaryInv, GlossaryTyped, WorkInv, Unextracted, EvidenceInv, EvidenceIsLive,
     Evidence, MappingIsComplete, SummariesCoverSomething
<1>. QED  BY <1>1, <1>2

-----------------------------------------------------------------------------
\* Descriptions are of chunks that were extracted, occurrences of mapped ones
\* with the term in their text, and a summary covers nothing but evidence.
THEOREM EvidenceStaysLive == GlossarySpec => []EvidenceIsLive
<1>1. GlossaryInv => EvidenceIsLive
  BY DEF GlossaryInv, EvidenceInv
<1>. QED  BY <1>1, GlossaryInitInv, GlossaryStep, PTL DEF GlossarySpec

\* Only a review deletes terms without the user, and what it takes for noise has
\* no occurrence, so that no chunk it comes from is mapped with it in the text.
THEOREM ReviewSparesTheText == GlossarySpec => NoiseIsNotInItsText
<1>1. ASSUME GlossaryInv, GlossaryNext, NEW t \in DOMAIN terms \ DOMAIN terms', edits' = edits,
             NEW c \in terms[t].chunks
      PROVE  ~(rows[c].mapped /\ t \in rows[c].text)
  <2>0. edits \in Nat /\ MappingIsComplete /\ WorkInv /\ work \in WorkRow
    BY <1>1 DEF GlossaryInv, GlossaryTyped, EvidenceInv
  <2>1. ~UserEdit
    <3>1. UserEdit => EditGlossary
      BY DEF UserEdit, UpdateTerm, UpdateTermRows, UpsertTerm, ImportGlossary, FilterNoise, DeleteTerms,
         ResetDocuments
    <3>2. EditGlossary => edits' = edits + 1
      BY DEF EditGlossary
    <3>. QED  BY <1>1, <2>0, <3>1, <3>2
  <2>2. CASE StartReview
    <3>1. PICK s, newly : s \in GlossaryScopes /\ terms' = MarkNoise(s[2], s[1], newly)
      BY <2>2 DEF StartReview
    <3>2. Noise(t)
      BY <1>1, <3>1 DEF MarkNoise
    <3>. QED  BY <1>1, <2>0, <3>2 DEF Noise, MappingIsComplete
  <2>3. CASE DOMAIN terms \subseteq DOMAIN terms'
    BY <1>1, <2>3
  <2>4. CASE ExtractChunk \/ ReviewBatch \/ TranslateBatch
    BY <2>3, <2>4 DEF ExtractChunk, ReviewBatch, TranslateBatch
  <2>5. CASE ExtractDone
    BY <2>3, <2>5 DEF ExtractDone
  <2>6. CASE terms' = terms
    BY <2>3, <2>6
  <2>. QED
    BY <1>1, <2>1, <2>2, <2>4, <2>5, <2>6 DEF GlossaryNext, AddChunk, Extraction, Batches, Memory,
       StartExtraction, ExtractFails, StartTranslation, BatchFails, BatchesDone, StartMemory, Remember,
       Remembers, WorkStops
<1>2. GlossaryInv /\ [GlossaryNext]_glossaryVars =>
        [\A t \in DOMAIN terms \ DOMAIN terms' : edits' = edits =>
           \A c \in terms[t].chunks : ~(rows[c].mapped /\ t \in rows[c].text)]_glossaryVars
  BY <1>1
<1>. QED  BY <1>2, GlossaryInitInv, GlossaryStep, PTL DEF GlossarySpec, NoiseIsNotInItsText

\* A task at work changes the part of a term that is its own, whatever it has read
\* before: a review the verdict, a translation the name, an extraction the evidence.
THEOREM TasksKeepToTheirOwn == GlossarySpec => WritesAreOwn
<1>. DEFINE Own == work # NoWork /\ edits' = edits =>
       /\ DOMAIN terms' \ DOMAIN terms # {} => work.task = "extraction"
       /\ \A t \in DOMAIN terms \cap DOMAIN terms' :
            LET r == terms[t] n == terms'[t] IN
            /\ n.name # r.name => work.task = "translation"
            /\ <<n.ignored, n.reviewed>> # <<r.ignored, r.reviewed>> => work.task = "review"
            /\ <<n.chunks, n.occurrence>> # <<r.chunks, r.occurrence>> => work.task = "extraction"
<1>1. ASSUME GlossaryInv, GlossaryNext, work # NoWork, edits' = edits PROVE Own
  <2>0. /\ edits \in Nat /\ WorkInv /\ work \in WorkRow
        /\ terms \in [DOMAIN terms -> TermRow] /\ DOMAIN terms \subseteq Term
    BY <1>1 DEF GlossaryInv, GlossaryTyped
  <2>1. ~UserEdit
    BY <1>1, <2>0 DEF UserEdit, EditGlossary, GlossaryBusy, UpdateTerm, UpdateTermRows, UpsertTerm,
       ImportGlossary, FilterNoise, DeleteTerms, ResetDocuments
  <2>2. CASE ExtractChunk \/ ExtractDone
    <3>1. work.task = "extraction"
      BY <2>0, <2>2 DEF ExtractChunk, ExtractDone, WorkInv
    <3>2. \A t \in DOMAIN terms \cap DOMAIN terms' :
            /\ terms'[t].name = terms[t].name /\ terms'[t].ignored = terms[t].ignored
            /\ terms'[t].reviewed = terms[t].reviewed
      <4>1. CASE ExtractChunk
        <5>1. PICK c \in work.todo, found \in SUBSET Term :
                terms' = [t \in DOMAIN terms \cup found |->
                            IF t \notin found THEN terms[t]
                            ELSE IF t \in DOMAIN terms THEN MergedTerm(terms[t], c)
                            ELSE MergedTerm(TermRecord, c)]
          BY <4>1 DEF ExtractChunk
        <5>. QED  BY <2>0, <5>1 DEF MergedTerm, TermRow
      <4>2. CASE ExtractDone
        <5>1. \/ terms' = terms
              \/ terms' = [t \in DOMAIN terms |-> [terms[t] EXCEPT !.occurrence = @ \cup FoundIn(t)]]
          BY <4>2 DEF ExtractDone
        <5>. QED  BY <2>0, <5>1 DEF TermRow
      <4>. QED  BY <2>2, <4>1, <4>2
    <3>. QED  BY <3>1, <3>2
  <2>3. CASE ReviewBatch
    <3>1. PICK batch, ignore :
            /\ batch \in SUBSET work.todo /\ ignore \in SUBSET batch
            /\ terms' = [t \in DOMAIN terms \cup batch |->
                        IF t \in batch
                        THEN [work.seen[t] EXCEPT !.ignored = t \in ignore, !.reviewed = TRUE]
                        ELSE terms[t]]
      BY Zenon, <2>3, ReviewWrites
    <3>2. work.task = "review" /\ \A t \in batch : t \in DOMAIN terms /\ work.seen[t] = terms[t]
      BY <2>0, <2>3, <3>1 DEF ReviewBatch, WorkInv
    <3>3. DOMAIN terms' = DOMAIN terms /\ \A t \in DOMAIN terms :
            /\ terms'[t].name = terms[t].name /\ terms'[t].chunks = terms[t].chunks
            /\ terms'[t].occurrence = terms[t].occurrence
      BY <2>0, <3>1, <3>2 DEF TermRow
    <3>. QED  BY <3>2, <3>3
  <2>4. CASE TranslateBatch /\ terms' # terms
    <3>1. PICK batch, answered :
            /\ batch \in SUBSET work.todo /\ answered \in SUBSET batch
            /\ terms' = [t \in DOMAIN terms \cup answered |-> IF t \in answered THEN Named(t) ELSE terms[t]]
      BY <2>4 DEF TranslateBatch
    <3>2. work.task = "translation" /\ answered \subseteq DOMAIN terms
      BY <2>0, <2>4, <3>1 DEF TranslateBatch, WorkInv
    <3>3. DOMAIN terms' = DOMAIN terms /\ \A t \in DOMAIN terms :
            /\ terms'[t].ignored = terms[t].ignored /\ terms'[t].reviewed = terms[t].reviewed
            /\ terms'[t].chunks = terms[t].chunks /\ terms'[t].occurrence = terms[t].occurrence
      BY <2>0, <3>1, <3>2 DEF Named, TermRow
    <3>. QED  BY <3>2, <3>3
  <2>5. CASE terms' = terms
    BY <2>5
  <2>. QED
    BY <1>1, <2>1, <2>2, <2>3, <2>4, <2>5 DEF GlossaryNext, AddChunk, Extraction, Batches, Memory,
       StartExtraction, ExtractFails, StartReview, StartTranslation, BatchFails, BatchesDone, StartMemory,
       Remember, Remembers, WorkStops
<1>2. GlossaryInv /\ [GlossaryNext]_glossaryVars => [Own]_glossaryVars
  BY <1>1
<1>. QED  BY <1>2, GlossaryInitInv, GlossaryStep, PTL DEF GlossarySpec, WritesAreOwn

\* A task of the glossary neither writes what is not its own nor deletes what is used.
THEOREM GlossaryTasksSpareTerms == GlossarySpec => TermsAreSpared
BY TasksKeepToTheirOwn, ReviewSparesTheText DEF TermsAreSpared

=============================================================================
