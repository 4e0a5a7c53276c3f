---------------------------- MODULE GlossaryWork ----------------------------
(***************************************************************************)
(* The glossary of one book: the term rows, the chunks their evidence      *)
(* comes from, and the term memory summarised from it, under the tasks     *)
(* that rewrite them (extraction, review, translation of terms, the memory *)
(* a translation builds first) and the edits of the terms screen.          *)
(*                                                                         *)
(* A task reads term rows, awaits the model for a batch of them and merges *)
(* or writes whole rows back, many batches at a time; it may fail in one   *)
(* batch, or be cancelled, with the others done.  The claims on            *)
(* glossary_state (TaskHandlers) let one such task run, and no edit beside *)
(* it.  Cutting documents into chunks is BookDocuments'; here a chunk      *)
(* appears with the terms its text contains.                               *)
(***************************************************************************)
EXTENDS Naturals, FiniteSets, FiniteSetsExt

CONSTANTS
  Term,        \* the keys a text or the model can come up with
  Symbolic,    \* the keys without a letter or digit (symbol_only)
  Remembered,  \* the keys of type character or organization
  ChunkTexts,  \* the sets of keys that the text of a chunk can contain
  MaxGlossaryChunk,    \* bound: chunk ids go from 0 to MaxChunk
  MaxEdits     \* bound: the edits and resets of the user

ASSUME GlossaryAssumption ==
  /\ Symbolic \subseteq Term /\ Remembered \subseteq Term
  /\ \A x \in ChunkTexts : x \subseteq Term
  /\ MaxGlossaryChunk \in Nat /\ MaxEdits \in Nat

VARIABLES
  rows,   \* chunk id -> [text, extracted, mapped]
  terms,  \* key -> its row
  memory, \* key -> the evidence its newest summary covers
  work,    \* the glossary task at work
  edits   \* the edits so far

glossaryVars == <<rows, terms, memory, work, edits>>

Put(f, k, v) == [x \in DOMAIN f \cup {k} |-> IF x = k THEN v ELSE f[x]]
Without(f, ks) == [x \in DOMAIN f \ ks |-> f[x]]

Empty == <<>>
NoName == "none"       \* translated_name IS NULL
Cleared == "cleared"   \* the empty string
Untranslated(r) == r.name \in {NoName, Cleared}

\* Descriptions are kept by the chunk they were found in, or as "imported".
TermRecord == [chunks |-> {}, imported |-> FALSE, occurrence |-> {}, name |-> NoName,
               ignored |-> FALSE, reviewed |-> FALSE, checked |-> FALSE]
HasDescription(r) == r.chunks # {} \/ r.imported

NoWork == [task |-> "none", pc |-> "none", todo |-> {}, seen |-> Empty, docs |-> {}, failed |-> FALSE]

GlossaryInit ==
  /\ rows = Empty /\ terms = Empty /\ memory = Empty
  /\ work = NoWork /\ edits = 0

Unextracted == {c \in DOMAIN rows : ~rows[c].extracted}
Unmapped == {c \in DOMAIN rows : ~rows[c].mapped}

-----------------------------------------------------------------------------
(* The tasks.  A job holds what it has read and what is still to be done;  *)
(* an answer of the model arrives for a batch, in any order.               *)

Begin(task, pc, todo, seen) ==
  work' = [NoWork EXCEPT !.task = task, !.pc = pc, !.todo = todo, !.seen = seen]
WorkEnds == work' = NoWork
Did(batch) == work' = [work EXCEPT !.todo = @ \ batch]
Failed(batch) == work' = [work EXCEPT !.todo = @ \ batch, !.failed = TRUE]

\* The preflight of an extraction or a translation adds a chunk.
AddChunk ==
  /\ work = NoWork /\ Cardinality(DOMAIN rows) <= MaxGlossaryChunk
  /\ \E x \in ChunkTexts :
       rows' = Put(rows, Cardinality(DOMAIN rows),
                   [text |-> x, extracted |-> FALSE, mapped |-> FALSE])
  /\ UNCHANGED <<terms, memory, work, edits>>

\* extract_keyed_context, for the chunks of some documents
StartExtraction ==
  /\ work = NoWork
  /\ \E docs \in (SUBSET (Unextracted \cup Unmapped)) \ {{}} :
       /\ work' = [NoWork EXCEPT !.task = "extraction", !.pc = "extract",
                              !.todo = docs \cap Unextracted, !.docs = docs]
  /\ UNCHANGED <<rows, terms, memory, edits>>

\* _state_update: the terms found are merged into their rows (Term.merge), the
\* chunk is marked.  The model may find a term that is not in the text, under a
\* name that it made up, and miss one that is.
MergedTerm(r, c) == [r EXCEPT !.chunks = @ \cup {c}]
ExtractChunk ==
  /\ work.pc = "extract"
  /\ \E c \in work.todo, found \in SUBSET Term :
       /\ terms' = [t \in DOMAIN terms \cup found |->
                      IF t \notin found THEN terms[t]
                      ELSE IF t \in DOMAIN terms THEN MergedTerm(terms[t], c)
                      ELSE MergedTerm(TermRecord, c)]
       /\ rows' = [rows EXCEPT ![c].extracted = TRUE]
       /\ Did({c})
  /\ UNCHANGED <<memory, edits>>
ExtractFails ==
  /\ work.pc = "extract" /\ \E c \in work.todo : Failed({c})
  /\ UNCHANGED <<rows, terms, memory, edits>>

FoundIn(t) == {c \in Unmapped \cap work.docs : t \in rows[c].text}

\* (mutant of ExtractDone: the chunks count as mapped after a failure too)
ExtractDoneUncounted ==
  /\ work.pc = "extract" /\ work.todo = {}
  /\ IF work.failed THEN UNCHANGED terms
     ELSE terms' = [t \in DOMAIN terms |->
                      [terms[t] EXCEPT !.occurrence = @ \cup FoundIn(t)]]
  /\ rows' = [c \in DOMAIN rows |-> [rows[c] EXCEPT !.mapped = @ \/ c \in work.docs]]
  /\ WorkEnds /\ UNCHANGED <<memory, edits>>

\* After a failed chunk the task ends here, else it maps the occurrences of
\* every term in the chunks that were not mapped (build_occurrence_mapping).
ExtractDone ==
  /\ work.pc = "extract" /\ work.todo = {}
  /\ IF work.failed THEN UNCHANGED <<rows, terms>>
     ELSE /\ terms' = [t \in DOMAIN terms |->
                         [terms[t] EXCEPT !.occurrence = @ \cup FoundIn(t)]]
          /\ rows' = [c \in DOMAIN rows |-> [rows[c] EXCEPT !.mapped = @ \/ c \in work.docs]]
  /\ WorkEnds /\ UNCHANGED <<memory, edits>>

\* A scoped task takes the terms with a description or an occurrence in the
\* document's chunks (get_term_keys_for_documents); a document here is a chunk.
Touching(c) == {t \in DOMAIN terms : c \in terms[t].chunks \cup terms[t].occurrence}
GlossaryScopes == {<<TRUE, DOMAIN terms>>} \cup {<<FALSE, Touching(c)>> : c \in DOMAIN rows}

\* mark_noise_terms, without a model: a term that was extracted and occurs
\* nowhere is deleted, a symbol is ignored.  A review of the whole book looks
\* only at terms that are newer than its last checkpoint, the newest term it
\* looked at; whether that covers one it did not look at depends on their ages.
NoiseCandidates(scope, all) ==
  {t \in scope : ~terms[t].reviewed /\ ~terms[t].ignored /\ (all => ~terms[t].checked)}
Noise(t) == terms[t].chunks # {} /\ terms[t].occurrence = {}
MarkNoise(scope, all, newlyChecked) ==
  LET looked  == NoiseCandidates(scope, all)
      deleted == {t \in looked : Noise(t)}
  IN [t \in DOMAIN terms \ deleted |->
        LET r == IF t \in looked \cap Symbolic
                 THEN [terms[t] EXCEPT !.ignored = TRUE, !.reviewed = TRUE] ELSE terms[t]
        IN [r EXCEPT !.checked = @ \/ (all /\ t \in looked \cup newlyChecked)]]

\* review_terms: the terms that are not reviewed, read once
StartReview ==
  /\ work = NoWork /\ \E t \in DOMAIN terms : ~terms[t].reviewed
  /\ \E s \in GlossaryScopes, newly \in SUBSET DOMAIN terms :
       LET all  == s[1]
           scope == s[2]
           new  == MarkNoise(scope, all, newly)
           pend == {t \in scope \cap DOMAIN new : ~new[t].reviewed}
       IN /\ newly # {} => all /\ NoiseCandidates(scope, all) # {}
          /\ terms' = new
          /\ memory' = Without(memory, DOMAIN terms \ DOMAIN new)
          /\ Begin("review", "review", pend, [t \in pend |-> new[t]])
  /\ UNCHANGED <<rows, edits>>

\* One batch answered: each row is written as it was read, with the verdict.
ReviewBatch ==
  /\ work.pc = "review"
  /\ \E batch \in (SUBSET work.todo) \ {{}} : \E ignore \in SUBSET batch :
       /\ terms' = [t \in DOMAIN terms \cup batch |->
                      IF t \in batch
                      THEN [work.seen[t] EXCEPT !.ignored = t \in ignore, !.reviewed = TRUE]
                      ELSE terms[t]]
       /\ Did(batch)
  /\ UNCHANGED <<rows, memory, edits>>

\* translate_terms: what is neither ignored nor translated, read once
StartTranslation ==
  /\ work = NoWork
  /\ \E s \in GlossaryScopes :
       LET pend == {t \in s[2] : ~terms[t].ignored /\ Untranslated(terms[t])}
       IN pend # {} /\ Begin("translation", "translate", pend, [t \in pend |-> terms[t]])
  /\ UNCHANGED <<rows, terms, memory, edits>>

\* A batch fails as a whole when a term of it has nothing to describe it
\* (_get_primary_description), and when a row already has another name, the
\* empty one included (Term.merge).  A row that is gone is made again.
Describable(batch) == \A t \in batch : HasDescription(work.seen[t])
Mergeable(t) == t \notin DOMAIN terms \/ terms[t].name \in {NoName, "llm"}
Named(t) == [IF t \in DOMAIN terms THEN terms[t] ELSE TermRecord EXCEPT !.name = "llm"]
TranslateBatch ==
  /\ work.pc = "translate"
  /\ \E batch \in (SUBSET work.todo) \ {{}} :
       /\ Describable(batch)
       /\ \E answered \in SUBSET batch :
            IF \A t \in answered : Mergeable(t)
            THEN /\ terms' = [t \in DOMAIN terms \cup answered |->
                                IF t \in answered THEN Named(t) ELSE terms[t]]
                 /\ Did(batch)
            ELSE Failed(batch) /\ UNCHANGED terms
  /\ UNCHANGED <<rows, memory, edits>>

\* No answer, an answer that is refused, or a batch that cannot be asked
BatchFails ==
  /\ work.pc \in {"review", "translate"}
  /\ \E batch \in (SUBSET work.todo) \ {{}} : Failed(batch)
  /\ UNCHANGED <<rows, terms, memory, edits>>
BatchesDone ==
  /\ work.pc \in {"review", "translate"} /\ work.todo = {} /\ WorkEnds
  /\ UNCHANGED <<rows, terms, memory, edits>>

\* build_context_tree: terms that need no memory lose it; the others are
\* summarised one by one unless their newest summary reaches their newest
\* evidence.  "imported" counts as evidence before every chunk (index -1, here
\* 0, a chunk being 1 after its id).
Evidence(r) == {c + 1 : c \in r.chunks} \cup (IF r.imported THEN {0} ELSE {})
NeedsMemory(t) == t \in Remembered /\ ~terms[t].ignored /\ HasDescription(terms[t])
MemoryIsCurrent(t) ==
  /\ t \in DOMAIN memory /\ Cardinality(Evidence(terms[t])) >= 2
  /\ Max(memory[t]) >= Max(Evidence(terms[t]))
StartMemory ==
  /\ work = NoWork /\ DOMAIN terms # {}
  /\ memory' = Without(memory, {t \in DOMAIN terms : ~NeedsMemory(t)})
  /\ Begin("memory", "remember", {t \in DOMAIN terms : NeedsMemory(t) /\ ~MemoryIsCurrent(t)}, Empty)
  /\ UNCHANGED <<rows, terms, edits>>

\* TermMemoryBuilder.build_versions and replace_term_memory_versions; with up
\* to four entries of evidence there is one version, or none when the model
\* says nothing.
Remember ==
  /\ work.pc = "remember"
  /\ \E t \in work.todo, answered \in BOOLEAN :
       /\ memory' = IF answered /\ Cardinality(Evidence(terms[t])) >= 2
                    THEN Put(memory, t, Evidence(terms[t])) ELSE Without(memory, {t})
       /\ Did({t})
  /\ UNCHANGED <<rows, terms, edits>>
Remembers == work.pc = "remember" /\ work.todo = {} /\ WorkEnds /\ UNCHANGED <<rows, terms, memory, edits>>

\* A cancellation, an error or the end of the process, between two steps
WorkStops == work # NoWork /\ WorkEnds /\ UNCHANGED <<rows, terms, memory, edits>>

-----------------------------------------------------------------------------
(* The terms screen and the work screen, in the interface's thread.        *)

\* (mutant of GlossaryBusy: an edit never waits)
GlossaryNeverBusy == FALSE
\* terms._glossary_mutation_blocker: any task here claims the glossary
GlossaryBusy == work # NoWork
EditGlossary ==
  /\ ~GlossaryBusy /\ edits < MaxEdits
  /\ edits' = edits + 1 /\ UNCHANGED work

\* update_term: the fields of the request that are given
UpdateTerm ==
  /\ EditGlossary
  /\ \E t \in DOMAIN terms :
       \/ \E n \in {"user", Cleared} : terms' = [terms EXCEPT ![t].name = n]
       \/ \E i \in BOOLEAN : terms' = [terms EXCEPT ![t].ignored = i]
       \/ \E i \in BOOLEAN : terms' = [terms EXCEPT ![t].reviewed = i]
  /\ UNCHANGED <<rows, memory>>

\* update_term_rows: the three fields as the screen shows them; without a
\* translation the empty string is stored.
UpdateTermRows ==
  /\ EditGlossary
  /\ \E t \in DOMAIN terms, n \in {Cleared, "user"}, i \in BOOLEAN, v \in BOOLEAN :
       terms' = [terms EXCEPT ![t].name = n, ![t].ignored = i, ![t].reviewed = v]
  /\ UNCHANGED <<rows, memory>>

\* upsert_project_term, and each entry of a flat import (_import_simple_glossary)
UpsertTerm ==
  /\ EditGlossary
  /\ \E t \in Term :
       terms' = Put(terms, t, [IF t \in DOMAIN terms THEN terms[t] ELSE TermRecord
                               EXCEPT !.name = "user", !.ignored = FALSE, !.reviewed = TRUE])
  /\ UNCHANGED <<rows, memory>>

\* _import_structured_glossary: the rows of the file replace the glossary
\* (an empty name in it is left to UpdateTerm).
ImportGlossary ==
  /\ EditGlossary
  /\ \E ts \in SUBSET Term, described \in BOOLEAN, n \in {NoName, "user"}, i \in BOOLEAN, v \in BOOLEAN :
       terms' = [t \in ts |-> [TermRecord EXCEPT !.imported = described, !.name = n,
                                                 !.ignored = i, !.reviewed = v]]
  /\ memory' = Empty /\ UNCHANGED rows

\* filter_noise: rare terms are ignored; bulk_update_terms
Rare(t) == ~terms[t].ignored /\ ~terms[t].reviewed /\ Cardinality(terms[t].occurrence) <= 1
FilterNoise ==
  /\ EditGlossary /\ \E t \in DOMAIN terms : Rare(t)
  /\ terms' = [t \in DOMAIN terms |->
                 IF Rare(t) THEN [terms[t] EXCEPT !.ignored = TRUE, !.reviewed = TRUE] ELSE terms[t]]
  /\ UNCHANGED <<rows, memory>>
DeleteTerms ==
  /\ EditGlossary
  /\ \E ts \in (SUBSET DOMAIN terms) \ {{}} :
       terms' = Without(terms, ts) /\ memory' = Without(memory, ts)
  /\ UNCHANGED rows

\* reset_documents_from: the chunks from a cutoff on go, and with them their
\* evidence (_persist_pruned_term); a term with no description left goes too.
PrunedTerm(r, from) ==
  [r EXCEPT !.chunks = {c \in @ : c < from}, !.occurrence = {c \in @ : c < from}]
\* (mutant of PrunedMemory: a summary is kept when it starts before the cutoff)
PrunedMemoryByStart(from) ==
  Without(memory, {t \in DOMAIN memory : Min(memory[t]) > from})
\* prune_term_memory_from: by effective start, one chunk after the evidence
PrunedMemory(from) ==
  Without(memory, {t \in DOMAIN memory : Max(memory[t]) >= from})
ResetDocuments ==
  /\ EditGlossary
  /\ \E from \in DOMAIN rows :
       /\ rows' = Without(rows, {c \in DOMAIN rows : c >= from})
       /\ terms' = [t \in {u \in DOMAIN terms : HasDescription(PrunedTerm(terms[u], from))} |->
                      PrunedTerm(terms[t], from)]
       /\ memory' = PrunedMemory(from)

-----------------------------------------------------------------------------
Extraction == StartExtraction \/ ExtractChunk \/ ExtractFails \/ ExtractDone
Batches == StartReview \/ ReviewBatch \/ StartTranslation \/ TranslateBatch \/ BatchFails \/ BatchesDone
Memory == StartMemory \/ Remember \/ Remembers
UserEdit ==
  UpdateTerm \/ UpdateTermRows \/ UpsertTerm \/ ImportGlossary \/ FilterNoise \/ DeleteTerms \/ ResetDocuments

GlossaryNext == AddChunk \/ Extraction \/ Batches \/ Memory \/ WorkStops \/ UserEdit

GlossarySpec == GlossaryInit /\ [][GlossaryNext]_glossaryVars

-----------------------------------------------------------------------------
\* All evidence is of chunks that exist: descriptions of extracted ones,
\* occurrences of mapped ones in whose text the term is, and a summary covers
\* nothing but its term's evidence.  Chunk ids are given again after a reset,
\* so that evidence left behind would soon speak of another text.
EvidenceIsLive ==
  \A t \in DOMAIN terms :
    /\ \A c \in terms[t].chunks : c \in DOMAIN rows /\ rows[c].extracted
    /\ \A c \in terms[t].occurrence : c \in DOMAIN rows /\ rows[c].mapped /\ t \in rows[c].text
    /\ t \in DOMAIN memory => memory[t] \subseteq Evidence(terms[t])

\* A task changes only what is its own of a term: the verdict if it is a
\* review, the name if it translates, the evidence if it extracts; and only an
\* extraction brings a term into being.  Tasks write back rows they read before
\* they awaited the model, so that an edit made meanwhile would be undone, or a
\* deleted term be there again.
WritesAreOwn ==
  [][work # NoWork /\ edits' = edits =>
       /\ DOMAIN terms' \ DOMAIN terms # {} => work.task = "extraction"
       /\ \A t \in DOMAIN terms \cap DOMAIN terms' :
            LET r == terms[t] n == terms'[t] IN
            /\ n.name # r.name => work.task = "translation"
            /\ <<n.ignored, n.reviewed>> # <<r.ignored, r.reviewed>> => work.task = "review"
            /\ <<n.chunks, n.occurrence>> # <<r.chunks, r.occurrence>> => work.task = "extraction"]_glossaryVars

\* A review deletes no term that its own evidence has in the text, once the
\* occurrences have been mapped there.
NoiseIsNotInItsText ==
  [][\A t \in DOMAIN terms \ DOMAIN terms' : edits' = edits =>
       \A c \in terms[t].chunks : ~(rows[c].mapped /\ t \in rows[c].text)]_glossaryVars

\* What a task of the glossary changes or deletes of a term is its own, and without a use.
TermsAreSpared == WritesAreOwn /\ NoiseIsNotInItsText

=============================================================================
