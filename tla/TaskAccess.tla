----------------------------- MODULE TaskAccess -----------------------------
(***************************************************************************)
(* What the workers of the task types really read and write in the book's  *)
(* database, set against the claims their handlers declare for them        *)
(* (TaskHandlers).  The handlers and the operations they protect are in    *)
(* different packages, and nothing but these claims keeps two workers of a *)
(* book apart: chunk rows are written back whole (upsert_chunks), so that  *)
(* an unclaimed overlap silently loses a translation.                      *)
(*                                                                         *)
(* An access is a pair <<table, key>>: a page's OCR text, a page's         *)
(* reembedded image, a chunk row, or the glossary's term rows.  Term memory*)
(* and chunk summaries are written by any number of tasks at once          *)
(* (WRITE_COOPERATIVE) and left out.  So is the preflight of EARLIER       *)
(* documents, which no handler claims (resolve_preflight_document_ids).    *)
(***************************************************************************)
EXTENDS TaskHandlers

CONSTANTS
  Documents,
  SourcesOf,   \* SourcesOf[k]: the pages of document k
  ChunksOf     \* ChunksOf[k]: its chunks

\* A page and a chunk row belong to one document (the column document_id).
ASSUME AccessAssumption ==
  \A j, k \in Documents : j # k => /\ SourcesOf[j] \cap SourcesOf[k] = {}
                                  /\ ChunksOf[j] \cap ChunksOf[k] = {}

DocKeys(d) == IF d.docs = AllDocuments THEN Documents ELSE d.docs

PageTexts(keys) == {<<"page", s>> : s \in UNION {SourcesOf[k] : k \in keys}}
ChunkRows(keys) == {<<"chunk", c>> : c \in UNION {ChunksOf[k] : k \in keys}}
TermRows == {<<"terms", AnyKey>>}

\* The pages a task was narrowed to, or all those of its documents
Narrowed(d, table) ==
  {<<table, s>> : s \in IF d.sources # {} THEN d.sources
                        ELSE UNION {SourcesOf[k] : k \in DocKeys(d)}}

\* Translation and extraction write whole chunk rows; extraction and the
\* glossary tasks write terms, the latter chunking every document that is
\* ready when the source language is unknown; OCR and reembedding write pages.
Writes(d) ==
  CASE d.type \in TranslationTypes      -> ChunkRows(DocKeys(d))
    [] d.type = "chunk_retranslation"   -> {<<"chunk", d.chunk>>}
    [] d.type = "glossary_extraction"   -> ChunkRows(DocKeys(d)) \cup TermRows
    [] d.type = "translate_and_export"  -> ChunkRows(DocKeys(d)) \cup TermRows
    [] d.type \in GlossaryRewriteTypes  -> TermRows \cup ChunkRows(Documents)
    [] d.type = "glossary_export"       -> {}
    [] d.type = "ocr"                   -> Narrowed(d, "page")
    [] d.type = "image_reembedding"     -> Narrowed(d, "image")

\* A document's text is read from its pages when it is first chunked;
\* reembedding aligns the chunks of the whole document with its pages; an
\* export writes out the pages and their images.
Reads(d) ==
  CASE d.type \in TranslationTypes      -> PageTexts(DocKeys(d)) \cup TermRows
    [] d.type = "chunk_retranslation"   -> TermRows
    [] d.type = "glossary_extraction"   -> PageTexts(DocKeys(d))
    [] d.type = "translate_and_export"  -> PageTexts(DocKeys(d)) \cup Narrowed(d, "image")
    [] d.type \in GlossaryRewriteTypes  -> PageTexts(Documents)
    [] d.type = "glossary_export"       -> TermRows
    [] d.type = "ocr"                   -> {}
    [] d.type = "image_reembedding"     -> PageTexts(DocKeys(d)) \cup ChunkRows(DocKeys(d))

Races(d, e) ==
  \/ Writes(d) \cap (Reads(e) \cup Writes(e)) # {}
  \/ Writes(e) \cap Reads(d) # {}
=============================================================================
