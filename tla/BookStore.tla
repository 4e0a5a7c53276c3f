------------------------------ MODULE BookStore ------------------------------
(***************************************************************************)
(* The book database (storage/schema/book_db.py) and the repositories on   *)
(* top of it, as the operations the workflow and the services call: each   *)
(* operator is one transaction, from the book before it to the book after. *)
(*                                                                         *)
(* A book is a record                                                      *)
(*   docs    the document ids it holds;                                    *)
(*   last    the largest id ever given (AUTOINCREMENT: never given again); *)
(*   type    document -> its document_type;                                *)
(*   page    document -> its sources in sequence order, each               *)
(*           [text, ready]: the text an OCR or the import gave it, and     *)
(*           whether it has been OCRed (always, for a text source);        *)
(*   added   the documents whose sources are all marked is_text_added;     *)
(*   rows    chunk id -> [doc, text, extracted, mapped, translation].      *)
(*           A chunk id is not AUTOINCREMENT: it is given again once the   *)
(*           rows from it on have been deleted;                            *)
(*   lang    whether meta.source_language is set.                          *)
(* The text of a page, or of a paragraph of a text file, is one value; a   *)
(* chunk holds one of them.                                                *)
(***************************************************************************)
EXTENDS Naturals, Sequences, FiniteSets, FiniteSetsExt

NoText == "blank"            \* a page on which the OCR found nothing
NotTranslated == "none"      \* translation IS NULL, is_translated = 0

Row(d, t) ==
  [doc |-> d, text |-> t, extracted |-> FALSE, mapped |-> FALSE,
   translation |-> NotTranslated]

\* compute_chunk_hash(text, document_id), the UNIQUE column
Hash(r) == <<r.doc, r.text>>
Hashes(rows) == {Hash(rows[i]) : i \in DOMAIN rows}
RowsOf(rows, d) == {i \in DOMAIN rows : rows[i].doc = d}
RowWithHash(rows, h) == CHOOSE i \in DOMAIN rows : Hash(rows[i]) = h

\* get_max_chunk_id() + 1
NextChunkId(rows) == IF rows = <<>> THEN 0 ELSE Max(DOMAIN rows) + 1

\* Keep the rows with these ids.
OnlyRows(rows, ids) == [i \in ids |-> rows[i]]

\* upsert_chunks: a record whose hash is stored updates the flags and the
\* translation of the stored row; any other is inserted under its own id, which
\* fails when the id is taken or the document is gone (IntegrityError).  new is
\* a function from chunk id to record with distinct hashes.
Inserted(rows, new) == {i \in DOMAIN new : Hash(new[i]) \notin Hashes(rows)}
UpsertFails(b, new) ==
  \E i \in Inserted(b.rows, new) : i \in DOMAIN b.rows \/ new[i].doc \notin b.docs
UpsertChunks(b, new) ==
  LET ins == Inserted(b.rows, new)
      upd == {Hash(new[i]) : i \in DOMAIN new \ ins}
  IN [b EXCEPT !.rows =
        [i \in DOMAIN b.rows \cup ins |->
           IF i \notin DOMAIN b.rows THEN new[i]
           ELSE IF Hash(b.rows[i]) \in upd
                THEN new[RowWithHash(new, Hash(b.rows[i]))]
                ELSE b.rows[i]]]

\* update_source_ocr, update_source_ocr_completed
UpdateSourceOcr(b, d, p, t) ==
  [b EXCEPT !.page[d][p] = [text |-> t, ready |-> TRUE]]

\* update_all_sources_text_added
MarkTextAdded(b, d) == [b EXCEPT !.added = @ \cup {d}]

SetLanguage(b) == [b EXCEPT !.lang = TRUE]

\* insert_document, insert_document_source
InsertDocument(b, ty, pages) ==
  LET d == b.last + 1
  IN [b EXCEPT !.docs = @ \cup {d}, !.last = d, !.type[d] = ty, !.page[d] = pages]

\* get_document_sources_needing_ocr, is_text_added (true of a document without
\* sources)
PendingPages(b, d)  == {p \in DOMAIN b.page[d] : ~b.page[d][p].ready}
IsOcrCompleted(b, d) == PendingPages(b, d) = {}
IsTextAdded(b, d)   == d \in b.added \/ b.page[d] = <<>>

\* get_text: the sources with a text, in sequence order
DocumentText(b, d) ==
  LET pages == b.page[d]
      read  == {p \in DOMAIN pages : pages[p].text # NoText}
      Nth(k) == CHOOSE p \in read : Cardinality({q \in read : q < p}) = k - 1
  IN [k \in 1..Cardinality(read) |-> pages[Nth(k)].text]

-----------------------------------------------------------------------------
(* The document stack: a reset or a deletion is cut off by chunk id.       *)

\* _stack_document_ids
StackOf(b, d) == {e \in b.docs : e >= d}

\* _min_chunk_id_for_documents: the ids from the smallest one on
FromFirstRowOf(b, ds) ==
  {i \in DOMAIN b.rows : \E k \in DOMAIN b.rows : b.rows[k].doc \in ds /\ k <= i}

\* reset_documents_from, and clear_source_language when nothing is cut off
ResetRows(b, ids) ==
  [b EXCEPT !.rows  = OnlyRows(@, DOMAIN @ \ ids),
            !.added = @ \ {b.rows[i].doc : i \in ids},
            !.lang  = FALSE]

\* (mutant of ResetDocumentStack: the flag of the reset documents stays)
ResetKeepingTheFlag(b, d) ==
  [ResetRows(b, FromFirstRowOf(b, StackOf(b, d))) EXCEPT !.added = b.added]

\* reset_document_stack
ResetDocumentStack(b, d) == ResetRows(b, FromFirstRowOf(b, StackOf(b, d)))

\* delete_documents_stack
DeleteDocumentsStack(b, d) ==
  [ResetDocumentStack(b, d) EXCEPT
     !.docs  = @ \ StackOf(b, d),
     !.added = @ \ StackOf(b, d),
     !.page  = [e \in DOMAIN @ |-> IF e \in StackOf(b, d) THEN <<>> ELSE @[e]]]

-----------------------------------------------------------------------------
(* What the work list shows of a document.                                 *)

\* list_documents_pending_glossary (in the repository: documents whose OCR is
\* required and incomplete are left out)
PendingGlossary(b, d, ocrRequired) ==
  /\ \/ ~IsTextAdded(b, d) /\ \E p \in DOMAIN b.page[d] : b.page[d][p].ready
     \/ \E i \in RowsOf(b.rows, d) : ~b.rows[i].extracted \/ ~b.rows[i].mapped
  /\ ocrRequired => IsOcrCompleted(b, d)

\* get_chunks_to_translate
ChunksToTranslate(b, d, force) ==
  {i \in RowsOf(b.rows, d) : force \/ b.rows[i].translation = NotTranslated}

\* In chunk order, the rows of document d are the first n pieces of s, each text
\* once (get_translated_lines joins them in that order): they have the texts of
\* these pieces, and of two rows the one with the smaller id has the text that
\* comes first.
Precedes(s, t, u) == \E p \in 1..Len(s) : s[p] = t /\ \A q \in 1..p : s[q] # u
CutTo(rows, d, s, n) ==
  /\ {rows[i].text : i \in RowsOf(rows, d)} = {s[k] : k \in 1..n}
  /\ \A i, k \in RowsOf(rows, d) : i < k => Precedes(s, rows[i].text, rows[k].text)
IsCut(b, d) == LET s == DocumentText(b, d) IN CutTo(b.rows, d, s, Len(s))
=============================================================================
