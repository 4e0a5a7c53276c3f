---------------------------- MODULE MCTaskAccess ----------------------------
(***************************************************************************)
(* Every pair of task descriptions over two documents, as the initial      *)
(* states of a machine that does nothing: the properties are about the     *)
(* tables of TaskHandlers and TaskAccess.                                  *)
(***************************************************************************)
EXTENDS TaskAccess

MCSourcesOf == [k \in Documents |-> IF k = "d1" THEN {"s1", "s2"} ELSE {"s3"}]
MCChunksOf  == [k \in Documents |-> IF k = "d1" THEN {"c1", "c2"} ELSE {"c3"}]

VARIABLES first, second, row   \* two tasks of a book, and a row of the first

Scopes == ((SUBSET Documents) \ {{}}) \cup {AllDocuments}
Describe(types, docs, sources, chunk) ==
  {[type |-> ty, book |-> "b", docs |-> docs, sources |-> sources, chunk |-> chunk,
    use_batch |-> batch] : ty \in types, batch \in BOOLEAN}

\* Tasks the program can hold: pages and chunks belong to the one document of
\* an OCR, per-page or chunk task; rewrites and exports name no document.
Descriptions ==
  (UNION { Describe(TranslationTypes \cup {"glossary_extraction", "translate_and_export",
                                           "image_reembedding"}, docs, {}, "-") : docs \in Scopes })
  \cup Describe(GlossaryRewriteTypes \cup {"glossary_export"}, {}, {}, "-")
  \cup (UNION { UNION { Describe({"ocr", "image_reembedding"}, {k}, sources, "-") :
                          sources \in SUBSET UNION {SourcesOf[j] : j \in Documents} } : k \in Documents })
  \cup (UNION { UNION { Describe({"chunk_retranslation"}, {k}, {}, c) : c \in ChunksOf[k] } :
                  k \in Documents })

Possible == {d \in Descriptions : /\ d.use_batch => d.type = "translate_and_export"
                                  /\ d.sources # {} => \A k \in d.docs : d.sources \subseteq SourcesOf[k]}

AccessInit ==
  /\ first \in Possible /\ second \in Possible
  /\ row \in [status : Status, remote : BOOLEAN]
  /\ row.remote => first.type \in {"batch_translation", "translate_and_export"}
AccessNext == UNCHANGED <<first, second, row>>
AccessSpec == AccessInit /\ [][AccessNext]_<<first, second, row>>

-----------------------------------------------------------------------------
\* Two page-by-page tasks of one document, an OCR and a reembedding of other
\* pages: the reembedding aligns its lines against every page, and the claims
\* let the OCR change the others meanwhile.
PageByPage(d, e) ==
  {d.type, e.type} = {"ocr", "image_reembedding"} /\ d.sources # {} /\ e.sources # {}

\* Two tasks whose workers may touch the same page, chunk row or term rows,
\* one of them writing, hold claims that keep them apart, whatever their types
\* and scopes: the claim tables of eleven handlers agree with what the
\* workers do.
DataRacesExcluded ==
  Races(first, second) /\ ~PageByPage(first, second) =>
    Conflicts(HandlerClaims(first), HandlerClaims(second))

=============================================================================
