---------------------------- MODULE MCTaskEngine ----------------------------
(***************************************************************************)
(* Instances of TaskEngine for TLC: one book and one contended document.   *)
(* text and batch translate it, batch2 also translates a second document,  *)
(* export only reads the glossary.                                         *)
(***************************************************************************)
EXTENDS TaskEngine, TLC

CONSTANTS p1, p2, text, batch, batch2, export

Task(type, docs, sources, chunkKey) ==
  [type |-> type, book |-> "b", docs |-> docs, sources |-> sources,
   chunk |-> chunkKey, use_batch |-> FALSE]

Catalogue ==
  (text   :> Task("translation_text", {"d1"}, {}, "-")) @@
  (batch  :> Task("batch_translation", {"d1"}, {}, "-")) @@
  (batch2 :> Task("batch_translation", {"d1", "d2"}, {}, "-")) @@
  (export :> Task("glossary_export", {}, {}, "-"))

MCDesc == [t \in Tasks |-> Catalogue[t]]
MCBooks == {"b"}

\* Threads differ in nothing but their identity (safety runs only).
WorkerSymmetry == Permutations(Workers)
=============================================================================
