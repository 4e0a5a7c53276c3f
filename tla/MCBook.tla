-------------------------------- MODULE MCBook --------------------------------
(***************************************************************************)
(* What happens to a book: the claims of any two tasks, its documents and  *)
(* chunks, its glossary, and the images of a document.  All are explored;  *)
(* one behaviour is about one of them.                                     *)
(***************************************************************************)
EXTENDS MCTaskAccess, MCBookDocuments, GlossaryWork, ImagesTab

VARIABLE part

\* A name that is in the texts of the chunks, and a symbol that is not
MCChunkTexts == {{"name"}}

accessVars == <<first, second, row>>

NoAccess ==
  /\ first = CHOOSE d \in Possible : d.type = "glossary_export"
  /\ second = first /\ row = [status |-> "queued", remote |-> FALSE]
NoGlossary == GlossaryInit
NoImages ==
  /\ format = "manga" /\ lines = {} /\ drawn = [p \in Panels |-> "none"]
  /\ jobs = [j \in Works |-> NoDrawing] /\ told = FALSE /\ gallery = [shown |-> FALSE] /\ wasted = FALSE

Init ==
  \/ part = "access" /\ AccessInit /\ BookInit /\ NoGlossary /\ NoImages
  \/ part = "documents" /\ BookInit /\ NoAccess /\ NoGlossary /\ NoImages
  \/ part = "glossary" /\ GlossaryInit /\ NoAccess /\ BookInit /\ NoImages
  \/ part = "images" /\ ImagesInit /\ NoAccess /\ BookInit /\ NoGlossary
Next ==
  /\ \/ part = "access" /\ AccessNext /\ UNCHANGED <<bookVars, glossaryVars, imagesVars>>
     \/ part = "documents" /\ BookNext /\ UNCHANGED <<accessVars, glossaryVars, imagesVars>>
     \/ part = "glossary" /\ GlossaryNext /\ UNCHANGED <<accessVars, bookVars, imagesVars>>
     \/ part = "images" /\ ImagesNext
        /\ UNCHANGED <<accessVars, bookVars, glossaryVars>>
  /\ UNCHANGED part
Spec == Init /\ [][Next]_<<part, accessVars, bookVars, glossaryVars, imagesVars>>
===============================================================================
