--------------------------- MODULE MCBookDocuments ---------------------------
(* Small books for TLC: a text file before a scan or a manga of two pages. *)
EXTENDS BookDocuments, TLC

MCTypes == <<{"text"}, {"text", "scanned_book", "manga"}>>
MCParagraphs == <<"t1">>
\* A scan after a scan
MCTwoScans == <<{"scanned_book"}, {"scanned_book"}>>
WorkerSymmetry == Permutations(Worker)
=============================================================================
