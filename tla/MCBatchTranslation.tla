------------------------- MODULE MCBatchTranslation -------------------------
(***************************************************************************)
(* Small instances of BatchTranslation.                                    *)
(***************************************************************************)
EXTENDS BatchTranslation, TLC

CONSTANTS p1, p2, b1, b2, b3, b4

TwoPrompts == {p1, p2}
ThreeBatches == {b1, b2, b3}
FourBatches == {b1, b2, b3, b4}

\* Two items that ask different things, two that ask the same, and one alone.
Distinct == [s \in {"translation", "polish"} |-> (1 :> p1 @@ 2 :> p2)]
Shared == [s \in {"translation", "polish"} |-> (1 :> p1 @@ 2 :> p1)]
Single == [s \in {"translation", "polish"} |-> (1 :> p1)]

BatchSymmetry == Permutations(Batches)
=============================================================================
