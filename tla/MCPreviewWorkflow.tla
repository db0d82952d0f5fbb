------------------------- MODULE MCPreviewWorkflow -------------------------
(* A small instance of PreviewWorkflow for TLC.                            *)
EXTENDS PreviewWorkflow, TLC

\* Accounts and choices are interchangeable.
NameSymmetry == Permutations(Actors) \union Permutations(Choices)
=============================================================================
