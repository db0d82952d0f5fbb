------------------------- MODULE MCAssignmentFiles -------------------------
(* A small instance of AssignmentFiles for TLC.                            *)
EXTENDS AssignmentFiles, TLC

CONSTANTS d, e, n, p

\* The two directories are interchangeable.
Symmetry == Permutations(Dirs)
=============================================================================
