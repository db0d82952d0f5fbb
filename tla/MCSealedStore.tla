--------------------------- MODULE MCSealedStore ---------------------------
(* A small instance of SealedStore for TLC.                                *)
EXTENDS SealedStore, TLC

CONSTANTS c, k, p, q

\* Neither process is distinguished.
Symmetry == Permutations(Procs)
=============================================================================
