------------------------- MODULE MCFormProtection -------------------------
(* A small instance of FormProtection for TLC.                             *)
EXTENDS FormProtection, TLC

\* Threads are interchangeable.
ThreadSymmetry == Permutations(Threads)
=============================================================================
