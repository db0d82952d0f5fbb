-------------------------- MODULE MCLearnerAttempt --------------------------
(* Small instances of LearnerAttempt for TLC.                              *)
EXTENDS LearnerAttempt, TLC

\* Processes, and accounts, are interchangeable.
NameSymmetry == Permutations(Procs) \union Permutations(Accounts)
=============================================================================
