--------------------------- MODULE MCCourseSync ---------------------------
(* Small instances of CourseSync for TLC.                                  *)
EXTENDS CourseSync, TLC

\* Processes, directories and bytes are interchangeable.
NameSymmetry == Permutations(Procs) \union Permutations(Dirs) \union Permutations(Bodies)
=============================================================================
