------------------------------ MODULE MCFileList ------------------------------
(* FileList with two names, one of them in two spellings; the keyword "a" finds both *)
(* of these.                                                                         *)
EXTENDS FileList, TLC

CONSTANTS a, A, b

LikeA(k) == IF k = "a" THEN {a, A} ELSE Names
IgnoreCase == [n \in Names |-> IF n = b THEN {b} ELSE {a, A}]

\* The spellings are alike.
Symmetry == Permutations({a, A})
============================================================================
