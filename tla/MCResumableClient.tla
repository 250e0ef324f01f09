-------------------------- MODULE MCResumableClient --------------------------
(* ResumableClient with files of two chunks; the first two files look alike. *)
EXTENDS ResumableClient, TLC

CONSTANTS f1, f2, f3

\* Tabs, threads and ids are interchangeable; used where only invariants are checked.
Symmetry == Permutations(Tabs) \cup Permutations(Handlers) \cup Permutations(UploadIds)

SomeName == (f1 :> "a") @@ (f2 :> "a") @@ (f3 :> "a")
SomeSize == (f1 :> 2) @@ (f2 :> 2) @@ (f3 :> 3)
OneName == (f1 :> "a")
OneSize == (f1 :> 2)
============================================================================
