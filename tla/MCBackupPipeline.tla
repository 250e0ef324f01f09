-------------------------- MODULE MCBackupPipeline --------------------------
(* BackupPipeline with the symmetry of its small instances. *)
EXTENDS BackupPipeline, TLC

Symmetry == Permutations(Uploads) \cup Permutations(Names)
=============================================================================
