------------------------------ MODULE MCBackup ------------------------------
(* Model values for the backup: the requests are interchangeable. *)
EXTENDS Backup, TLC

Symmetry == Permutations(Requests)
=============================================================================
