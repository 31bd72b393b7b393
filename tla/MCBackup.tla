------------------------------ MODULE MCBackup ------------------------------
(* Instances of Backup for TLC: the runs are interchangeable.                *)
EXTENDS Backup, TLC

Symmetry == Permutations(Runs)
=============================================================================
