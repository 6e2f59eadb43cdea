-------------------------- MODULE MCBackupStorage --------------------------
(* Backups of one user, of which one is retained, for TLC. *)
EXTENDS BackupStorage
=============================================================================
