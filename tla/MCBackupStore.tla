--------------------------- MODULE MCBackupStore ----------------------------
(* At most one snapshot and two manual backups are kept. *)
EXTENDS BackupStore

MCLimit(t) == IF t = "snapshot" THEN 1 ELSE 2
=============================================================================
