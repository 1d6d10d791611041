------------------------------ MODULE MCBackup ------------------------------
(***************************************************************************)
(* One subject key, segments of two events, two runs and one restore.      *)
(***************************************************************************)
EXTENDS BackupSafety, TLC

CONSTANT Key
=============================================================================
