---------------------------- MODULE MCBackupKeys -----------------------------
(* Instances of BackupKeys for TLC.                                         *)
EXTENDS BackupKeys
==============================================================================
