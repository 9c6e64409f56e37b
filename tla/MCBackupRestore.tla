--------------------------- MODULE MCBackupRestore ---------------------------
(* Small instances of BackupRestore: commits are model values.              *)
EXTENDS BackupRestore

CONSTANT c1
=============================================================================
