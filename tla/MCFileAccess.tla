---------------------------- MODULE MCFileAccess ----------------------------
(* Small instances of FileAccess: the sizes are in the configurations.     *)
EXTENDS FileAccess
=============================================================================
