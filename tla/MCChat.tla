-------------------------------- MODULE MCChat --------------------------------
(* Small instances of Chat: the names of its peers and of its rooms.       *)
EXTENDS Chat

CONSTANTS p1, p2, r1
=============================================================================
