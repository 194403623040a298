-------------------------- MODULE MCChunkTransfer --------------------------
(* Small instances of ChunkTransfer: the values of its constants.          *)
EXTENDS ChunkTransfer

CONSTANTS p1, p2

MCChunks == {1, 2}
(* Both chunks in one file, or one in each of two files. *)
OneFile  == [c \in MCChunks |-> 1]
TwoFiles == [c \in MCChunks |-> c]
MCPeers  == {p1, p2}
OnePeer  == {p1}
MCSource == [f \in Files |-> p1]
=============================================================================
