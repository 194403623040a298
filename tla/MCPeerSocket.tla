---------------------------- MODULE MCPeerSocket ----------------------------
(* Small instances of PeerSocket: the requests of the client.              *)
EXTENDS PeerSocket
=============================================================================
