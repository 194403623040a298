--------------------------- MODULE MCHashService ---------------------------
(* Small instances of HashService: the values of its constants.            *)
EXTENDS HashService

CONSTANTS film, song

MCRootOf  == [f \in Files |-> CHOOSE root \in Roots : TRUE]
MCNbChunk == [f \in Files |-> IF f = film THEN 2 ELSE 1]
=============================================================================
