---------------------------- MODULE MCFileStatus ----------------------------
(* Small instances of FileStatus: the values of its constants.  One peer   *)
(* is the source of all.                                                   *)
EXTENDS FileStatus

CONSTANTS film, song, tune, memo, album, folder, p1

MCOrder    == SelectSeq(<<album, song, tune, memo, film, folder>>, LAMBDA d : d \in Downloads)
MCSource   == [d \in Downloads |-> p1]
MCNbChunk  == [f \in Files |-> CASE f = film -> 2 [] f = memo -> 0 [] OTHER -> 1]
MCChildren == [d \in Dirs |-> IF d = album /\ song \in Files THEN <<song>> ELSE <<>>]
MCTogether ==
  {{film, folder}, {song, tune}, {song, album}, {memo}, {album, folder}} \cap SUBSET Downloads
=============================================================================
