CONSTANTS
  film = film
  song = song
  tune = tune
  memo = memo
  album = album
  folder = folder
  p1 = p1
  Files = {film, song, tune, memo}
  Dirs = {album, folder}
  Order <- MCOrder
  NbChunk <- MCNbChunk
  Children <- MCChildren
  Peers = {p1}
  SourceOf <- MCSource
  NoDownload = NoDownload
  Together <- MCTogether
  MaxListed = 2
SPECIFICATION Spec
INVARIANTS TypeOK RequestsHoldPeers CompleteHasAll ErroneousIsRetried
CHECK_DEADLOCK FALSE
