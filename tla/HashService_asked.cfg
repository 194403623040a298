CONSTANTS
  film = film
  song = song
  Files = {film, song}
  Roots = {1}
  RootOf <- MCRootOf
  NbChunk <- MCNbChunk
  Requests = {r1, r2}
  NoFile = NoFile
  NoRoot = NoRoot
  MaxFaults = 1
SPECIFICATION FairSpec
INVARIANTS TypeOK QueuedOnce NoHashMissed
PROPERTIES EachGetsItsTurn RemovalEnds
CHECK_DEADLOCK FALSE
