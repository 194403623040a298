CONSTANTS
  p1 = p1
  p2 = p2
  NbFiles = 2
  Chunks <- MCChunks
  FileOf <- TwoFiles
  Peers <- OnePeer
  SourceOf <- MCSource
  Threads = {t1, t2}
  NbDownloader = 1
  MaxFailures = 1
  MaxStops = 1
  Disconnects = TRUE
  MaxConnections = 1
  NoPeer = NoPeer
  NoChunk = NoChunk
SPECIFICATION FairSpec
PROPERTIES  StopEnds TransferEnds
CHECK_DEADLOCK FALSE
