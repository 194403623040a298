CONSTANTS
  p1 = p1
  p2 = p2
  NbFiles = 1
  Chunks <- MCChunks
  FileOf <- OneFile
  Peers <- MCPeers
  SourceOf <- MCSource
  Threads = {t1, t2}
  NbDownloader = 1
  MaxFailures = 2
  MaxStops = 0
  Disconnects = TRUE
  MaxConnections = 1
  NoPeer = NoPeer
  NoChunk = NoChunk
SPECIFICATION Spec
INVARIANT RunOwnsTransfer
 
CHECK_DEADLOCK FALSE
