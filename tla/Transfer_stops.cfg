CONSTANTS
  p1 = p1
  p2 = p2
  NbFiles = 1
  Chunks <- MCChunks
  FileOf <- OneFile
  Peers <- MCPeers
  SourceOf <- MCSource
  Threads = {t1, t2}
  NbDownloader = 2
  MaxFailures = 1
  MaxStops = 1
  Disconnects = TRUE
  MaxConnections = 1
  NoPeer = NoPeer
  NoChunk = NoChunk
SPECIFICATION Spec
INVARIANTS TypeOK OneTransferPerPeer  StartFindsPeer 
CHECK_DEADLOCK FALSE
