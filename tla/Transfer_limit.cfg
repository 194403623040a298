CONSTANTS
  p1 = p1
  p2 = p2
  NbFiles = 1
  Chunks <- MCChunks
  FileOf <- OneFile
  Peers <- MCPeers
  SourceOf <- MCSource
  Threads = {t1, t2}
  NbDownloader = 1
  MaxFailures = 0
  MaxStops = 0
  Disconnects = FALSE
  MaxConnections = 3
  NoPeer = NoPeer
  NoChunk = NoChunk
SPECIFICATION Spec
INVARIANT LimitKept
CHECK_DEADLOCK FALSE
