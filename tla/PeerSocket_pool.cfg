CONSTANTS
  EntriesRequests = {entries1}
  HashesRequests = {hashes1}
  ChunkRequests = {chunk1, chunk2}
  MaxSent = 2
  MaxSockets = 2
  NbHash = 2
  MaxIdle = 1
  MaxFaults = 2
  NoRequest = NoRequest
SPECIFICATION Spec
INVARIANTS TypeOK OneRequestPerSocket AnswersAwaited StreamsApart HashesConserved
CHECK_DEADLOCK FALSE
