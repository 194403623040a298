CONSTANTS
  NbChunk = 2
  Buffers = 2
  Uploads = {u1}
  NoThread = NoThread
  Updater = Updater
  Main = Main
  MaxFaults = 1
SPECIFICATION Spec
INVARIANTS TypeOK HandlesOwned  CompletedByLast
CHECK_DEADLOCK FALSE
