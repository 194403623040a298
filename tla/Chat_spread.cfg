CONSTANTS
  p1 = p1
  p2 = p2
  r1 = r1
  Main = Main
  Peers = {p1, p2}
  Rooms = {r1}
  Limits = {1, 2}
  Number = 2
  Fit = 1
  DiskMayFill = FALSE
  NbMessages = 2
  MaxTime = 2
  MaxDatagrams = 1
  MaxEvents = 2
  Savers = {p1}
SPECIFICATION FairSpec
INVARIANTS TypeOK 
PROPERTIES MessagesSpread
CHECK_DEADLOCK FALSE
