SPECIFICATION FairSpec
CONSTANTS
  Conn = {c1, c2, c3, c4}
  NoConn = NoConn
  MaxClients = 2
INVARIANTS
  ClientLimit
  SlotsExact
  WaitGroupExact
  NothingAfterStop
PROPERTIES
  StopEnds
  SlotsComeBack
