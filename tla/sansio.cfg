SPECIFICATION Spec
CONSTANTS
  PacketIds = {0}
  Frames <- MCFrames
  KeepAlives <- MCKeepAlives
  MaxPacketSize = 4
  MaxInstant = 5
INVARIANTS
  TypeOK
  ConnAckOpensSession
  PingDeadline
  NothingAfterTheEnd
