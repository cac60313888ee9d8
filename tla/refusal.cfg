SPECIFICATION Spec
CONSTANTS
  PacketIds = {0, 1, 7, 8}
  Frames <- OneFrames
  Unsolicited <- NoPush
  UserPackets <- NoPackets
  Answers <- MCAnswers
  MaxPacketSize = 4
  Capacity = 4
  NetCap = 3
  OutCap = 1
  MaxInstant = 1
  KeepAlives = {1}
  MaxHeld = 0
  UserOps = {}
  Overflow = {}
INVARIANTS
  RefusalIsReturned
CHECK_DEADLOCK FALSE
