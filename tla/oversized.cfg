SPECIFICATION Spec
CONSTANTS
  PacketIds = {0, 1, 7, 8}
  Frames <- LongFrames
  Unsolicited <- LongPushes
  UserPackets <- NoPackets
  Answers <- MCAnswers
  MaxPacketSize = 4
  Capacity = 4
  NetCap = 7
  OutCap = 1
  MaxInstant = 1
  KeepAlives = {1}
  MaxHeld = 0
  UserOps = {}
  Overflow = {}
INVARIANTS
  OversizedStopsReading
CHECK_DEADLOCK FALSE
