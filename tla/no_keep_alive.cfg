SPECIFICATION FairSpec
CONSTANTS
  PacketIds = {0, 1, 7, 8}
  Frames <- OneFrames
  Unsolicited <- OnePush
  UserPackets <- NoPackets
  Answers <- MCAnswers
  MaxPacketSize = 6
  Capacity = 6
  NetCap = 6
  OutCap = 1
  MaxInstant = 1
  KeepAlives = {0}
  MaxHeld = 0
  UserOps = {}
  Overflow = {}
PROPERTIES
  FrameIsDelivered
CHECK_DEADLOCK FALSE
