SPECIFICATION FairSpec
CONSTANTS
  PacketIds = {0, 1, 7, 8}
  Frames <- LiveFrames
  Unsolicited <- LivePushes
  UserPackets <- NoPackets
  Answers <- MCAnswers
  MaxPacketSize = 6
  Capacity = 6
  NetCap = 9
  OutCap = 1
  MaxInstant = 1
  KeepAlives = {1}
  MaxHeld = 0
  UserOps = {"subscribe"}
  Overflow = {}
PROPERTIES
  FrameIsDelivered
  PingDueIsSent
  CloseIsNoticed
CHECK_DEADLOCK FALSE
