SPECIFICATION Spec
CONSTANTS
  PacketIds = {0, 1, 7, 8}
  Frames <- LooseFrames
  Unsolicited <- LoosePush
  UserPackets <- NoPackets
  Answers <- WelcomingAnswers
  MaxPacketSize = 3
  Capacity = 3
  NetCap = 2
  OutCap = 1
  MaxInstant = 1
  KeepAlives = {1}
  MaxHeld = 1
  UserOps = {"cancel_read", "cancel_write", "rewrap", "reconnect", "subscribe"}
  Overflow = {"Connect", "Subscribe"}
INVARIANTS
  ReturnMatchesState
CHECK_DEADLOCK FALSE
