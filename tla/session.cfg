SPECIFICATION FairSessionSpec
CONSTANTS
  PacketIds = {0, 1, 7, 8}
  Frames <- MCFrames
  Unsolicited <- MCUnsolicited
  UserPackets <- NoPackets
  Answers <- MCAnswers
  PubRelOf <- MCPubRelOf
  Backlog <- MCBacklog
  MaxPacketSize = 5
  Capacity = 5
  NetCap = 8
  OutCap = 1
  MaxInstant = 1
  KeepAlives = {1}
  MaxHeld = 0
  UserOps = {"drop", "cancel_read", "reconnect"}
  Overflow = {}
  MaxFaults = 2
INVARIANTS
  SessionTypeOK
  ShownBeforeForgotten
  RepeatsNeedFaults
  FirstShownInOrder
PROPERTIES
  ShownOnlyWhileOwed
  AllDelivered
CHECK_DEADLOCK FALSE
