SPECIFICATION Spec
CONSTANTS
  PacketIds = {0, 1, 7, 8}
  Frames <- StreamFrames
  Unsolicited <- StreamPushes
  UserPackets <- NoPackets
  Answers <- MCAnswers
  MaxPacketSize = 5
  Capacity = 5
  NetCap = 5
  OutCap = 1
  MaxInstant = 1
  KeepAlives = {1}
  MaxHeld = 0
  UserOps = {"drop", "cancel_read", "reconnect"}
  Overflow = {}
INVARIANTS
  TypeOK
  StreamIsFramed
  CompletionMatchesFrame
PROPERTY
  ImplementsChannel
CHECK_DEADLOCK FALSE
