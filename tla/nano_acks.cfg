SPECIFICATION Spec
CONSTANTS
  PacketIds = {0, 1, 7, 8}
  Frames <- AckFrames
  Unsolicited <- AckPushes
  UserPackets <- UserAcks
  Answers <- MCAnswers
  MaxPacketSize = 4
  Capacity = 4
  NetCap = 4
  OutCap = 1
  MaxInstant = 1
  KeepAlives = {0, 1}
  MaxHeld = 0
  UserOps = {"cancel_read", "no_action", "no_pub_ack", "with_action", "send", "reconnect", "subscribe"}
  Overflow = {"Publish", "PubAck", "Subscribe"}
INVARIANTS
  AckCoversFrame
  TornOnlyWhileClosing
  ConnectIsFirst
CHECK_DEADLOCK FALSE
