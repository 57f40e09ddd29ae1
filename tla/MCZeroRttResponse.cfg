CONSTANTS
  kPacketThreshold = 3
  Word = 4096
  StreamSizes <- TwoStreams
  StreamWindow = 12
  ConnectionWindow = 12
  MaxPayload = 4
  HeaderSize = 1
  LongHeaderSize = 2
  MinPacketSize = 2
  PoppedSize = 1
  MaxDataLosses = 0
  MaxAckLosses = 1
  MaxEarlyTimeouts = 0
  AddedSizes <- NoStreams
  Losable = {"response"}
SPECIFICATION ZeroRttSpec
INVARIANT HandshakeIsRetried
CHECK_DEADLOCK FALSE
