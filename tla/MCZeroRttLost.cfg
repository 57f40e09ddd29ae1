CONSTANTS
  kPacketThreshold = 3
  Word = 4096
  StreamSizes <- TwoStreams
  StreamWindow = 12
  ConnectionWindow = 12
  MaxPayload = 4
  HeaderSize = 1
  LongHeaderSize = 2
  MinPacketSize = 2
  PoppedSize = 1
  MaxDataLosses = 1
  MaxAckLosses = 0
  MaxEarlyTimeouts = 0
  AddedSizes <- NoStreams
  Losable = {"long"}
SPECIFICATION ZeroRttSpec
INVARIANT NeverFails
CHECK_DEADLOCK FALSE
