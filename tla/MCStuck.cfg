CONSTANTS
  kPacketThreshold = 3
  Word = 4096
  StreamSizes <- TwoStreams
  StreamWindow = 9
  ConnectionWindow = 9
  MaxPayload = 3
  HeaderSize = 1
  LongHeaderSize = 1
  MinPacketSize = 2
  PoppedSize = 1
  MaxDataLosses = 1
  MaxAckLosses = 1
  MaxEarlyTimeouts = 0
  AddedSizes <- NoStreams
SPECIFICATION FairSpec
PROPERTY EventuallyClosed
CHECK_DEADLOCK FALSE
