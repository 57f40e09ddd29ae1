CONSTANTS
  kPacketThreshold = 3
  Word = 4096
  StreamSizes <- OneStream
  StreamWindow = 8
  ConnectionWindow = 8
  MaxPayload = 2
  HeaderSize = 1
  LongHeaderSize = 1
  MinPacketSize = 1
  PoppedSize = 0
  MaxDataLosses = 3
  MaxAckLosses = 0
  MaxEarlyTimeouts = 1
  AddedSizes <- OneAdded
SPECIFICATION FairSpec
INVARIANT WindowNeverStarves
PROPERTY EventuallyClosed
CHECK_DEADLOCK FALSE
