CONSTANTS
  kPacketThreshold = 3
  Word = 4096
  StreamSizes <- TwoStreams
  StreamWindow = 12
  ConnectionWindow = 12
  MaxPayload = 4
  HeaderSize = 1
  LongHeaderSize = 2
  MinPacketSize = 2
  PoppedSize = 1
  MaxDataLosses = 3
  MaxAckLosses = 3
  MaxEarlyTimeouts = 0
  AddedSizes <- NoStreams
  Losable = {"initial", "ack"}
SPECIFICATION ZeroRttFairSpec
INVARIANT NeverFails
INVARIANT FlightMatchesData
INVARIANT CreditConserved
INVARIANT HandshakeIsRetried
PROPERTY SendsWithinWindow
PROPERTY ImplementsDelivery
PROPERTY EventuallyClosed
CHECK_DEADLOCK FALSE
