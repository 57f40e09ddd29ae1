CONSTANTS
  kPacketThreshold = 3
  Word = 4096
  StreamSizes <- TwoStreams
  StreamWindow = 9
  ConnectionWindow = 9
  MaxPayload = 3
  HeaderSize = 1
  LongHeaderSize = 1
  MinPacketSize = 2
  PoppedSize = 1
  MaxDataLosses = 1
  MaxAckLosses = 1
  MaxEarlyTimeouts = 2
  AddedSizes <- NoStreams
SPECIFICATION Spec
INVARIANT BytesConserved
INVARIANT FlightMatchesQueue
INVARIANT CreditConserved
INVARIANT UnaBehindMax
INVARIANT TimersAreQueued
INVARIANT NumbersNameOnePacket
PROPERTY ImplementsDelivery
PROPERTY ImplementsRetransmission
INVARIANT InOrderArrived
INVARIANT ClosedIsComplete
PROPERTY SendsWithinWindow
INVARIANT NeverFails
CHECK_DEADLOCK FALSE
