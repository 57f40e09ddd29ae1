CONSTANTS
  MaxNumber = 5
  MaxReceived = 5
  Packets <- MCPackets
SPECIFICATION MCSpec
INVARIANT ServerTypeOK
INVARIANT WaitingAboveNext
INVARIANT QuietMeansReported
INVARIANT AckHasContent
INVARIANT ArrivedIsKept
PROPERTY NeverTakenBack
PROPERTY PoppedIsTheLoop
CHECK_DEADLOCK FALSE
