CONSTANTS
  c1 = c1
  c2 = c2
  c3 = c3
  a = a
  b = b
  Conns = {c1, c2}
  Hosts = {a}
  HostOf <- OneHostOf
  IDs = {1,2,3,4,5,6,7,8,9}
  Repeats = FALSE
  MaxInitialLosses = 2
  MaxResponseLosses = 2
  MaxEarlyTimeouts = 0
SPECIFICATION FairSpec
CHECK_DEADLOCK FALSE
INVARIANT NeverFails
PROPERTY KeepsPeer
PROPERTY EventuallyDone
