CONSTANTS
  c1 = c1
  c2 = c2
  c3 = c3
  a = a
  b = b
  Conns = {c1, c2, c3}
  Hosts = {a, b}
  HostOf <- ThreeHostOf
  IDs = {1,2,3}
  Repeats = TRUE
  MaxInitialLosses = 0
  MaxResponseLosses = 0
  MaxEarlyTimeouts = 1
SPECIFICATION Spec
CHECK_DEADLOCK FALSE
INVARIANT IDsDistinct
INVARIANT Paired
PROPERTY StopsWithTheLast
