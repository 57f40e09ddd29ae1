CONSTANTS
  Objects = {o1, o2}
  o1 = o1
  o2 = o2
  MaxChanges = 3
  MaxLength = 2
  MaxNumber = 10
  Reports <- SmallReports
SPECIFICATION Spec
INVARIANT OwnsItsBlock
INVARIANT RoundTrip
INVARIANT ArrayFits
PROPERTY BehavesLikeValues
CHECK_DEADLOCK FALSE
