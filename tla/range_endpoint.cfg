\* Node 2 is an endpoint: it learns 1 to 2, its operator writes both directions.
CONSTANTS
  Node <- MCNode
  Time <- MCTime
  Owlt <- MCOwlt
  NoRange = NoRange
  ScanSeesImputed = TRUE
  Me = 2
  MaxScan = 16
  MaxApplies = 2
  MaxEdits = 2
SPECIFICATION Spec
INVARIANTS
  TypeOK
  AnnouncesOnlyConfigured
  OtherAssertionsKept
PROPERTY OwnRangesUntouchedUnlessRaced
CHECK_DEADLOCK FALSE
