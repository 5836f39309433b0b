\* Node 3 is a third party: it learns both directions of the link 1-2.
CONSTANTS
  Node <- MCNode
  Time <- MCTime
  Owlt <- MCOwlt
  NoRange = NoRange
  ScanSeesImputed = TRUE
  Me = 3
  MaxScan = 16
  MaxApplies = 3
  MaxEdits = 1
SPECIFICATION Spec
INVARIANTS
  NoRedundantImputed
  SuccessMeansHeld
  LossIsReported
  ApplyIsAtomic
PROPERTIES
  NoopRemovesNothingUnlessRaced
CHECK_DEADLOCK FALSE
