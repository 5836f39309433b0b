\* Two receivers learn the same three announcements in any two orders.
CONSTANTS
  Node <- MCNode
  Time <- MCTime
  Owlt <- MCOwlt
  NoRange = NoRange
  ScanSeesImputed = TRUE
  Receiver <- MCReceiver
  MaxRecords = 3
SPECIFICATION OrderSpec
INVARIANTS
  CanonicalIndependent
  OrderIndependentWhereAsserted
CHECK_DEADLOCK FALSE
