\* Two receivers learn the same three announcements in any two orders.
CONSTANTS
  Node <- MCNode
  Time <- MCTime
  Owlt <- MCOwlt
  NoRange = NoRange
  ScanSeesImputed = FALSE
  Receiver <- MCReceiver
  MaxRecords = 3
SPECIFICATION OrderSpec
INVARIANTS
  OrderIndependent
CHECK_DEADLOCK FALSE
