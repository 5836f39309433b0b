\* Node 2 learns the contacts from node 1; its operator, ION and ipnd write too.
CONSTANTS
  Node <- MCNode
  Region = {1, 2}
  Home = {1}
  Time <- MCTime
  Rate = {7}
  Confidence <- MCConfidence
  Hundredth = {50, 51}
  NoContact = NoContact
  NoCall = NoCall
  Me = 2
  Current <- OneRecord
  MaxEdits = 2
  MaxStale = 1
  MaxFaults = 1
SPECIFICATION FairSpec
INVARIANT TypeOK
PROPERTIES
  ImplementsPromise
  NoChurn
  Heals
CHECK_DEADLOCK FALSE
