\* Two records round a triangle with a cache of one nonce, and one fault.
CONSTANTS
  Node <- MCNode
  Record = {"r", "s"}
  Plans <- Triangle
  Own <- TwoRecords
  Discards <- OneRefusal
  Nonce <- MCNonce
  NonceOf <- MCNonceOf
  MaxCache = 1
  MaxFaults = 1
  MaxAccepts = 4
SPECIFICATION Spec
INVARIANTS
  TypeOK
  AppliedIsAnnounced
  AcceptedAgainOnlyAfterEviction
CHECK_DEADLOCK FALSE
