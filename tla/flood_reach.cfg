\* A diamond of four nodes, one record, one fault anywhere.
CONSTANTS
  Node <- MCNode
  Record = {"r"}
  Plans <- Diamond
  Own <- OneSource
  Discards = {}
  Nonce <- MCNonce
  NonceOf <- MCNonceOf
  MaxCache = 2
  MaxFaults = 1
  MaxAccepts = 4
SPECIFICATION FairSpec
INVARIANT AcceptedOnce
PROPERTIES
  EveryoneLearns
  Quiesces
CHECK_DEADLOCK FALSE
