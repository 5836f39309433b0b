\* One or two bundles along a chain of four nodes; the sizes are the code's.
CONSTANTS
  MAX_PLANS = 2
  Own <- MCOwn
  OwnText <- MCOwnText
  NoRow = NoRow
  MaxConnects = 2
  Chain <- MCChain
  Key = 7
  Hmac <- MCHmac
  Announced <- MCAnnounced
  Later <- MCLater
  Stray <- MCStray
  Nonce <- MCNonce
  Now <- MCNow
  DTNEX_PROTOCOL_VERSION = 3
  DTNEX_NONCE_SIZE = 3
  DTNEX_HMAC_SIZE = 8
  MAX_CBOR_BUFFER = 128
  MAX_NODE_NAME_LENGTH = 64
  MAX_CONTACT_INFO_LENGTH = 128
  MAX_LOCATION_LENGTH = 64
  MAX_LINE_LENGTH = 1024
  MaxBundles = 2
  MaxFaults = 2
SPECIFICATION Spec
INVARIANTS
  TypeOK
  CursorsInBuffer
  WalksAgree
  FitsUnlessTextsAreLong
  FirstReceiverGetsWhatWasMeant
  RelaysAgreeUnlessHalfPosition
  AcceptedIsSigned
  TableIsSound
PROPERTIES
  RefusedOnlyForCause
CHECK_DEADLOCK FALSE
