\* Two signals, one stop of ION, one bundle and one failing call, anywhere.
CONSTANTS
  NULL = NULL
  MaxSignals = 2
  MaxBundles = 1
  MaxOutages = 1
  MaxFaults = 1
SPECIFICATION FairSpec
INVARIANTS
  TeardownIsOutsideUnlessReplaced
  NobodyIsStranded
PROPERTIES
  SignalEndsTheProcessUnlessRaced
  Reattaches
CHECK_DEADLOCK FALSE
