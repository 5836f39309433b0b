\* One signal while the process starts; ION never stops.
CONSTANTS
  NULL = NULL
  MaxSignals = 1
  MaxBundles = 0
  MaxOutages = 0
  MaxFaults = 0
SPECIFICATION FairSpec
PROPERTY SignalEndsTheProcess
CHECK_DEADLOCK FALSE
