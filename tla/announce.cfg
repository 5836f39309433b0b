\* One node, two changes of its configuration and one failure.
CONSTANTS
  Me = 1
  Entry = {1, 2, 3, 4}
  Of <- MCOf
  Configured = {1, 2, 3, 4}
  Neighbour = {1, 2}
  Planned = {1, 2}
  Interval = 3
  Wake = 2
  TTL = 2
  PlanTTL = 2
  Lag = 1
  MaxRecords = 1
  MaxPlans = 2
  MaxTime = 8
  MaxEdits = 2
  MaxFaults = 1
SPECIFICATION Spec
INVARIANT InformedInTime
PROPERTIES
  ExchangeHasCause
  NothingLongGone
CHECK_DEADLOCK FALSE
