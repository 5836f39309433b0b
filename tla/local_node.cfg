\* Files of up to two lines, two connections, three messages and two graphs.
CONSTANTS
  Numeral = {"1", "7", "12200", "12161"}
  MAX_LINE_LENGTH = 12
  Room <- MCRoom
  MAX_PLANS = 2
  Own <- MCOwn
  OwnText = "own"
  NoRow = NoRow
  MaxConnects = 2
  Files <- MCFiles
  NoFile = NoFile
  Heard <- MCHeard
  MaxHeard = 3
  MaxGraphs = 2
SPECIFICATION Spec
INVARIANTS
  SettingsAsWritten
  ListensWhereItSendsUnlessRenamed
  GraphNamesEachNodeOnce
CHECK_DEADLOCK FALSE
