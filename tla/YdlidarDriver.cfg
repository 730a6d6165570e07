CONSTANTS
  WindowSize = 3
  FailureLimit = 2
  ReconnectThreshold = 3
  MaxRetries = 2
  FreqWarn = 80
  FreqError = 50
  InvalidWarn = 50
  InvalidError = 80
  Scans <- MCScans
SPECIFICATION FairSpec
INVARIANTS
  AdapterDiscipline
  NeverStranded
PROPERTIES
  RecoversByItself
  DeadDeviceReported
CHECK_DEADLOCK FALSE
