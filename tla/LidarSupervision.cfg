CONSTANTS
  ScanTimeout = 1
  DiagTimeout = 1
  WarnLimit = 1
  ScanHorizon = 4
  BootGrace = 0
  BootTimeout = 0
  Patience = 0
  HealthTimeout = 2
  MaxRecovery = 1
  ShutdownDelay = 0
SPECIFICATION JointSpec
INVARIANTS
  LostScansNoticed
CHECK_DEADLOCK FALSE
