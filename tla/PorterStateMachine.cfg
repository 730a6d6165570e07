CONSTANTS
  BootGrace = 1
  BootTimeout = 3
  Patience = 2
  HealthTimeout = 3
  MaxRecovery = 2
  ShutdownDelay = 1
SPECIFICATION FairSpec
INVARIANTS
  OperationalIsFresh
  OperationalNeedsOK
PROPERTIES
  SupervisorSpec
  SilenceEndsInError
  ShutdownEnds
CHECK_DEADLOCK FALSE
