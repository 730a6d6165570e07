CONSTANTS
  Speeds <- MCTwoSpeeds
  MaxSpeed = 2
  RampStep = 1
  HeartbeatTimeout = 2
  FaultDelay = 1
  TicksPerHandler = 1
SPECIFICATION Spec
PROPERTIES
  ResetClearsStop
