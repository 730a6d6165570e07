CONSTANTS
  WheelSpeeds <- MCWheelSpeeds
  CmdVelTimeout = 1
  HeartbeatPeriod = 1
  WireCapacity = 1
  TicksPerPeriod = 2
  Lateness = 1
  Speeds <- MCSpeeds
  MaxSpeed = 100
  RampStep = 100
  HeartbeatTimeout = 6
  FaultDelay = 0
  TicksPerHandler = 1
  MaxLost = 1
SPECIFICATION LinkSpec
INVARIANTS
  LostLinkStops
  HealthyLinkNeverFaults
  SilenceStops
