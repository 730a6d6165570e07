CONSTANTS
  SensorTimeout = 4
  Sleep = 2
  TofTime = 1
  UsAnswers <- MCAnswers
  UsTimeouts <- MCTimeouts
  CALIBRATION_SAMPLES = 2
  FreshBound = 7
  Threads <- MCThreads
SPECIFICATION FairSpec
INVARIANTS
  ConfidentIsFresh
PROPERTIES
  StateFollowsSensors
