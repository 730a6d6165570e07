CONSTANTS
  Defaults <- MCDefaults
  Values <- MCValues
  RawScans <- MCRawScans
  angle_min <- MCAngleMin
  angle_increment = 60
SPECIFICATION ProcessorSpec
INVARIANTS
  NothingInvented
  OutsideIsBlank
  WallSeen
