CONSTANTS
  TicksPerDay = 2
  RetentionDays = 1
  BufferLines = 2
  Horizon <- MCHorizon
  MaxFull = 2
  Levels = {"OK", "WARN", "STALE"}
  Upper <- MCUpper
  BufferMax = 3
  MaxEvents = 4
  Readings = {0}
  Logs <- MCLogs
  RosoutDepth = 2
  MaxLogs = 2
SPECIFICATION Spec
INVARIANTS
  HistoryUnbroken
  TriggersAreKept
  YoungFilesKept
PROPERTIES
  FullDiskIsLoud
CHECK_DEADLOCK FALSE
