CONSTANTS
  Adapters = {"conversational", "tool_use"}
  ToolNames = {"find"}
  MaxLatencies = 1
  Durations = {1, 9}
  Library <- MCLibrary
  TopK = 1
  MinScore = 0
  MaxContextChars = 0
  MinRemainder = 0
  Callers = {"node"}
  Questions = {"flight", "chat"}
  About <- MCAbout
  Keywords <- MCKeywords
  Registered = {"find"}
  SessionIds = {"default"}
  Places = {"", "b12"}
  NoPlace = ""
  MemorySize = 2
  SessionTimeout = 1
  MaxToolRounds = 2
  MaxTokens = 0
  DefaultAdapter = "conversational"
  DefaultSession = "default"
  TestQuestion = "flight"
  Warmup = TRUE
  LatencyWarn = 3
  LatencyError = 6
  QueueDepth = 1
  Messages <- MCMessages
  Installed <- MCInstalled
  Volatile <- MCVolatile
  MaxQuestions = 2
SPECIFICATION Spec
PROPERTIES
  ExpiredIsForgotten
  LostModelReported
  QuestionsEnd
