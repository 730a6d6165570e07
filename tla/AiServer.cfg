CONSTANTS
  Adapters = {"conversational", "tool_use"}
  ToolNames = {"find"}
  MaxLatencies = 1
  Durations = {0}
  TopK = 2
  MinScore = 15
  MaxContextChars = 10
  MinRemainder = 2
  Callers = {"main", "a", "b"}
  Questions = {"flight", "chat"}
  About <- MCAbout
  Keywords <- MCKeywords
  Registered = {"find"}
  SessionIds = {"s"}
  Places = {""}
  NoPlace = ""
  MemorySize = 2
  SessionTimeout = 1
  MaxToolRounds = 1
  MaxTokens = 1
  Main = "main"
  DefaultAdapter = "conversational"
  PromptFile <- MCPromptFile
  SchemaFile <- MCSchemaFile
  Deployed <- MCDeployed
  Library <- MCLibrary
  MaxRequests = 2
SPECIFICATION Spec
INVARIANTS
  RightModel
  StreamsWellFormed
  AnsweredIsRemembered
  ContextStaysTrue
  ContextWithinBudget
PROPERTIES
  ImplementsConversation
  RequestsEnd
CHECK_DEADLOCK FALSE
