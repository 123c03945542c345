CONSTANTS
  ConfigReqs = {c1}
  SmsSync = {}
  SmsAsync = {}
  ATH = ATH
  NoTask = NoTask
  InSms = {i1}
  InCalls = {n1}
  NoId = NoId
  TextTokens = {}
  ClientThreads = 1
  EnvMessages = {}
  MaxReceived = 0
  MaxPending = 0
  MaxWire = 2
  DefaultConfig <- AllSettings
  Faults = {"interleave"}
SPECIFICATION EngineSpec
INVARIANTS AnswerIsTrue
PROPERTIES RequestAnswered SmsMadeAvailable ShutdownEndsThread
CHECK_DEADLOCK FALSE
