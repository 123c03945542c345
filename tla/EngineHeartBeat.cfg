CONSTANTS
  ConfigReqs = {}
  SmsSync = {}
  SmsAsync = {}
  ATH = ATH
  NoTask = NoTask
  InSms = {i1}
  InCalls = {}
  NoId = NoId
  TextTokens = {}
  ClientThreads = 1
  EnvMessages = {}
  MaxReceived = 0
  MaxPending = 0
  MaxWire = 2
  DefaultConfig <- AllSettings
  Faults = {}
SPECIFICATION EngineSpec
PROPERTIES AnsweringModemKeepsEngine
CHECK_DEADLOCK FALSE
