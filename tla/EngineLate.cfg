CONSTANTS
  ConfigReqs = {c1, c2}
  SmsSync = {}
  SmsAsync = {}
  ATH = ATH
  NoTask = NoTask
  InSms = {}
  InCalls = {}
  NoId = NoId
  TextTokens = {}
  ClientThreads = 1
  EnvMessages = {}
  MaxReceived = 0
  MaxPending = 0
  MaxWire = 2
  DefaultConfig <- NoSettings
  Faults = {"late"}
SPECIFICATION EngineSpec
INVARIANTS SuccessIsTrue
CHECK_DEADLOCK FALSE
