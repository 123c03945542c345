CONSTANTS
  ConfigReqs = {c1}
  SmsSync = {}
  SmsAsync = {}
  ATH = ATH
  NoTask = NoTask
  InSms = {i1, i2}
  InCalls = {}
  NoId = NoId
  TextTokens <- TextsSayOK
  ClientThreads = 1
  EnvMessages = {}
  MaxReceived = 0
  MaxPending = 0
  MaxWire = 2
  DefaultConfig <- AllSettings
  Faults = {}
SPECIFICATION EngineSpec
INVARIANTS SmsDeliveredInOrder
CHECK_DEADLOCK FALSE
