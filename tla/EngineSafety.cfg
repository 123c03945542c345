CONSTANTS
  ConfigReqs = {c1, c2}
  SmsSync = {s1}
  SmsAsync = {}
  ATH = ATH
  NoTask = NoTask
  InSms = {i1, i2}
  InCalls = {}
  NoId = NoId
  TextTokens = {}
  ClientThreads = 1
  EnvMessages = {}
  MaxReceived = 0
  MaxPending = 0
  MaxWire = 2
  DefaultConfig <- AllSettings
  Faults = {}
SPECIFICATION EngineSpec
INVARIANTS EngineTypeOK AnswerIsTrue SettingsInOrder SmsDeliveredInOrder DialogueInv SmsInv
SYMMETRY SmsSymmetry
CHECK_DEADLOCK FALSE
