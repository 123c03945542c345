CONSTANTS
  ConfigReqs = {c1}
  SmsSync = {s1}
  SmsAsync = {a1}
  ATH = ATH
  NoTask = NoTask
  InSms = {i1}
  InCalls = {n1}
  NoId = NoId
  TextTokens = {}
  ClientThreads = 1
  EnvMessages <- MCMessages
  MaxReceived = 2
  MaxPending = 1
  MaxWire = 1
SPECIFICATION Spec
INVARIANTS TypeOK WakeFindsMessage NoRequestLost IInv
PROPERTIES PromiseSetOnce ConfigServedInOrder SmsServedInOrder
CHECK_DEADLOCK FALSE
