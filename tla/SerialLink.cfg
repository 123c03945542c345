SPECIFICATION LiveSpec
CONSTANTS
  CR = CR
  LF = LF
  a = a
  b = b
  prompt = prompt
  cmd = cmd
  sub = sub
  Byte <- MCByte
  Talks <- MCTalks
  Commands <- MCCommands
  k_bufferSize = 2
  k_maxPendingMessageSize = 4
  InCap = 3
  OutCap = 2
INVARIANT LinkInv
INVARIANT MessagesWhole
INVARIANT WireInOrder
PROPERTY AnswersNotDropped
PROPERTY StopEnds
PROPERTY EverythingArrives
CHECK_DEADLOCK FALSE
