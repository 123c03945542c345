SPECIFICATION LiveSpec
CONSTANTS
  InterestingLabels <- MCInteresting
  DayThreshold = 55
  NightThreshold = 35
  GapSeconds = 2
  MinNewFiles = 2
  BlockDuration = 3
  MaxLate = 2
  KeptDays = 2
  NoDir = NoDir
  Pictures <- MCPictures
  LastDay = 3
  MaxFiles = 3
  MaxPictures = 3
INVARIANTS CameraInv EventsAreBursts
PROPERTIES AlarmPromised MovementTold
CHECK_DEADLOCK FALSE
