SPECIFICATION CheckoutSpec
CONSTANTS
  Runs = {a, b}
  MaxRetained = 1
  MaxWorktrees = 1
  MaxReboots = 2
  MaxEdits = 1
  MaxFails = 1
  NoLock = NoLock
  Absent = Absent
PROPERTIES UnlockedOnlyByAcknowledgement
CHECK_DEADLOCK FALSE
