SPECIFICATION AllSpec
CONSTANTS
  Stages = 2
  Branches = 3
  MaxIterations = 2
  MaxFills = 1
  MaxRestarts = 1
  Children = {c, d}
  MaxCrashes = 1
  MaxFaults = 2
  Runs = {a, b}
  MaxRetained = 2
  MaxWorktrees = 1
  MaxReboots = 2
  MaxEdits = 1
  MaxFails = 1
  NoLock = NoLock
  Absent = Absent
  Requests = {x, y}
  MaxLines = 1
INVARIANTS AllTypeOK OneWriterPerCheckout AppliedAsReviewed ReviewMatchesTree ParentIsRemembered
           NoLiveChildUnderTerminal CompletedIsEarned StopWins
           CheckoutIsOwned CleanupLeavesNothing DirectoriesAreRetryable ExitComesLast
PROPERTIES LocksAreReleased RecordIsAPromise StopEnds SiblingsStandTogether
           AnswersArePromises PiStopsInTime
CHECK_DEADLOCK FALSE
