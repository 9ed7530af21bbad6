SPECIFICATION Spec
CONSTANTS
  Commands = {}
  MaxLaunches = 2
  MaxExits = 0
  MaxFailures = 0
  MaxRefreshes = 1
  WithDelete = TRUE
  WithRollback = FALSE
  WithShutdown = FALSE
INVARIANTS DeletedStaysDeleted
CHECK_DEADLOCK FALSE
