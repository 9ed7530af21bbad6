SPECIFICATION Spec
CONSTANTS
  Commands = {}
  MaxLaunches = 2
  MaxExits = 0
  MaxFailures = 0
  MaxRefreshes = 0
  WithDelete = FALSE
  WithRollback = TRUE
  WithShutdown = FALSE
INVARIANTS RollbackShowsTarget
CHECK_DEADLOCK FALSE
