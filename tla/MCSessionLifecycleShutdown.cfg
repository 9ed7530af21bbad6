SPECIFICATION Spec
CONSTANTS
  Commands = {c1}
  MaxLaunches = 2
  MaxExits = 0
  MaxFailures = 0
  MaxRefreshes = 0
  WithDelete = FALSE
  WithRollback = FALSE
  WithShutdown = TRUE
INVARIANTS NoProcessSurvivesShutdown
CHECK_DEADLOCK FALSE
