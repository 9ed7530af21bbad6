SPECIFICATION FairSpec
CONSTANTS
  Commands = {c1}
  MaxLaunches = 3
  MaxExits = 1
  MaxFailures = 1
  MaxRefreshes = 1
  WithDelete = TRUE
  WithRollback = FALSE
  WithShutdown = TRUE
PROPERTIES PromptsSettle ClaimsAreReleased ShutdownEnds
CHECK_DEADLOCK FALSE
