SPECIFICATION Spec
CONSTANTS
  Commands = {c1}
  MaxLaunches = 3
  MaxExits = 1
  MaxFailures = 1
  MaxRefreshes = 1
  WithDelete = TRUE
  WithRollback = TRUE
  WithShutdown = FALSE
INVARIANTS TypeOK OneProcess NoOrphanProcess NoPromptLostToIdlePark
PROPERTIES WakeKeepsSession DeleteLeavesNothing
CHECK_DEADLOCK FALSE
