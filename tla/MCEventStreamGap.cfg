SPECIFICATION Spec
CONSTANTS
  Capacity = 1
  Evicted = Evicted
  MaxGenerations = 1
  MaxEvents = 2
  HistoryEvents = 1
  MaxDrops = 1
  MaxFailures = 0
  MaxActivations = 0
  StartsAsDraft = TRUE
INVARIANTS NothingMissed
CHECK_DEADLOCK FALSE
