SPECIFICATION AllSpec
CONSTANTS
  MaxUserOps = 3
  MaxDrops = 3
  MaxRequests = 2
  MaxPushes = 1
  InitialMs = 1
  MaxMs = 3
  Factor = 2
  NoSocket = NoSocket
  NoTimer = NoTimer
  Capacity = 1
  Evicted = Evicted
  MaxGenerations = 2
  MaxEvents = 1
  HistoryEvents = 1
  MaxLosses = 1
  MaxFailures = 1
  MaxActivations = 1
  StartsAsDraft = TRUE
  Procs = {p, q}
  Connections = {k}
  MaxObjects = 2
  NoProc = NoProc
INVARIANTS NoOrphanSocket ProcessesAccountedFor
PROPERTIES RequestsArePromises EventuallyConnected EveryRequestSettles SubscriptionResolves
           PausedTerminalsFlow
CHECK_DEADLOCK FALSE
