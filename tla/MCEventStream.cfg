SPECIFICATION RendererSpec
CONSTANTS
  Capacity = 1
  Evicted = Evicted
  MaxGenerations = 3
  MaxEvents = 3
  HistoryEvents = 1
  MaxDrops = 1
  MaxFailures = 1
  MaxActivations = 1
  StartsAsDraft = FALSE
  Chats = {a, b}
  Unrestored = {}
  Restores = {r, s}
  MaxEdits = 2
  MaxOutages = 1
INVARIANTS RendererTypeOK SettledShowsOneStream ClaimIsHonest NothingMissed QuitLosesNothing
PROPERTIES SettledViewGrows
CHECK_DEADLOCK FALSE
