SPECIFICATION DraftSpec
CONSTANTS
  Chats = {a, b}
  Unrestored = {a}
  Restores = {r}
  MaxEdits = 2
  MaxOutages = 0
INVARIANTS EditsSurvive
CHECK_DEADLOCK FALSE
