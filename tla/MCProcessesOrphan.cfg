SPECIFICATION ProcSpec
CONSTANTS
  Procs = {p}
  Connections = {k}
  MaxObjects = 2
  NoProc = NoProc
INVARIANTS NothingOutlivesItsSession
CHECK_DEADLOCK FALSE
