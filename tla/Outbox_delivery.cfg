\* Two processes, two events, a configuration edit at any point.
SPECIFICATION Spec
CONSTANTS
  p1 = p1
  p2 = p2
  s1 = s1
  s2 = s2
  NoSnapshot = NoSnapshot
  NoProc = NoProc
  Procs = {p1, p2}
  Snapshots = {s1, s2}
  MaxAttempts = 1
  MaxRows = 2
  MaxEdits = 2
INVARIANTS
  OutboxInv
  NothingOvertakes
  DiffOnCursor
  CursorIsLastAck
PROPERTIES
  EndedForever
CHECK_DEADLOCK FALSE
SYMMETRY ProcessSymmetry
