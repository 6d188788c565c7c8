SPECIFICATION FairSpec
CONSTANTS
  p1 = p1
  p2 = p2
  p3 = p3
  Procs = {p1, p2}
  Sems = {1, 2, 3}
  Objects = {11, 12, 13}
  None = None
  Messages = {"m", "n"}
  Blank = "blank"
  May <- Anything
  MaxCalls <- Few
  MaxFds = 2
  Faults = {"crash", "signal", "memory"}
INVARIANTS OneWriter WholeAtRest
PROPERTIES WaitersServed
CHECK_DEADLOCK FALSE
