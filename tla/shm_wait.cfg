SPECIFICATION FairSpec
CONSTANTS
  p1 = p1
  p2 = p2
  p3 = p3
  Procs = {p1, p2, p3}
  Sems = {1, 2, 3}
  Objects = {11, 12, 13}
  None = None
  Messages = {"m"}
  Blank = "blank"
  May <- OneCloses
  MaxCalls <- Two
  MaxFds = 4
  Faults = {}
PROPERTIES WriteReturns
CHECK_DEADLOCK FALSE
