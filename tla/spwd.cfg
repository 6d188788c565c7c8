SPECIFICATION Spec
CONSTANTS
  p1 = p1
  p2 = p2
  root = root
  ann = ann
  bob = bob
  NoName = NoName
  Procs = {p1, p2}
  Names = {root, ann, bob}
  UidMax = 5
  Start = 2
  Last = 7
  Users0 <- Two
  Menu <- Calls
  MaxCalls <- Few
  Faults = {"read", "write", "crash"}
INVARIANTS IndexesAgree  
PROPERTIES ChangesList
CHECK_DEADLOCK FALSE
