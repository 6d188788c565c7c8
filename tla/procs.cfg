SPECIFICATION FairSpec
CONSTANTS
  a = a
  b = b
  c = c
  Jails = {a, b, c}
  Pids = {1, 2, 3, 4}
  None = None
  Other = Other
  Script <- Scripts
  Inside <- Daemons
  Limit = 2
  StopLimit = 1
INVARIANTS Counted EndsAreTold TermBounded SleepInOrder
PROPERTIES LimitsHold
CHECK_DEADLOCK FALSE
