SPECIFICATION FairSpec
CONSTANTS
  Files <- AllFiles
  Arguments <- Args
  Numbers <- Seven
  Bare <- Addr
  Looked <- Host
  Lines <- Table
  MaxOptions = 3
INVARIANTS FailsRightly Expands FileOrOptions  CopiedOnce
PROPERTIES LoadEnds
CHECK_DEADLOCK FALSE
