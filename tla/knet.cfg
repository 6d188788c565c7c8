SPECIFICATION FairSpec
CONSTANTS
  p1 = p1
  p2 = p2
  em0 = em0
  tap0 = tap0
  a1 = a1
  a2 = a2
  gw = gw
  nas = nas
  cam = cam
  fib0 = fib0
  fib1 = fib1
  NoName = NoName
  NoFib = NoFib
  Procs = {p1, p2}
  Names = {em0, tap0}
  Index = {1, 2}
  Chunk = 2
  Flags = {"up", "promisc"}
  Caps = {"tso", "lro"}
  Able = {"tso"}
  Fibs = {fib0, fib1}
  MyFib = fib0
  Default = Default
  Hosts = {nas, cam}
  Pinned = {cam}
  Addrs = {a1, a2}
  Menu <- AllCalls
  MaxCalls <- Once
  Kernel0 <- Kernel
  Faults = {"socket", "ioctl", "sysctl"}
INVARIANTS   RoutesNamed
PROPERTIES OnlyStaleUndone 
CHECK_DEADLOCK FALSE
