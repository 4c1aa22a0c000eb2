CONSTANTS
  Threads = {main, w1}
  Main = main
  t1 = t1
  t2 = t2
  t3 = t3
  f1 = f1
  f2 = f2
  Tasks = {t1, t2, t3}
  Roots = {t1, t2}
  Fds = {}
  UsesFd <- NoFd
  Ops <- ComputeOnly
  Delays = {}
  MaxEvents = 1
  MaxDepth = 2
  MaxOps = 1
  None = None
SPECIFICATION FairSpec
INVARIANTS
  OneToken
  NoConcurrentResume
  WaitForAllComplete
PROPERTIES
  Completes
CHECK_DEADLOCK FALSE
