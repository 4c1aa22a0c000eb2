CONSTANTS
  Threads = {main, w1}
  Main = main
  t1 = t1
  t2 = t2
  t3 = t3
  f1 = f1
  f2 = f2
  Tasks = {t1}
  Roots = {t1}
  Fds = {f1}
  UsesFd <- SharedFd
  Ops <- AllButGet
  Delays = {1}
  MaxEvents = 1
  MaxDepth = 2
  MaxOps = 2
  None = None
SPECIFICATION FairSpec
INVARIANTS
  SafetyInv
  NoLostWakeup
PROPERTIES
  ImplementsTaskPool
  Completes
CHECK_DEADLOCK FALSE
