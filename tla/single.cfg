CONSTANTS
  Threads = {main}
  Main = main
  t1 = t1
  t2 = t2
  t3 = t3
  f1 = f1
  f2 = f2
  Tasks = {t1, t2}
  Roots = {t1}
  Fds = {f1, f2}
  UsesFd <- SharedFd
  Ops <- AllButGet
  Delays = {1, 2}
  MaxEvents = 1
  MaxDepth = 2
  MaxOps = 2
  None = None
SPECIFICATION FairSpec
INVARIANTS
  OneToken
  NoLostWakeup
  NoDanglingOverlapped
PROPERTIES
  SleepNotShort
  LossIsExplained
  ImplementsTaskPool
  Completes
