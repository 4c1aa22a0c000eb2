CONSTANTS
  Threads = {main}
  Main = main
  t1 = t1
  t2 = t2
  t3 = t3
  f1 = f1
  f2 = f2
  Tasks = {t1, t2}
  Roots = {t1, t2}
  Fds = {}
  UsesFd <- NoFd
  Ops <- OnlySleep
  Delays = {1}
  MaxEvents = 1
  MaxDepth = 1
  MaxOps = 1
  None = None
SPECIFICATION Spec
INVARIANTS
  NoOrphan
