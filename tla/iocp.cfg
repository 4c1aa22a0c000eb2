CONSTANTS
  Main = main
  w1 = w1
  w2 = w2
  Workers = {w1, w2}
  t1 = t1
  t2 = t2
  Tasks = {t1, t2}
  Programs <- AllPrograms
  Size = 2
  MaxOps = 2
  MaxIssues = 3
  None = None
SPECIFICATION FairIocpSpec
INVARIANTS
  CompletionFindsFrame
  WaitingIsAnswered
  ReportedIsTransferred
  ShutdownChain
PROPERTIES
  IocpCompletes
CHECK_DEADLOCK FALSE
