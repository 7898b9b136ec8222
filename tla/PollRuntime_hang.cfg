CONSTANTS
  t1 = t1  t2 = t2  t3 = t3
  Tasks = {t1, t2}
  Submitted = {t1, t2}
  Readers = {t1}
  Blockers = {}
  MaxWorkers = 2
  MaxThreads = 2
  NoTask = NoTask
SPECIFICATION FairSpec
PROPERTY StartRuntimeReturns
CHECK_DEADLOCK FALSE
