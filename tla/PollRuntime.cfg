CONSTANTS
  t1 = t1  t2 = t2  t3 = t3
  Tasks = {t1, t2, t3}
  Submitted = {t1, t2}
  Readers = {t1, t3}
  Blockers = {t2, t3}
  MaxWorkers = 2
  MaxThreads = 2
  NoTask = NoTask
SPECIFICATION FairSpec
INVARIANTS TypeOK ShutdownMeansDone
PROPERTIES RunnableRuns ReadersWake WorkersLeave
CHECK_DEADLOCK FALSE
