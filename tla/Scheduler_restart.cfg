CONSTANTS
  t1 = t1  t2 = t2  t3 = t3  t4 = t4
  w1 = w1  w2 = w2  s1 = s1
  Tasks = {t1, t2, t3}
  Workers = {w1}
  Spares = {}
  Batches <- TwoRuns
  CommitNotifies = TRUE
  SpuriousWakeups = FALSE
  NoTask = NoTask
SPECIFICATION FairSpec
PROPERTY StartRuntimeReturns
CHECK_DEADLOCK FALSE
