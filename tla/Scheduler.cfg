CONSTANTS
  t1 = t1  t2 = t2  t3 = t3  t4 = t4
  w1 = w1  w2 = w2  s1 = s1
  Tasks = {t1, t2, t3, t4}
  Workers = {w1, w2}
  Spares = {s1}
  Batches <- TwoRuns
  CommitNotifies = FALSE
  SpuriousWakeups = TRUE
  NoTask = NoTask
SPECIFICATION FairSpec
INVARIANTS TypeOK OnePlace OneWakeEach NoStrandedWork ShutdownMeansDone
PROPERTIES ImplementsContract RunnableRuns RegisteredWorkersLeave
CHECK_DEADLOCK FALSE
