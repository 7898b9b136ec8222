CONSTANTS
  t1 = t1  t2 = t2  t3 = t3
  w1 = w1  w2 = w2  s1 = s1
  Tasks = {t1, t2, t3}
  Workers = {w1}
  Spares = {s1}
  Batches <- AllTasks
  CommitNotifies = FALSE
  SpuriousWakeups = TRUE
  NoTask = NoTask
  Sleepers = {t1, t2}
  Readers = {t2}
  Yielders = {t3}
  Blockers = {t3}
  OneShot = FALSE
SPECIFICATION Spec
INVARIANTS TypeOK OnePoller SleepersNotEarly ShutdownMeansDone NoLostReport
PROPERTY TimersKeepContract
CHECK_DEADLOCK FALSE
