CONSTANTS
  t1 = t1  t2 = t2  t3 = t3
  w1 = w1  w2 = w2  s1 = s1
  Tasks = {t1}
  Workers = {w1, w2}
  Spares = {}
  Batches <- AllTasks
  CommitNotifies = FALSE
  SpuriousWakeups = FALSE
  NoTask = NoTask
  Sleepers = {t1}
  Readers = {t1}
  Yielders = {}
  Blockers = {}
  OneShot = FALSE
SPECIFICATION Spec
INVARIANT SleepNotEarly
CHECK_DEADLOCK FALSE
