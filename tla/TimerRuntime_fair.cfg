CONSTANTS
  t1 = t1  t2 = t2  t3 = t3
  w1 = w1  w2 = w2  s1 = s1
  Tasks = {t1, t2, t3}
  Workers = {w1}
  Spares = {}
  Batches <- AllButOne
  CommitNotifies = FALSE
  SpuriousWakeups = FALSE
  NoTask = NoTask
  Sleepers = {t1, t2}
  Readers = {t3}
  Yielders = {}
  Blockers = {}
  OneShot = TRUE
SPECIFICATION FairSpec
PROPERTIES SleepersWake ReadersWake
CHECK_DEADLOCK FALSE
