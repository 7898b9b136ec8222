CONSTANTS
  t1 = t1  t2 = t2  t3 = t3
  w1 = w1  w2 = w2  s1 = s1  s2 = s2
  Tasks = {t1, t2, t3}
  Submitted = {t1, t2}
  Workers = {w1, w2}
  Spares = {s1, s2}
  NoTask = NoTask
SPECIFICATION FairSpec
INVARIANTS TypeOK OnePlace ReturnMeansDone BlockingLeavesAWorker
PROPERTY EveryTaskFinishes
CHECK_DEADLOCK FALSE
