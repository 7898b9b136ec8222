CONSTANTS
  a = a  b = b  c = c  d = d
  Adders = {a, b}
  Waiters = {c, d}
  Deltas <- UpAndDown
  MaxInt = 3
SPECIFICATION FairSpec
INVARIANTS TypeOK NobodyLeftBehind WakeMeansZero CounterIsTheSum
PROPERTIES KeepsParkContract TakenOffReturns
CHECK_DEADLOCK FALSE
