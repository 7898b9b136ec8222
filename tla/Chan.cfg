CONSTANTS
  a = a  b = b  c = c  d = d
  v1 = v1  v2 = v2  v3 = v3
  Senders = {a, b}
  Receivers = {b, c}
  Closers = {c}
  Values = {v1, v2, v3}
  BufCaps = {0, 1}
  NoValue = NoValue
SPECIFICATION FairSpec
INVARIANTS TypeOK QueuesAgree EveryWakeHasAReason NoneIsTheEnd
PROPERTIES ImplementsFifo KeepsParkContract TakenOffReturns EveryValueArrives
CHECK_DEADLOCK FALSE
