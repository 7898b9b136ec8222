CONSTANTS
  a = a  b = b  c = c  d = d
  v1 = v1  v2 = v2  v3 = v3
  Senders = {a}
  Receivers = {c}
  Closers = {c}
  Values = {v1}
  BufCaps = {0}
  NoValue = NoValue
SPECIFICATION Spec
INVARIANT PanicMeansNotSent
CHECK_DEADLOCK FALSE
