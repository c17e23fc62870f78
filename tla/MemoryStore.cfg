CONSTANTS
  Callers = {c1, c2}
  Keys = {k1}
  Values = {v}
  TTLs = {0, 1}
  MaxNow = 3
  Nil = Nil
  SweepEvery = 2
SPECIFICATION Spec
PROPERTY ValueStays
CHECK_DEADLOCK FALSE
