CONSTANTS
  Callers = {c1, c2}
  Keys = {k1, k2}
  Values = {v}
  TTLs = {0, 1}
  MaxNow = 3
  Nil = Nil
  Nobody = Nobody
  Torn = Torn
  MaxFaults = 1
  MaxCrashes = 1
  SweepEvery = 1
SPECIFICATION StoresSpec
INVARIANTS MemoryInStep
PROPERTIES ImplementsKeyValueStore MemoryKeepsLive
SYMMETRY Symmetry
CHECK_DEADLOCK FALSE
