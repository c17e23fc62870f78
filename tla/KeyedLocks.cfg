SPECIFICATION FairSpec
CONSTANTS
  Threads = {t1, t2, t3}
  Keys = {k1, k2}
  Items = {i1, i2, i3}
  NoThread = NoThread
  NoKey = NoKey
  NoItem = NoItem
INVARIANTS
  MutualExclusion
PROPERTIES
  ImplementsFairKeyedMutex
