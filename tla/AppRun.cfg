SPECIFICATION FairSpec
CONSTANTS
  Tasks = {t1, t2, t3}
  Early = {t1}
  Critical = {t1, t2}
  Periodic = {t2}
  Immediate = {}
  Gated = {t3}
  Jobs = {j1, j2}
  Slots = 1
  Casts = {{t1, t2, t3}, {j1, j2}}
  Hooks = 1
  NoTask = NoTask
INVARIANTS
  StartedOnce
  FirstFatalReturned
  ShutdownAfterTasks
  ObserversCancelled
PROPERTIES
  RunEnds
CHECK_DEADLOCK FALSE
