SPECIFICATION FairSpec
CONSTANTS
  Reporters = {r1, r2}
  Waiters = {w1, w2}
INVARIANTS
  NoLostWakeup
  AppIsLatest
  StoppedIsFinal
PROPERTIES
  StopReleasesWaiters
CHECK_DEADLOCK FALSE
