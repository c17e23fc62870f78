SPECIFICATION WebSpec
CONSTANTS
  s1 = s1
  s2 = s2
  e1 = e1
  e2 = e2
  e3 = e3
  k1 = k1
  w1 = w1
  w2 = w2
  Workers <- TwoWorkers
  Crews <- AllCrews
  WebCrews <- SmallCrews
  Sources = {s1, s2}
  Buffer = 2
  Events = {e1, e2, e3}
  Script <- TwoScript
  Keys = {k1}
  KeyOf <- KeyMap
  Items = {i1, i2}
  NoThread = NoThread
  NoKey = NoKey
  NoItem = NoItem
  NoEvent = NoEvent
INVARIANTS
  SerialByKey
  ExactlyOnce
  DrainedAtReturn
  NoSendOnClosed
  SingleInOrder
  AnswersHold
PROPERTIES
  AcceptedFinish
  CancelStops
