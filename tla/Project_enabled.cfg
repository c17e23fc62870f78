SPECIFICATION Spec
CONSTANTS
  a = a
  b = b
  d = d
  u = u
  m = m
  v = v
  p = p
  Ids = {a, b}
  Modules = {m}
  Versions = {v}
  Paths = {p}
  Placeholder = Placeholder
  Builtin = Builtin
  Foreign = Foreign
  Empty = Empty
  Nil = Nil
  Keep = Keep
  Idle = Idle
  Missing = Missing
  Null = Null
  Map = Map
  Scalars = {d, u}
  Values = {u}
  KeyPaths <- MCKeyPaths
  Default <- MCDefault
  Locks0 <- MCLocks0
  Entries0 <- MCEntries0
  Known = {a}
  Processes = {c1, e1, e2}
  Commands = {c1}
  Editors = {e1, e2}
  MaxTasks = 1
  MaxFaults = 1
  MaxCrashes = 1
SYMMETRY Symmetry
PROPERTY
  EnabledIsSet
CHECK_DEADLOCK FALSE
