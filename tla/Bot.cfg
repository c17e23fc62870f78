SPECIFICATION Spec
CONSTANTS
  plain1 = plain1
  plain2 = plain2
  plain3 = plain3
  ask = ask
  begin = begin
  count = count
  command = command
  e1 = e1
  e2 = e2
  e3 = e3
  e4 = e4
  alice = alice
  bob = bob
  club = club
  lx = lx
  ly = ly
  slash = slash
  dq = dq
  sq = sq
  Routes = {plain1, plain2, plain3, ask, begin, count, command}
  Events = {e1, e2, e3, e4}
  Rank <- MCRank
  NoRoute = NoRoute
  LimitKeys = {alice}
  Window = 2
  MaxNow = 4
  Never = Never
  Places = {alice, bob, club}
  NoPlace = NoPlace
  TTL = 1
  MaxFaults = 1
  Kind <- MCKind
  Names <- MCNames
  Letters = {lx, ly}
  Marks = {slash}
  Blank = Blank
  Backslash = Backslash
  Quotes = {dq, sq}
  Bare = Bare
  Conv <- MCConv
  User <- MCUser
  Group <- MCGroup
  LimitKey <- MCLimitKey
  Setups <- MCSetups
INVARIANTS
  EveryRouteInTurn
  RateBounded
  AdvancedOnce
  UpdatesKept
  CommandsAsTyped
CHECK_DEADLOCK FALSE
