CONSTANTS
  u1 = u1
  u2 = u2
  c1 = c1
  c2 = c2
  r1 = r1
  r2 = r2
  Users <- TwoUsers
  Clients <- OneClient
  Requests <- TwoRequests
  Nobody = Nobody
  browser = browser
  home = home
  road = road
  cat = cat
  dog = dog
  Visitors <- OneVisitor
  Places <- TwoPlaces
  Arts <- TwoArts
  Blank = Blank
  Freshness = 1
  Lifetime = 3
  LastTick = 5
  MaxTurns = 3
SPECIFICATION DoorSpec
SYMMETRY Symmetry
INVARIANTS TypeOK OnlyGranted TollIsJust
PROPERTY LockoutOnlyByStaleRead
CHECK_DEADLOCK FALSE
