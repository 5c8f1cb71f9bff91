SPECIFICATION FairSpec
CONSTANTS
  d1 = d1
  d2 = d2
  g1 = g1
  g2 = g2
  Devices = {d1, d2}
  Desktops = {d2}
  Home <- HomeOfOne
  Tokens = {t1, t2}
  Joins = {j1, j2}
  Namespaces = {g1, g2}
  TTL = 1
  MaxTickets = 1
  ReloadMayFail = TRUE
  MaxTime = 0
  MaxBoots = 3
  MaxCrashes = 0
  None = None
  Torn = Torn
PROPERTY JoinEnds
CHECK_DEADLOCK FALSE
