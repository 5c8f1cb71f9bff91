SPECIFICATION Spec
CONSTANTS
  d1 = d1
  d2 = d2
  g1 = g1
  g2 = g2
  Devices = {d1, d2}
  Desktops = {}
  Home <- HomeOfOne
  Tokens = {t1, t2}
  Joins = {j1, j2}
  Namespaces = {g1, g2}
  TTL = 1
  MaxTickets = 1
  ReloadMayFail = FALSE
  MaxTime = 1
  MaxBoots = 2
  MaxCrashes = 1
  None = None
  Torn = Torn
SYMMETRY JoinsAlike
INVARIANTS
  TypeOK
  TokenHonouredOnce
  SplitNeedsInterruption
  ImportedGroupStays
  IndexOnDisk
  OneIdentityWhenPaired
PROPERTY CodesAreOneTime
CHECK_DEADLOCK FALSE
