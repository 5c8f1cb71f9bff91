SPECIFICATION Spec
CONSTANTS
  d1 = d1
  d2 = d2
  g1 = g1
  g2 = g2
  Devices = {d1, d2}
  Desktops = {}
  Home <- NoHome
  Tokens = {t1}
  Joins = {j1}
  Namespaces = {}
  TTL = 1
  MaxTickets = 1
  ReloadMayFail = FALSE
  MaxTime = 0
  MaxBoots = 2
  MaxCrashes = 1
  None = None
  Torn = Torn
INVARIANT CertProvesIdentity
CHECK_DEADLOCK FALSE
