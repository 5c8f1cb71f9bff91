SPECIFICATION FairSpec
CONSTANTS
  Processes = {p1, p2, app1}
  Desktops = {app1}
  Starts = {start1}
  Stops = {stop1}
  StoresExclusive = TRUE
  None = None
INVARIANTS
  TypeOK
  OneListener
PROPERTIES
  OwnSocketOnly
  DaemonEnds
  CallEnds
CHECK_DEADLOCK FALSE
