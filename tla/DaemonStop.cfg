SPECIFICATION FairSpec
CONSTANTS
  Processes = {app1}
  Desktops = {app1}
  Starts = {}
  Stops = {stop1}
  StoresExclusive = TRUE
  None = None
PROPERTY StopShutsDown
CHECK_DEADLOCK FALSE
