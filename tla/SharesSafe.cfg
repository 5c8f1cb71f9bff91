SPECIFICATION FairSpec
CONSTANTS
  m1 = m1
  m2 = m2
  m3 = m3
  s1 = s1
  s2 = s2
  b1 = b1
  b2 = b2
  Nodes = {m1, m2}
  Ids = {s1, s2}
  Blobs = {b1, b2}
  Items <- FileAndFolder
  Sharers = {m2}
  Readers = {m1}
  Downloaders = {m1}
  Skew <- ReaderAhead
  MaxTime = 1
  None = None
INVARIANTS
  TypeOK
  SharesRecoverable
  DownloadedWhole
  ReadStaysRead
PROPERTIES
  AppendOnly
  EverythingPinned
CHECK_DEADLOCK FALSE
