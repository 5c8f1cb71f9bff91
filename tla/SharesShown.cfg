SPECIFICATION FairSpec
CONSTANTS
  m1 = m1
  m2 = m2
  m3 = m3
  s1 = s1
  s2 = s2
  b1 = b1
  b2 = b2
  Nodes = {m1, m2, m3}
  Ids = {s1, s2}
  Blobs = {b1}
  Items <- File
  Sharers = {m1, m3}
  Readers = {m2}
  Downloaders = {}
  Skew <- NoSkew
  MaxTime = 0
  None = None
PROPERTY ShownOnceConnected
CHECK_DEADLOCK FALSE
