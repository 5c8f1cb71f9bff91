SPECIFICATION FairSpec
CONSTANTS
  Shares = {s1}
  Refreshes = {r1, r2}
  MaxBoots = 3
  Peer = Peer
INVARIANTS
  TypeOK
  NotifiedOnce
  OwnNotNotified
PROPERTIES
  ShownForGood
  ArrivalsNotified
CHECK_DEADLOCK FALSE
