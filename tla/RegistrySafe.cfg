SPECIFICATION Spec
CONSTANTS
  Namespaces = {n1, n2}
  People = {p1}
  Names = {x}
  Notes = {k}
  MaxBoots = 2
  MaxTime = 1
  SavesFail = {"groups"}
  Reloads = TRUE
  None = None
  Torn = Torn
CONSTRAINT OneAtATime
SYMMETRY Symmetry
INVARIANTS
  TypeOK
  SavedIsOnDisk
  NothingForgotten
CHECK_DEADLOCK FALSE
