SPECIFICATION Spec
CONSTANTS
  Files <- SomeFiles
  Mtime <- Times
  Skipped <- SkippedFiles
  Dotted = {"x.md"}
  Home <- HomeDir
  DefaultRoots <- TwoDefaults
  HardLimit = 3
  MaxShown = 2
  Texts <- SomeTexts
  RootChoices <- SomeRoots
  MaxForms = 3
  None = None
INVARIANTS
  TypeOK
  UniqueResolves
  NewestOffered
  SharedIsMeant
  SharedOnce
CHECK_DEADLOCK FALSE
