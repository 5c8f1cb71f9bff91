SPECIFICATION FairSpec
CONSTANTS
  Accelerators = {default, k}
  NoKey = NoKey
  Default = default
  Refused = {}
  Sticky = {}
  Sets = {c1}
  Joins = {j1}
  MaxBoots = 2
  OwnId = OwnId
  None = None
  Torn = Torn
PROPERTY HotkeyChanges
CHECK_DEADLOCK FALSE
