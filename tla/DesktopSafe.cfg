SPECIFICATION FairSpec
CONSTANTS
  Accelerators = {default, k, bad}
  NoKey = NoKey
  Default = default
  Refused = {bad}
  Sticky = {k}
  Sets = {c1, c2}
  Joins = {j1}
  MaxBoots = 2
  OwnId = OwnId
  None = None
  Torn = Torn
INVARIANTS
  TypeOK
  OneHotkey
  SettingsSaved
PROPERTIES
  IdentityFollows
  HotkeyFollows
CHECK_DEADLOCK FALSE
