SPECIFICATION Spec
CONSTANTS
  KeyCount = 6
  TypedKeys = {4}
  TypedMods = {3, 7}
  Modes = {"none"}
  MaxDown = 1
  MaxUpdates = 1
INVARIANT ResetMapsKeysToThemselves
