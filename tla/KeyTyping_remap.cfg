SPECIFICATION Spec
CONSTANTS
  KeyCount = 3
  TypedKeys = {4, 5, 6}
  TypedMods = {1, 4}
  Modes = {"none"}
  MaxDown = 3
  MaxUpdates = 2
INVARIANTS SendsAllWished SendsOnlyWished
PROPERTIES StrikesOnlyPressed
