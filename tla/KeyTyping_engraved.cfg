SPECIFICATION Spec
CONSTANTS
  KeyCount = 6
  TypedKeys <- AllEngraved
  TypedMods = {0, 1, 5}
  Modes = {"ja_to_en", "en_to_ja"}
  MaxDown = 2
  MaxUpdates = 0
INVARIANTS SingleKeyIsEngraved FastTypingIsEngraved
