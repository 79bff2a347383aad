SPECIFICATION FairSpec
CONSTANTS
  Keys = {a, b}
  Commands = {"reset", "update", "macro"}
  MacroCount = 1
  QueueCapacity = 2
  RetryCount = 2
  MaxRecord = 2
  MaxPresses = 3
  MaxUnplugs = 1
  MaxCommands = 2
  MaxInputs = 4
CHECK_DEADLOCK FALSE
INVARIANTS TypeOK NoStuckKey ConnectionFollowsKeyboard BoundedNesting CommandRunsOnce
PROPERTIES ResultIsKept HandlersReturn CommandCompletes
