SPECIFICATION FairSpec
CONSTANTS
  Keys = {a}
  Commands = {"version", "macro"}
  MacroCount = 1
  QueueCapacity = 2
  RetryCount = 1
  MaxRecord = 2
  MaxPresses = 1
  MaxUnplugs = 1
  MaxCommands = 2
  MaxInputs = 4
CHECK_DEADLOCK FALSE
PROPERTY VersionIsShown
