SPECIFICATION FairSpec
CONSTANTS
  MainCapacity = 1
  SlaveCapacity = 1
  HostCapacity = 1
  Priorities = TRUE
  MacroLen = 2
  MaxPresses = 1
  MaxUnplugs = 1
  MaxRequests = 1
  MaxConfigs = 0
CHECK_DEADLOCK FALSE
PROPERTY KeysAreSent
