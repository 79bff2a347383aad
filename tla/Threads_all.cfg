SPECIFICATION FairSpec
CONSTANTS
  MainCapacity = 2
  SlaveCapacity = 2
  HostCapacity = 1
  Priorities = FALSE
  MacroLen = 2
  MaxPresses = 1
  MaxUnplugs = 1
  MaxRequests = 2
  MaxConfigs = 1
CHECK_DEADLOCK FALSE
INVARIANTS TypeOK OneControlThread ConnectionIsPassedOn NoStuckKey LedsFollowPc
PROPERTIES ImplementsPipe PcCatchesUp
