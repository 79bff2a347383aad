SPECIFICATION FairSpec
CONSTANTS
  Reports <- MCReports
  Devices <- MCDevices
  MaxFiles = 2
CHECK_DEADLOCK FALSE
INVARIANTS RoundsReturnHandles UpdateIsNeeded
PROPERTIES ImplementsSession LastReportArrives StickIsTried
