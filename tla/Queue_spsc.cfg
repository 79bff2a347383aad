SPECIFICATION FairSpec
CONSTANTS
  EntryCount = 4
  Data = {a, b}
  Producers = {sct}
  Consumer = host
  NoThread = NoThread
  NoData = NoData
INVARIANTS TypeOK LockDiscipline ResumeSafe NoLostWakeup
PROPERTIES ImplementsFifo CallsReturn
