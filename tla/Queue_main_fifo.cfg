SPECIFICATION Spec
CONSTANTS
  EntryCount = 3
  Data = {a, b}
  Producers = {host, sct}
  Consumer = main
  NoThread = NoThread
  NoData = NoData
PROPERTY ImplementsFifo
