SPECIFICATION Spec
CONSTANTS
  MacroCount = 2
  LangModes = {0, 1}
  Blank = Blank
  MaxCommands = 3
INVARIANTS FlashIsUpToDate CutCommandIsAllOrNothing MacroIsOneRecording
