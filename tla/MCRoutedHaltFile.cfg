SPECIFICATION FileSpec
CONSTANTS
  s1 = s1
  s2 = s2
  Slots <- TwoSlots
  Oids <- NoOrders
  MaxFaults = 0
  MaxEdits = 2
  MaxRestarts = 1
  Links <- UpOnly
  ModesChange = TRUE
  WritesFail = TRUE
SYMMETRY Symmetric
INVARIANTS FileNamesEveryHalt
PROPERTIES HaltsSurviveRestart 
