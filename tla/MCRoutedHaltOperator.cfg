SPECIFICATION FileSpec
CONSTANTS
  s1 = s1
  s2 = s2
  Slots <- TwoSlots
  Oids <- NoOrders
  MaxFaults = 0
  MaxEdits = 1
  MaxRestarts = 0
  Links <- UpOnly
  ModesChange = FALSE
  WritesFail = FALSE
INVARIANT OperatorHaltLands
