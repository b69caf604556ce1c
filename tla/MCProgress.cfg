SPECIFICATION MCSpec
CONSTANTS
  MaxBook = 3
  MaxFails = 2
  MaxBoots = 2
  MaxLosses = 1
  Slots = {s1}
  Oids = {o1, o2}
  o1 = o1
  MaxFaults = 2
  MaxEdits = 0
  MaxRestarts = 1
  Links = {"up", "resync", "down"}
  ModesChange = FALSE
  WritesFail = FALSE
  CmdCap = 1
  EvtCap = 1
  LaneCap = 1
  HeldCap = 3
  EvtRoomMin = 1
  CmdBurst = 1
  DrainBatch = 1
  Rounds = 2
  MaxSweeps = 2
INVARIANT FileIsWhole
INVARIANT HandedIsFiled
INVARIANT NoUnderCount
INVARIANT StoppedOrderIsOwed
PROPERTY FileNeverGoesBack
PROPERTY CleanRestartKeepsBook
PROPERTY FileCatchesUp
PROPERTY HaltGetsFlat
PROPERTY SweepIsAnswered
CHECK_DEADLOCK FALSE
