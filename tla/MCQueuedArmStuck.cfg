SPECIFICATION Spec
CONSTANTS
  o1 = o1
  o2 = o2
  Oids <- TwoOrders
  CmdCap = 1
  EvtCap = 1
  LaneCap = 1
  HeldCap = 3
  EvtRoomMin = 1
  CmdBurst = 1
  DrainBatch = 1
  Rounds = 2
  MaxSweeps = 1
SYMMETRY Symmetric
INVARIANT WorkingMeansSweeping
