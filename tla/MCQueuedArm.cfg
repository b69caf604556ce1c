SPECIFICATION Spec
CONSTANTS
  o1 = o1
  o2 = o2
  Oids <- TwoOrders
  CmdCap = 2
  EvtCap = 1
  LaneCap = 2
  HeldCap = 3
  EvtRoomMin = 1
  CmdBurst = 1
  DrainBatch = 1
  Rounds = 2
  MaxSweeps = 1
SYMMETRY Symmetric
INVARIANT InFlightIsExact
INVARIANT FillsBookedFirst
INVARIANT RowsCoverVenue
INVARIANT ClearIsThisSweeps
