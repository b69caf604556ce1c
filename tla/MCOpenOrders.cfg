SPECIFICATION MCSpec
CONSTANTS
  o1 = o1
  Oids <- OneOrder
  Cap = 1
  Qty = 2
  MaxModifies = 1
  MaxFaults = 1
CHECK_DEADLOCK FALSE
INVARIANTS NeverOverBooked EndedIsFinal 
PROPERTY CancelEnds
