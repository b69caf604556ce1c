SPECIFICATION Spec
CONSTANTS
  o1 = o1
  Oids <- OneOrder
  Cap = 1
  Qty = 1
  MaxModifies = 2
  MaxFaults = 0
CHECK_DEADLOCK FALSE
INVARIANT TermsAgree
