CONSTANTS
  LEDGER_RESTING = 2
  INST_EXPOSURE_MAX = 1
  Scale = 2
  s1 = s1
  s2 = s2
  o1 = o1
  o2 = o2
  Slots = {s1, s2}
  Oids = {o1, o2}
  Syms = {"y"}
  Sides = {"buy"}
  Qtys = {1, 2}
  Prices = {1, 2}
  NoRow = NoRow
  NoOid = NoOid
  MaxLost = 1
SYMMETRY Symmetric
SPECIFICATION Spec
INVARIANT ScanSeesAll
INVARIANT SumsAreExact
PROPERTY SlotsAreSeparate
