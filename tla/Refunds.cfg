SPECIFICATION RefundsSpec
CONSTANTS
  s1 = s1
  s2 = s2
  Slices = {s1, s2}
  Total <- MCTotal
  Delivered = {s2}
  Cancelled = {s1}
  Untaxed = {}
  Others <- MCOthers
  Asks <- MCAsks
  Parts = {1}
  MaxRefunds = 2
  MaxSent = 2
  Workers = {w1, w2}
  MaxFaults = 1
SYMMETRY RefundSymmetry
CHECK_DEADLOCK FALSE
INVARIANTS
  RefundsTypeOK
  EffectsAreBacked
  UndisturbedOnce
  CeilingInTurn
  EffectsOnce
