SPECIFICATION SettlementSpec
CONSTANTS
  s1 = s1
  w1 = w1
  w2 = w2
  c1 = c1
  c2 = c2
  Slices = {s1}
  Bought <- MCBought
  Resolutions = {"REFUND", "REPLACEMENT"}
  MaxReturns = 1
  MaxRefunds = 2
  Workers = {w1, w2}
  GatewayFails = TRUE
  MaxFaults = 1
  Payouts = {1, 2}
  Clerks = {c1, c2}
SYMMETRY SettlementSymmetry
CHECK_DEADLOCK FALSE
INVARIANTS
  SettlementTypeOK
  OneRefundPerReturn
  RecoveredOnce
  AppliedIsLive
  PaidOnce
