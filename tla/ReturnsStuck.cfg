SPECIFICATION SettlementFairSpec
CONSTANTS
  s1 = s1
  w1 = w1
  w2 = w2
  c1 = c1
  c2 = c2
  Slices = {s1}
  Bought <- MCBought
  Resolutions = {"REFUND"}
  MaxReturns = 1
  MaxRefunds = 1
  Workers = {w1}
  GatewayFails = FALSE
  MaxFaults = 1
  Payouts = {1}
  Clerks = {c1}
CHECK_DEADLOCK FALSE
PROPERTIES
  NeverStuck
