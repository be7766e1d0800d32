SPECIFICATION Spec
CONSTANTS
  o1 = o1
  o2 = o2
  s1 = s1
  s2 = s2
  r1 = r1
  r2 = r2
  r3 = r3
  Orders <- MCOrders
  Prepaid <- MCPrepaid
  DirectCod = {}
  Sellers <- OneSeller
  Rows <- OneRow
  StoreOf <- OneStore
  Demand <- OneDemand
  Opening <- OneOpening
  Workers = {w1}
  Targets = {"CONFIRMED", "PACKED", "SHIPPED", "DELIVERED", "CANCELLED"}
  Counts = {1}
  MaxAdjusts = 0
CHECK_DEADLOCK FALSE
INVARIANTS
  SliceReleasedOnce
