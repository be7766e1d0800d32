SPECIFICATION Spec
CONSTANTS
  o1 = o1
  o2 = o2
  s1 = s1
  s2 = s2
  r1 = r1
  r2 = r2
  r3 = r3
  Orders <- MCOrders
  Prepaid <- MCPrepaid
  DirectCod = {o2}
  Sellers <- MCSellers
  Rows <- MCRows
  StoreOf <- MCStoreOf
  Demand <- MCDemand
  Opening <- MCOpening
  Workers = {w1}
  Targets = {"CONFIRMED", "PACKED", "SHIPPED", "DELIVERED", "CANCELLED", "REFUNDED"}
  Counts = {1, 3}
  MaxAdjusts = 1
CHECK_DEADLOCK FALSE
INVARIANTS
  
  PlacedEntirely
  OpenSlicesHoldStock
  DeliveredTogether
PROPERTIES
  ForwardOnly
