CONSTANTS
  Orders = {o1, o2}
  Cod = {o2}
  o1 = o1
  o2 = o2
  w1 = w1
  w2 = w2
  MaxSessions = 2
  MaxRepricings = 0
  Workers = {w1, w2}
  MaxCheckouts = 1
  SweepSize = 2
  MaxFaults = 0
SPECIFICATION Spec
SYMMETRY Symmetry
INVARIANTS TypeOK PaidIsBacked CapturesAreInvoiced  
CHECK_DEADLOCK FALSE
