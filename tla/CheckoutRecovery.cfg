CONSTANTS
  Orders = {o1}
  Cod = {}
  o1 = o1
  w1 = w1
  MaxSessions = 2
  MaxRepricings = 1
  Workers = {w1}
  MaxCheckouts = 1
  SweepSize = 2
  MaxFaults = 1
SPECIFICATION FairSpec
PROPERTY CapturesAreFound
CHECK_DEADLOCK FALSE
