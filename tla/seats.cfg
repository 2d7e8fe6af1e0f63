SPECIFICATION Spec
CONSTANTS
  Bookings = {b1, b2}
  Places = {p1}
  Calls = {c1}
  Cancels = {}
  NoCall = NoCall
  Attempts = 1
  LastBookingTime = 1
  MaxTime = 2
  MaxFaults = 1
INVARIANT SoldSeatStaysSold
SYMMETRY Symmetry
CHECK_DEADLOCK FALSE
