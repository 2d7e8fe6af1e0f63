SPECIFICATION FairSpec
CONSTANTS
  Bookings = {b1}
  Places = {p1}
  Calls = {c1, c2}
  Cancels = {}
  NoCall = NoCall
  Attempts = 2
  LastBookingTime = 0
  MaxTime = 0
  MaxFaults = 1
PROPERTY PaidIsConfirmed ExpiredIsReleased EveryBookingSettles StuckOnlyWithoutSession
CHECK_DEADLOCK FALSE
