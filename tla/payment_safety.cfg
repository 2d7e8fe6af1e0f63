\* One booking, asked to be paid for twice at once, cancelled once, with faults.
SPECIFICATION Spec
CONSTANTS
  Bookings = {b1}
  Places = {p1}
  Calls = {c1, c2}
  Cancels = {k1}
  NoCall = NoCall
  Attempts = 2
  LastBookingTime = 0
  MaxTime = 0
  MaxFaults = 2
INVARIANT TypeOK OneTransactionPerBooking PayableBookingIsHeld StatusFollowsMoney OneCheckoutPage
PROPERTY FinalStatusIsFinal LifeSpec
SYMMETRY CallSymmetry
CHECK_DEADLOCK FALSE
