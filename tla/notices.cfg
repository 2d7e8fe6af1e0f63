SPECIFICATION Spec
CONSTANTS
  Bookings = {2}
  Instances = {i1, i2, i3}
  MaxMessages = 2
  MaxFaults = 1
INVARIANT TypeOK MailedOnceWhileHeard MailFollowsPayment SuccessWasMailed
PROPERTY EndedUnlessLateClaim
ACTION_CONSTRAINT ActsBeforeFetch
SYMMETRY Symmetry
CHECK_DEADLOCK FALSE
