SPECIFICATION FairSpec
CONSTANTS
  b1 = b1
  b2 = b2
  b3 = b3
  s1 = s1
  s2 = s2
  w1 = w1
  w2 = w2
  r1 = r1
  r2 = r2
  None = None
  Booking <- OneBooking
  Slot <- OneSlot
  Worker <- OneWorker
  Request <- TwoRequests
  Capacity <- SingleSeats
  Advance = 1
  Total = 1
  Workload <- PaymentOps
CHECK_DEADLOCK FALSE
PROPERTIES VerifiedIsConfirmed
