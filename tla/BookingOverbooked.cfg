SPECIFICATION Spec
CONSTANTS
  b1 = b1
  b2 = b2
  b3 = b3
  s1 = s1
  s2 = s2
  w1 = w1
  w2 = w2
  r1 = r1
  r2 = r2
  None = None
  Booking <- TwoBookings
  Slot <- OneSlot
  Worker <- OneWorker
  Request <- OneRequest
  Capacity <- SingleSeats
  Advance = 1
  Total = 1
  Workload <- CustomerOps
SYMMETRY Symmetry
CHECK_DEADLOCK FALSE
INVARIANTS NoOverbooking
