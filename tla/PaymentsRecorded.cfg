SPECIFICATION FairSpec
CONSTANTS
  p1 = p1
  p2 = p2
  r1 = r1
  r2 = r2
  None = None
  Payment <- OnePayment
  Request <- OneRequest
  Advance = 1
  Total = 2
  Workloads <- OnlineMix
CHECK_DEADLOCK FALSE
PROPERTIES CapturedIsRecorded
