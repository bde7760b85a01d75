SPECIFICATION Spec
CONSTANTS
  p1 = p1
  p2 = p2
  r1 = r1
  r2 = r2
  None = None
  Payment <- TwoPayments
  Request <- TwoRequests
  Advance = 1
  Total = 2
  Workloads <- Mixes
SYMMETRY Symmetry
CHECK_DEADLOCK FALSE
INVARIANTS TypeOK LedgerAgrees NothingBeforeCapture InvoiceFollowsPayments OneOpenOrder
