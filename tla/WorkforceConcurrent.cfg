SPECIFICATION Spec
CONSTANTS
  w1 = w1
  m1 = m1
  s1 = s1
  s2 = s2
  l1 = l1
  l2 = l2
  r1 = r1
  r2 = r2
  None = None
  Staff <- OneWorker
  Manager <- NoStaff
  Session <- OneSession
  Leave <- OneLeave
  Request <- TwoRequests
  Type <- Casual
  Allocation <- OneDayEach
  Resets <- Casual
  CarryLimit <- CarryCasual
  ResetMonths <- SecondMonth
  DaysPerMonth = 1
  Days = 1
  Failures = 0
  Workload <- OverlapOps
SYMMETRY Symmetry
CHECK_DEADLOCK FALSE
INVARIANTS TypeOK LedgerAgrees DecidedOnce
