SPECIFICATION FairSpec
CONSTANTS
  w1 = w1
  m1 = m1
  s1 = s1
  s2 = s2
  l1 = l1
  l2 = l2
  r1 = r1
  r2 = r2
  None = None
  Staff <- WorkerAndManager
  Manager <- TheManager
  Session <- TwoSessions
  Leave <- NoLeaves
  Request <- OneRequest
  Type <- Sick
  Allocation <- OneDayEach
  Resets <- Sick
  CarryLimit <- CarryCasual
  ResetMonths <- SecondMonth
  DaysPerMonth = 2
  Days = 2
  Failures = 1
  Workload <- SessionOps
CHECK_DEADLOCK FALSE
INVARIANTS SessionsHold
PROPERTIES MissedFollowsApproval MissedIsCaught
