SPECIFICATION Spec
CONSTANTS
  w1 = w1
  m1 = m1
  s1 = s1
  s2 = s2
  l1 = l1
  l2 = l2
  r1 = r1
  r2 = r2
  None = None
  Staff <- WorkerAndManager
  Manager <- TheManager
  Session <- NoSessions
  Leave <- TwoLeaves
  Request <- OneRequest
  Type <- CasualAndSick
  Allocation <- OneDayEach
  Resets <- CasualAndSick
  CarryLimit <- CarryCasual
  ResetMonths <- SecondMonth
  DaysPerMonth = 1
  Days = 2
  Failures = 0
  Workload <- BalanceOps
SYMMETRY Symmetry
CHECK_DEADLOCK FALSE
INVARIANTS BalancesHold
PROPERTIES LeaveFollowsApproval
