SPECIFICATION Spec
CONSTANTS
  u1 = u1
  r1 = r1
  r2 = r2
  None = None
  User <- OneUser
  Request <- TwoRequests
  MaxAttempts = 2
  Codes = 2
  Tokens = 3
  Passwords = 1
  Workloads <- Mixes
SYMMETRY Symmetry
CHECK_DEADLOCK FALSE
INVARIANTS TypeOK OnceOnly CodesCounted
PROPERTIES SessionsEnd
