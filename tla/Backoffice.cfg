SPECIFICATION Spec
CONSTANTS
  m1 = m1
  c1 = c1
  w1 = w1
  w2 = w2
  u1 = u1
  a1 = a1
  p1 = p1
  r1 = r1
  r2 = r2
  trial = trial
  pro = pro
  None = None
  Person <- People
  Pincode <- OnePincode
  Word <- OneWord
  Areas = 2
  Offices = 2
  Founders <- Staff
  Tasks = 1
  Tickets = 2
  Posts = 1
  Urgent = 1
  Plan <- TwoPlans
  Trial = trial
  Orgs = 1
  Periods = 2
  Leads = 1
  Customers = 2
  Links = 1
  Jobs = 1
  Invoices = 2
  Code <- OnePincode
  AreaCode <- OneCode
  Request <- TwoRequests
  Workloads <- Mixes
CONSTRAINT Few
SYMMETRY Symmetry
CHECK_DEADLOCK FALSE
INVARIANTS TypeOK StaffAndLists RecordsAreWhole 
PROPERTIES StaffFollowPlaces FinalIsFinal PanelsFollow
