SPECIFICATION Spec
CONSTANTS
  h1 = h1
  h2 = h2
  z1 = z1
  u1 = u1
  u2 = u2
  d1 = d1
  d2 = d2
  e1 = e1
  None = None
  Request <- TwoRequests
  Workloads <- Mixes
  Zone <- OneZone
  Word <- TwoWords
  Price <- TwoPrices
  Percent <- TwoPercents
  FirstName <- Wash
  FirstPrice = 4995000
  FirstPercent = 18
  Services = 2
  Types = 2
  Packages = 2
  Options = 2
  Orders = 1
  User <- TwoUsers
  Device <- TwoDevices
  Kind <- OneKind
  Addresses = 3
  Notes = 2
  Photos = 3
  Title <- ThreeTitles
  Permanent <- TwoPermanent
  Employee <- OneEmployee
  Time = {0, 1, 2}
  Clock = {0, 1, 2, 3}
  Place = {1, 2}
  FirstRules <- DefaultRules
  Shifts = 2
  Banners = 3
  Ticks = 4
  Offset = 1
  Days = 3
  Sunday = 3
  Roster <- TwoRosters
  CheckOutBefore = 2
  MinimumHours = 2
  Window = 1
  Slack = 1
SYMMETRY Symmetry
CHECK_DEADLOCK FALSE
INVARIANTS TypeOK CatalogueHolds CheckedBeforeWritten NotesArrive CalendarsHold DaysAreCounted
PROPERTIES InUseStays
