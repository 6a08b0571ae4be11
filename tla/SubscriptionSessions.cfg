\* Two sessions at once, reviews or jobs, over one company.
SPECIFICATION SessSpec
CONSTANTS
  None = None
  Companies = {c1}
  Plans <- MCPlans
  Free = "FREE"
  SignupPlans <- MCPlans
  MutablePlans = {}
  Price <- MCPrice
  CycleSlots <- MCCycleSlots
  RequestTypes = {"DOWNGRADE"}
  AdminCreates = {}
  AdminUpdates = {}
  CompanyUpdates = {}
  MaxTime = 2
  MaxSubs = 3
  MaxRequests = 2
  MaxCrashes = 0
  Sessions = {s1, s2}
  MaxStarts = 3
SYMMETRY Symmetry
INVARIANTS
  SessTypeOK
  FreshAccess
  FreshDecisions
PROPERTIES
  TrialStaysSpent
CHECK_DEADLOCK FALSE
