\* The nightly check runs before the job that applies scheduled downgrades.
SPECIFICATION TenantSpec
CONSTANTS
  None = None
  c1 = c1
  c2 = c2
  Companies = {c1}
  Plans <- MCPlans
  Free = "FREE"
  SignupPlans <- MCPlans
  MutablePlans = {"CUSTOM"}
  Price <- MCPrice
  CycleSlots <- MCCycleSlots
  RequestTypes = {"DOWNGRADE"}
  AdminCreates = {}
  AdminUpdates = {}
  CompanyUpdates = {}
  MaxTime = 4
  MaxSubs = 2
  MaxRequests = 1
  MaxCrashes = 0
INVARIANTS
  DowngradeNotLost
