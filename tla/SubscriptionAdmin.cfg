\* The superadmin also writes rows directly.
SPECIFICATION Spec
CONSTANTS
  None = None
  c1 = c1
  c2 = c2
  Companies = {c1}
  Plans <- MCTwoPlans
  Free = "FREE"
  SignupPlans <- MCTwoPlans
  MutablePlans = {"CUSTOM"}
  Price <- MCTwoPrice
  CycleSlots <- MCTwoCycleSlots
  RequestTypes = {"DOWNGRADE"}
  AdminCreates <- MCAdminCreates
  AdminUpdates <- MCAdminUpdates
  CompanyUpdates <- MCCompanyUpdates
  MaxTime = 3
  MaxSubs = 2
  MaxRequests = 1
  MaxCrashes = 1
PROPERTIES
  EndedRowsStayClosed
