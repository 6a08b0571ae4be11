\* Tenants, reviewers and the worker; one company, one interrupted handler, and a
\* plan that is withdrawn and offered again.
SPECIFICATION TenantSpec
CONSTANTS
  None = None
  c1 = c1
  c2 = c2
  Companies = {c1}
  Plans <- MCTwoPlans
  Free = "FREE"
  SignupPlans <- MCTwoPlans
  MutablePlans = {"CUSTOM"}
  Price <- MCTwoPrice
  CycleSlots <- MCLongCycleSlots
  RequestTypes = {"DOWNGRADE"}
  AdminCreates = {}
  AdminUpdates = {}
  CompanyUpdates = {}
  MaxTime = 5
  MaxSubs = 2
  MaxRequests = 2
  MaxCrashes = 1
INVARIANTS
  TypeOK
  OneLiveRow
  WritableBacked
  MirrorExact
  ScheduleSound
  ExpiredIsReadOnly
PROPERTIES
  TrialNotRepeated
  ReopenedByApproval
  PlanChangeJustified
  DecisionsFinal
  ImplementsPromise
