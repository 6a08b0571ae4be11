SPECIFICATION Spec
CONSTANTS
  Employees = {e1}
  Types = {AADHAR}
  FetchTypes = {}
  Names = {a, b}
  Sessions = {s1, s2}
  Limit = 2
  DistinctNames = TRUE
  None = None
  MaxUploads = 2
  MaxCrashes = 0
INVARIANT
  VerifiedWasReviewed
