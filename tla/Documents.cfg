SPECIFICATION Spec
CONSTANTS
  Employees = {e1}
  Types = {AADHAR}
  FetchTypes = {AADHAR}
  Names = {a, b, c}
  Sessions = {s1, s2}
  Limit = 2
  DistinctNames = TRUE
  None = None
  MaxUploads = 3
  MaxCrashes = 1
SYMMETRY Symmetry
INVARIANTS
  TypeOK
  FilesKept
  ChargedUploadsStored
  LettersBounded
