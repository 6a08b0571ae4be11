\* Two employees, accounts, processes and sessions at once; one restart.
SPECIFICATION Spec
CONSTANTS
  Employees = {e1, e2}
  Procs = {p1, p2}
  Sessions = {s1, s2}
  Holders = {h1, h2}
  None = None
  MaxStates = 2
  MaxGrants = 3
  MaxCrashes = 1
SYMMETRY Symmetry
INVARIANTS
  TypeOK
  OneHolder
  StateUsedOnce
  OnlyRacesTear
  TokensInOrder
