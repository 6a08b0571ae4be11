\* A user opens a second socket, and then the first one ends.
SPECIFICATION Spec
CONSTANTS
  a = a
  b = b
  Users <- MCUsers
  Allowed <- MCAllowed
  None = None
  MaxConns = 2
  MaxMessages = 1
  MaxFaults = 0
  MaxCrashes = 0
SYMMETRY Symmetry
INVARIANTS
  NewestListens
CHECK_DEADLOCK FALSE
