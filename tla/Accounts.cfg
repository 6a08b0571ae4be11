\* Two sessions create, reset and register; one deletion, one cut.
SPECIFICATION Spec
CONSTANTS
  a = a
  b = b
  Emails <- MCEmails
  Imports <- MCImports
  Missing = Missing
  Invalid = Invalid
  Sessions = {s1, s2}
  Limit = 1
  MaxStarts = 2
  MaxTokens = 2
  MaxDeletes = 1
  MaxCuts = 1
SYMMETRY Symmetry
INVARIANTS
  TypeOK
  SeatsEarned
  SerialSeats
  InvitedCanEnter
  OnboardingOrder
CHECK_DEADLOCK FALSE
