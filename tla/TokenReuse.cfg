\* One token, two resets at once; nobody is deleted and nothing is cut.
SPECIFICATION Spec
CONSTANTS
  a = a
  b = b
  Emails <- MCEmails
  Imports <- MCImports
  Missing = Missing
  Invalid = Invalid
  Sessions = {s1, s2}
  Limit = 1
  MaxStarts = 1
  MaxTokens = 2
  MaxDeletes = 0
  MaxCuts = 0
SYMMETRY Symmetry
INVARIANTS
  TokenUsedOnce
CHECK_DEADLOCK FALSE
