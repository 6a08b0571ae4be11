\* Two users who write to each other over three connections, and one restart.
SPECIFICATION Spec
CONSTANTS
  a = a
  b = b
  Users <- MCUsers
  Allowed <- MCAllowed
  None = None
  MaxConns = 3
  MaxMessages = 2
  MaxFaults = 1
  MaxCrashes = 1
SYMMETRY Symmetry
INVARIANTS
  TypeOK
  ListenerReachable
  MessageTold
  OneThread
CHECK_DEADLOCK FALSE
