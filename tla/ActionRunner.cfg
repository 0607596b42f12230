SPECIFICATION Spec
CONSTANTS
  q = q
  x = x
  d = d
  Action = {q, x, d}
  PolicyOf <- Policies
  CoolsDown = {q, x}
  MaxCalls = 4
  None = None
INVARIANTS
  PulsesRestore
PROPERTIES
  OrderKept
  Answered
CHECK_DEADLOCK FALSE
