SPECIFICATION Spec
CONSTANTS
  MaxAttempts = 3
  CounterMax = 10
  Provider = {p1, p2}
  Digest = {d1, d2}
  Artifact = {a1, a2}
  None = None
INVARIANTS
  TypeOK
  StateStaysReadable
  QueuedIsClaimable
PROPERTY
  HonoursContract
CHECK_DEADLOCK FALSE
