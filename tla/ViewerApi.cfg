SPECIFICATION Spec
CONSTANTS
  p1 = p1
  p2 = p2
  e = e
  Socket = {c1}
  Pairing = {p1, p2}
  Request = {r1, r2}
  Asset = {a1}
  Event = {e}
  ScopeOf <- Scopes
  MaxPending = 1
  MaxGrants = 1
  MaxBadCodes = 2
  MaxUnsent = 2
  AllowSessionGrants = TRUE
  None = None
  QueueCount = 2
  QueueBytes = 3
  PayloadBytes = 2
  FlushBytes = 2
  NoticeBytes = 0
INVARIANTS
  GrantsDurable
  HandleSpentOnce
  DropsAccounted
  NothingStranded
PROPERTIES
  ChallengeAnsweredOnce
  RevocationIsFinal
SYMMETRY Alike
