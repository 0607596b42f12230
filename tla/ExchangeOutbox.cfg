SPECIFICATION Spec
CONSTANTS
  Document = {x, y}
  Depth = 2
  source = source
  receiver = receiver
  job = job
  h1 = h1
  h2 = h2
  Host = {h1, h2}
  Replica = {source, receiver, job}
  Jobs <- Approved
  HostOf <- Hosting
  Editors <- Edited
  Targets <- Sending
  Mutation = {m1, m2}
  Revision <- Chains
  Parent <- ParentOf
  ReceiptLimit = 2
  OutboxLimit = 1
  MaxCells = 2
  RevisionLimit = 4
  CounterMax = 2
  None = None
INVARIANTS
  TypeOK
  CellsRestorable
  RevisionsAccounted
  ReceiptsAgree
PROPERTIES
  MovesLikeSync
  DeliversOnce
SYMMETRY Alike
CHECK_DEADLOCK FALSE
