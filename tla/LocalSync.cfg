SPECIFICATION Spec
CONSTANTS
  Document = {x, y}
  Depth = 2
  Mutation = {m1, m2, m3, m4}
  Revision <- Chains
  Parent <- ParentOf
  ReceiptLimit = 3
  CounterMax = 2
  None = None
INVARIANTS
  TypeOK
  LinearHistory
  ConflictsAreReal
PROPERTY
  KeepsLog
CHECK_DEADLOCK FALSE
