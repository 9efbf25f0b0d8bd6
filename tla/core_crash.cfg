\* One batch, one request at a time, crashes anywhere.
CONSTANTS
  a = a
  b = b
  c = c
  d = d
  k = k
  l = l
  NoKey = NoKey
  Step = {a, b, c, d}
  Key = {k, l}
  KeyOf <- RepeatedKey
  Thread = {t1}
  Batch <- OneBatch
  Gated = {b}
  ToolOutcome = {"ok", "failed"}
  UndoOutcome = {"ok", "failed", "lost"}
  Hooks = {"none", "resolver", "idempotent"}
  MaxCrash = 2
SPECIFICATION FairSpec
INVARIANTS
  TypeOK
  NoOrphan
PROPERTIES
  LifoCompensation
  ImplementsOutcome
  RollbackEnds
  CallsResolve
CHECK_DEADLOCK FALSE
