\* One request at a time, batches that overlap, every outcome of a tool.
CONSTANTS
  a = a
  b = b
  c = c
  d = d
  k = k
  l = l
  NoKey = NoKey
  Step = {a, b, c}
  Key = {k, l}
  KeyOf <- KeysOfRetry
  Thread = {t1}
  Batch <- RetriedBatches
  Gated = {b}
  ToolOutcome = {"ok", "failed", "raised", "lost"}
  UndoOutcome = {"ok", "failed", "lost"}
  Hooks = {"none"}
  MaxCrash = 0
SPECIFICATION FairSpec
INVARIANTS
  RolledBackMeansUndone
  FlaggedIsReported
  NoOrphan
PROPERTIES
  LifoCompensation
  CallsResolve
CHECK_DEADLOCK FALSE
