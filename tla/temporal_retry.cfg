\* A Temporal activity that runs again after its worker died.
CONSTANTS
  a = a
  b = b
  c = c
  d = d
  k = k
  l = l
  NoKey = NoKey
  Step = {a, b}
  Key = {k, l}
  KeyOf <- NoKeys
  Thread = {t1}
  Batch <- OneRun
  Gated = {}
  ToolOutcome = {"ok", "failed"}
  UndoOutcome = {"ok", "failed", "lost"}
  Hooks = {"none"}
  MaxCrash = 1
SPECIFICATION ActivitySpec
INVARIANTS
  RolledBackMeansUndone
CHECK_DEADLOCK FALSE
