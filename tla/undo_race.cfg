\* Two requests fail at the same time.
CONSTANTS
  a = a
  b = b
  c = c
  d = d
  k = k
  l = l
  NoKey = NoKey
  Step = {a, b}
  Key = {k, l}
  KeyOf <- OneKey
  Thread = {t1, t2}
  Batch <- OverlappingBatches
  Gated = {}
  ToolOutcome = {"ok", "failed", "raised", "lost"}
  UndoOutcome = {"ok", "failed", "lost"}
  Hooks = {"none"}
  MaxCrash = 0
SPECIFICATION Spec
INVARIANTS
  CompensateOnce
CHECK_DEADLOCK FALSE
