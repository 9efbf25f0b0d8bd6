\* A second process recovers over a live store.
CONSTANTS
  a = a
  b = b
  c = c
  d = d
  k = k
  l = l
  NoKey = NoKey
  Step = {a, b}
  Key = {k, l}
  KeyOf <- OneKey
  Thread = {t1}
  Batch <- OverlappingBatches
  Gated = {b}
  ToolOutcome = {"ok", "failed", "raised", "lost"}
  UndoOutcome = {"ok", "failed", "lost"}
  Hooks = {"none", "resolver"}
  MaxCrash = 1
SPECIFICATION PeerSpec
INVARIANTS
  AtMostOnce
  IntentBeforeEffect
CHECK_DEADLOCK FALSE
