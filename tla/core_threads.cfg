\* Two requests at a time, a step in two batches, every outcome, a crash.
CONSTANTS
  a = a
  b = b
  c = c
  d = d
  k = k
  l = l
  NoKey = NoKey
  Step = {a, b}
  Key = {k, l}
  KeyOf <- OneKey
  Thread = {t1, t2}
  Batch <- OverlappingBatches
  Gated = {b}
  ToolOutcome = {"ok", "failed", "raised", "lost"}
  UndoOutcome = {"ok", "failed", "lost"}
  Hooks = {"none", "resolver", "idempotent"}
  MaxCrash = 1
SPECIFICATION Spec
INVARIANTS
  SafeInv
  AtMostOnce
  IntentBeforeEffect
  JournalMatchesWorld
CHECK_DEADLOCK FALSE
