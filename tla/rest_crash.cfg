\* A saga fed one step per request, and a crash during the second.
CONSTANTS
  a = a
  b = b
  c = c
  d = d
  k = k
  l = l
  NoKey = NoKey
  Step = {a, b}
  Key = {k, l}
  KeyOf <- NoKeys
  Thread = {t1}
  Batch <- RestBatches
  Gated = {}
  ToolOutcome = {"ok"}
  UndoOutcome = {"ok"}
  Hooks = {"none"}
  MaxCrash = 1
SPECIFICATION Spec
INVARIANTS
  CommittedMeansDone
CHECK_DEADLOCK FALSE
