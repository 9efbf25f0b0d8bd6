\* Two clients, one journaled step, any calls, any deaths.
SPECIFICATION Spec
CONSTANTS
  c1 = c1
  c2 = c2
  s1 = s1
  k = k
  none = none
  Client <- MCClient
  Step <- MCStep
  Key <- MCKey
  NoKey = none
  Written <- MCWritten
  NoCall = NoCall
  KeyOf <- MCKeyOf
INVARIANTS TypeOK ListIsComplete IndexAgrees
PROPERTIES ImplementsJournal TransitionReturns
