\* Reads that overlap, sleep cycles that overlap, either backend.
SPECIFICATION PatientSpec
CONSTANTS
  a = a
  b = b
  c = c
  d = d
  e = e
  z = z
  p = p
  q = q
  Fact <- MCFact
  Tenants <- MCTenants
  Lifetime <- MCLifetime
  Scenario <- MCScenario
  Reader = {r1, r2}
  Job = {j1, j2}
  Attempts = 3
  MinSamples = 2
  MaxPage = 2
INVARIANTS
  TypeOK
  AnswersAreTrue
  ClustersAreDense
  GraphIsEarned
PROPERTIES
  ForgottenForGood
  JobsEnd
CHECK_DEADLOCK FALSE
