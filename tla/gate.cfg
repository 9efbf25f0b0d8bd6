\* Contracts one by one and in pairs, typed policies with and without z3, drafts.
SPECIFICATION DraftSpec
CONSTANTS
  p = p
  q = q
  NoText = NoText
  BlankText = BlankText
  NoPolicy = NoPolicy
  NoContract = NoContract
  Term <- MCTerm
  Depth <- MCDepth
  Float <- MCFloat
  FloatLimit = 15
  Scenario <- MCScenario
  Attempt <- MCAttempt
  Client = {p, q}
  DraftsFor <- MCDrafts
  MaxCases = 12
  MaxCalls = 2
INVARIANTS
  TypeOK
  CertificateIsTrue
  OnlyOverflowFails
  AdmittedConforms
  RollbackRestores
  FirstValidWins
CHECK_DEADLOCK FALSE
