\* Two hook invocations of any kind over one client, everything enforced.
CONSTANTS
  h1 = h1
  h2 = h2
  p1 = p1
  Calls = {h1, h2}
  Patterns = {p1}
  Fields = {"content"}
  Tokens = {1}
  MaxQueue = 1
  MaxTracked = 1
  Acts <- AskingActs
  Decisions <- MixedDecisions
  Messages <- MixedMessages
  Configs <- OnlyStrict
  SkillRoots = TRUE
  NoToken = NoToken
  NoJob = NoJob
  NoCall = NoCall
  NoAct = NoAct
  NoAnswer = NoAnswer
  NoMessage = NoMessage
  Removed = Removed
SPECIFICATION Spec
SYMMETRY Symmetry
INVARIANTS
  TypeOK
  SecretsNeedPreserve
  ReportIsOfThatCall
  OthersNeedAnAnswer
  MemoryIsClean
  PendingNeverRuns
  GrantIsOperators
