\* One hook invocation of any kind; guardd may come back with a new token.
CONSTANTS
  h1 = h1
  h2 = h2
  p1 = p1
  Calls = {h1}
  Patterns = {p1}
  Fields = {"content"}
  Tokens = {1, 2}
  MaxQueue = 2
  MaxTracked = 1
  Acts <- MixedActs
  Decisions <- MixedDecisions
  Messages <- MixedMessages
  Configs <- BothConfigs
  SkillRoots = TRUE
  NoToken = NoToken
  NoJob = NoJob
  NoCall = NoCall
  NoAct = NoAct
  NoAnswer = NoAnswer
  NoMessage = NoMessage
  Removed = Removed
SPECIFICATION FairSpec
INVARIANTS
  NoLostWakeup
PROPERTIES
  JobsEnd
  StaleTokenIsReplaced
  InstallIsAsked
  AnswerIsTried
