\* One call in the dialog, and another operator who answers first.
CONSTANTS
  h1 = h1
  h2 = h2
  p1 = p1
  Calls = {h1}
  Patterns = {p1}
  Fields = {"content"}
  Tokens = {1}
  MaxQueue = 1
  MaxTracked = 1
  Acts <- MixedActs
  Decisions <- MixedDecisions
  Messages <- MixedMessages
  Configs <- OnlyWatching
  SkillRoots = TRUE
  NoToken = NoToken
  NoJob = NoJob
  NoCall = NoCall
  NoAct = NoAct
  NoAnswer = NoAnswer
  NoMessage = NoMessage
  Removed = Removed
SPECIFICATION Spec
PROPERTIES
  LedgerDecidesRace
