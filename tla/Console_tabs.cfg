\* Two tabs of one browser, a page in one of them, the same things done elsewhere.
CONSTANTS
  t1 = t1
  t2 = t2
  a1 = a1
  a2 = a2
  Tabs = {t1, t2}
  c1 = c1
  c2 = c2
  Codes = {c1, c2}
  MaxCsrf = 2
  NoCode = NoCode
  NoToken = NoToken
  Texts = {watch, enforce}
  Valid = {watch, enforce}
  Enforcing = {enforce}
  Passing = {enforce}
  Publishers = {t1, t2, other}
  NoText = NoText
  Nobody = Nobody
  PolicyTabs = {t1, t2}
  Checks = {"regression"}
  NoView = NoView
  ApprovalTabs = {t1, t2}
  Requests = {a1, a2}
  NoRequestSelected = NoRequestSelected
  Layouts <- OnePageEach
SPECIFICATION FairSpec
INVARIANTS
  TypeOK
  FileAndMemoryAgree
PROPERTIES
  EnforceIsConfirmed
  AppliedOverExpected
  WrittenByShown
  AllowedWasTicked
  GuideWhenGone
