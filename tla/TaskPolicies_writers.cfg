\* One session; prompts, generations and operators at work together.
CONSTANTS
  s1 = s1
  s2 = s2
  p1 = p1
  p2 = p2
  look = look
  edit = edit
  c1 = c1
  c2 = c2
  Sessions = {s1}
  ParentOf <- NoParents
  NoSession = NoSession
  Prompts = {p1, p2}
  Perms = {look}
  ScopeOf <- LookOrNothing
  ReadOnly = {look}
  Calls = {}
  Content = {look}
  Bases = {b1}
  Callers = {c1, c2}
  Hybrid = TRUE
  Crashes = TRUE
  Ttl = 1
  MaxNow = 0
  MaxRevision = 3
  NoPolicy = NoPolicy
SPECIFICATION Spec
SYMMETRY Symmetry
INVARIANTS
  TypeOK
  PendingIsNewest
  OneActive
PROPERTIES
  OnlyOperatorsWiden
