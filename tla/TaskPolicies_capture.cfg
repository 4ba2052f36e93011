\* One session without generations; the clock and the base policy move.
CONSTANTS
  s1 = s1
  s2 = s2
  p1 = p1
  p2 = p2
  look = look
  edit = edit
  c1 = c1
  c2 = c2
  Sessions = {s1}
  ParentOf <- NoParents
  NoSession = NoSession
  Prompts = {p1, p2}
  Perms = {look, edit}
  ScopeOf <- WideAndNarrow
  ReadOnly = {look}
  Calls = {look}
  Content = {edit}
  Bases = {b1, b2}
  Callers = {c1, c2}
  Hybrid = FALSE
  Crashes = TRUE
  Ttl = 1
  MaxNow = 1
  MaxRevision = 2
  NoPolicy = NoPolicy
SPECIFICATION Spec
SYMMETRY Symmetry
INVARIANTS
  AllowUnderCurrentBase
PROPERTIES
  DecidedIsFinal
  NarrowingKeepsExpiry
  ImplementsGrant
