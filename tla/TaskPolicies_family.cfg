\* A parent and a child session, no content revisions.
CONSTANTS
  s1 = s1
  s2 = s2
  p1 = p1
  p2 = p2
  look = look
  edit = edit
  c1 = c1
  c2 = c2
  Sessions = {s1, s2}
  ParentOf <- Pair
  NoSession = NoSession
  Prompts = {p1, p2}
  Perms = {look, edit}
  ScopeOf <- Switch
  ReadOnly = {look}
  Calls = {look}
  Content = {}
  Bases = {b1}
  Callers = {c1}
  Hybrid = TRUE
  Crashes = TRUE
  Ttl = 1
  MaxNow = 0
  MaxRevision = 2
  NoPolicy = NoPolicy
SPECIFICATION Spec
SYMMETRY Symmetry
INVARIANTS
  ChildWithinParent
  AllowedWasConfirmed
