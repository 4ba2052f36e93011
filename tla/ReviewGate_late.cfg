\* Two workers whose model calls may outlive their leases.
CONSTANTS
  r1 = r1
  r2 = r2
  f1 = f1
  f2 = f2
  d1 = d1
  d2 = d2
  w1 = w1
  w2 = w2
  Requests = {r1}
  Digests = {d1}
  Fingerprints = {f1}
  Workers = {w1, w2}
  FingerprintOf <- OnlyAction
  Priorities = {70}
  Results <- CleanOrBlock
  Events <- MixedEvents
  Mode = "enforce_tighten"
  PolicyMode = "enforce"
  DenyThreshold = 2
  ApprovalThreshold = 1
  QueueCapacity = 1
  MaxAttempts = 2
  AttemptCap = 2
  FailureThreshold = 1
  LateAnswers = TRUE
  NoResult = NoResult
  NoWorker = NoWorker
SPECIFICATION Spec
INVARIANTS
  NoStrandedGate
PROPERTIES
  ImplementsTicket
  BlockOpensOnlyByOperator
