\* One request of every kind against every kind of review result.
CONSTANTS
  r1 = r1
  r2 = r2
  f1 = f1
  f2 = f2
  d1 = d1
  d2 = d2
  w1 = w1
  w2 = w2
  Requests = {r1}
  Digests = {d1, d2}
  Fingerprints = {f1, f2}
  Workers = {w1}
  FingerprintOf <- OwnFingerprints
  Priorities = {70}
  Results <- AllResults
  Events <- AllEvents
  Mode = "enforce_tighten"
  PolicyMode = "enforce"
  DenyThreshold = 2
  ApprovalThreshold = 1
  QueueCapacity = 1
  MaxAttempts = 1
  AttemptCap = 1
  FailureThreshold = 1
  LateAnswers = FALSE
  NoResult = NoResult
  NoWorker = NoWorker
SPECIFICATION Spec
INVARIANTS
  RequiredReviewDecides
