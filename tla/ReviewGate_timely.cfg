\* Model calls end within the lease; two exact actions share a review, and two
\* workers compete for it.
CONSTANTS
  r1 = r1
  r2 = r2
  f1 = f1
  f2 = f2
  d1 = d1
  d2 = d2
  w1 = w1
  w2 = w2
  Requests = {r1, r2}
  Digests = {d1, d2}
  Fingerprints = {f1}
  Workers = {w1, w2}
  FingerprintOf <- SharedFingerprint
  Priorities = {70}
  Results <- CleanOrBlock
  Events <- RequiredEvents
  Mode = "enforce_tighten"
  PolicyMode = "enforce"
  DenyThreshold = 2
  ApprovalThreshold = 1
  QueueCapacity = 1
  MaxAttempts = 2
  AttemptCap = 2
  FailureThreshold = 1
  LateAnswers = FALSE
  NoResult = NoResult
  NoWorker = NoWorker
SPECIFICATION Spec
SYMMETRY Symmetry
INVARIANTS
  TypeOK
  GateTracksReview
  BlockedHasDeny
  ReleaseIsBound
  LeaseExclusive
PROPERTY
  CompletedIsFinal
