\* Fair workers, answers that may come late, and a dead process's leases.
CONSTANTS
  f1 = f1
  f2 = f2
  w1 = w1
  w2 = w2
  Fingerprints = {f1, f2}
  Workers = {w1, w2}
  Priorities = {70}
  Results <- OnlyClean
  DenyThreshold = 2
  ApprovalThreshold = 1
  QueueCapacity = 2
  MaxAttempts = 2
  AttemptCap = 2
  FailureThreshold = 2
  LateAnswers = TRUE
  NoResult = NoResult
  NoWorker = NoWorker
SPECIFICATION QueueFairSpec
PROPERTY
  ReviewsEnd
