------------------------- MODULE ReviewQueueProofs -------------------------
(***************************************************************************)
(* Proofs about the review queue on its own.  ReviewGateProofs shows that  *)
(* every step of the composed system is a step of this queue or leaves it  *)
(* alone, and so takes these theorems over.                                *)
(***************************************************************************)
EXTENDS ReviewQueue, FiniteSetTheorems, TLAPS

LEMMA RankType ==
  ASSUME QueueAssumption, NEW S, S \subseteq Fingerprints
  PROVE  Cardinality(S) \in Nat
BY FS_Subset, FS_CardinalityType DEF QueueAssumption

LEMMA ReclaimedType ==
  ASSUME QueueTypeOK
  PROVE  Reclaimed \in [Fingerprints -> JobType]
BY DEF QueueTypeOK, Reclaimed, JobType, JobStatus, InFlight

LEMMA BreakerSteps ==
  ASSUME breaker \in BreakerType, FailureThresholdAssumption,
         BreakerAllow \/ BreakerSuccess \/ BreakerFailure \/ CooldownElapses
  PROVE  breaker' \in BreakerType
BY DEF BreakerType, FailureThresholdAssumption, BreakerAllow, BreakerSuccess,
       BreakerFailure, CooldownElapses, FreshBreaker

(* A job that record_llm_review completes keeps its type.                  *)
LEMMA CompletedJobType ==
  ASSUME NEW job \in JobType
  PROVE  [job EXCEPT !.status = "completed", !.owner = NoWorker, !.leased = FALSE] \in JobType
BY DEF JobType, JobStatus

(* A job that fail_llm_review updates keeps its type.                      *)
LEMMA FailedJobType ==
  ASSUME NEW job \in JobType, NEW status \in JobStatus
  PROVE  [job EXCEPT !.status = status, !.owner = NoWorker, !.leased = FALSE,
                     !.ready = status # "queued"] \in JobType
BY DEF JobType

(* The types of the queue's variables, step by step.                       *)
LEMMA QueueTypeStep ==
  ASSUME QueueTypeOK, QueueAssumption, FailureThresholdAssumption, [QueueNext]_queueVars
  PROVE  QueueTypeOK'
<1> USE DEF QueueTypeOK
<1>1. ASSUME NEW w \in Workers, WorkerCleared(w) PROVE QueueTypeOK'
  BY <1>1, BreakerSteps DEF WorkerCleared, WorkerType
<1>2. ASSUME NEW w \in Workers, Claim(w) PROVE QueueTypeOK'
  <2>1. CASE jobs' = Reclaimed /\ worker' = [worker EXCEPT ![w] = Idle]
    BY <1>2, <2>1, ReclaimedType DEF Claim, WorkerType, Idle
  <2>2. ASSUME NEW f \in FirstInLine(Reclaimed),
               jobs' = [Reclaimed EXCEPT ![f] =
                 [@ EXCEPT !.status = "running", !.owner = w, !.leased = TRUE,
                           !.attempts = SaturatingIncrement(Reclaimed[f].attempts)]],
               worker' = [worker EXCEPT ![w] = [at |-> "calling", job |-> f, error |-> None]]
        PROVE  QueueTypeOK'
    <3>1. f \in Fingerprints
      BY DEF FirstInLine, Claimable
    <3>2. SaturatingIncrement(Reclaimed[f].attempts) \in 0..AttemptCap
      BY <3>1, ReclaimedType DEF SaturatingIncrement, JobType, QueueAssumption
    <3>. DEFINE row == [Reclaimed[f] EXCEPT !.status = "running", !.owner = w, !.leased = TRUE,
                          !.attempts = SaturatingIncrement(Reclaimed[f].attempts)]
    <3>3. jobs' \in [Fingerprints -> JobType]
      <4>1. Reclaimed[f] \in JobType /\ "running" \in JobStatus
        BY <3>1, ReclaimedType DEF JobStatus, InFlight
      <4>2. row \in JobType
        BY <3>2, <4>1 DEF JobType
      <4>3. jobs' = [Reclaimed EXCEPT ![f] = row]
        BY <2>2
      <4>. QED
        BY <3>1, <4>2, <4>3, ReclaimedType
    <3>4. worker' \in [Workers -> WorkerType]
      BY <2>2, <3>1 DEF WorkerType
    <3>. QED
      BY <1>2, <3>3, <3>4 DEF Claim
  <2>. QED
    BY <1>2, <2>1, <2>2 DEF Claim
<1>3. ASSUME NEW w \in Workers, WorkerSucceeds(w) PROVE QueueTypeOK'
  BY <1>3, BreakerSteps DEF WorkerSucceeds, WorkerType, Idle
<1>4. ASSUME NEW w \in Workers, WorkerFails(w) PROVE QueueTypeOK'
  <2>1. worker' \in [Workers -> WorkerType]
    BY <1>4 DEF WorkerFails, WorkerType, Idle
  <2>2. jobs' \in [Fingerprints -> JobType]
    <3>. DEFINE f == worker[w].job
                status == FailedStatus(f, worker[w].error)
    <3>1. CASE f \in Fingerprints
      <4>1. status \in JobStatus
        BY DEF FailedStatus, JobStatus, InFlight, Retryable
      <4>2. [jobs[f] EXCEPT !.status = status, !.owner = NoWorker, !.leased = FALSE,
                            !.ready = status # "queued"] \in JobType
        <5>1. jobs[f] \in JobType
          BY <3>1
        <5>. QED
          BY ONLY <4>1, <5>1, FailedJobType
      <4>. QED
        BY <1>4, <3>1, <4>2 DEF WorkerFails, FailReview
    <3>2. CASE f \notin Fingerprints
      BY <1>4, <3>2 DEF WorkerFails, FailReview
    <3>. QED
      BY <3>1, <3>2
  <2>. QED
    BY <1>4, <2>1, <2>2 DEF WorkerFails
<1>5. ASSUME NEW w \in Workers, NEW res \in Results, WorkerRecords(w, res)
      PROVE  QueueTypeOK'
  <2>1. reviews' \in [Fingerprints -> ReviewType]
    BY <1>5 DEF WorkerRecords, RecordReview, ReviewType
  <2>2. jobs' \in [Fingerprints -> JobType]
    <3>. DEFINE f == worker[w].job
    <3>1. CASE f \in Fingerprints
      <4>1. jobs[f] \in JobType
        BY <3>1
      <4>2. [jobs[f] EXCEPT !.status = "completed", !.owner = NoWorker, !.leased = FALSE]
              \in JobType
        BY ONLY <4>1, CompletedJobType
      <4>. QED
        BY <1>5, <3>1, <4>2 DEF WorkerRecords, RecordReview
    <3>2. CASE f \notin Fingerprints
      BY <1>5, <3>2 DEF WorkerRecords, RecordReview
    <3>. QED
      BY <3>1, <3>2
  <2>3. worker' \in [Workers -> WorkerType]
    BY <1>5 DEF WorkerRecords, WorkerType
  <2>. QED
    BY <1>5, <2>1, <2>2, <2>3 DEF WorkerRecords
<1>6. ASSUME NEW w \in Workers, NEW error \in Errors, ModelFails(w, error)
      PROVE  QueueTypeOK'
  BY <1>6, BreakerSteps DEF ModelFails, WorkerType
<1>7. ASSUME NEW f \in Fingerprints, NEW p \in Priorities, EnqueueReview(f, p)
      PROVE  QueueTypeOK'
  <2>1. Cardinality({g \in Fingerprints : jobs[g].status # Absent}) \in Nat
    BY RankType
  <2>2. 0 \in 0..AttemptCap
    BY DEF QueueAssumption
  <2>3. p \in Nat
    BY DEF QueueAssumption
  <2>. QED
    BY <1>7, <2>1, <2>2, <2>3 DEF EnqueueReview, JobType, JobStatus, InFlight
<1>8. ASSUME NEW f \in Fingerprints, RetryReview(f) PROVE QueueTypeOK'
  <2>1. "queued" \in JobStatus
    BY DEF JobStatus, InFlight
  <2>2. [jobs[f] EXCEPT !.status = "queued", !.owner = NoWorker, !.leased = FALSE,
                        !.ready = TRUE] \in JobType
    BY <2>1 DEF JobType
  <2>. QED
    BY <1>8, <2>2 DEF RetryReview
<1>9. ASSUME NEW f \in Fingerprints, LeaseLapses(f) \/ BackoffElapses(f) PROVE QueueTypeOK'
  <2>1. /\ [jobs[f] EXCEPT !.leased = FALSE] \in JobType
        /\ [jobs[f] EXCEPT !.ready = TRUE] \in JobType
    BY DEF JobType
  <2>2. jobs' \in [Fingerprints -> JobType]
    BY <1>9, <2>1 DEF LeaseLapses, BackoffElapses
  <2>. QED
    BY <1>9, <2>2 DEF LeaseLapses, BackoffElapses
<1>10. ASSUME NEW f \in Fingerprints, CacheExpires(f) PROVE QueueTypeOK'
  BY <1>10 DEF CacheExpires, ReviewType
<1>11. CASE BreakerCools
  BY <1>11, BreakerSteps DEF BreakerCools
<1>12. CASE QueueRestart
  BY <1>12 DEF QueueRestart, WorkerType, Idle, FreshBreaker, BreakerType,
               FailureThresholdAssumption
<1>13. CASE UNCHANGED queueVars
  BY <1>13 DEF queueVars
<1>. QED
  BY <1>1, <1>2, <1>3, <1>4, <1>5, <1>6, <1>7, <1>8, <1>9, <1>10, <1>11, <1>12, <1>13
  DEF QueueNext, WorkerLoop, ModelAnswers

LEMMA QueueTypeInit ==
  ASSUME QueueAssumption, FailureThresholdAssumption, QueueInit
  PROVE  QueueTypeOK
BY DEF QueueInit, QueueTypeOK, JobType, JobStatus, ReviewType, WorkerType, Idle,
       BreakerInit, FreshBreaker, BreakerType, QueueAssumption, FailureThresholdAssumption

(* The queue's variables keep their types.                                 *)
THEOREM QueueTypeCorrect == QueueSpec => []QueueTypeOK
<1>1. QueueInit => QueueTypeOK
  BY QueueTypeInit, QueueAssumption, FailureThresholdAssumption
<1>2. QueueTypeOK /\ [QueueNext]_queueVars => QueueTypeOK'
  BY QueueTypeStep, QueueAssumption, FailureThresholdAssumption
<1>. QED
  BY <1>1, <1>2, PTL DEF QueueSpec

-----------------------------------------------------------------------------
(* While model calls end within their leases, a worker on a job holds its  *)
(* lease: nobody takes the lease away but the worker itself.               *)
LEMMA LeaseHeldStep ==
  ASSUME QueueTypeOK, QueueAssumption, ~LateAnswers, LeaseHeld, [QueueNext]_queueVars
  PROVE  LeaseHeld'
<1>. SUFFICES ASSUME NEW w \in Workers, NEW f \in Fingerprints, w \in OnJob(f)'
              PROVE  (jobs[f].status = "running" /\ jobs[f].owner = w /\ jobs[f].leased)'
  BY DEF LeaseHeld
<1>. DEFINE Held == jobs[f].status = "running" /\ jobs[f].owner = w /\ jobs[f].leased
<1>0. w \in OnJob(f) => Held
  BY DEF LeaseHeld
<1>. USE DEF QueueTypeOK
<1>1. ASSUME NEW v \in Workers, WorkerCleared(v) PROVE Held'
  BY <1>0, <1>1 DEF WorkerCleared, OnJob
<1>2. ASSUME NEW v \in Workers, Claim(v) PROVE Held'
  <2>1. CASE v = w
    <3>. DEFINE Takes(g) ==
           /\ jobs' = [Reclaimed EXCEPT ![g] =
                [@ EXCEPT !.status = "running", !.owner = v, !.leased = TRUE,
                          !.attempts = SaturatingIncrement(Reclaimed[g].attempts)]]
           /\ worker' = [worker EXCEPT ![v] = [at |-> "calling", job |-> g, error |-> None]]
    <3>0. worker' # [worker EXCEPT ![w] = Idle]
      BY DEF OnJob, Idle
    <3>1. PICK g \in FirstInLine(Reclaimed) : Takes(g)
      <4>1. \E g \in FirstInLine(Reclaimed) : Takes(g)
        BY <1>2, <2>1, <3>0 DEF Claim
      <4>. QED
        BY <4>1
    <3>2. f = g
      BY <2>1, <3>1 DEF OnJob
    <3>. QED
      BY <2>1, <3>1, <3>2, ReclaimedType DEF JobType
  <2>2. CASE v # w
    <3>1. Held
      BY <1>0, <1>2, <2>2 DEF Claim, OnJob
    <3>2. Reclaimed[f] = jobs[f]
      BY <3>1 DEF Reclaimed
    <3>3. f \notin FirstInLine(Reclaimed)
      BY <3>1, <3>2 DEF FirstInLine, Claimable
    <3>4. jobs'[f] = jobs[f]
      BY <1>2, <3>2, <3>3, ReclaimedType DEF Claim
    <3>. QED
      BY <3>1, <3>4
  <2>. QED
    BY <2>1, <2>2
<1>3. ASSUME NEW v \in Workers, WorkerSucceeds(v) PROVE Held'
  BY <1>0, <1>3 DEF WorkerSucceeds, OnJob, Idle
<1>4. ASSUME NEW v \in Workers, WorkerFails(v) PROVE Held'
  <2>1. v # w
    BY <1>4 DEF WorkerFails, OnJob, Idle
  <2>2. Held
    BY <1>0, <1>4, <2>1 DEF WorkerFails, OnJob
  <2>3. worker[v].job # f
    BY <1>4, <2>1, <2>2 DEF LeaseHeld, OnJob, WorkerFails
  <2>4. jobs'[f] = jobs[f]
    BY <1>4, <2>3 DEF WorkerFails, FailReview
  <2>. QED
    BY <2>2, <2>4
<1>5. ASSUME NEW v \in Workers, NEW res \in Results, WorkerRecords(v, res) PROVE Held'
  <2>1. v # w
    BY <1>5 DEF WorkerRecords, OnJob
  <2>2. Held
    BY <1>0, <1>5, <2>1 DEF WorkerRecords, OnJob
  <2>3. worker[v].job # f
    BY <1>5, <2>1, <2>2 DEF LeaseHeld, OnJob, WorkerRecords
  <2>4. jobs'[f] = jobs[f]
    BY <1>5, <2>3 DEF WorkerRecords, RecordReview
  <2>. QED
    BY <2>2, <2>4
<1>6. ASSUME NEW v \in Workers, NEW error \in Errors, ModelFails(v, error) PROVE Held'
  BY <1>0, <1>6 DEF ModelFails, OnJob, WorkerType
<1>7. ASSUME NEW g \in Fingerprints, NEW p \in Priorities, EnqueueReview(g, p) PROVE Held'
  <2>1. Held
    BY <1>0, <1>7 DEF EnqueueReview, OnJob
  <2>. QED
    BY <1>7, <2>1 DEF EnqueueReview, Absent
<1>8. ASSUME NEW g \in Fingerprints, RetryReview(g) PROVE Held'
  <2>1. Held
    BY <1>0, <1>8 DEF RetryReview, OnJob
  <2>. QED
    BY <1>8, <2>1 DEF RetryReview, Retryable
<1>9. ASSUME NEW g \in Fingerprints, LeaseLapses(g) PROVE Held'
  <2>1. w \in OnJob(f)
    BY <1>9 DEF LeaseLapses, OnJob
  <2>2. g # f
    BY <1>9, <2>1 DEF LeaseLapses
  <2>. QED
    BY <1>0, <1>9, <2>1, <2>2 DEF LeaseLapses
<1>10. ASSUME NEW g \in Fingerprints, BackoffElapses(g) PROVE Held'
  <2>1. Held
    BY <1>0, <1>10 DEF BackoffElapses, OnJob
  <2>. QED
    BY <1>10, <2>1 DEF BackoffElapses, JobType
<1>11. ASSUME NEW g \in Fingerprints, CacheExpires(g) PROVE Held'
  BY <1>0, <1>11 DEF CacheExpires, OnJob
<1>12. CASE BreakerCools
  BY <1>0, <1>12 DEF BreakerCools, OnJob
<1>13. CASE QueueRestart
  BY <1>13 DEF QueueRestart, OnJob, Idle
<1>14. CASE UNCHANGED queueVars
  BY <1>0, <1>14 DEF queueVars, OnJob
<1>. QED
  BY <1>1, <1>2, <1>3, <1>4, <1>5, <1>6, <1>7, <1>8, <1>9, <1>10, <1>11, <1>12, <1>13, <1>14
  DEF QueueNext, WorkerLoop, ModelAnswers

LEMMA LeaseHeldInit ==
  ASSUME QueueInit
  PROVE  LeaseHeld
BY DEF QueueInit, LeaseHeld, OnJob, Idle

LEMMA QueueTimelyInvariant ==
  ASSUME ~LateAnswers
  PROVE  QueueSpec => [](QueueTypeOK /\ LeaseHeld)
<1>1. QueueInit => QueueTypeOK /\ LeaseHeld
  BY QueueTypeInit, LeaseHeldInit, QueueAssumption, FailureThresholdAssumption
<1>2. QueueTypeOK /\ LeaseHeld /\ [QueueNext]_queueVars => (QueueTypeOK /\ LeaseHeld)'
  BY QueueTypeStep, LeaseHeldStep, QueueAssumption, FailureThresholdAssumption
<1>. QED
  BY <1>1, <1>2, PTL DEF QueueSpec

(* Transaction and lease keep two workers off the same job, for any number *)
(* of workers and jobs, as long as no call outlives its lease.             *)
THEOREM LeaseExclusiveWhenTimely ==
  ASSUME ~LateAnswers
  PROVE  QueueSpec => []LeaseExclusive
<1>1. LeaseHeld => LeaseExclusive
  BY DEF LeaseHeld, LeaseExclusive, OnJob
<1>. QED
  BY <1>1, QueueTimelyInvariant, PTL

(* A worker that writes to a completed job would hold its lease, and a     *)
(* completed job has none.                                                 *)
LEMMA CompletedStep ==
  ASSUME QueueTypeOK, LeaseHeld, [QueueNext]_queueVars,
         NEW f \in Fingerprints, jobs[f].status = "completed"
  PROVE  jobs'[f].status = "completed" /\ reviews'[f].result = reviews[f].result
<1>. USE DEF QueueTypeOK
<1>1. ASSUME NEW w \in Workers, WorkerCleared(w) \/ WorkerSucceeds(w)
      PROVE  UNCHANGED <<jobs, reviews>>
  BY <1>1 DEF WorkerCleared, WorkerSucceeds
<1>2. ASSUME NEW w \in Workers, Claim(w) PROVE jobs'[f] = jobs[f] /\ reviews' = reviews
  <2>1. Reclaimed[f] = jobs[f]
    BY DEF Reclaimed
  <2>2. f \notin FirstInLine(Reclaimed)
    BY <2>1 DEF FirstInLine, Claimable
  <2>. QED
    BY <1>2, <2>1, <2>2, ReclaimedType DEF Claim
<1>3. ASSUME NEW w \in Workers, WorkerFails(w) PROVE jobs'[f] = jobs[f] /\ reviews' = reviews
  <2>1. worker[w].job # f
    BY <1>3 DEF WorkerFails, LeaseHeld, OnJob
  <2>. QED
    BY <1>3, <2>1 DEF WorkerFails, FailReview
<1>4. ASSUME NEW w \in Workers, NEW res \in Results, WorkerRecords(w, res)
      PROVE  jobs'[f] = jobs[f] /\ reviews'[f] = reviews[f]
  <2>1. worker[w].job # f
    BY <1>4 DEF WorkerRecords, LeaseHeld, OnJob
  <2>. QED
    BY <1>4, <2>1 DEF WorkerRecords, RecordReview
<1>5. ASSUME NEW w \in Workers, NEW error \in Errors, ModelFails(w, error)
      PROVE  UNCHANGED <<jobs, reviews>>
  BY <1>5 DEF ModelFails
<1>6. ASSUME NEW g \in Fingerprints, NEW p \in Priorities, EnqueueReview(g, p)
      PROVE  jobs'[f] = jobs[f] /\ reviews' = reviews
  BY <1>6 DEF EnqueueReview, Absent
<1>7. ASSUME NEW g \in Fingerprints, RetryReview(g)
      PROVE  jobs'[f] = jobs[f] /\ reviews' = reviews
  BY <1>7 DEF RetryReview, Retryable
<1>8. ASSUME NEW g \in Fingerprints, LeaseLapses(g) \/ BackoffElapses(g)
      PROVE  jobs'[f].status = jobs[f].status /\ reviews' = reviews
  BY <1>8 DEF LeaseLapses, BackoffElapses, JobType
<1>9. ASSUME NEW g \in Fingerprints, CacheExpires(g)
      PROVE  jobs' = jobs /\ reviews'[f].result = reviews[f].result
  BY <1>9 DEF CacheExpires, ReviewType
<1>10. BreakerCools \/ QueueRestart \/ UNCHANGED queueVars => UNCHANGED <<jobs, reviews>>
  BY DEF BreakerCools, QueueRestart, queueVars
<1>. QED
  BY <1>1, <1>2, <1>3, <1>4, <1>5, <1>6, <1>7, <1>8, <1>9, <1>10
  DEF QueueNext, WorkerLoop, ModelAnswers

(* A completed review keeps its result for good.                           *)
THEOREM CompletedIsFinalWhenTimely ==
  ASSUME ~LateAnswers
  PROVE  QueueSpec => CompletedIsFinal
<1>1. QueueTypeOK /\ LeaseHeld /\ [QueueNext]_queueVars =>
        [\A f \in Fingerprints :
           jobs[f].status = "completed" =>
             /\ jobs'[f].status = "completed"
             /\ reviews'[f].result = reviews[f].result]_queueVars
  BY CompletedStep
<1>. QED
  BY <1>1, QueueTimelyInvariant, PTL DEF QueueSpec, CompletedIsFinal
=============================================================================
