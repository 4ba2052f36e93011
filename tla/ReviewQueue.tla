---------------------------- MODULE ReviewQueue ----------------------------
(***************************************************************************)
(* The persistent queue of semantic reviews and the worker threads that    *)
(* drain it.                                                               *)
(*                                                                         *)
(* jobs is the table llm_review_jobs, whose fingerprint is UNIQUE: there   *)
(* is at most one row per fingerprint, so a fingerprint also names the     *)
(* review.  reviews is the table llm_reviews.  Both outlive the process.   *)
(* worker is the control state of each thread of SafetyReviewAgent.  Every *)
(* method of the store is one transaction under one lock, hence one        *)
(* action; a worker runs several of them with the model call in between.   *)
(*                                                                         *)
(* Clocks are replaced by what the code asks of them: leased (the lease is *)
(* in the future), ready (next_attempt_at is NULL or past), fresh (the     *)
(* review's cache entry has not expired).  A clock step turns one of them, *)
(* at any time.                                                            *)
(***************************************************************************)
EXTENDS CircuitBreaker, DecisionFusion, FiniteSets

CONSTANTS
  Fingerprints,   \* fingerprints of the review inputs
  Workers,        \* threads of the review agent
  Results,        \* validated results the model may return
  Priorities,     \* priorities a review can be asked for with
  QueueCapacity,  \* settings.llm_queue_capacity
  MaxAttempts,    \* max_attempts of fail_llm_review
  AttemptCap,     \* attempt_count saturates here; only compared with MaxAttempts
  LateAnswers,    \* TRUE if a model call may outlive the lease of its job
  NoResult,       \* no row in llm_reviews
  NoWorker        \* lease_owner is NULL

ASSUME QueueAssumption ==
  /\ IsFiniteSet(Fingerprints)
  /\ None \notin Fingerprints
  /\ Results \subseteq SafetyReviewResult
  /\ Priorities \subseteq Nat
  /\ QueueCapacity \in Nat \ {0}
  /\ MaxAttempts \in Nat \ {0}
  /\ AttemptCap \in Nat
  /\ AttemptCap >= MaxAttempts
  /\ LateAnswers \in BOOLEAN
  /\ NoResult \notin Results
  /\ NoWorker \notin Workers

VARIABLES jobs, reviews, worker

queueVars == <<jobs, reviews, worker, breaker>>

Absent == "absent"
InFlight == {"queued", "running"}
Retryable == {"failed", "timed_out"}
JobStatus == {Absent, "completed"} \union InFlight \union Retryable

JobType ==
  [status : JobStatus, attempts : 0..AttemptCap, owner : Workers \union {NoWorker},
   leased : BOOLEAN, ready : BOOLEAN, priority : Nat, rank : Nat]

ReviewType == [result : Results \union {NoResult}, fresh : BOOLEAN]

(* A worker asks the breaker, claims, calls the model, then writes the     *)
(* result or the failure.  error is the failure it is about to write.      *)
Errors == {"timeout", "transient", "fatal"}
WorkerType ==
  [at : {"idle", "cleared", "calling", "recorded", "failing"},
   job : Fingerprints \union {None}, error : Errors \union {None}]

Idle == [at |-> "idle", job |-> None, error |-> None]

QueueTypeOK ==
  /\ jobs \in [Fingerprints -> JobType]
  /\ reviews \in [Fingerprints -> ReviewType]
  /\ worker \in [Workers -> WorkerType]
  /\ breaker \in BreakerType

QueueInit ==
  /\ jobs = [f \in Fingerprints |->
       [status |-> Absent, attempts |-> 0, owner |-> NoWorker,
        leased |-> FALSE, ready |-> TRUE, priority |-> 0, rank |-> 0]]
  /\ reviews = [f \in Fingerprints |-> [result |-> NoResult, fresh |-> FALSE]]
  /\ worker = [w \in Workers |-> Idle]
  /\ BreakerInit

-----------------------------------------------------------------------------
(* The store's transactions.                                               *)

InFlightJobs == {f \in Fingerprints : jobs[f].status \in InFlight}

(* A review that get_llm_review_by_fingerprint returns.                    *)
Cached(f) ==
  /\ reviews[f].result # NoResult
  /\ reviews[f].fresh
  /\ jobs[f].status = "completed"

QueueFull == Cardinality(InFlightJobs) >= QueueCapacity

(* enqueue_llm_review: an existing row is returned untouched, whatever its *)
(* status, its priority included; a new row needs room.  The agent looks   *)
(* for a cached review first; if it finds one the row is completed, and    *)
(* the answer is the one given here.                                       *)
EnqueueReview(f, priority) ==
  /\ jobs' = IF jobs[f].status # Absent \/ QueueFull THEN jobs
             ELSE [jobs EXCEPT ![f] =
                     [status |-> "queued", attempts |-> 0, owner |-> NoWorker,
                      leased |-> FALSE, ready |-> TRUE, priority |-> priority,
                      rank |-> Cardinality({g \in Fingerprints : jobs[g].status # Absent})]]
  /\ UNCHANGED <<reviews, worker, breaker>>

(* What the caller of enqueue_llm_review sees: the status of the row, or   *)
(* None when the queue is full.                                            *)
EnqueuedStatus(f) ==
  CASE jobs[f].status # Absent -> jobs[f].status
    [] jobs[f].status = Absent /\ QueueFull -> None
    [] jobs[f].status = Absent /\ ~QueueFull -> "queued"

(* Mutant: the claim takes back every running job, live leases included.   *)
ReclaimedLiveLeases ==
  [f \in Fingerprints |->
     IF jobs[f].status = "running"
     THEN [jobs[f] EXCEPT !.status = "queued", !.owner = NoWorker]
     ELSE jobs[f]]

(* Mutant: the claim takes nothing back.                                   *)
ReclaimedNever == jobs

(* First half of claim_llm_review: running jobs whose lease is over go     *)
(* back to the queue.                                                      *)
Reclaimed ==
  [f \in Fingerprints |->
     IF jobs[f].status = "running" /\ ~jobs[f].leased
     THEN [jobs[f] EXCEPT !.status = "queued", !.owner = NoWorker]
     ELSE jobs[f]]

(* ORDER BY priority DESC, created_at ASC.                                 *)
Before(table, f, g) ==
  \/ table[f].priority > table[g].priority
  \/ table[f].priority = table[g].priority /\ table[f].rank < table[g].rank

Claimable(table) == {f \in Fingerprints : table[f].status = "queued" /\ table[f].ready}

FirstInLine(table) ==
  {f \in Claimable(table) : \A g \in Claimable(table) \ {f} : ~Before(table, g, f)}

SaturatingIncrement(n) == IF n < AttemptCap THEN n + 1 ELSE AttemptCap

(* fail_llm_review: neither the status nor the lease owner is looked at.   *)
FailedStatus(f, error) ==
  IF error # "fatal" /\ jobs[f].attempts < MaxAttempts THEN "queued"
  ELSE IF error = "timeout" THEN "timed_out" ELSE "failed"

FailReview(f, error) ==
  jobs' = [jobs EXCEPT ![f] =
    [@ EXCEPT !.status = FailedStatus(f, error), !.owner = NoWorker, !.leased = FALSE,
              !.ready = FailedStatus(f, error) # "queued"]]

(* record_llm_review: replaces the review and completes the job, again     *)
(* whatever the job's status or owner.                                     *)
RecordReview(f, res) ==
  /\ reviews' = [reviews EXCEPT ![f] = [result |-> res, fresh |-> TRUE]]
  /\ jobs' = [jobs EXCEPT ![f] =
       [@ EXCEPT !.status = "completed", !.owner = NoWorker, !.leased = FALSE]]

-----------------------------------------------------------------------------
(* The worker threads.                                                     *)

WorkerCleared(w) ==
  /\ worker[w].at = "idle"
  /\ BreakerAllow
  /\ worker' = [worker EXCEPT ![w].at = "cleared"]
  /\ UNCHANGED <<jobs, reviews>>

Claim(w) ==
  /\ worker[w].at = "cleared"
  /\ \/ /\ Claimable(Reclaimed) = {}
        /\ jobs' = Reclaimed
        /\ worker' = [worker EXCEPT ![w] = Idle]
     \/ \E f \in FirstInLine(Reclaimed) :
          /\ jobs' = [Reclaimed EXCEPT ![f] =
               [@ EXCEPT !.status = "running", !.owner = w, !.leased = TRUE,
                         !.attempts = SaturatingIncrement(Reclaimed[f].attempts)]]
          /\ worker' = [worker EXCEPT ![w] = [at |-> "calling", job |-> f, error |-> None]]
  /\ UNCHANGED <<reviews, breaker>>

(* The model answers and the validator accepts or degrades the answer.     *)
WorkerRecords(w, res) ==
  /\ worker[w].at = "calling"
  /\ RecordReview(worker[w].job, res)
  /\ worker' = [worker EXCEPT ![w].at = "recorded"]
  /\ UNCHANGED breaker

WorkerSucceeds(w) ==
  /\ worker[w].at = "recorded"
  /\ BreakerSuccess
  /\ worker' = [worker EXCEPT ![w] = Idle]
  /\ UNCHANGED <<jobs, reviews>>

(* The call raises: a timeout, another retryable provider error, or one    *)
(* that is not retried (rejected request, malformed answer, store error).  *)
ModelFails(w, error) ==
  /\ worker[w].at = "calling"
  /\ BreakerFailure
  /\ worker' = [worker EXCEPT ![w] = [@ EXCEPT !.at = "failing", !.error = error]]
  /\ UNCHANGED <<jobs, reviews>>

WorkerFails(w) ==
  /\ worker[w].at = "failing"
  /\ FailReview(worker[w].job, worker[w].error)
  /\ worker' = [worker EXCEPT ![w] = Idle]
  /\ UNCHANGED <<reviews, breaker>>

-----------------------------------------------------------------------------
(* The operator, the clock and the process.                                *)

(* Mutant: any finished job can be retried.                                *)
RetryAnyFinished(f) ==
  /\ jobs[f].status \notin InFlight \union {Absent}
  /\ jobs' = [jobs EXCEPT ![f] =
       [@ EXCEPT !.status = "queued", !.owner = NoWorker, !.leased = FALSE, !.ready = TRUE]]
  /\ UNCHANGED <<reviews, worker, breaker>>

(* retry_llm_review on a job that failed; on any other it only reads.      *)
(* attempt_count is not reset.                                             *)
RetryReview(f) ==
  /\ jobs[f].status \in Retryable
  /\ jobs' = [jobs EXCEPT ![f] =
       [@ EXCEPT !.status = "queued", !.owner = NoWorker, !.leased = FALSE, !.ready = TRUE]]
  /\ UNCHANGED <<reviews, worker, breaker>>

OnJob(f) == {w \in Workers : worker[w].job = f /\ worker[w].at \in {"calling", "failing"}}

(* The lease of a running job runs out.  Unless LateAnswers, that happens  *)
(* only to a job whose worker died with the process: the lease is longer   *)
(* than the nominal request timeout.                                       *)
LeaseLapses(f) ==
  /\ jobs[f].status = "running"
  /\ jobs[f].leased
  /\ LateAnswers \/ OnJob(f) = {}
  /\ jobs' = [jobs EXCEPT ![f].leased = FALSE]
  /\ UNCHANGED <<reviews, worker, breaker>>

BackoffElapses(f) ==
  /\ ~jobs[f].ready
  /\ jobs' = [jobs EXCEPT ![f].ready = TRUE]
  /\ UNCHANGED <<reviews, worker, breaker>>

CacheExpires(f) ==
  /\ reviews[f].fresh
  /\ reviews' = [reviews EXCEPT ![f].fresh = FALSE]
  /\ UNCHANGED <<jobs, worker, breaker>>

BreakerCools ==
  /\ CooldownElapses
  /\ UNCHANGED <<jobs, reviews, worker>>

(* The process stops, by a crash or by a close() that waits two seconds    *)
(* and gives no lease back, and starts again with new threads.             *)
QueueRestart ==
  /\ worker' = [w \in Workers |-> Idle]
  /\ breaker' = FreshBreaker
  /\ UNCHANGED <<jobs, reviews>>

-----------------------------------------------------------------------------
(* The queue on its own, driven by whoever asks for reviews.               *)

WorkerLoop(w) == WorkerCleared(w) \/ Claim(w) \/ WorkerSucceeds(w) \/ WorkerFails(w)

ModelAnswers(w) ==
  \/ \E res \in Results : WorkerRecords(w, res)
  \/ \E error \in Errors : ModelFails(w, error)

QueueNext ==
  \/ \E w \in Workers : WorkerLoop(w) \/ ModelAnswers(w)
  \/ \E f \in Fingerprints :
       \/ \E p \in Priorities : EnqueueReview(f, p)
       \/ RetryReview(f)
       \/ LeaseLapses(f) \/ BackoffElapses(f) \/ CacheExpires(f)
  \/ BreakerCools
  \/ QueueRestart

QueueSpec == QueueInit /\ [][QueueNext]_queueVars

(* The threads of the agent run, the model call has a timeout, and time    *)
(* passes.  Nobody has to enqueue, retry or restart.                       *)
QueueFairness ==
  /\ \A w \in Workers : WF_queueVars(WorkerLoop(w)) /\ WF_queueVars(ModelAnswers(w))
  /\ \A f \in Fingerprints : WF_queueVars(LeaseLapses(f)) /\ WF_queueVars(BackoffElapses(f))
  /\ WF_queueVars(BreakerCools)

QueueFairSpec == QueueSpec /\ QueueFairness

(* A worker that is on a job holds the live lease of that job.             *)
LeaseHeld ==
  \A w \in Workers : \A f \in Fingerprints :
    w \in OnJob(f) =>
      jobs[f].status = "running" /\ jobs[f].owner = w /\ jobs[f].leased

(* Transaction and lease keep two workers from running the same job, also  *)
(* across failures, operator retries and a restart with leases left over.  *)
LeaseExclusive ==
  \A f \in Fingerprints : \A v, w \in OnJob(f) : v = w

(* A completed review is the last word on its fingerprint: no failure,     *)
(* retry or second result takes it back.                                   *)
CompletedIsFinal ==
  [][\A f \in Fingerprints :
       jobs[f].status = "completed" =>
         /\ jobs'[f].status = "completed"
         /\ reviews'[f].result = reviews[f].result]_queueVars

(* The operator and the host leave the queue alone from some point on.     *)
Undisturbed ==
  <>[][~(QueueRestart \/ \E f \in Fingerprints : RetryReview(f))]_queueVars

(* Every review that is asked for comes to an end: completed, failed or    *)
(* timed out, past open breakers, backoffs, busy workers, more urgent      *)
(* jobs and leases that a dead process left behind.                        *)
ReviewsEnd ==
  Undisturbed =>
    \A f \in Fingerprints : jobs[f].status \in InFlight ~> jobs[f].status \notin InFlight
=============================================================================
