-------------------------- MODULE ReviewGateProofs --------------------------
(***************************************************************************)
(* Proofs about guardd as ReviewGate composes it.  Every step is a step of *)
(* the review queue or leaves the queue alone, so what ReviewQueueProofs   *)
(* shows of the queue holds here too; the rest is about the requests and   *)
(* the gates of their approvals.                                           *)
(***************************************************************************)
EXTENDS ReviewGate, ReviewQueueProofs, DecisionFusionProofs

(* A request that has begun knows its action; one that joined a review in  *)
(* flight names a review that exists.                                      *)
RequestsBound ==
  \A r \in Requests :
    /\ requests[r].at # "idle" => requests[r].digest \in Digests
    /\ Waited(r) => /\ requests[r].review \in Fingerprints
                    /\ jobs[requests[r].review].status # Absent

GatesBound ==
  \A r \in Requests :
    approvals[r].gate = "review_complete" => approvals[r].review \in Fingerprints

LEMMA FingerprintType ==
  ASSUME GateAssumption, RequestsBound, NEW r \in Requests, requests[r].at # "idle"
  PROVE  Fingerprint(r) \in Fingerprints
BY DEF GateAssumption, RequestsBound, Fingerprint

(* The composition drives the queue only through the queue's own actions.  *)
LEMMA NextIsQueueStep ==
  ASSUME GateAssumption, RequestsBound, [Next]_vars
  PROVE  [QueueNext]_queueVars
<1>1. ASSUME NEW r \in Requests, EnqueueForRequest(r) PROVE QueueNext
  BY <1>1, FingerprintType DEF EnqueueForRequest, QueueNext
<1>2. ASSUME NEW r \in Requests, Decide(r), ~EnqueueForRequest(r) PROVE UNCHANGED queueVars
  BY <1>2 DEF Decide, Evaluate, UseCachedReview, SchedulingFails, Answer, AnswerFails
<1>3. ASSUME NEW w \in Workers, Review(w) PROVE QueueNext
  BY <1>3 DEF Review, WorkerStep, RecordsReview, FailsReview, QueueNext, WorkerLoop,
              ModelAnswers
<1>4. CASE Operate
  BY <1>4 DEF Operate, OperatorRetries, OperatorRequestsReview, OperatorResolves,
              OperatorOverrides, ConsumeApproval, QueueNext
<1>5. CASE Sweep \/ ApprovalClock \/ QueueClock \/ Restart
  BY <1>5 DEF Sweep, ApprovalClock, QueueClock, Restart, QueueNext
<1>6. CASE UNCHANGED vars
  BY <1>6 DEF vars, queueVars
<1>. QED
  BY <1>1, <1>2, <1>3, <1>4, <1>5, <1>6 DEF Next

-----------------------------------------------------------------------------
(* Types of the requests.                                                  *)

LEMMA EnqueuedStatusType ==
  ASSUME QueueTypeOK, NEW f \in Fingerprints
  PROVE  EnqueuedStatus(f) \in ReviewStatus
<1>1. jobs[f].status \in JobStatus
  BY DEF QueueTypeOK, JobType
<1>2. "queued" \in JobStatus \ {Absent}
  BY DEF JobStatus, InFlight, Absent
<1>. QED
  BY <1>1, <1>2 DEF EnqueuedStatus, ReviewStatus

LEMMA TightenedType ==
  ASSUME NEW q \in RequestType, NEW when
  PROVE  Tightened(q, when) \in RequestType
<1>1. TightenForPendingReview(q.fate) \in Decision
  BY TightenTypes DEF RequestType
<1>2. ASSUME NEW h \in BOOLEAN
      PROVE  [q EXCEPT !.fate = TightenForPendingReview(q.fate), !.high = h] \in RequestType
  BY <1>1 DEF RequestType
<1>3. (q.high \/ q.fate.decision # "DENY") \in BOOLEAN
  OBVIOUS
<1>4. [q EXCEPT !.fate = TightenForPendingReview(q.fate),
                !.high = q.high \/ q.fate.decision # "DENY"] \in RequestType
  BY <1>2, <1>3
<1>. QED
  BY <1>4 DEF Tightened

LEMMA RequestStep ==
  ASSUME TypeOK, GateAssumption, RequestsBound, NEW r \in Requests, Decide(r)
  PROVE  requests' \in [Requests -> RequestType]
<1>. USE DEF TypeOK
<1>0. requests[r] \in RequestType
  OBVIOUS
<1>1. ASSUME NEW d \in Digests, NEW e \in Events, Evaluate(r, d, e)
      PROVE  requests' \in [Requests -> RequestType]
  <2>. DEFINE fate == EngineDecision(e.proposed, PolicyMode)
              wanted == Trigger(fate, e.flagged, e.high, e.sampled)
              f == FingerprintOf[d]
              started == [requests[r] EXCEPT !.digest = d, !.fate = fate, !.high = e.high]
  <2>1. e \in EventType
    BY DEF GateAssumption
  <2>2. fate \in Decision
    BY <2>1, EngineDecisionType DEF EventType
  <2>3. wanted \in ReviewTrigger
    BY <2>1, <2>2, TriggerType DEF EventType
  <2>4. f \in Fingerprints /\ reviews[f].result \in Results \union {NoResult}
    BY DEF GateAssumption, QueueTypeOK, ReviewType
  <2>5. started \in RequestType
    BY <1>0, <2>1, <2>2 DEF RequestType, EventType
  <2>. HIDE DEF started
  <2>6. /\ [started EXCEPT !.at = "decided"] \in RequestType
        /\ [started EXCEPT !.at = "decided", !.status = "skipped"] \in RequestType
        /\ [started EXCEPT !.at = "missed", !.trigger = wanted] \in RequestType
    BY <2>3, <2>5 DEF RequestType, RequestStage, ReviewStatus
  <2>7. [started EXCEPT !.at = "hit", !.trigger = wanted, !.review = f,
                        !.seen = reviews[f].result, !.status = "completed"] \in RequestType
    BY <2>3, <2>4, <2>5 DEF RequestType, RequestStage, ReviewStatus, JobStatus, Absent
  <2>8. \E q \in RequestType : requests' = [requests EXCEPT ![r] = q]
    BY <1>1, <2>6, <2>7 DEF Evaluate, started
  <2>. QED
    BY <2>8
<1>2. CASE UseCachedReview(r)
  <2>1. PICK fate \in Decision, high \in BOOLEAN :
          requests' = [requests EXCEPT ![r] =
            [@ EXCEPT !.at = "decided", !.fate = fate, !.high = high]]
    BY <1>0, <1>2, FuseType, TightenTypes DEF UseCachedReview, RequestType
  <2>2. [requests[r] EXCEPT !.at = "decided", !.fate = fate, !.high = high] \in RequestType
    BY <1>0 DEF RequestType, RequestStage
  <2>. QED
    BY <2>1, <2>2
<1>3. CASE EnqueueForRequest(r)
  <2>. DEFINE status == EnqueuedStatus(Fingerprint(r))
  <2>1. Fingerprint(r) \in Fingerprints
    BY <1>3, FingerprintType DEF EnqueueForRequest
  <2>2. status \in ReviewStatus
    BY <2>1, EnqueuedStatusType
  <2>3. ASSUME NEW q \in RequestType
        PROVE  /\ [q EXCEPT !.at = "decided", !.status = "queue_full"] \in RequestType
               /\ [q EXCEPT !.at = "decided", !.review = Fingerprint(r), !.status = status]
                    \in RequestType
    BY <2>1, <2>2 DEF RequestType, RequestStage, ReviewStatus
  <2>4. \E q \in RequestType : requests' = [requests EXCEPT ![r] = q]
    BY <1>0, <1>3, <2>3, TightenedType DEF EnqueueForRequest
  <2>. QED
    BY <2>4
<1>4. CASE SchedulingFails(r)
  <2>1. ASSUME NEW q \in RequestType, NEW known \in Fingerprints \union {None}
        PROVE  [q EXCEPT !.at = "decided", !.review = known, !.status = "degraded"]
                 \in RequestType
    BY DEF RequestType, RequestStage, ReviewStatus
  <2>2. {requests[r].review, None} \subseteq Fingerprints \union {None}
    BY <1>0 DEF RequestType
  <2>3. \E q \in RequestType : requests' = [requests EXCEPT ![r] = q]
    BY <1>0, <1>4, <2>1, <2>2, TightenedType DEF SchedulingFails
  <2>. QED
    BY <2>3
<1>5. ASSUME NEW audited \in BOOLEAN, Answer(r, audited)
      PROVE  requests' \in [Requests -> RequestType]
  <2>1. PICK k \in DecisionKind :
          requests' = [requests EXCEPT ![r] = [@ EXCEPT !.at = "done", !.fate.decision = k]]
    BY <1>0, <1>5 DEF Answer, RequestType, Decision, DecisionKind
  <2>2. [requests[r] EXCEPT !.at = "done", !.fate.decision = k] \in RequestType
    BY <1>0 DEF RequestType, RequestStage, Decision
  <2>. QED
    BY <2>1, <2>2
<1>6. CASE AnswerFails(r)
  <2>1. [requests[r] EXCEPT !.at = "lost"] \in RequestType
    BY <1>0 DEF RequestType, RequestStage
  <2>. QED
    BY <1>6, <2>1 DEF AnswerFails
<1>. QED
  BY <1>1, <1>2, <1>3, <1>4, <1>5, <1>6 DEF Decide

-----------------------------------------------------------------------------
(* What the operations on approvals do to types, reviews and waiting gates.*)

(* The operations that know nothing of reviews start no waiting.           *)
LEMMA ApprovalMoves ==
  ASSUME ApprovalsTypeOK,
         \/ \E r \in Requests :
              \/ AllowOnce(r) \/ Deny(r) \/ DeadlinePasses(r)
              \/ \E d \in Digests : OverrideReviewBlock(r, d) \/ Consume(r, d)
         \/ ExpireSweep \/ InvalidatePending
  PROVE  /\ ApprovalsTypeOK'
         /\ \A s \in Requests :
              /\ approvals'[s].review = approvals[s].review
              /\ approvals'[s].gate = "review_complete" =>
                   approvals[s].gate = "review_complete"
<1>. USE DEF ApprovalsTypeOK
<1>. DEFINE Good == /\ ApprovalsTypeOK'
                    /\ \A s \in Requests :
                         /\ approvals'[s].review = approvals[s].review
                         /\ approvals'[s].gate = "review_complete" =>
                              approvals[s].gate = "review_complete"
<1>0. \A r \in Requests : approvals[r] \in ApprovalType
  OBVIOUS
<1>1. ASSUME NEW r \in Requests, NEW row \in ApprovalType, row.review = approvals[r].review,
             row.gate \in {approvals[r].gate, "open"},
             approvals' = [approvals EXCEPT ![r] = row], overrides' \subseteq OverrideType
      PROVE  Good
  BY <1>1
<1>2. ASSUME NEW r \in Requests,
             AllowOnce(r) \/ Deny(r) \/ \E d \in Digests : Consume(r, d)
      PROVE  Good
  <2>1. PICK t \in ApprovalStatus :
          /\ approvals' = [approvals EXCEPT ![r] = [approvals[r] EXCEPT !.status = t]]
          /\ overrides' = overrides
    BY <1>2 DEF AllowOnce, Deny, Consume, ApprovalStatus
  <2>. DEFINE row == [approvals[r] EXCEPT !.status = t]
  <2>2. /\ row \in ApprovalType
        /\ row.review = approvals[r].review
        /\ row.gate = approvals[r].gate
    BY <1>0 DEF ApprovalType
  <2>. HIDE DEF row
  <2>3. approvals' = [approvals EXCEPT ![r] = row]
    BY <2>1 DEF row
  <2>. QED
    BY <1>1, <2>1, <2>2, <2>3
<1>3. ASSUME NEW r \in Requests, NEW d \in Digests, OverrideReviewBlock(r, d) PROVE Good
  <2>. DEFINE row == [approvals[r] EXCEPT !.status = "review_overridden", !.gate = "open"]
              o == [approval |-> r, review |-> approvals[r].review,
                    digest |-> approvals[r].digest]
  <2>1. "review_overridden" \in ApprovalStatus /\ "open" \in Gates
    BY DEF ApprovalStatus, Gates
  <2>2. row \in ApprovalType /\ row.review = approvals[r].review /\ row.gate = "open"
    BY <1>0, <2>1 DEF ApprovalType
  <2>3. o \in OverrideType
    BY <1>0, <1>3 DEF OverrideReviewBlock, OverrideType, ApprovalType
  <2>4. approvals' = [approvals EXCEPT ![r] = row] /\ overrides' = overrides \union {o}
    BY <1>3 DEF OverrideReviewBlock
  <2>. HIDE DEF row, o
  <2>. QED
    BY <1>1, <2>2, <2>3, <2>4
<1>4. ASSUME NEW r \in Requests, DeadlinePasses(r) PROVE Good
  <2>. DEFINE row == [approvals[r] EXCEPT !.due = TRUE]
  <2>1. /\ row \in ApprovalType
        /\ row.review = approvals[r].review
        /\ row.gate = approvals[r].gate
    BY <1>0 DEF ApprovalType
  <2>2. approvals' = [approvals EXCEPT ![r] = row] /\ overrides' = overrides
    BY <1>4 DEF DeadlinePasses
  <2>. HIDE DEF row
  <2>. QED
    BY <1>1, <2>1, <2>2
<1>5. CASE ExpireSweep
  BY <1>5 DEF ExpireSweep, ApprovalType, ApprovalStatus
<1>6. CASE InvalidatePending
  BY <1>6 DEF InvalidatePending, ApprovalType, ApprovalStatus
<1>. QED
  BY <1>2, <1>3, <1>4, <1>5, <1>6

LEMMA SettleMoves ==
  ASSUME ApprovalsTypeOK, NEW f, NEW gate \in Gates \ {"review_complete"},
         SettleGates(f, gate)
  PROVE  /\ ApprovalsTypeOK'
         /\ \A s \in Requests :
              /\ approvals'[s].review = approvals[s].review
              /\ approvals'[s].gate = "review_complete" =>
                   approvals[s].gate = "review_complete" /\ approvals[s].review # f
BY DEF ApprovalsTypeOK, SettleGates, ApprovalType

LEMMA CloseMoves ==
  ASSUME ApprovalsTypeOK, NEW f \in Fingerprints, CloseGates(f)
  PROVE  /\ ApprovalsTypeOK'
         /\ \A s \in Requests :
              /\ approvals'[s].review = approvals[s].review
              /\ approvals'[s].gate = "review_complete" =>
                   approvals[s].gate = "review_complete" \/ approvals[s].review = f
BY DEF ApprovalsTypeOK, CloseGates, ApprovalType, Gates

LEMMA InsertMoves ==
  ASSUME ApprovalsTypeOK, NEW r \in Requests, NEW d \in Digests,
         NEW f \in Fingerprints \union {None}, NEW gate \in Gates,
         InsertApproval(r, d, f, gate)
  PROVE  /\ ApprovalsTypeOK'
         /\ \A s \in Requests \ {r} : approvals'[s] = approvals[s]
         /\ approvals'[r].review = f
         /\ approvals'[r].gate = gate
BY DEF ApprovalsTypeOK, InsertApproval, ApprovalType, ApprovalStatus

(* The gate create() chooses for a request.                                *)
LEMMA InitialGateType ==
  ASSUME QueueTypeOK, RequestsBound, NEW r \in Requests
  PROVE  /\ InitialGate(requests[r]) \in Gates
         /\ InitialGate(requests[r]) = "review_complete" =>
              /\ requests[r].review \in Fingerprints
              /\ jobs[requests[r].review].status \in InFlight
<1>. DEFINE q == requests[r]
<1>1. CASE q.status \notin InFlight
  BY <1>1 DEF InitialGate, Gates
<1>2. CASE q.status \in InFlight
  <2>1. q.review \in Fingerprints /\ jobs[q.review].status # Absent
    BY <1>2 DEF RequestsBound, Waited
  <2>2. jobs[q.review].status \in JobStatus
    BY <2>1 DEF QueueTypeOK, JobType
  <2>. QED
    BY <1>2, <2>1, <2>2 DEF InitialGate, Gates, JobStatus, InFlight, Retryable
<1>. QED
  BY <1>1, <1>2

-----------------------------------------------------------------------------
(* What a step of the queue cannot do to a job.                            *)

LEMMA RowMoves ==
  ASSUME QueueTypeOK, NEW f \in Fingerprints, NEW g \in Fingerprints,
         RetryReview(g) \/ LeaseLapses(g) \/ BackoffElapses(g)
  PROVE  jobs'[f].status \in {jobs[f].status, "queued"}
<1>. USE DEF QueueTypeOK
<1>1. CASE RetryReview(g)
  <2>. DEFINE row == [jobs[g] EXCEPT !.status = "queued", !.owner = NoWorker,
                                     !.leased = FALSE, !.ready = TRUE]
  <2>1. row.status = "queued"
    BY DEF JobType
  <2>2. jobs' = [jobs EXCEPT ![g] = row]
    BY <1>1 DEF RetryReview
  <2>. HIDE DEF row
  <2>. QED
    BY <2>1, <2>2
<1>2. CASE LeaseLapses(g)
  BY <1>2 DEF LeaseLapses, JobType
<1>3. CASE BackoffElapses(g)
  BY <1>3 DEF BackoffElapses, JobType
<1>. QED
  BY <1>1, <1>2, <1>3

(* A claim leaves a job's status as taken back, or makes it running.       *)
LEMMA ClaimMoves ==
  ASSUME QueueTypeOK, NEW w \in Workers, Claim(w), NEW f \in Fingerprints
  PROVE  jobs'[f].status \in {Reclaimed[f].status, "running"}
<1>0. Reclaimed \in [Fingerprints -> JobType]
  BY ReclaimedType
<1>1. CASE jobs' = Reclaimed
  BY <1>1
<1>2. ASSUME NEW g \in Fingerprints,
             jobs' = [Reclaimed EXCEPT ![g] =
               [@ EXCEPT !.status = "running", !.owner = w, !.leased = TRUE,
                         !.attempts = SaturatingIncrement(Reclaimed[g].attempts)]]
      PROVE  jobs'[f].status \in {Reclaimed[f].status, "running"}
  <2>. DEFINE row == [Reclaimed[g] EXCEPT !.status = "running", !.owner = w, !.leased = TRUE,
                        !.attempts = SaturatingIncrement(Reclaimed[g].attempts)]
  <2>1. jobs' = [Reclaimed EXCEPT ![g] = row]
    BY <1>2
  <2>2. row.status = "running"
    BY <1>0 DEF JobType
  <2>. HIDE DEF row
  <2>. QED
    BY <1>0, <2>1, <2>2
<1>3. FirstInLine(Reclaimed) \subseteq Fingerprints
  BY DEF FirstInLine, Claimable
<1>. QED
  BY <1>1, <1>2, <1>3 DEF Claim

LEMMA JobsStayPresent ==
  ASSUME QueueTypeOK, [QueueNext]_queueVars, NEW f \in Fingerprints, jobs[f].status # Absent
  PROVE  jobs'[f].status # Absent
<1>. USE DEF QueueTypeOK
<1>1. ASSUME NEW w \in Workers, Claim(w) PROVE jobs'[f].status # Absent
  <2>1. Reclaimed[f].status # Absent
    BY DEF Reclaimed, JobType, Absent
  <2>. QED
    BY <1>1, <2>1, ClaimMoves DEF Absent
<1>2. ASSUME NEW w \in Workers, WorkerFails(w) PROVE jobs'[f].status # Absent
  <2>1. FailedStatus(worker[w].job, worker[w].error) # Absent
    BY DEF FailedStatus, Absent
  <2>. QED
    BY <1>2, <2>1 DEF WorkerFails, FailReview, JobType
<1>3. ASSUME NEW w \in Workers, NEW res \in Results, WorkerRecords(w, res)
      PROVE  jobs'[f].status # Absent
  BY <1>3 DEF WorkerRecords, RecordReview, JobType, Absent
<1>4. ASSUME NEW g \in Fingerprints, NEW p \in Priorities, EnqueueReview(g, p)
      PROVE  jobs'[f].status # Absent
  BY <1>4 DEF EnqueueReview
<1>5. ASSUME NEW g \in Fingerprints, RetryReview(g) \/ LeaseLapses(g) \/ BackoffElapses(g)
      PROVE  jobs'[f].status # Absent
  BY <1>5, RowMoves DEF Absent
<1>6. (\/ \E w \in Workers : \/ WorkerCleared(w) \/ WorkerSucceeds(w)
                            \/ \E error \in Errors : ModelFails(w, error)
       \/ \E g \in Fingerprints : CacheExpires(g)
       \/ BreakerCools \/ QueueRestart \/ UNCHANGED queueVars) => jobs' = jobs
  BY DEF WorkerCleared, WorkerSucceeds, ModelFails, CacheExpires, BreakerCools, QueueRestart,
         queueVars
<1>. QED
  BY <1>1, <1>2, <1>3, <1>4, <1>5, <1>6 DEF QueueNext, WorkerLoop, ModelAnswers

(* Only a worker's result or failure takes a job out of flight.            *)
LEMMA JobsStayInFlight ==
  ASSUME QueueTypeOK, NEW f \in Fingerprints, jobs[f].status \in InFlight,
         \/ UNCHANGED jobs
         \/ \E w \in Workers : Claim(w)
         \/ \E g \in Fingerprints :
              \/ \E p \in Priorities : EnqueueReview(g, p)
              \/ RetryReview(g) \/ LeaseLapses(g) \/ BackoffElapses(g)
  PROVE  jobs'[f].status \in InFlight
<1>. USE DEF QueueTypeOK
<1>1. ASSUME NEW w \in Workers, Claim(w) PROVE jobs'[f].status \in InFlight
  <2>1. Reclaimed[f].status \in InFlight
    BY DEF Reclaimed, JobType, InFlight
  <2>. QED
    BY <1>1, <2>1, ClaimMoves DEF InFlight
<1>2. ASSUME NEW g \in Fingerprints, NEW p \in Priorities, EnqueueReview(g, p)
      PROVE  jobs'[f].status \in InFlight
  BY <1>2 DEF EnqueueReview, Absent, InFlight
<1>3. ASSUME NEW g \in Fingerprints, RetryReview(g) \/ LeaseLapses(g) \/ BackoffElapses(g)
      PROVE  jobs'[f].status \in InFlight
  BY <1>3, RowMoves DEF InFlight
<1>. QED
  BY <1>1, <1>2, <1>3

-----------------------------------------------------------------------------
LEMMA TightenedKeeps ==
  ASSUME NEW q \in RequestType, NEW when
  PROVE  /\ Tightened(q, when).digest = q.digest
         /\ Tightened(q, when).review = q.review
BY DEF Tightened, RequestType

LEMMA RequestsBoundStep ==
  ASSUME TypeOK, GateAssumption, RequestsBound, [Next]_vars
  PROVE  RequestsBound'
<1>. USE DEF TypeOK
<1>. DEFINE Bound(q) == /\ q.at # "idle" => q.digest \in Digests
                        /\ q.status \in InFlight => /\ q.review \in Fingerprints
                                                   /\ jobs'[q.review].status # Absent
<1>0. \A s \in Requests : Bound(requests[s])
  BY NextIsQueueStep, JobsStayPresent DEF RequestsBound, Waited
<1>1. ASSUME NEW r \in Requests, NEW q, Bound(q), requests' = [requests EXCEPT ![r] = q]
      PROVE  RequestsBound'
  BY <1>0, <1>1 DEF RequestsBound, Waited
<1>2. ASSUME NEW r \in Requests, NEW d \in Digests, NEW e \in Events, Evaluate(r, d, e)
      PROVE  RequestsBound'
  <2>. DEFINE q == requests'[r]
  <2>1. requests' = [requests EXCEPT ![r] = q]
    BY <1>2 DEF Evaluate
  <2>2. /\ q.digest = d
        /\ \/ q.status \notin InFlight
           \/ q.status = requests[r].status /\ q.review = requests[r].review
    BY <1>2 DEF Evaluate, RequestType, InFlight
  <2>3. Bound(q)
    BY <1>0, <2>2
  <2>. QED
    BY <1>1, <2>1, <2>3
<1>3. ASSUME NEW r \in Requests, UseCachedReview(r) PROVE RequestsBound'
  <2>. DEFINE q == requests'[r]
  <2>1. /\ requests' = [requests EXCEPT ![r] = q]
        /\ q.digest = requests[r].digest /\ requests[r].at # "idle"
        /\ q.status = requests[r].status /\ q.review = requests[r].review
    BY <1>3 DEF UseCachedReview, RequestType
  <2>. QED
    BY <1>0, <1>1, <2>1
<1>4. ASSUME NEW r \in Requests, EnqueueForRequest(r) PROVE RequestsBound'
  <2>. DEFINE q == requests'[r]
              f == Fingerprint(r)
  <2>1. f \in Fingerprints
    BY <1>4, FingerprintType DEF EnqueueForRequest
  <2>2. /\ requests' = [requests EXCEPT ![r] = q]
        /\ q.digest = requests[r].digest /\ requests[r].at # "idle"
        /\ \/ q.status = "queue_full"
           \/ q.status = EnqueuedStatus(f) /\ EnqueuedStatus(f) # None /\ q.review = f
    <3>1. \A when : Tightened(requests[r], when).digest = requests[r].digest
      BY TightenedKeeps
    <3>2. \A when : Tightened(requests[r], when) \in RequestType
      BY TightenedType
    <3>. QED
      BY <1>4, <3>1, <3>2 DEF EnqueueForRequest, RequestType
  <2>3. EnqueuedStatus(f) # None => jobs'[f].status # Absent
    BY <1>4, <2>1 DEF EnqueueForRequest, EnqueueReview, EnqueuedStatus, QueueTypeOK, Absent
  <2>. QED
    BY <1>0, <1>1, <2>1, <2>2, <2>3 DEF InFlight
<1>5. ASSUME NEW r \in Requests, SchedulingFails(r) PROVE RequestsBound'
  <2>. DEFINE q == requests'[r]
  <2>1. /\ requests' = [requests EXCEPT ![r] = q]
        /\ q.digest = requests[r].digest /\ requests[r].at # "idle"
        /\ q.status = "degraded"
    BY <1>5, TightenedKeeps, TightenedType DEF SchedulingFails, RequestType
  <2>. QED
    BY <1>0, <1>1, <2>1 DEF InFlight
<1>6. ASSUME NEW r \in Requests, NEW audited \in BOOLEAN, Answer(r, audited)
      PROVE  RequestsBound'
  <2>1. PICK k \in DecisionKind :
          requests' = [requests EXCEPT ![r] = [@ EXCEPT !.at = "done", !.fate.decision = k]]
    BY <1>6 DEF Answer, RequestType, Decision, DecisionKind
  <2>. DEFINE q == [requests[r] EXCEPT !.at = "done", !.fate.decision = k]
  <2>2. /\ q.digest = requests[r].digest /\ requests[r].at # "idle"
        /\ q.status = requests[r].status /\ q.review = requests[r].review
    BY <1>6 DEF Answer, RequestType
  <2>3. requests' = [requests EXCEPT ![r] = q]
    BY <2>1
  <2>. HIDE DEF q
  <2>. QED
    BY <1>0, <1>1, <2>2, <2>3
<1>7. ASSUME NEW r \in Requests, AnswerFails(r) PROVE RequestsBound'
  <2>. DEFINE q == requests'[r]
  <2>1. /\ requests' = [requests EXCEPT ![r] = q]
        /\ q.digest = requests[r].digest /\ requests[r].at # "idle"
        /\ q.status = requests[r].status /\ q.review = requests[r].review
    BY <1>7 DEF AnswerFails, RequestType
  <2>. QED
    BY <1>0, <1>1, <2>1
<1>8. CASE Restart
  <2>1. \A r \in Requests : Bound(requests'[r])
    BY <1>0, <1>8 DEF Restart, RequestType
  <2>. QED
    BY <2>1 DEF RequestsBound, Waited
<1>9. CASE UNCHANGED requests
  BY <1>0, <1>9 DEF RequestsBound, Waited
<1>10. (\/ \E w \in Workers : Review(w)
       \/ Operate \/ Sweep \/ ApprovalClock \/ QueueClock \/ UNCHANGED vars)
      => UNCHANGED requests
  BY DEF Review, WorkerStep, RecordsReview, FailsReview, Operate, OperatorRetries,
         OperatorRequestsReview, OperatorResolves, OperatorOverrides, ConsumeApproval, Sweep,
         ApprovalClock, QueueClock, vars
<1>. QED
  BY <1>2, <1>3, <1>4, <1>5, <1>6, <1>7, <1>8, <1>9, <1>10 DEF Next, Decide

-----------------------------------------------------------------------------
GateInv == TypeOK /\ RequestsBound /\ GatesBound /\ NoStrandedGate

(* The gates, step by step.  A gate waits for a job in flight: creation    *)
(* looks at the job, a retry puts it in flight, and the two transactions   *)
(* that take it out of flight settle every gate that waits for it.         *)
LEMMA GatesStep ==
  ASSUME GateInv, QueueAssumption, GateAssumption, [Next]_vars
  PROVE  ApprovalsTypeOK' /\ GatesBound' /\ NoStrandedGate'
<1>. DEFINE Good == ApprovalsTypeOK' /\ GatesBound' /\ NoStrandedGate'
            Quiet == \/ UNCHANGED jobs
                     \/ \E w \in Workers : Claim(w)
                     \/ \E g \in Fingerprints :
                          \/ \E p \in Priorities : EnqueueReview(g, p)
                          \/ RetryReview(g) \/ LeaseLapses(g) \/ BackoffElapses(g)
<1>. USE DEF GateInv, TypeOK
<1>0. \A s \in Requests :
        approvals[s].gate = "review_complete" =>
          /\ approvals[s].review \in Fingerprints
          /\ jobs[approvals[s].review].status \in InFlight
  BY DEF GatesBound, NoStrandedGate
<1>1. ASSUME Quiet, ApprovalsTypeOK',
             \A s \in Requests :
               /\ approvals'[s].review = approvals[s].review
               /\ approvals'[s].gate = "review_complete" =>
                    approvals[s].gate = "review_complete"
      PROVE  Good
  <2>1. ASSUME NEW f \in Fingerprints, jobs[f].status \in InFlight
        PROVE  jobs'[f].status \in InFlight
    BY <1>1, <2>1, JobsStayInFlight
  <2>2. ASSUME NEW s \in Requests, approvals'[s].gate = "review_complete"
        PROVE  /\ approvals'[s].review \in Fingerprints
               /\ jobs'[approvals'[s].review].status \in InFlight
    <3>1. approvals[s].gate = "review_complete" /\ approvals'[s].review = approvals[s].review
      BY <1>1, <2>2
    <3>. QED
      BY <1>0, <2>1, <3>1
  <2>. QED
    BY <1>1, <2>2 DEF GatesBound, NoStrandedGate
<1>2. ASSUME Quiet, UNCHANGED approvalVars PROVE Good
  BY <1>1, <1>2 DEF approvalVars, ApprovalsTypeOK
<1>3. ASSUME NEW r \in Requests, Decide(r), ~\E audited \in BOOLEAN : Answer(r, audited)
      PROVE  Good
  <2>1. Quiet
    BY <1>3, FingerprintType
    DEF Decide, Evaluate, UseCachedReview, EnqueueForRequest, SchedulingFails, AnswerFails,
        queueVars
  <2>2. UNCHANGED approvalVars
    BY <1>3 DEF Decide, Evaluate, UseCachedReview, EnqueueForRequest, SchedulingFails,
                AnswerFails
  <2>. QED
    BY <1>2, <2>1, <2>2
<1>4. ASSUME NEW r \in Requests, NEW audited \in BOOLEAN, Answer(r, audited) PROVE Good
  <2>. DEFINE q == requests[r]
  <2>1. UNCHANGED jobs
    BY <1>4 DEF Answer, queueVars
  <2>2. q.digest \in Digests /\ q.review \in Fingerprints \union {None}
    BY <1>4 DEF Answer, RequestsBound, RequestType
  <2>3. CASE InsertApproval(r, q.digest, q.review, InitialGate(q))
    <3>1. /\ ApprovalsTypeOK'
          /\ \A s \in Requests \ {r} : approvals'[s] = approvals[s]
          /\ approvals'[r].review = q.review
          /\ approvals'[r].gate = InitialGate(q)
      BY <2>2, <2>3, InitialGateType, InsertMoves
    <3>. QED
      BY <1>0, <2>1, <3>1, InitialGateType DEF GatesBound, NoStrandedGate
  <2>4. CASE UNCHANGED approvalVars
    BY <1>2, <2>1, <2>4
  <2>. QED
    BY <1>4, <2>3, <2>4 DEF Answer
<1>5. ASSUME NEW w \in Workers, WorkerStep(w) PROVE Good
  BY <1>2, <1>5 DEF WorkerStep, WorkerCleared, WorkerSucceeds, ModelFails
<1>6. ASSUME NEW w \in Workers, NEW res \in Results, RecordsReview(w, res) PROVE Good
  <2>. DEFINE f == worker[w].job
              gate == IF Enforcing /\ EnforceableDeny(res) THEN "blocked_by_review" ELSE "open"
  <2>1. gate \in Gates \ {"review_complete"}
    BY DEF Gates
  <2>2. SettleGates(f, gate)
    BY <1>6 DEF RecordsReview
  <2>3. \A g \in Fingerprints \ {f} : jobs'[g] = jobs[g]
    BY <1>6 DEF RecordsReview, WorkerRecords, RecordReview, QueueTypeOK
  <2>. QED
    BY <1>0, <2>1, <2>2, <2>3, SettleMoves DEF GatesBound, NoStrandedGate
<1>7. ASSUME NEW w \in Workers, FailsReview(w) PROVE Good
  <2>. DEFINE f == worker[w].job
              status == FailedStatus(f, worker[w].error)
  <2>1. \A g \in Fingerprints \ {f} : jobs'[g] = jobs[g]
    BY <1>7 DEF FailsReview, WorkerFails, FailReview, QueueTypeOK
  <2>2. CASE status \in Retryable
    <3>1. SettleGates(f, "review_degraded")
      BY <1>7, <2>2 DEF FailsReview
    <3>2. "review_degraded" \in Gates \ {"review_complete"}
      BY DEF Gates
    <3>. QED
      BY <1>0, <2>1, <3>1, <3>2, SettleMoves DEF GatesBound, NoStrandedGate
  <2>3. CASE status \notin Retryable
    <3>1. UNCHANGED approvalVars
      BY <1>7, <2>3 DEF FailsReview
    <3>2. status \in InFlight
      BY <2>3 DEF FailedStatus, Retryable, InFlight
    <3>3. f \in Fingerprints => jobs'[f].status = status
      <4>. DEFINE row == [jobs[f] EXCEPT !.status = status, !.owner = NoWorker,
                            !.leased = FALSE, !.ready = status # "queued"]
      <4>1. jobs' = [jobs EXCEPT ![f] = row]
        BY <1>7 DEF FailsReview, WorkerFails, FailReview
      <4>2. f \in Fingerprints => row.status = status
        BY DEF QueueTypeOK, JobType
      <4>. HIDE DEF row
      <4>. QED
        BY <4>1, <4>2 DEF QueueTypeOK
    <3>. QED
      BY <1>0, <2>1, <3>1, <3>2, <3>3
      DEF approvalVars, ApprovalsTypeOK, GatesBound, NoStrandedGate
  <2>. QED
    BY <2>2, <2>3
<1>8. ASSUME NEW f \in Fingerprints, OperatorRetries(f) PROVE Good
  <2>1. RetryReview(f) /\ CloseGates(f)
    BY <1>8 DEF OperatorRetries
  <2>2. jobs'[f].status \in InFlight
    <3>. DEFINE row == [jobs[f] EXCEPT !.status = "queued", !.owner = NoWorker,
                                       !.leased = FALSE, !.ready = TRUE]
    <3>1. jobs' = [jobs EXCEPT ![f] = row]
      BY <2>1 DEF RetryReview
    <3>2. row.status = "queued"
      BY DEF QueueTypeOK, JobType
    <3>. HIDE DEF row
    <3>. QED
      BY <3>1, <3>2 DEF QueueTypeOK, InFlight
  <2>3. \A g \in Fingerprints : jobs[g].status \in InFlight => jobs'[g].status \in InFlight
    BY <2>1, JobsStayInFlight
  <2>. QED
    BY <1>0, <2>1, <2>2, <2>3, CloseMoves DEF GatesBound, NoStrandedGate
<1>9. ASSUME NEW f \in Fingerprints, OperatorRequestsReview(f) PROVE Good
  BY <1>2, <1>9 DEF OperatorRequestsReview
<1>10. ASSUME NEW r \in Requests,
              \/ OperatorResolves(r)
              \/ \E d \in Digests : OperatorOverrides(r, d) \/ ConsumeApproval(r, d)
       PROVE  Good
  <2>1. UNCHANGED jobs
    BY <1>10 DEF OperatorResolves, OperatorOverrides, ConsumeApproval, queueVars
  <2>2. \/ AllowOnce(r) \/ Deny(r)
        \/ \E d \in Digests : OverrideReviewBlock(r, d) \/ Consume(r, d)
    BY <1>10 DEF OperatorResolves, OperatorOverrides, ConsumeApproval
  <2>. QED
    BY <1>1, <2>1, <2>2, ApprovalMoves
<1>11. CASE Sweep
  BY <1>1, <1>11, ApprovalMoves DEF Sweep, queueVars
<1>12. CASE ApprovalClock
  BY <1>1, <1>12, ApprovalMoves DEF ApprovalClock, queueVars
<1>13. CASE QueueClock
  BY <1>2, <1>13 DEF QueueClock, CacheExpires, BreakerCools
<1>14. CASE Restart
  BY <1>1, <1>14, ApprovalMoves DEF Restart, QueueRestart
<1>15. CASE UNCHANGED vars
  BY <1>2, <1>15 DEF vars, approvalVars
<1>. QED
  BY <1>3, <1>4, <1>5, <1>6, <1>7, <1>8, <1>9, <1>10, <1>11, <1>12, <1>13, <1>14, <1>15
  DEF Next, Review, Operate

LEMMA GateInvInit ==
  ASSUME QueueAssumption, FailureThresholdAssumption, GateAssumption, Init
  PROVE  GateInv
<1>1. QueueTypeOK
  BY QueueTypeInit DEF Init
<1>2. ApprovalsTypeOK
  BY DEF Init, ApprovalsInit, ApprovalsTypeOK, NoApproval, ApprovalType, ApprovalStatus, Gates
<1>3. requests \in [Requests -> RequestType]
  BY DEF Init, RequestType, RequestStage, ReviewTrigger, ReviewStatus, Decision, DecisionKind
<1>4. RequestsBound
  BY DEF Init, RequestsBound, Waited, InFlight, None
<1>5. GatesBound /\ NoStrandedGate
  BY DEF Init, ApprovalsInit, NoApproval, GatesBound, NoStrandedGate
<1>. QED
  BY <1>1, <1>2, <1>3, <1>4, <1>5 DEF GateInv, TypeOK

LEMMA GateInvStep ==
  ASSUME GateInv, QueueAssumption, FailureThresholdAssumption, GateAssumption, [Next]_vars
  PROVE  GateInv'
<1>. USE DEF GateInv, TypeOK
<1>1. QueueTypeOK'
  BY NextIsQueueStep, QueueTypeStep
<1>2. requests' \in [Requests -> RequestType]
  <2>1. ASSUME NEW r \in Requests, Decide(r) PROVE requests' \in [Requests -> RequestType]
    BY <2>1, RequestStep
  <2>2. CASE Restart
    <3>1. ASSUME NEW q \in RequestType PROVE [q EXCEPT !.at = "lost"] \in RequestType
      BY DEF RequestType, RequestStage
    <3>. QED
      BY <2>2, <3>1 DEF Restart
  <2>3. (\/ \E w \in Workers : Review(w)
         \/ Operate \/ Sweep \/ ApprovalClock \/ QueueClock \/ UNCHANGED vars)
        => UNCHANGED requests
    BY DEF Review, WorkerStep, RecordsReview, FailsReview, Operate, OperatorRetries,
           OperatorRequestsReview, OperatorResolves, OperatorOverrides, ConsumeApproval, Sweep,
           ApprovalClock, QueueClock, vars
  <2>. QED
    BY <2>1, <2>2, <2>3 DEF Next
<1>3. RequestsBound'
  BY RequestsBoundStep
<1>4. ApprovalsTypeOK' /\ GatesBound' /\ NoStrandedGate'
  BY GatesStep
<1>. QED
  BY <1>1, <1>2, <1>3, <1>4

LEMMA GateInvariant == Spec => []GateInv
<1>1. Init => GateInv
  BY GateInvInit, QueueAssumption, FailureThresholdAssumption, GateAssumption
<1>2. GateInv /\ [Next]_vars => GateInv'
  BY GateInvStep, QueueAssumption, FailureThresholdAssumption, GateAssumption
<1>. QED
  BY <1>1, <1>2, PTL DEF Spec

(* All variables keep their types.                                         *)
THEOREM TypeCorrect == Spec => []TypeOK
<1>1. GateInv => TypeOK
  BY DEF GateInv
<1>. QED
  BY <1>1, GateInvariant, PTL

(* No approval waits for a review that is no longer coming, whatever the   *)
(* number of requests, actions, reviews and workers, and also when model   *)
(* calls outlive their leases.                                             *)
THEOREM NoStrandedGateCorrect == Spec => []NoStrandedGate
<1>1. GateInv => NoStrandedGate
  BY DEF GateInv
<1>. QED
  BY <1>1, GateInvariant, PTL

(* The composed system drives the queue as the queue's own specification   *)
(* allows, so the queue's theorems hold of it.                             *)
THEOREM ImplementsQueue == Spec => QueueSpec
<1>1. Init => QueueInit
  BY DEF Init
<1>2. GateInv /\ [Next]_vars => [QueueNext]_queueVars
  BY NextIsQueueStep, GateAssumption DEF GateInv
<1>. QED
  BY <1>1, <1>2, GateInvariant, PTL DEF Spec, QueueSpec
-----------------------------------------------------------------------------
(* What a step can do to one approval: a is the row before, b the row      *)
(* after.  Everything below about approvals rests on this list.            *)

Inserted(r, a, b) ==
  /\ a.status = "absent" /\ requests[r].at = "decided"
  /\ UNCHANGED queueVars
  /\ requests'[r].at = "done" /\ requests'[r].review = requests[r].review
  /\ requests'[r].status = requests[r].status
  /\ b = [status |-> "pending", gate |-> InitialGate(requests[r]),
          review |-> requests[r].review, digest |-> requests[r].digest, due |-> FALSE]

Allowed(a, b) ==
  /\ a.status = "pending" /\ a.gate \notin Closed /\ ~a.due
  /\ b = [a EXCEPT !.status = "allowed_once"]

Ends(a, b) ==
  /\ a.status = "pending"
  /\ \E t \in {"denied", "expired", "invalidated_restart"} : b = [a EXCEPT !.status = t]

Overridden(a, b) ==
  /\ a.status = "pending" /\ a.gate = "blocked_by_review"
  /\ b = [a EXCEPT !.status = "review_overridden", !.gate = "open"]

Consumed(a, b) ==
  /\ a.status = "allowed_once" /\ ~a.due
  /\ b = [a EXCEPT !.status = "consumed"]

FallsDue(a, b) ==
  /\ a.status \in {"pending", "allowed_once", "review_overridden"}
  /\ b = [a EXCEPT !.due = TRUE]

Settled(a, b) ==
  /\ a.gate = "review_complete"
  /\ \E gate \in Gates \ {"review_complete"} : b = [a EXCEPT !.gate = gate]

Reopened(a, b) ==
  /\ a.status = "pending" /\ a.review \in Fingerprints
  /\ RetryReview(a.review)
  /\ b = [a EXCEPT !.gate = "review_complete"]

RowMove(r, a, b) ==
  \/ b = a
  \/ Inserted(r, a, b) \/ Allowed(a, b) \/ Ends(a, b) \/ Overridden(a, b)
  \/ Consumed(a, b) \/ FallsDue(a, b) \/ Settled(a, b) \/ Reopened(a, b)

LEMMA RowsMove ==
  ASSUME GateInv, [Next]_vars, NEW r \in Requests
  PROVE  RowMove(r, approvals[r], approvals'[r])
<1>. DEFINE a == approvals[r]
            b == approvals'[r]
<1>. USE DEF GateInv, TypeOK, ApprovalsTypeOK
<1>0. a \in ApprovalType
  OBVIOUS
<1>1. CASE UNCHANGED approvalVars
  BY <1>1 DEF approvalVars, RowMove
<1>2. ASSUME NEW s \in Requests, NEW audited \in BOOLEAN, Answer(s, audited),
             ~UNCHANGED approvalVars
      PROVE  RowMove(r, a, b)
  <2>1. /\ requests[s].at = "decided" /\ UNCHANGED queueVars
        /\ InsertApproval(s, requests[s].digest, requests[s].review, InitialGate(requests[s]))
        /\ requests'[s].at = "done" /\ requests'[s].review = requests[s].review
        /\ requests'[s].status = requests[s].status
    BY <1>2 DEF Answer, RequestType
  <2>2. r # s => b = a
    BY <2>1 DEF InsertApproval
  <2>3. r = s => Inserted(r, a, b)
    BY <2>1 DEF InsertApproval, Inserted
  <2>. QED
    BY <2>2, <2>3 DEF RowMove
<1>3. ASSUME NEW s \in Requests, AllowOnce(s) PROVE RowMove(r, a, b)
  <2>1. b = a \/ Allowed(a, b)
    BY <1>3 DEF AllowOnce, Allowed, Pending
  <2>. QED
    BY <2>1 DEF RowMove
<1>4. ASSUME NEW s \in Requests, Deny(s) PROVE RowMove(r, a, b)
  <2>1. b = a \/ Ends(a, b)
    BY <1>4 DEF Deny, Ends, Pending
  <2>. QED
    BY <2>1 DEF RowMove
<1>5. ASSUME NEW s \in Requests, NEW d \in Digests, OverrideReviewBlock(s, d)
      PROVE  RowMove(r, a, b)
  <2>1. b = a \/ Overridden(a, b)
    BY <1>5 DEF OverrideReviewBlock, Overridden, Pending
  <2>. QED
    BY <2>1 DEF RowMove
<1>6. ASSUME NEW s \in Requests, NEW d \in Digests, Consume(s, d) PROVE RowMove(r, a, b)
  <2>1. b = a \/ Consumed(a, b)
    BY <1>6 DEF Consume, Consumed
  <2>. QED
    BY <2>1 DEF RowMove
<1>7. ASSUME NEW s \in Requests, DeadlinePasses(s) PROVE RowMove(r, a, b)
  <2>1. b = a \/ FallsDue(a, b)
    BY <1>7 DEF DeadlinePasses, FallsDue
  <2>. QED
    BY <2>1 DEF RowMove
<1>8. CASE ExpireSweep \/ InvalidatePending
  <2>1. b = a \/ Ends(a, b)
    BY <1>8 DEF ExpireSweep, InvalidatePending, Ends, Pending
  <2>. QED
    BY <2>1 DEF RowMove
<1>9. ASSUME NEW f, NEW gate \in Gates \ {"review_complete"}, SettleGates(f, gate)
      PROVE  RowMove(r, a, b)
  <2>1. b = a \/ Settled(a, b)
    BY <1>9 DEF SettleGates, Settled
  <2>. QED
    BY <2>1 DEF RowMove
<1>10. ASSUME NEW f \in Fingerprints, OperatorRetries(f) PROVE RowMove(r, a, b)
  <2>1. b = a \/ Reopened(a, b)
    BY <1>10 DEF OperatorRetries, CloseGates, Reopened, Pending
  <2>. QED
    BY <2>1 DEF RowMove
<1>11. ASSUME NEW s \in Requests, Decide(s) PROVE RowMove(r, a, b)
  BY <1>1, <1>2, <1>11 DEF Decide, Evaluate, UseCachedReview, EnqueueForRequest,
     SchedulingFails, AnswerFails
<1>12. ASSUME NEW w \in Workers, Review(w) PROVE RowMove(r, a, b)
  <2>1. {"open", "blocked_by_review", "review_degraded"} \subseteq Gates \ {"review_complete"}
    BY DEF Gates
  <2>. QED
    BY <1>1, <1>9, <1>12, <2>1 DEF Review, WorkerStep, RecordsReview, FailsReview
<1>13. CASE Operate
  BY <1>1, <1>3, <1>4, <1>5, <1>6, <1>10, <1>13
  DEF Operate, OperatorRequestsReview, OperatorResolves, OperatorOverrides, ConsumeApproval
<1>14. CASE Sweep \/ ApprovalClock \/ QueueClock \/ Restart
  BY <1>1, <1>7, <1>8, <1>14 DEF Sweep, ApprovalClock, QueueClock, Restart
<1>15. CASE UNCHANGED vars
  BY <1>1, <1>15 DEF vars, approvalVars
<1>. QED
  BY <1>11, <1>12, <1>13, <1>14, <1>15 DEF Next
-----------------------------------------------------------------------------
(* Requests and their approvals.                                           *)

(* An approval exists only for a request that was answered, and names the  *)
(* review of its request.                                                  *)
ApprovalsBound ==
  \A r \in Requests :
    /\ approvals[r].status = "absent" => approvals[r] = NoApproval
    /\ approvals[r].status # "absent" =>
         requests[r].at = "done" /\ approvals[r].review = requests[r].review

(* An override belongs to an approval that it closed.                      *)
OverridesBound ==
  \A o \in overrides :
    /\ approvals[o.approval].status = "review_overridden"
    /\ approvals[o.approval].digest = o.digest

LEMMA AnsweredStays ==
  ASSUME GateInv, [Next]_vars, NEW r \in Requests, requests[r].at \in {"done", "lost"}
  PROVE  requests'[r] = requests[r]
<1>. USE DEF GateInv, TypeOK
<1>1. ASSUME NEW s \in Requests, Decide(s) PROVE requests'[r] = requests[r]
  BY <1>1 DEF Decide, Evaluate, UseCachedReview, EnqueueForRequest, SchedulingFails, Answer,
              AnswerFails
<1>2. CASE Restart
  BY <1>2 DEF Restart
<1>3. (\/ \E w \in Workers : Review(w)
       \/ Operate \/ Sweep \/ ApprovalClock \/ QueueClock \/ UNCHANGED vars)
      => UNCHANGED requests
  BY DEF Review, WorkerStep, RecordsReview, FailsReview, Operate, OperatorRetries,
         OperatorRequestsReview, OperatorResolves, OperatorOverrides, ConsumeApproval, Sweep,
         ApprovalClock, QueueClock, vars
<1>. QED
  BY <1>1, <1>2, <1>3 DEF Next

(* Every move but the insertion is of a row that exists, and keeps its     *)
(* review and its digest.                                                  *)
LEMMA MovesKeep ==
  ASSUME GateInv, ApprovalsBound, NEW r \in Requests,
         RowMove(r, approvals[r], approvals'[r]), approvals'[r] # approvals[r],
         ~Inserted(r, approvals[r], approvals'[r])
  PROVE  /\ approvals[r].status # "absent" /\ approvals'[r].status # "absent"
         /\ approvals'[r].review = approvals[r].review
         /\ approvals'[r].digest = approvals[r].digest
         /\ approvals[r].status = "review_overridden" =>
              approvals'[r].status = "review_overridden"
<1>. DEFINE a == approvals[r]
            b == approvals'[r]
<1>0. a \in ApprovalType /\ (a.status = "absent" => a = NoApproval)
  BY DEF GateInv, TypeOK, ApprovalsTypeOK, ApprovalsBound
<1>. DEFINE Kept == /\ a.status # "absent" /\ b.status # "absent"
                    /\ b.review = a.review /\ b.digest = a.digest
                    /\ a.status = "review_overridden" => b.status = "review_overridden"
<1>. SUFFICES Kept
  OBVIOUS
<1>9. RowMove(r, a, b) /\ b # a /\ ~Inserted(r, a, b)
  OBVIOUS
<1>. HIDE DEF a, b
<1>1. CASE Allowed(a, b)
  BY <1>0, <1>1 DEF Allowed, ApprovalType
<1>2. CASE Ends(a, b)
  BY <1>0, <1>2 DEF Ends, ApprovalType
<1>3. CASE Overridden(a, b)
  BY <1>0, <1>3 DEF Overridden, ApprovalType
<1>4. CASE Consumed(a, b)
  BY <1>0, <1>4 DEF Consumed, ApprovalType
<1>5. CASE FallsDue(a, b)
  BY <1>0, <1>5 DEF FallsDue, ApprovalType
<1>6. CASE Settled(a, b)
  <2>1. a.status # "absent"
    BY <1>0, <1>6 DEF Settled, NoApproval
  <2>. QED
    BY <1>0, <1>6, <2>1 DEF Settled, ApprovalType
<1>7. CASE Reopened(a, b)
  BY <1>0, <1>7 DEF Reopened, ApprovalType
<1>. QED
  BY <1>9, <1>1, <1>2, <1>3, <1>4, <1>5, <1>6, <1>7 DEF RowMove

LEMMA ApprovalsBoundStep ==
  ASSUME GateInv, ApprovalsBound, [Next]_vars
  PROVE  ApprovalsBound'
<1>. SUFFICES ASSUME NEW r \in Requests
              PROVE  /\ approvals'[r].status = "absent" => approvals'[r] = NoApproval
                     /\ approvals'[r].status # "absent" =>
                          requests'[r].at = "done" /\ approvals'[r].review = requests'[r].review
  BY DEF ApprovalsBound, NoApproval
<1>. DEFINE a == approvals[r]
            b == approvals'[r]
<1>0. /\ a.status = "absent" => a = NoApproval
      /\ a.status # "absent" => requests[r].at = "done" /\ a.review = requests[r].review
  BY DEF ApprovalsBound
<1>1. a.status # "absent" => requests'[r] = requests[r]
  BY <1>0, AnsweredStays
<1>2. CASE b = a
  BY <1>0, <1>1, <1>2
<1>3. CASE Inserted(r, a, b)
  BY <1>3 DEF Inserted
<1>4. CASE b # a /\ ~Inserted(r, a, b)
  BY <1>0, <1>1, <1>4, RowsMove, MovesKeep
<1>. QED
  BY <1>2, <1>3, <1>4

LEMMA OverridesBoundStep ==
  ASSUME GateInv, ApprovalsBound, OverridesBound, [Next]_vars
  PROVE  OverridesBound' /\ overrides \subseteq overrides'
<1>. USE DEF GateInv, TypeOK, ApprovalsTypeOK
<1>1. ASSUME NEW o \in overrides
      PROVE  /\ approvals'[o.approval].status = "review_overridden"
             /\ approvals'[o.approval].digest = o.digest
  <2>1. o.approval \in Requests
    BY DEF OverrideType
  <2>2. /\ approvals[o.approval].status = "review_overridden"
        /\ approvals[o.approval].digest = o.digest
    BY DEF OverridesBound
  <2>3. ~Inserted(o.approval, approvals[o.approval], approvals'[o.approval])
    BY <2>2 DEF Inserted
  <2>. QED
    BY <2>1, <2>2, <2>3, RowsMove, MovesKeep
<1>2. CASE UNCHANGED overrides
  BY <1>1, <1>2 DEF OverridesBound
<1>3. ASSUME NEW s \in Requests, NEW d \in Digests, OverrideReviewBlock(s, d)
      PROVE  OverridesBound' /\ overrides \subseteq overrides'
  <2>. DEFINE o == [approval |-> s, review |-> approvals[s].review,
                    digest |-> approvals[s].digest]
  <2>1. overrides' = overrides \union {o}
    BY <1>3 DEF OverrideReviewBlock
  <2>2. /\ approvals'[s].status = "review_overridden"
        /\ approvals'[s].digest = approvals[s].digest
    BY <1>3 DEF OverrideReviewBlock, ApprovalType
  <2>. QED
    BY <1>1, <2>1, <2>2 DEF OverridesBound
<1>4. ASSUME NEW s \in Requests, Decide(s) PROVE UNCHANGED overrides
  BY <1>4 DEF Decide, Evaluate, UseCachedReview, EnqueueForRequest, SchedulingFails, Answer,
              AnswerFails, InsertApproval, approvalVars
<1>5. ASSUME NEW w \in Workers, Review(w) PROVE UNCHANGED overrides
  BY <1>5 DEF Review, WorkerStep, RecordsReview, FailsReview, SettleGates, approvalVars
<1>6. ASSUME Operate, ~\E s \in Requests, d \in Digests : OverrideReviewBlock(s, d)
      PROVE  UNCHANGED overrides
  BY <1>6 DEF Operate, OperatorRetries, CloseGates, OperatorRequestsReview, OperatorResolves,
              AllowOnce, Deny, OperatorOverrides, ConsumeApproval, Consume, approvalVars
<1>7. ASSUME Sweep \/ ApprovalClock \/ QueueClock \/ Restart \/ UNCHANGED vars
      PROVE  UNCHANGED overrides
  BY <1>7 DEF Sweep, ExpireSweep, ApprovalClock, DeadlinePasses, QueueClock, Restart,
              InvalidatePending, approvalVars, vars
<1>. QED
  BY <1>2, <1>3, <1>4, <1>5, <1>6, <1>7 DEF Next

ApprovalsInv == GateInv /\ ApprovalsBound /\ OverridesBound

LEMMA ApprovalsInvariant == Spec => []ApprovalsInv
<1>1. Init => ApprovalsInv
  <2>1. Init => ApprovalsBound /\ OverridesBound
    BY DEF Init, ApprovalsInit, NoApproval, ApprovalsBound, OverridesBound
  <2>. QED
    BY <2>1, GateInvInit, QueueAssumption, FailureThresholdAssumption, GateAssumption
    DEF ApprovalsInv
<1>2. ApprovalsInv /\ [Next]_vars => ApprovalsInv'
  BY GateInvStep, ApprovalsBoundStep, OverridesBoundStep, QueueAssumption,
     FailureThresholdAssumption, GateAssumption DEF ApprovalsInv
<1>. QED
  BY <1>1, <1>2, PTL DEF Spec

-----------------------------------------------------------------------------
(* The approvals table implements ApprovalTicket.                          *)

TicketState == {"none", "issued", "held", "granted", "used", "closed"}

LEMMA TicketOfType ==
  ASSUME NEW a \in ApprovalType
  PROVE  TicketOf(a) \in TicketState
BY DEF TicketOf, TicketState, ApprovalType, ApprovalStatus

(* The moves of a row are moves of its ticket.  Only an open approval that *)
(* is not due is granted, only a granted one that is not due is used.      *)
TicketMove(a, b) ==
  LET t == TicketOf(a)
      u == TicketOf(b)
  IN  \/ u = t
      \/ t = "none" /\ u \in {"issued", "held"}
      \/ t = "issued" /\ u \in {"held", "closed"}
      \/ t = "held" /\ u \in {"issued", "closed"}
      \/ t = "issued" /\ u = "granted" /\ ~a.due
      \/ t = "granted" /\ u = "used" /\ ~a.due

LEMMA RowMoveIsTicketMove ==
  ASSUME NEW r, NEW a \in ApprovalType, NEW b, RowMove(r, a, b),
         a.status = "absent" => a = NoApproval
  PROVE  TicketMove(a, b) /\ (a.due => b.due)
<1>. DEFINE Good == TicketMove(a, b) /\ (a.due => b.due)
<1>0. a.status \in ApprovalStatus
  BY DEF ApprovalType
<1>1. CASE b = a
  BY <1>1 DEF TicketMove
<1>2. CASE Inserted(r, a, b)
  <2>1. TicketOf(a) = "none" /\ ~a.due
    BY <1>2 DEF Inserted, TicketOf, NoApproval
  <2>2. TicketOf(b) \in {"issued", "held"}
    BY <1>2 DEF Inserted, TicketOf
  <2>. QED
    BY <2>1, <2>2 DEF TicketMove
<1>3. CASE Allowed(a, b)
  <2>1. TicketOf(a) = "issued" /\ ~a.due
    BY <1>3 DEF Allowed, TicketOf
  <2>2. TicketOf(b) = "granted"
    BY <1>3 DEF Allowed, TicketOf, ApprovalType
  <2>. QED
    BY <2>1, <2>2 DEF TicketMove
<1>4. CASE Ends(a, b)
  <2>1. TicketOf(a) \in {"issued", "held"}
    BY <1>4 DEF Ends, TicketOf
  <2>2. TicketOf(b) = "closed" /\ b.due = a.due
    BY <1>4 DEF Ends, TicketOf, ApprovalType
  <2>. QED
    BY <2>1, <2>2 DEF TicketMove
<1>5. CASE Overridden(a, b)
  <2>1. TicketOf(a) = "held"
    BY <1>5 DEF Overridden, TicketOf, Closed
  <2>2. TicketOf(b) = "closed" /\ b.due = a.due
    BY <1>5 DEF Overridden, TicketOf, ApprovalType
  <2>. QED
    BY <2>1, <2>2 DEF TicketMove
<1>6. CASE Consumed(a, b)
  <2>1. TicketOf(a) = "granted" /\ ~a.due
    BY <1>6 DEF Consumed, TicketOf
  <2>2. TicketOf(b) = "used"
    BY <1>6 DEF Consumed, TicketOf, ApprovalType
  <2>. QED
    BY <2>1, <2>2 DEF TicketMove
<1>7. CASE FallsDue(a, b)
  <2>1. b.status = a.status /\ b.gate = a.gate /\ b.due = TRUE
    BY <1>7 DEF FallsDue, ApprovalType
  <2>. QED
    BY <2>1 DEF TicketMove, TicketOf
<1>8. CASE Settled(a, b) \/ Reopened(a, b)
  <2>1. b.status = a.status /\ b.due = a.due
    BY <1>8 DEF Settled, Reopened, ApprovalType
  <2>. QED
    BY <1>0, <2>1 DEF TicketMove, TicketOf, ApprovalStatus
<1>. QED
  BY <1>1, <1>2, <1>3, <1>4, <1>5, <1>6, <1>7, <1>8 DEF RowMove

(* Every step of guardd is a step of the tickets, or leaves them alone.    *)
LEMMA StepIsTicketStep ==
  ASSUME ApprovalsInv, ApprovalsInv', [Next]_vars
  PROVE  Ticket!TicketNext
<1>. DEFINE T == [r \in Requests |-> TicketOf(approvals[r])]
            D == {r \in Requests : approvals[r].due}
<1>0. \A r \in Requests : approvals[r] \in ApprovalType /\ approvals'[r] \in ApprovalType
  BY DEF ApprovalsInv, GateInv, TypeOK, ApprovalsTypeOK
<1>1. ASSUME NEW r \in Requests
      PROVE  /\ TicketMove(approvals[r], approvals'[r])
             /\ approvals[r].due => approvals'[r].due
  <2>1. RowMove(r, approvals[r], approvals'[r])
    BY RowsMove DEF ApprovalsInv
  <2>2. approvals[r].status = "absent" => approvals[r] = NoApproval
    BY DEF ApprovalsInv, ApprovalsBound
  <2>. QED
    BY <1>0, <2>1, <2>2, RowMoveIsTicketMove
<1>2. T' \in [Requests -> Ticket!TicketState]
  BY <1>0, TicketOfType DEF TicketState, Ticket!TicketState
<1>3. \A r \in Requests : T'[r] = T[r] \/ Ticket!Move(r)
  <2>1. \A r \in Requests : T[r] = TicketOf(approvals[r]) /\ T'[r] = TicketOf(approvals'[r])
    OBVIOUS
  <2>2. \A r \in Requests : r \in D <=> approvals[r].due
    OBVIOUS
  <2>. QED
    BY <1>1, <2>1, <2>2 DEF TicketMove, Ticket!Move
<1>4. D \subseteq D' /\ D' \subseteq Requests
  BY <1>1
<1>. QED
  BY <1>2, <1>3, <1>4 DEF Ticket!TicketNext

(* Whatever reviews, gates, workers and restarts do, an approval is        *)
(* granted at most once, only while open and in time, and used at most     *)
(* once and in time.                                                       *)
THEOREM ImplementsTicketCorrect == Spec => ImplementsTicket
<1>1. Init => Ticket!TicketInit
  BY DEF Init, ApprovalsInit, NoApproval, Ticket!TicketInit, TicketOf
<1>2. ApprovalsInv /\ ApprovalsInv' /\ [Next]_vars => [Ticket!TicketNext]_(Ticket!ticketVars)
  BY StepIsTicketStep
<1>. QED
  BY <1>1, <1>2, ApprovalsInvariant, PTL DEF Spec, ImplementsTicket, Ticket!TicketSpec
-----------------------------------------------------------------------------
(* Blocked gates.                                                          *)

(* A retry queues the job again.                                           *)
LEMMA RetryQueues ==
  ASSUME QueueTypeOK, NEW f \in Fingerprints, RetryReview(f)
  PROVE  jobs[f].status \in Retryable /\ jobs'[f].status = "queued"
<1>. DEFINE row == [jobs[f] EXCEPT !.status = "queued", !.owner = NoWorker,
                                   !.leased = FALSE, !.ready = TRUE]
<1>1. jobs[f].status \in Retryable /\ jobs' = [jobs EXCEPT ![f] = row]
  BY DEF RetryReview
<1>2. row.status = "queued"
  BY DEF QueueTypeOK, JobType
<1>. HIDE DEF row
<1>. QED
  BY <1>1, <1>2 DEF QueueTypeOK

LEMMA BlockedMoves ==
  ASSUME NEW r, NEW a \in ApprovalType, NEW b, RowMove(r, a, b),
         a.status = "absent" => a = NoApproval,
         a.gate = "blocked_by_review", b.gate # "blocked_by_review"
  PROVE  \/ b.status = "review_overridden"
         \/ a.review \in Fingerprints /\ RetryReview(a.review)
<1>1. ~Inserted(r, a, b) /\ ~Allowed(a, b) /\ ~Settled(a, b)
  BY DEF Inserted, Allowed, Settled, NoApproval, Closed
<1>2. ~Ends(a, b) /\ ~Consumed(a, b) /\ ~FallsDue(a, b)
  BY DEF Ends, Consumed, FallsDue, ApprovalType
<1>3. CASE Overridden(a, b)
  BY <1>3 DEF Overridden, ApprovalType
<1>4. CASE Reopened(a, b)
  BY <1>4 DEF Reopened
<1>. QED
  BY <1>1, <1>2, <1>3, <1>4 DEF RowMove

(* Only the operator opens a gate that a deny has closed, also when model  *)
(* calls outlive their leases and write late results.                      *)
THEOREM BlockOpensOnlyByOperatorCorrect == Spec => BlockOpensOnlyByOperator
<1>1. ASSUME ApprovalsInv, [Next]_vars
      PROVE  [\A r \in Requests :
                approvals[r].gate = "blocked_by_review"
                  /\ approvals'[r].gate # "blocked_by_review" =>
                  \/ approvals'[r].status = "review_overridden"
                  \/ jobs[approvals[r].review].status \in Retryable
                       /\ jobs'[approvals[r].review].status = "queued"]_vars
  <2>. SUFFICES ASSUME NEW r \in Requests, approvals[r].gate = "blocked_by_review",
                       approvals'[r].gate # "blocked_by_review"
                PROVE  \/ approvals'[r].status = "review_overridden"
                       \/ jobs[approvals[r].review].status \in Retryable
                            /\ jobs'[approvals[r].review].status = "queued"
    OBVIOUS
  <2>1. /\ approvals[r] \in ApprovalType
        /\ approvals[r].status = "absent" => approvals[r] = NoApproval
    BY <1>1 DEF ApprovalsInv, ApprovalsBound, GateInv, TypeOK, ApprovalsTypeOK
  <2>2. RowMove(r, approvals[r], approvals'[r])
    BY <1>1, RowsMove DEF ApprovalsInv
  <2>. QED
    BY <1>1, <2>1, <2>2, BlockedMoves, RetryQueues DEF ApprovalsInv, GateInv, TypeOK
<1>. QED
  BY <1>1, ApprovalsInvariant, PTL DEF Spec, BlockOpensOnlyByOperator

-----------------------------------------------------------------------------
(* What a request knows on its way to the answer.                          *)

(* A request that has not yet met a cached review has none in hand; one    *)
(* that has goes on to fuse it into a decision that is no deny.            *)
StageOK(q) ==
  /\ q.at \in {"idle", "missed"} => q.seen = NoResult
  /\ q.at = "idle" => q.trigger = "SKIP"
  /\ q.at = "hit" => WellFormed(q.fate) /\ Proposed(q.fate) # "DENY" /\ q.seen \in Results

LEMMA EngineDecisionWellFormed ==
  ASSUME NEW k \in DecisionKind, NEW policyMode
  PROVE  WellFormed(EngineDecision(k, policyMode))
BY EngineDecisionType DEF WellFormed, EngineDecision, None

LEMMA TriggeredIsNoDeny ==
  ASSUME NEW d, NEW flagged, NEW high, NEW sampled,
         Trigger(d, flagged, high, sampled) # "SKIP"
  PROVE  Proposed(d) # "DENY"
BY DEF Trigger

(* What a request that must be reviewed needs to be allowed outright.      *)
FoundNothing(res) ==
  /\ res \in Results
  /\ res.verdict \in {"ALLOW", "REQUIRE_APPROVAL"}
  /\ res.verdict = "REQUIRE_APPROVAL" => res.confidence < ApprovalThreshold

LEMMA FusedAllow ==
  ASSUME QueueAssumption, ThresholdsAssumption, NEW d, WellFormed(d), Proposed(d) # "DENY",
         NEW res \in Results, Fuse(d, "REVIEW_REQUIRED", res, "enforce_tighten").decision = "ALLOW"
  PROVE  FoundNothing(res)
<1>. DEFINE target == ReviewTarget(Proposed(d), "REVIEW_REQUIRED", res)
            fused == Fuse(d, "REVIEW_REQUIRED", res, "enforce_tighten")
<1>1. /\ res.verdict \in ReviewVerdict /\ res.confidence \in Nat
      /\ ApprovalThreshold \in Nat
  BY DEF QueueAssumption, SafetyReviewResult, ThresholdsAssumption
<1>2. CASE DECISION_ORDER[target] <= DECISION_ORDER[Proposed(d)]
  <2>1. fused = d
    BY <1>2 DEF Fuse
  <2>2. Proposed(d) = "ALLOW"
    BY <2>1 DEF WellFormed, Proposed
  <2>3. target \notin {"REQUIRE_APPROVAL", "DENY"}
    BY <1>2, <2>2 DEF DECISION_ORDER, DecisionKind
  <2>. QED
    BY <1>1, <2>3 DEF FoundNothing, ReviewTarget, ReviewVerdict
<1>3. CASE ~(DECISION_ORDER[target] <= DECISION_ORDER[Proposed(d)])
  <2>1. fused = SetKind(d, target)
    BY <1>3 DEF Fuse
  <2>2. Proposed(d) \in DecisionKind
    BY ProposedType DEF WellFormed
  <2>3. target # Proposed(d)
    BY <1>3, <2>2 DEF DECISION_ORDER, DecisionKind
  <2>4. target \in {"REQUIRE_APPROVAL", "DENY"}
    BY <2>3 DEF ReviewTarget
  <2>5. fused.decision # "ALLOW"
    BY <2>1, <2>4 DEF SetKind, WellFormed, Decision
  <2>. QED
    BY <2>5
<1>. QED
  BY <1>2, <1>3
(* An enforceable deny is fused into a deny, unless the decision is merely *)
(* observed.                                                               *)
LEMMA FusedDeny ==
  ASSUME NEW d, WellFormed(d), Proposed(d) # "DENY", NEW res, EnforceableDeny(res),
         NEW trigger, trigger # "SAMPLE_SHADOW"
  PROVE  Fuse(d, trigger, res, "enforce_tighten").decision \in {"OBSERVE", "DENY"}
<1>1. ReviewTarget(Proposed(d), trigger, res) = "DENY"
  BY DEF ReviewTarget, EnforceableDeny
<1>2. Proposed(d) \in DecisionKind
  BY ProposedType DEF WellFormed
<1>3. ~(DECISION_ORDER["DENY"] <= DECISION_ORDER[Proposed(d)])
  BY <1>2 DEF DECISION_ORDER, DecisionKind
<1>4. Fuse(d, trigger, res, "enforce_tighten") = SetKind(d, "DENY")
  BY <1>1, <1>3 DEF Fuse
<1>. QED
  BY <1>4 DEF SetKind, WellFormed, Decision

LEMMA OverrideNeverAllows ==
  ASSUME NEW d, WellFormed(d), Proposed(d) # "DENY"
  PROVE  TightenForReviewOverride(d).decision # "ALLOW"
BY DEF TightenForReviewOverride, SetKind, WellFormed, Decision

(* While a review is pending, an event that must be reviewed is not        *)
(* allowed in enforce_tighten.                                             *)
LEMMA TightenedFacts ==
  ASSUME NEW q \in RequestType, NEW when,
         when \/ q.fate.decision = "OBSERVE"
  PROVE  LET p == Tightened(q, when)
         IN  /\ p.seen = q.seen /\ p.trigger = q.trigger
             /\ Enforcing /\ q.trigger = "REVIEW_REQUIRED" => p.fate.decision # "ALLOW"
<1>1. q.fate \in Decision
  BY DEF RequestType
<1>2. TightenForPendingReview(q.fate).decision # "ALLOW"
  BY <1>1 DEF TightenForPendingReview, Decision
<1>. QED
  BY <1>2 DEF Tightened, RequestType

Allowance(q) ==
  /\ q.at \in {"decided", "done"} /\ Enforcing
  /\ q.trigger = "REVIEW_REQUIRED" /\ q.fate.decision = "ALLOW"
  => FoundNothing(q.seen)

(* The request met an enforceable deny and was not denied.                 *)
Spared(q) ==
  /\ q.at \in {"decided", "done"} /\ Enforcing
  /\ q.status = "completed" /\ q.seen # NoResult
  /\ EnforceableDeny(q.seen)
  /\ q.trigger \in {"REVIEW_REQUIRED", "REVIEW_OPTIONAL"}
  /\ q.fate.decision \in {"ALLOW", "REQUIRE_APPROVAL"}

(* A step of decide() keeps both, and spares a request only for an active  *)
(* override of that review and that exact digest.                          *)
StageMove(q, p) ==
  /\ StageOK(p) /\ Allowance(p)
  /\ Spared(p) => /\ p.review = q.review /\ p.digest = q.digest
                  /\ Spared(q) \/ (q.at = "hit" /\ ActiveOverride(q.review, q.digest))

LEMMA EvaluateMoves ==
  ASSUME GateInv, GateAssumption, NEW r \in Requests, StageOK(requests[r]),
         NEW d \in Digests, NEW e \in Events, Evaluate(r, d, e)
  PROVE  StageMove(requests[r], requests'[r])
<1>. USE DEF GateInv, TypeOK
<1>. DEFINE q == requests[r]
            p == requests'[r]
            fate == EngineDecision(e.proposed, PolicyMode)
            wanted == Trigger(fate, e.flagged, e.high, e.sampled)
            f == FingerprintOf[d]
<1>. SUFFICES StageMove(q, p)
  OBVIOUS
<1>1. q \in RequestType /\ q.at = "idle" /\ q.seen = NoResult /\ q.trigger = "SKIP"
  BY DEF Evaluate, StageOK
<1>2. f \in Fingerprints /\ reviews[f].result \in Results \union {NoResult}
  BY DEF GateAssumption, QueueTypeOK, ReviewType
<1>3. WellFormed(fate)
  BY EngineDecisionWellFormed DEF GateAssumption, EventType
<1>4. wanted # "SKIP" => Proposed(fate) # "DENY"
  BY TriggeredIsNoDeny
<1>5. \/ p.at = "decided" /\ p.trigger = "SKIP" /\ p.seen = NoResult
      \/ p.at = "missed" /\ p.seen = NoResult
      \/ /\ p.at = "hit" /\ wanted # "SKIP" /\ Cached(f)
         /\ p.fate = fate /\ p.seen = reviews[f].result
  BY <1>1 DEF Evaluate, RequestType
<1>. HIDE DEF q, p, fate, wanted, f
<1>. QED
  BY <1>2, <1>3, <1>4, <1>5 DEF StageMove, StageOK, Allowance, Spared, Cached

LEMMA UseCachedReviewMoves ==
  ASSUME GateInv, QueueAssumption, ThresholdsAssumption, NEW r \in Requests,
         StageOK(requests[r]), UseCachedReview(r)
  PROVE  StageMove(requests[r], requests'[r])
<1>. DEFINE q == requests[r]
            p == requests'[r]
            released == Enforcing /\ ActiveOverride(q.review, q.digest)
<1>. SUFFICES StageMove(q, p)
  OBVIOUS
<1>1. /\ q \in RequestType /\ q.at = "hit"
      /\ WellFormed(q.fate) /\ Proposed(q.fate) # "DENY" /\ q.seen \in Results
  BY DEF GateInv, TypeOK, UseCachedReview, StageOK
<1>2. /\ p.at = "decided" /\ p.seen = q.seen /\ p.trigger = q.trigger
      /\ p.review = q.review /\ p.digest = q.digest
      /\ p.fate = IF released THEN TightenForReviewOverride(q.fate)
                  ELSE Fuse(q.fate, q.trigger, q.seen, Mode)
  BY <1>1 DEF UseCachedReview, RequestType, GateInv, TypeOK
<1>. HIDE DEF q, p
<1>3. CASE released
  <2>1. p.fate.decision # "ALLOW"
    BY <1>1, <1>2, <1>3, OverrideNeverAllows
  <2>. QED
    BY <1>1, <1>2, <1>3, <2>1 DEF StageMove, StageOK, Allowance
<1>4. CASE ~released
  <2>1. Allowance(p)
    BY <1>1, <1>2, <1>4, FusedAllow DEF Allowance, Enforcing
  <2>2. ~Spared(p)
    BY <1>1, <1>2, <1>4, FusedDeny DEF Spared, Enforcing
  <2>. QED
    BY <1>2, <2>1, <2>2 DEF StageMove, StageOK
<1>. QED
  BY <1>3, <1>4

LEMMA ReviewUnavailableMoves ==
  ASSUME GateInv, NEW r \in Requests, StageOK(requests[r]),
         EnqueueForRequest(r) \/ SchedulingFails(r)
  PROVE  StageMove(requests[r], requests'[r])
<1>. DEFINE q == requests[r]
            p == requests'[r]
<1>. SUFFICES StageMove(q, p)
  OBVIOUS
<1>1. q \in RequestType
  BY DEF GateInv, TypeOK
<1>2. PICK when : /\ when \/ q.fate.decision = "OBSERVE"
                  /\ p.at = "decided"
                  /\ p.seen = Tightened(q, when).seen
                  /\ p.trigger = Tightened(q, when).trigger
                  /\ p.fate = Tightened(q, when).fate
                  /\ p.seen = NoResult \/ p.status = "degraded"
  <2>0. \A when : Tightened(q, when) \in RequestType
    BY <1>1, TightenedType
  <2>1. CASE EnqueueForRequest(r)
    <3>1. q.seen = NoResult
      BY <2>1 DEF EnqueueForRequest, StageOK
    <3>2. \A when : when \/ q.fate.decision = "OBSERVE" => Tightened(q, when).seen = NoResult
      BY <1>1, <3>1, TightenedFacts
    <3>. QED
      BY <2>0, <2>1, <3>2 DEF EnqueueForRequest, RequestType, GateInv, TypeOK
  <2>2. CASE SchedulingFails(r)
    <3>. DEFINE t == Tightened(q, q.fate.decision # "OBSERVE")
    <3>1. t \in RequestType
      BY <2>0
    <3>2. /\ p.at = "decided" /\ p.status = "degraded"
          /\ p.seen = t.seen /\ p.trigger = t.trigger /\ p.fate = t.fate
      BY <2>2, <3>1 DEF SchedulingFails, RequestType, GateInv, TypeOK
    <3>. QED
      BY <3>2
  <2>. QED
    BY <2>1, <2>2
<1>. HIDE DEF q, p
<1>3. Enforcing /\ p.trigger = "REVIEW_REQUIRED" => p.fate.decision # "ALLOW"
  BY <1>1, <1>2, TightenedFacts
<1>. QED
  BY <1>2, <1>3 DEF StageMove, StageOK, Allowance, Spared

LEMMA AnswerMoves ==
  ASSUME GateInv, NEW r \in Requests, StageOK(requests[r]), Allowance(requests[r]),
         AnswerFails(r) \/ \E audited \in BOOLEAN : Answer(r, audited)
  PROVE  StageMove(requests[r], requests'[r])
<1>. DEFINE q == requests[r]
            p == requests'[r]
<1>. SUFFICES StageMove(q, p)
  OBVIOUS
<1>1. q \in RequestType /\ q.at = "decided" /\ Allowance(q)
  BY DEF GateInv, TypeOK, Answer, AnswerFails
<1>. DEFINE Kept == /\ p.at \in {"done", "lost"} /\ p.seen = q.seen /\ p.trigger = q.trigger
                    /\ p.review = q.review /\ p.digest = q.digest /\ p.status = q.status
                    /\ p.fate.decision \in {q.fate.decision, "DENY"}
<1>2. Kept
  <2>1. ASSUME NEW audited \in BOOLEAN, Answer(r, audited)
        PROVE  \E k \in {q.fate.decision, "DENY"} :
                 p = [q EXCEPT !.at = "done", !.fate.decision = k]
    BY <2>1 DEF Answer, GateInv, TypeOK
  <2>2. ASSUME NEW k \in {q.fate.decision, "DENY"},
               p = [q EXCEPT !.at = "done", !.fate.decision = k]
        PROVE  Kept
    BY <1>1, <2>2 DEF RequestType, Decision
  <2>3. CASE AnswerFails(r)
    BY <1>1, <2>3 DEF AnswerFails, RequestType, GateInv, TypeOK
  <2>. QED
    BY <2>1, <2>2, <2>3
<1>. HIDE DEF q, p
<1>. QED
  BY <1>1, <1>2 DEF StageMove, StageOK, Allowance, Spared
LEMMA RequestMoves ==
  ASSUME GateInv, QueueAssumption, ThresholdsAssumption, GateAssumption, [Next]_vars,
         NEW r \in Requests, StageOK(requests[r]), Allowance(requests[r])
  PROVE  StageMove(requests[r], requests'[r])
<1>1. CASE requests'[r] = requests[r]
  <2>. DEFINE q == requests[r]
  <2>1. StageMove(q, q)
    BY DEF StageMove
  <2>. QED
    BY <1>1, <2>1
<1>2. ASSUME NEW s \in Requests, Decide(s), s # r PROVE requests'[r] = requests[r]
  BY <1>2 DEF Decide, Evaluate, UseCachedReview, EnqueueForRequest, SchedulingFails, Answer,
              AnswerFails, GateInv, TypeOK
<1>3. CASE Decide(r)
  BY <1>3, EvaluateMoves, UseCachedReviewMoves, ReviewUnavailableMoves, AnswerMoves DEF Decide
<1>4. CASE Restart
  <2>1. requests'[r] = requests[r] \/ requests'[r].at = "lost"
    BY <1>4 DEF Restart, GateInv, TypeOK, RequestType
  <2>. QED
    BY <1>1, <2>1 DEF StageMove, StageOK, Allowance, Spared
<1>5. (\/ \E w \in Workers : Review(w)
       \/ Operate \/ Sweep \/ ApprovalClock \/ QueueClock \/ UNCHANGED vars)
      => UNCHANGED requests
  BY DEF Review, WorkerStep, RecordsReview, FailsReview, Operate, OperatorRetries,
         OperatorRequestsReview, OperatorResolves, OperatorOverrides, ConsumeApproval, Sweep,
         ApprovalClock, QueueClock, vars
<1>. QED
  BY <1>1, <1>2, <1>3, <1>4, <1>5 DEF Next

(* A spared request has the override that spared it.                       *)
Released(r) ==
  Spared(requests[r]) =>
    \E o \in overrides :
      /\ o.digest = requests[r].digest
      /\ o.review = requests[r].review
      /\ o.approval # r

RequestInv ==
  /\ ApprovalsInv
  /\ \A r \in Requests : StageOK(requests[r]) /\ Allowance(requests[r]) /\ Released(r)

LEMMA ReleasedStep ==
  ASSUME RequestInv, QueueAssumption, ThresholdsAssumption, GateAssumption, [Next]_vars,
         NEW r \in Requests
  PROVE  Released(r)'
<1>. SUFFICES ASSUME Spared(requests'[r])
              PROVE  \E o \in overrides' :
                       /\ o.digest = requests'[r].digest
                       /\ o.review = requests'[r].review
                       /\ o.approval # r
  BY DEF Released, Spared
<1>1. overrides \subseteq overrides'
  BY OverridesBoundStep DEF RequestInv, ApprovalsInv
<1>2. StageMove(requests[r], requests'[r])
  BY RequestMoves DEF RequestInv, ApprovalsInv
<1>3. requests'[r].review = requests[r].review /\ requests'[r].digest = requests[r].digest
  BY <1>2 DEF StageMove
<1>4. CASE Spared(requests[r])
  BY <1>1, <1>3, <1>4 DEF RequestInv, Released
<1>5. CASE requests[r].at = "hit" /\ ActiveOverride(requests[r].review, requests[r].digest)
  <2>1. PICK o \in overrides : o.review = requests[r].review /\ o.digest = requests[r].digest
    BY <1>5 DEF ActiveOverride
  <2>2. o.approval \in Requests /\ approvals[o.approval].status = "review_overridden"
    BY <2>1 DEF RequestInv, ApprovalsInv, GateInv, TypeOK, ApprovalsTypeOK, OverrideType,
                OverridesBound
  <2>3. requests[o.approval].at = "done"
    BY <2>2 DEF RequestInv, ApprovalsInv, ApprovalsBound
  <2>. QED
    BY <1>1, <1>3, <1>5, <2>1, <2>3
<1>. QED
  BY <1>2, <1>4, <1>5 DEF StageMove

LEMMA RequestInvariant == Spec => []RequestInv
<1>1. Init => RequestInv
  <2>1. Init => ApprovalsInv
    <3>1. Init => ApprovalsBound /\ OverridesBound
      BY DEF Init, ApprovalsInit, NoApproval, ApprovalsBound, OverridesBound
    <3>. QED
      BY <3>1, GateInvInit, QueueAssumption, FailureThresholdAssumption, GateAssumption
      DEF ApprovalsInv
  <2>2. ASSUME Init, NEW r \in Requests
        PROVE  StageOK(requests[r]) /\ Allowance(requests[r]) /\ Released(r)
    BY <2>2 DEF Init, StageOK, Allowance, Released, Spared
  <2>. QED
    BY <2>1, <2>2 DEF RequestInv
<1>2. ASSUME RequestInv, [Next]_vars PROVE RequestInv'
  <2>1. ApprovalsInv'
    BY <1>2, GateInvStep, ApprovalsBoundStep, OverridesBoundStep, QueueAssumption,
       FailureThresholdAssumption, GateAssumption DEF RequestInv, ApprovalsInv
  <2>2. ASSUME NEW r \in Requests
        PROVE  StageOK(requests'[r]) /\ Allowance(requests'[r]) /\ Released(r)'
    <3>1. StageMove(requests[r], requests'[r])
      BY <1>2, RequestMoves, QueueAssumption, ThresholdsAssumption, GateAssumption
      DEF RequestInv, ApprovalsInv
    <3>2. Released(r)'
      BY <1>2, ReleasedStep, QueueAssumption, ThresholdsAssumption, GateAssumption
    <3>. QED
      BY <3>1, <3>2 DEF StageMove
  <2>. QED
    BY <2>1, <2>2 DEF RequestInv, StageOK, Allowance
<1>. QED
  BY <1>1, <1>2, PTL DEF Spec

(* In enforce_tighten an event that must be reviewed is allowed outright   *)
(* only on a completed review that found nothing, whatever the policy, the *)
(* results and the order of requests, workers and failures.                *)
THEOREM RequiredReviewDecidesCorrect == Spec => []RequiredReviewDecides
<1>1. RequestInv => RequiredReviewDecides
  BY QueueAssumption DEF RequestInv, Allowance, FoundNothing, RequiredReviewDecides, Answered
<1>. QED
  BY <1>1, RequestInvariant, PTL

(* A request that met an enforceable deny and was not denied was released  *)
(* by an override of that review for its own digest, of an approval that   *)
(* the override closed.  ApprovalsBound rules the request's own approval   *)
(* out: it does not exist before the request is answered.                  *)
THEOREM ReleaseIsBoundCorrect == Spec => []ReleaseIsBound
<1>1. ASSUME RequestInv PROVE ReleaseIsBound
  <2>1. ASSUME NEW r \in Requests, Spared(requests[r])
        PROVE  \E o \in overrides :
                 /\ o.digest = requests[r].digest
                 /\ o.review = requests[r].review
                 /\ o.approval # r
                 /\ approvals[o.approval].status = "review_overridden"
                 /\ approvals[o.approval].digest = o.digest
    BY <1>1, <2>1 DEF RequestInv, ApprovalsInv, Released, OverridesBound
  <2>. QED
    BY <2>1 DEF ReleaseIsBound, Spared
<1>. QED
  BY <1>1, RequestInvariant, PTL

-----------------------------------------------------------------------------
(* Gates and the reviews they stand for, when no model call outlives its   *)
(* lease.                                                                  *)

(* The gate that an approval waiting for f is owed.                        *)
OwedGate(f) ==
  CASE jobs[f].status = "completed" ->
         IF Enforcing /\ EnforceableDeny(reviews[f].result) THEN "blocked_by_review" ELSE "open"
    [] jobs[f].status \in Retryable -> "review_degraded"
    [] jobs[f].status \in InFlight -> "review_complete"

Tracks(r) ==
  /\ approvals[r].gate = "blocked_by_review" =>
       /\ approvals[r].review \in Fingerprints
       /\ jobs[approvals[r].review].status # Absent
       /\ OwedGate(approvals[r].review) = "blocked_by_review"
  /\ Pending(r) /\ Waited(r) => approvals[r].gate = OwedGate(approvals[r].review)

(* The steps of the queue that neither end the review f nor ask for it     *)
(* again.                                                                  *)
LeavesReview(f) ==
  \/ \E w \in Workers :
       \/ WorkerCleared(w) \/ Claim(w) \/ WorkerSucceeds(w)
       \/ \E error \in Errors : ModelFails(w, error)
       \/ worker[w].job # f /\ (WorkerFails(w) \/ \E res \in Results : WorkerRecords(w, res))
  \/ \E g \in Fingerprints :
       \/ \E p \in Priorities : EnqueueReview(g, p)
       \/ LeaseLapses(g) \/ BackoffElapses(g) \/ CacheExpires(g)
       \/ g # f /\ RetryReview(g)
  \/ BreakerCools \/ QueueRestart \/ UNCHANGED queueVars

LEMMA ReviewLeft ==
  ASSUME QueueTypeOK, NEW f \in Fingerprints, jobs[f].status # Absent, LeavesReview(f)
  PROVE  /\ reviews'[f].result = reviews[f].result
         /\ \/ jobs'[f].status = jobs[f].status
            \/ jobs[f].status \in InFlight /\ jobs'[f].status \in InFlight
<1>. USE DEF QueueTypeOK
<1>. DEFINE Same == jobs'[f] = jobs[f] /\ reviews'[f] = reviews[f]
            Good == /\ reviews'[f].result = reviews[f].result
                    /\ \/ jobs'[f].status = jobs[f].status
                       \/ jobs[f].status \in InFlight /\ jobs'[f].status \in InFlight
<1>1. ASSUME NEW w \in Workers, Claim(w) PROVE Good
  <2>1. reviews' = reviews
    BY <1>1 DEF Claim
  <2>2. CASE jobs[f].status \in InFlight
    BY <1>1, <2>1, <2>2, JobsStayInFlight
  <2>3. CASE jobs[f].status \notin InFlight
    <3>1. Reclaimed[f] = jobs[f] /\ Reclaimed \in [Fingerprints -> JobType]
      BY <2>3, ReclaimedType DEF Reclaimed, InFlight
    <3>2. \A g \in FirstInLine(Reclaimed) : g # f
      BY <2>3, <3>1 DEF FirstInLine, Claimable, InFlight
    <3>3. jobs'[f] = jobs[f]
      BY <1>1, <3>1, <3>2 DEF Claim
    <3>. QED
      BY <2>1, <3>3
  <2>. QED
    BY <2>2, <2>3
<1>2. ASSUME NEW w \in Workers, worker[w].job # f,
             WorkerFails(w) \/ \E res \in Results : WorkerRecords(w, res)
      PROVE  Same
  BY <1>2 DEF WorkerFails, FailReview, WorkerRecords, RecordReview
<1>3. ASSUME NEW g \in Fingerprints, g # f, RetryReview(g) PROVE Same
  BY <1>3 DEF RetryReview
<1>4. ASSUME NEW g \in Fingerprints, NEW p \in Priorities, EnqueueReview(g, p) PROVE Same
  BY <1>4 DEF EnqueueReview
<1>5. ASSUME NEW g \in Fingerprints, LeaseLapses(g) \/ BackoffElapses(g) PROVE Good
  BY <1>5 DEF LeaseLapses, BackoffElapses, JobType
<1>6. ASSUME NEW g \in Fingerprints, CacheExpires(g) PROVE Good
  BY <1>6 DEF CacheExpires, ReviewType
<1>7. ASSUME \/ \E w \in Workers : \/ WorkerCleared(w) \/ WorkerSucceeds(w)
                                   \/ \E error \in Errors : ModelFails(w, error)
             \/ BreakerCools \/ QueueRestart \/ UNCHANGED queueVars
      PROVE  Same
  BY <1>7 DEF WorkerCleared, WorkerSucceeds, ModelFails, BreakerCools, QueueRestart, queueVars
<1>. QED
  BY <1>1, <1>2, <1>3, <1>4, <1>5, <1>6, <1>7 DEF LeavesReview

LEMMA OwedGateStays ==
  ASSUME QueueTypeOK, NEW f \in Fingerprints, jobs[f].status # Absent, LeavesReview(f)
  PROVE  jobs'[f].status # Absent /\ OwedGate(f)' = OwedGate(f)
<1>1. /\ reviews'[f].result = reviews[f].result
      /\ \/ jobs'[f].status = jobs[f].status
         \/ jobs[f].status \in InFlight /\ jobs'[f].status \in InFlight
  BY ReviewLeft
<1>. QED
  BY <1>1 DEF OwedGate, InFlight, Retryable, Absent

(* What the end of a review or a retry makes of it.                        *)
LEMMA OwedGateMoves ==
  ASSUME QueueTypeOK, NEW f \in Fingerprints
  PROVE  /\ \A w \in Workers, res \in Results :
              WorkerRecords(w, res) /\ worker[w].job = f =>
                /\ jobs'[f].status = "completed"
                /\ OwedGate(f)' = IF Enforcing /\ EnforceableDeny(res)
                                  THEN "blocked_by_review" ELSE "open"
         /\ \A w \in Workers :
              WorkerFails(w) /\ worker[w].job = f =>
                /\ jobs'[f].status # Absent
                /\ OwedGate(f)' = IF FailedStatus(f, worker[w].error) \in Retryable
                                  THEN "review_degraded" ELSE "review_complete"
         /\ RetryReview(f) =>
                /\ jobs'[f].status # Absent
                /\ OwedGate(f) = "review_degraded"
                /\ OwedGate(f)' = "review_complete"
<1>. USE DEF QueueTypeOK
<1>1. ASSUME NEW w \in Workers, NEW res \in Results, WorkerRecords(w, res), worker[w].job = f
      PROVE  /\ jobs'[f].status = "completed"
             /\ OwedGate(f)' = IF Enforcing /\ EnforceableDeny(res)
                               THEN "blocked_by_review" ELSE "open"
  <2>1. jobs'[f].status = "completed" /\ reviews'[f].result = res
    BY <1>1 DEF WorkerRecords, RecordReview, JobType, ReviewType
  <2>. QED
    BY <2>1 DEF OwedGate, Retryable, InFlight
<1>2. ASSUME NEW w \in Workers, WorkerFails(w), worker[w].job = f
      PROVE  /\ jobs'[f].status # Absent
             /\ OwedGate(f)' = IF FailedStatus(f, worker[w].error) \in Retryable
                               THEN "review_degraded" ELSE "review_complete"
  <2>. DEFINE status == FailedStatus(f, worker[w].error)
              row == [jobs[f] EXCEPT !.status = status, !.owner = NoWorker,
                        !.leased = FALSE, !.ready = status # "queued"]
  <2>1. jobs' = [jobs EXCEPT ![f] = row]
    BY <1>2 DEF WorkerFails, FailReview
  <2>2. row.status = status
    BY DEF JobType
  <2>. HIDE DEF row
  <2>3. jobs'[f].status = status
    BY <2>1, <2>2
  <2>4. status \in {"queued", "timed_out", "failed"}
    BY DEF FailedStatus
  <2>. HIDE DEF status
  <2>5. jobs'[f].status # Absent
    BY <2>3, <2>4 DEF Absent
  <2>6. OwedGate(f)' = IF status \in Retryable THEN "review_degraded" ELSE "review_complete"
    BY <2>3, <2>4 DEF OwedGate, Retryable, InFlight
  <2>. QED
    BY <2>5, <2>6 DEF status
<1>3. ASSUME RetryReview(f)
      PROVE  /\ jobs'[f].status # Absent
             /\ OwedGate(f) = "review_degraded"
             /\ OwedGate(f)' = "review_complete"
  <2>1. jobs[f].status \in Retryable /\ jobs'[f].status = "queued"
    BY <1>3, RetryQueues
  <2>. QED
    BY <2>1 DEF OwedGate, Retryable, InFlight, Absent
<1>. QED
  BY <1>1, <1>2, <1>3
(* What the operations that know nothing of reviews leave of a row: the    *)
(* gate, unless they close the approval and open it.                       *)
GateKept(a, b) ==
  \/ b.gate = a.gate /\ (b.status = "pending" => a.status = "pending")
  \/ b.gate = "open" /\ b.status # "pending"

LEMMA ApprovalsKeepGates ==
  ASSUME ApprovalsTypeOK, NEW r \in Requests,
         \/ UNCHANGED approvalVars
         \/ \E s \in Requests :
              \/ AllowOnce(s) \/ Deny(s) \/ DeadlinePasses(s)
              \/ \E d \in Digests : OverrideReviewBlock(s, d) \/ Consume(s, d)
              \/ s # r /\ \E d, f, gate : InsertApproval(s, d, f, gate)
         \/ ExpireSweep \/ InvalidatePending
         \/ \E f : f # approvals[r].review /\ (CloseGates(f) \/ \E gate : SettleGates(f, gate))
  PROVE  GateKept(approvals[r], approvals'[r])
<1>. USE DEF ApprovalsTypeOK
<1>0. approvals[r] \in ApprovalType
  OBVIOUS
<1>1. CASE approvals'[r] = approvals[r]
  BY <1>1 DEF GateKept
<1>2. ASSUME NEW s \in Requests,
             AllowOnce(s) \/ Deny(s) \/ \E d \in Digests : Consume(s, d)
      PROVE  GateKept(approvals[r], approvals'[r])
  <2>1. PICK t \in {"allowed_once", "denied", "consumed"} :
          approvals' = [approvals EXCEPT ![s] = [approvals[s] EXCEPT !.status = t]]
    BY <1>2 DEF AllowOnce, Deny, Consume
  <2>2. \/ approvals'[r] = approvals[r]
        \/ approvals'[r].gate = approvals[r].gate /\ approvals'[r].status = t
    BY <1>0, <2>1 DEF ApprovalType
  <2>. QED
    BY <2>2 DEF GateKept
<1>3. ASSUME NEW s \in Requests, DeadlinePasses(s)
      PROVE  GateKept(approvals[r], approvals'[r])
  <2>1. /\ approvals'[r].gate = approvals[r].gate
        /\ approvals'[r].status = approvals[r].status
    BY <1>0, <1>3 DEF DeadlinePasses, ApprovalType
  <2>. QED
    BY <2>1 DEF GateKept
<1>4. ASSUME NEW s \in Requests, NEW d \in Digests, OverrideReviewBlock(s, d)
      PROVE  GateKept(approvals[r], approvals'[r])
  <2>1. \/ approvals'[r] = approvals[r]
        \/ approvals'[r].gate = "open" /\ approvals'[r].status = "review_overridden"
    BY <1>0, <1>4 DEF OverrideReviewBlock, ApprovalType
  <2>. QED
    BY <2>1 DEF GateKept
<1>5. ASSUME NEW s \in Requests, s # r, NEW d, NEW f, NEW gate, InsertApproval(s, d, f, gate)
      PROVE  approvals'[r] = approvals[r]
  BY <1>5 DEF InsertApproval
<1>6. CASE ExpireSweep \/ InvalidatePending
  <2>1. \/ approvals'[r] = approvals[r]
        \/ /\ approvals'[r].gate = approvals[r].gate
           /\ approvals'[r].status \in {"expired", "invalidated_restart"}
    BY <1>0, <1>6 DEF ExpireSweep, InvalidatePending, ApprovalType
  <2>. QED
    BY <2>1 DEF GateKept
<1>7. ASSUME NEW f, f # approvals[r].review, CloseGates(f) \/ \E gate : SettleGates(f, gate)
      PROVE  approvals'[r] = approvals[r]
  BY <1>7 DEF CloseGates, SettleGates
<1>. QED
  BY <1>1, <1>2, <1>3, <1>4, <1>5, <1>6, <1>7 DEF approvalVars

(* A worker that writes is on its job, and so holds the lease of it.       *)
LEMMA WriterRuns ==
  ASSUME QueueTypeOK, LeaseHeld, NEW w \in Workers, NEW f \in Fingerprints,
         worker[w].job = f, worker[w].at \in {"calling", "failing"}
  PROVE  OwedGate(f) = "review_complete"
<1>1. jobs[f].status = "running"
  BY DEF LeaseHeld, OnJob
<1>. QED
  BY <1>1 DEF OwedGate, InFlight, Retryable

(* A row whose review is left alone keeps tracking it.                     *)
LEMMA TracksWhenLeft ==
  ASSUME ApprovalsInv, [Next]_vars, NEW r \in Requests, Tracks(r),
         approvals[r].status # "absent",
         NEW f, f = approvals[r].review,
         LeavesReview(f), GateKept(approvals[r], approvals'[r])
  PROVE  Tracks(r)'
<1>1. requests'[r] = requests[r] /\ requests[r].review = f
  BY AnsweredStays DEF ApprovalsInv, ApprovalsBound
<1>2. approvals'[r].review = f
  <2>1. ~Inserted(r, approvals[r], approvals'[r])
    BY DEF Inserted
  <2>. QED
    BY <2>1, RowsMove, MovesKeep DEF ApprovalsInv
<1>3. Waited(r) => f \in Fingerprints /\ jobs[f].status # Absent
  BY <1>1 DEF ApprovalsInv, GateInv, RequestsBound
<1>4. Waited(r)' <=> Waited(r)
  BY <1>1 DEF Waited
<1>5. f \in Fingerprints /\ jobs[f].status # Absent =>
        jobs'[f].status # Absent /\ OwedGate(f)' = OwedGate(f)
  BY OwedGateStays DEF ApprovalsInv, GateInv, TypeOK
<1>6. approvals'[r].gate = "blocked_by_review" =>
        /\ f \in Fingerprints
        /\ jobs'[f].status # Absent
        /\ OwedGate(f)' = "blocked_by_review"
  BY <1>5 DEF Tracks, GateKept
<1>7. approvals'[r].status = "pending" /\ Waited(r) => approvals'[r].gate = OwedGate(f)'
  BY <1>3, <1>5 DEF Tracks, GateKept, Pending
<1>. QED
  BY <1>2, <1>4, <1>6, <1>7 DEF Tracks, Pending, OwedGate
(* create() gives a new approval the gate that it is owed.                 *)
LEMMA TracksWhenInserted ==
  ASSUME GateInv, NEW r \in Requests, Inserted(r, approvals[r], approvals'[r])
  PROVE  Tracks(r)'
<1>. DEFINE f == requests[r].review
<1>1. /\ UNCHANGED <<jobs, reviews>>
      /\ approvals'[r].review = f /\ approvals'[r].gate = InitialGate(requests[r])
      /\ Waited(r)' <=> Waited(r)
  BY DEF Inserted, queueVars, Waited
<1>2. Waited(r) => /\ f \in Fingerprints /\ jobs[f].status # Absent
                   /\ InitialGate(requests[r]) = OwedGate(f)
  <2>1. Waited(r) => f \in Fingerprints /\ jobs[f].status # Absent
    BY DEF GateInv, RequestsBound
  <2>2. Waited(r) /\ f \in Fingerprints => jobs[f].status \in JobStatus
    BY DEF GateInv, TypeOK, QueueTypeOK, JobType
  <2>. QED
    BY <2>1, <2>2 DEF InitialGate, OwedGate, Waited, JobStatus, Retryable, InFlight
<1>3. ~Waited(r) => InitialGate(requests[r]) = "open"
  BY DEF InitialGate, Waited
<1>. QED
  BY <1>1, <1>2, <1>3 DEF Tracks, OwedGate

(* The two transactions that end a review, and the retry, move the gates   *)
(* that wait for it and meet no gate that it has settled.                  *)
LEMMA TracksWhenSettled ==
  ASSUME ApprovalsInv, NEW r \in Requests, Tracks(r),
         NEW f \in Fingerprints, f = approvals[r].review, OwedGate(f) = "review_complete",
         jobs'[f].status # Absent, UNCHANGED requests,
         \/ SettleGates(f, OwedGate(f)')
         \/ UNCHANGED approvalVars /\ OwedGate(f)' = "review_complete"
  PROVE  Tracks(r)'
<1>1. approvals[r] \in ApprovalType
  BY DEF ApprovalsInv, GateInv, TypeOK, ApprovalsTypeOK
<1>2. approvals[r].gate # "blocked_by_review"
  BY DEF Tracks
<1>3. Pending(r) /\ Waited(r) => approvals[r].gate = "review_complete"
  BY DEF Tracks
<1>4. Waited(r)' <=> Waited(r)
  BY DEF Waited
<1>5. /\ approvals'[r].review = f /\ approvals'[r].status = approvals[r].status
      /\ IF approvals[r].gate = "review_complete"
         THEN approvals'[r].gate = OwedGate(f)'
         ELSE approvals'[r].gate = approvals[r].gate
  <2>1. CASE SettleGates(f, OwedGate(f)')
    BY <1>1, <2>1 DEF SettleGates, ApprovalType, ApprovalsInv, GateInv, TypeOK, ApprovalsTypeOK
  <2>2. CASE UNCHANGED approvalVars /\ OwedGate(f)' = "review_complete"
    BY <2>2 DEF approvalVars
  <2>. QED
    BY <2>1, <2>2
<1>6. approvals'[r].gate = "blocked_by_review" => OwedGate(f)' = "blocked_by_review"
  BY <1>2, <1>5
<1>7. approvals'[r].status = "pending" /\ Waited(r) => approvals'[r].gate = OwedGate(f)'
  BY <1>3, <1>5 DEF Pending
<1>. QED
  BY <1>4, <1>5, <1>6, <1>7 DEF Tracks, Pending, OwedGate

LEMMA TracksWhenReopened ==
  ASSUME ApprovalsInv, NEW r \in Requests, Tracks(r),
         NEW f \in Fingerprints, f = approvals[r].review, OperatorRetries(f)
  PROVE  Tracks(r)'
<1>1. approvals[r] \in ApprovalType
  BY DEF ApprovalsInv, GateInv, TypeOK, ApprovalsTypeOK
<1>2. OwedGate(f) = "review_degraded" /\ OwedGate(f)' = "review_complete"
  BY OwedGateMoves DEF OperatorRetries, ApprovalsInv, GateInv, TypeOK
<1>3. approvals[r].gate # "blocked_by_review"
  BY <1>2 DEF Tracks
<1>4. /\ approvals'[r].review = f
      /\ \/ approvals'[r].gate = "review_complete"
         \/ approvals'[r] = approvals[r] /\ approvals[r].status # "pending"
  BY <1>1 DEF OperatorRetries, CloseGates, Pending, ApprovalType, ApprovalsInv, GateInv, TypeOK,
              ApprovalsTypeOK
<1>. QED
  BY <1>2, <1>3, <1>4 DEF Tracks, Pending, OwedGate
LEMMA TracksStep ==
  ASSUME ApprovalsInv, LeaseHeld, GateAssumption, [Next]_vars, NEW r \in Requests, Tracks(r)
  PROVE  Tracks(r)'
<1>. USE DEF ApprovalsInv, GateInv, TypeOK
<1>. SUFFICES ASSUME NEW f, f = approvals[r].review PROVE Tracks(r)'
  OBVIOUS
<1>. DEFINE Good == Tracks(r)'
<1>. SUFFICES Good
  OBVIOUS
<1>1. CASE approvals[r].status = "absent"
  <2>1. CASE Inserted(r, approvals[r], approvals'[r])
    BY <2>1, TracksWhenInserted
  <2>2. CASE ~Inserted(r, approvals[r], approvals'[r])
    <3>1. approvals'[r] = approvals[r]
      BY <1>1, <2>2, RowsMove, MovesKeep
    <3>2. approvals[r] = NoApproval
      BY <1>1 DEF ApprovalsBound
    <3>. QED
      BY <3>1, <3>2 DEF Tracks, NoApproval, Pending
  <2>. QED
    BY <2>1, <2>2
<1>. SUFFICES ASSUME approvals[r].status # "absent" PROVE Good
  BY <1>1
<1>. HIDE DEF Good
<1>2. ASSUME LeavesReview(f),
             \/ UNCHANGED approvalVars
             \/ \E s \in Requests :
                  \/ AllowOnce(s) \/ Deny(s) \/ DeadlinePasses(s)
                  \/ \E d \in Digests : OverrideReviewBlock(s, d) \/ Consume(s, d)
                  \/ s # r /\ \E d, g, gate : InsertApproval(s, d, g, gate)
             \/ ExpireSweep \/ InvalidatePending
             \/ \E g : g # f /\ (CloseGates(g) \/ \E gate : SettleGates(g, gate))
      PROVE  Good
  <2>1. GateKept(approvals[r], approvals'[r])
    BY <1>2, ApprovalsKeepGates
  <2>. QED
    BY <1>2, <2>1, TracksWhenLeft DEF Good
<1>3. ASSUME NEW s \in Requests, Decide(s), ~\E audited \in BOOLEAN : Answer(s, audited)
      PROVE  Good
  <2>1. LeavesReview(f)
    BY <1>3, FingerprintType
    DEF Decide, Evaluate, UseCachedReview, EnqueueForRequest, SchedulingFails, AnswerFails,
        LeavesReview
  <2>2. UNCHANGED approvalVars
    BY <1>3 DEF Decide, Evaluate, UseCachedReview, EnqueueForRequest, SchedulingFails,
                AnswerFails
  <2>. QED
    BY <1>2, <2>1, <2>2
<1>4. ASSUME NEW s \in Requests, NEW audited \in BOOLEAN, Answer(s, audited) PROVE Good
  <2>1. LeavesReview(f)
    BY <1>4 DEF Answer, LeavesReview
  <2>2. \/ UNCHANGED approvalVars
        \/ s # r /\ \E d, g, gate : InsertApproval(s, d, g, gate)
    BY <1>4 DEF Answer, InsertApproval
  <2>. QED
    BY <1>2, <2>1, <2>2
<1>5. ASSUME NEW w \in Workers, WorkerStep(w) PROVE Good
  BY <1>2, <1>5 DEF WorkerStep, LeavesReview
<1>6. ASSUME NEW w \in Workers, NEW res \in Results, RecordsReview(w, res) PROVE Good
  <2>. DEFINE gate == IF Enforcing /\ EnforceableDeny(res) THEN "blocked_by_review" ELSE "open"
  <2>1. WorkerRecords(w, res) /\ SettleGates(worker[w].job, gate) /\ UNCHANGED requests
    BY <1>6 DEF RecordsReview
  <2>2. CASE worker[w].job # f
    BY <1>2, <2>1, <2>2 DEF LeavesReview
  <2>3. CASE worker[w].job = f
    <3>1. worker[w].at = "calling"
      BY <2>1 DEF WorkerRecords
    <3>2. CASE f \in Fingerprints
      <4>1. OwedGate(f) = "review_complete"
        BY <2>3, <3>1, <3>2, WriterRuns
      <4>2. jobs'[f].status = "completed" /\ OwedGate(f)' = gate
        BY <2>1, <2>3, <3>2, OwedGateMoves
      <4>3. jobs'[f].status # Absent
        BY <4>2 DEF Absent
      <4>4. SettleGates(f, OwedGate(f)')
        BY <2>1, <2>3, <4>2
      <4>. QED
        BY <2>1, <3>2, <4>1, <4>3, <4>4, TracksWhenSettled DEF Good
    <3>3. CASE f \notin Fingerprints
      <4>1. approvals[r].gate \notin {"blocked_by_review", "review_complete"}
        BY <3>3 DEF Tracks, GatesBound
      <4>2. ~Waited(r)
        BY <3>3 DEF RequestsBound, ApprovalsBound
      <4>3. approvals'[r] = approvals[r]
        BY <2>1, <4>1 DEF SettleGates, ApprovalsTypeOK
      <4>. QED
        BY <2>1, <4>1, <4>2, <4>3 DEF Good, Tracks, Pending, Waited
    <3>. QED
      BY <3>2, <3>3
  <2>. QED
    BY <2>2, <2>3
<1>7. ASSUME NEW w \in Workers, FailsReview(w) PROVE Good
  <2>. DEFINE retryable == FailedStatus(worker[w].job, worker[w].error) \in Retryable
  <2>1. /\ WorkerFails(w) /\ UNCHANGED requests
        /\ IF retryable THEN SettleGates(worker[w].job, "review_degraded")
                        ELSE UNCHANGED approvalVars
    BY <1>7 DEF FailsReview
  <2>2. CASE worker[w].job # f
    BY <1>2, <2>1, <2>2 DEF LeavesReview
  <2>3. CASE worker[w].job = f
    <3>1. worker[w].at = "failing"
      BY <2>1 DEF WorkerFails
    <3>2. CASE f \in Fingerprints
      <4>1. OwedGate(f) = "review_complete"
        BY <2>3, <3>1, <3>2, WriterRuns
      <4>2. /\ jobs'[f].status # Absent
            /\ OwedGate(f)' = IF retryable THEN "review_degraded" ELSE "review_complete"
        BY <2>1, <2>3, <3>2, OwedGateMoves
      <4>3. \/ SettleGates(f, OwedGate(f)')
            \/ UNCHANGED approvalVars /\ OwedGate(f)' = "review_complete"
        BY <2>1, <2>3, <4>2
      <4>. QED
        BY <2>1, <3>2, <4>1, <4>2, <4>3, TracksWhenSettled DEF Good
    <3>3. CASE f \notin Fingerprints
      <4>1. approvals[r].gate \notin {"blocked_by_review", "review_complete"}
        BY <3>3 DEF Tracks, GatesBound
      <4>2. ~Waited(r)
        BY <3>3 DEF RequestsBound, ApprovalsBound
      <4>3. approvals'[r] = approvals[r]
        BY <2>1, <4>1 DEF SettleGates, ApprovalsTypeOK, approvalVars
      <4>. QED
        BY <2>1, <4>1, <4>2, <4>3 DEF Good, Tracks, Pending, Waited
    <3>. QED
      BY <3>2, <3>3
  <2>. QED
    BY <2>2, <2>3
<1>8. ASSUME NEW g \in Fingerprints, OperatorRetries(g) PROVE Good
  <2>1. CASE g = f
    BY <1>8, <2>1, TracksWhenReopened DEF Good
  <2>2. CASE g # f
    BY <1>2, <1>8, <2>2 DEF OperatorRetries, LeavesReview
  <2>. QED
    BY <2>1, <2>2
<1>9. ASSUME NEW g \in Fingerprints, OperatorRequestsReview(g) PROVE Good
  BY <1>2, <1>9 DEF OperatorRequestsReview, LeavesReview
<1>10. ASSUME NEW s \in Requests,
              \/ OperatorResolves(s)
              \/ \E d \in Digests : OperatorOverrides(s, d) \/ ConsumeApproval(s, d)
       PROVE  Good
  <2>1. LeavesReview(f)
    BY <1>10 DEF OperatorResolves, OperatorOverrides, ConsumeApproval, LeavesReview
  <2>2. \/ AllowOnce(s) \/ Deny(s)
        \/ \E d \in Digests : OverrideReviewBlock(s, d) \/ Consume(s, d)
    BY <1>10 DEF OperatorResolves, OperatorOverrides, ConsumeApproval
  <2>. QED
    BY <1>2, <2>1, <2>2
<1>11. CASE Sweep \/ ApprovalClock
  BY <1>2, <1>11 DEF Sweep, ApprovalClock, LeavesReview
<1>12. CASE QueueClock
  BY <1>2, <1>12 DEF QueueClock, LeavesReview
<1>13. CASE Restart
  BY <1>2, <1>13 DEF Restart, LeavesReview
<1>14. CASE UNCHANGED vars
  BY <1>2, <1>14 DEF vars, approvalVars, queueVars, LeavesReview
<1>. QED
  BY <1>3, <1>4, <1>5, <1>6, <1>7, <1>8, <1>9, <1>10, <1>11, <1>12, <1>13, <1>14
  DEF Next, Review, Operate

TimelyInv == ApprovalsInv /\ LeaseHeld /\ \A r \in Requests : Tracks(r)

LEMMA TimelyInvariant ==
  ASSUME ~LateAnswers
  PROVE  Spec => []TimelyInv
<1>1. Init => LeaseHeld /\ \A r \in Requests : Tracks(r)
  <2>1. Init => \A r \in Requests : Tracks(r)
    BY DEF Init, ApprovalsInit, NoApproval, Tracks, Pending
  <2>. QED
    BY <2>1, LeaseHeldInit DEF Init
<1>2. ASSUME ApprovalsInv, ApprovalsInv', LeaseHeld, \A r \in Requests : Tracks(r), [Next]_vars
      PROVE  (LeaseHeld /\ \A r \in Requests : Tracks(r))'
  <2>1. LeaseHeld'
    BY <1>2, NextIsQueueStep, LeaseHeldStep, GateAssumption, QueueAssumption
    DEF ApprovalsInv, GateInv, TypeOK
  <2>2. \A r \in Requests : Tracks(r)'
    BY <1>2, TracksStep, GateAssumption
  <2>. QED
    BY <2>1, <2>2
<1>. QED
  BY <1>1, <1>2, ApprovalsInvariant, PTL DEF Spec, TimelyInv

(* While no model call outlives its lease, the gate of a pending approval  *)
(* that waited for a review is at every moment the one that review calls   *)
(* for: the transactions of workers, operator, create() and a restart      *)
(* leave no order in which the two drift apart.                            *)
THEOREM GateTracksReviewWhenTimely ==
  ASSUME ~LateAnswers
  PROVE  Spec => []GateTracksReview
<1>1. ASSUME TimelyInv PROVE GateTracksReview
  <2>1. ASSUME NEW r \in Requests, Pending(r), Waited(r)
        PROVE  approvals[r].gate = InitialGate(requests[r])
    <3>. DEFINE f == requests[r].review
    <3>1. approvals[r].gate = OwedGate(f)
      BY <1>1, <2>1 DEF TimelyInv, Tracks, ApprovalsInv, ApprovalsBound, Pending
    <3>2. f \in Fingerprints /\ jobs[f].status # Absent
      BY <1>1, <2>1 DEF TimelyInv, ApprovalsInv, GateInv, RequestsBound
    <3>3. jobs[f].status \in JobStatus
      BY <1>1, <3>2 DEF TimelyInv, ApprovalsInv, GateInv, TypeOK, QueueTypeOK, JobType
    <3>. QED
      BY <2>1, <3>1, <3>2, <3>3 DEF InitialGate, OwedGate, Waited, JobStatus, Retryable, InFlight
  <2>. QED
    BY <2>1 DEF GateTracksReview
<1>. QED
  BY <1>1, TimelyInvariant, PTL

(* While no model call outlives its lease, a blocked approval, pending or  *)
(* not, has a recorded enforceable deny behind it.                         *)
THEOREM BlockedHasDenyWhenTimely ==
  ASSUME ~LateAnswers
  PROVE  Spec => []BlockedHasDeny
<1>1. ASSUME TimelyInv PROVE BlockedHasDeny
  <2>1. ASSUME NEW r \in Requests, approvals[r].gate = "blocked_by_review"
        PROVE  Enforcing /\ DenyRecorded(approvals[r].review)
    <3>. DEFINE f == approvals[r].review
    <3>1. f \in Fingerprints /\ jobs[f].status # Absent /\ OwedGate(f) = "blocked_by_review"
      BY <1>1, <2>1 DEF TimelyInv, Tracks
    <3>2. jobs[f].status \in JobStatus
      BY <1>1, <3>1 DEF TimelyInv, ApprovalsInv, GateInv, TypeOK, QueueTypeOK, JobType
    <3>. QED
      BY <3>1, <3>2 DEF OwedGate, DenyRecorded, JobStatus, Retryable, InFlight
  <2>. QED
    BY <2>1 DEF BlockedHasDeny
<1>. QED
  BY <1>1, TimelyInvariant, PTL

(* What remains true of "high-confidence enforceable deny results block    *)
(* ordinary allow-once": they do for an approval whose request saw the     *)
(* review in flight.  DenyBlocksAllowOnce leaves that condition out and is *)
(* violated.                                                               *)
DenyBlocksWaiting ==
  [][\A r \in Requests :
       /\ Enforcing /\ Pending(r) /\ Waited(r) /\ approvals'[r].status = "allowed_once"
       => ~DenyRecorded(approvals[r].review)]_vars

LEMMA AllowedFromPending ==
  ASSUME NEW r, NEW a \in ApprovalType, NEW b, RowMove(r, a, b),
         a.status = "pending", b.status = "allowed_once"
  PROVE  a.gate \notin Closed
<1>1. b # a /\ ~Inserted(r, a, b) /\ ~Consumed(a, b)
  BY DEF Inserted, Consumed
<1>2. ~Ends(a, b) /\ ~Overridden(a, b)
  BY DEF Ends, Overridden, ApprovalType
<1>3. ~FallsDue(a, b) /\ ~Settled(a, b) /\ ~Reopened(a, b)
  BY DEF FallsDue, Settled, Reopened, ApprovalType
<1>. QED
  BY <1>1, <1>2, <1>3 DEF RowMove, Allowed

(* While no model call outlives its lease, the operator cannot allow an    *)
(* approval that waited for a review on top of its recorded deny.          *)
THEOREM DenyBlocksWaitingWhenTimely ==
  ASSUME ~LateAnswers
  PROVE  Spec => DenyBlocksWaiting
<1>1. ASSUME TimelyInv, [Next]_vars
      PROVE  [\A r \in Requests :
                /\ Enforcing /\ Pending(r) /\ Waited(r) /\ approvals'[r].status = "allowed_once"
                => ~DenyRecorded(approvals[r].review)]_vars
  <2>. SUFFICES ASSUME NEW r \in Requests, Enforcing, Pending(r), Waited(r),
                       approvals'[r].status = "allowed_once", DenyRecorded(approvals[r].review)
                PROVE  FALSE
    OBVIOUS
  <2>1. approvals[r] \in ApprovalType
    BY <1>1 DEF TimelyInv, ApprovalsInv, GateInv, TypeOK, ApprovalsTypeOK
  <2>2. RowMove(r, approvals[r], approvals'[r])
    BY <1>1, RowsMove DEF TimelyInv, ApprovalsInv
  <2>3. approvals[r].gate \notin Closed
    BY <2>1, <2>2, AllowedFromPending DEF Pending
  <2>4. approvals[r].gate = OwedGate(approvals[r].review)
    BY <1>1 DEF TimelyInv, Tracks
  <2>5. OwedGate(approvals[r].review) = "blocked_by_review"
    BY DEF OwedGate, DenyRecorded, Retryable, InFlight
  <2>. QED
    BY <2>3, <2>4, <2>5 DEF Closed
<1>. QED
  BY <1>1, TimelyInvariant, PTL DEF Spec, DenyBlocksWaiting

=============================================================================
