----------------------------- MODULE ReviewGate -----------------------------
(***************************************************************************)
(* guardd from a decision request to the end of its approval: the request  *)
(* threads of GuardService.decide, the review queue with its workers, and  *)
(* the approvals that wait for a review.                                   *)
(*                                                                         *)
(* decide() reads and writes the store in several separate transactions,   *)
(* with nothing locked in between: it looks for a cached review, looks for *)
(* an override, enqueues a review, and creates the approval.  Each is an   *)
(* action here, and workers, the operator, the expiry sweep and a restart  *)
(* may act between any two of them.                                        *)
(***************************************************************************)
EXTENDS ReviewQueue

CONSTANTS
  Requests,        \* calls of decide(), each with its approval
  Digests,         \* exact bound actions
  FingerprintOf,   \* the review fingerprint of an action's sanitized summary
  Events,          \* what the policy engine finds of an event
  Mode,            \* settings.llm_review_mode
  PolicyMode       \* "observe" or "enforce"

EventType ==
  [proposed : DecisionKind, flagged : BOOLEAN, high : BOOLEAN, sampled : BOOLEAN]

ASSUME GateAssumption ==
  /\ None \notin Digests
  /\ FingerprintOf \in [Digests -> Fingerprints]
  /\ Events \subseteq EventType
  /\ Mode \in ReviewMode
  /\ PolicyMode \in {"observe", "enforce"}

VARIABLES requests, approvals, overrides

INSTANCE Approvals WITH
  ReviewIds <- Fingerprints, NoReview <- None, NoDigest <- None

approvalVars == <<approvals, overrides>>
vars == <<jobs, reviews, worker, breaker, requests, approvals, overrides>>

RequestStage == {"idle", "hit", "missed", "decided", "done", "lost"}
ReviewStatus == {None, "skipped", "queue_full", "degraded"} \union (JobStatus \ {Absent})

(* seen is the cached result the request found; fate is the Decision.      *)
RequestType ==
  [at : RequestStage, digest : Digests \union {None}, trigger : ReviewTrigger, high : BOOLEAN,
   seen : Results \union {NoResult}, fate : Decision,
   review : Fingerprints \union {None}, status : ReviewStatus]

TypeOK ==
  /\ QueueTypeOK
  /\ ApprovalsTypeOK
  /\ requests \in [Requests -> RequestType]

Init ==
  /\ QueueInit
  /\ ApprovalsInit
  /\ requests = [r \in Requests |->
       [at |-> "idle", digest |-> None, trigger |-> "SKIP", high |-> FALSE,
        seen |-> NoResult, fate |-> [decision |-> "DENY", would |-> None],
        review |-> None, status |-> None]]

-----------------------------------------------------------------------------
(* GuardService.decide.                                                    *)

Fingerprint(r) == FingerprintOf[requests[r].digest]

Enforcing == Mode = "enforce_tighten"

(* The engine decides, the trigger policy says whether a review is wanted, *)
(* and get_cached looks for a usable one.                                  *)
Evaluate(r, d, e) ==
  LET fate == EngineDecision(e.proposed, PolicyMode)
      wanted == Trigger(fate, e.flagged, e.high, e.sampled)
      f == FingerprintOf[d]
      started == [requests[r] EXCEPT !.digest = d, !.fate = fate, !.high = e.high]
  IN /\ requests[r].at = "idle"
     /\ requests' = [requests EXCEPT ![r] =
          CASE Mode = "disabled" -> [started EXCEPT !.at = "decided"]
            [] Mode # "disabled" /\ wanted = "SKIP" ->
                 [started EXCEPT !.at = "decided", !.status = "skipped"]
            [] Mode # "disabled" /\ wanted # "SKIP" /\ Cached(f) ->
                 [started EXCEPT !.at = "hit", !.trigger = wanted, !.review = f,
                                 !.seen = reviews[f].result, !.status = "completed"]
            [] Mode # "disabled" /\ wanted # "SKIP" /\ ~Cached(f) ->
                 [started EXCEPT !.at = "missed", !.trigger = wanted]]
     /\ UNCHANGED <<queueVars, approvalVars>>

(* On a hit the override table is read next, and one of the two ways to    *)
(* use the review is taken.  A fused review may raise the risk.            *)
UseCachedReview(r) ==
  LET q == requests[r]
      released == Enforcing /\ ActiveOverride(q.review, q.digest)
      fate == IF released THEN TightenForReviewOverride(q.fate)
              ELSE Fuse(q.fate, q.trigger, q.seen, Mode)
  IN /\ q.at = "hit"
     /\ \E high \in IF released THEN {TRUE}
                    ELSE IF fate = q.fate THEN {q.high} ELSE {q.high, TRUE} :
          requests' = [requests EXCEPT ![r] =
            [@ EXCEPT !.at = "decided", !.fate = fate, !.high = high]]
     /\ UNCHANGED <<queueVars, approvalVars>>

(* _tighten_for_pending_review under the condition its caller checks.      *)
Tightened(q, when) ==
  IF Enforcing /\ q.trigger = "REVIEW_REQUIRED" /\ when
  THEN [q EXCEPT !.fate = TightenForPendingReview(@),
                 !.high = @ \/ q.fate.decision # "DENY"]
  ELSE q

(* On a miss a review is enqueued or joined.  Only the full queue forgets  *)
(* to spare a decision that is merely observed.                            *)
EnqueueForRequest(r) ==
  LET q == requests[r]
      status == EnqueuedStatus(Fingerprint(r))
  IN /\ q.at = "missed"
     /\ \E p \in Priorities : EnqueueReview(Fingerprint(r), p)
     /\ requests' = [requests EXCEPT ![r] =
          IF status = None
          THEN [Tightened(q, TRUE) EXCEPT !.at = "decided", !.status = "queue_full"]
          ELSE [Tightened(q, q.fate.decision # "OBSERVE") EXCEPT
                  !.at = "decided", !.review = Fingerprint(r), !.status = status]]
     /\ UNCHANGED approvalVars

(* Anything the review path raises leaves the decision degraded, with the  *)
(* review attached only if the lookup was behind it.                       *)
SchedulingFails(r) ==
  LET q == requests[r]
  IN /\ q.at \in {"hit", "missed"}
     /\ \E known \in {q.review, None} :
          requests' = [requests EXCEPT ![r] =
            [Tightened(q, q.fate.decision # "OBSERVE") EXCEPT
               !.at = "decided", !.review = known, !.status = "degraded"]]
     /\ UNCHANGED <<queueVars, approvalVars>>

(* Mutant: the gate follows the decision, without a second look at the job.*)
GateOfDecision(q) == IF q.status \in InFlight THEN "review_complete" ELSE "open"

(* Mutant: a failed review blocks like a deny.                             *)
GateFailsClosed(q) ==
  CASE q.status \notin InFlight -> "open"
    [] q.status \in InFlight /\ jobs[q.review].status = "completed" ->
         IF Enforcing /\ EnforceableDeny(reviews[q.review].result)
         THEN "blocked_by_review" ELSE "open"
    [] q.status \in InFlight /\ jobs[q.review].status \in Retryable -> "blocked_by_review"
    [] q.status \in InFlight /\ jobs[q.review].status \in InFlight -> "review_complete"

(* Mutant: the status of the job is stored as the gate.                    *)
GateIsJobStatus(q) == IF q.status \in InFlight THEN jobs[q.review].status ELSE "open"

(* The gate ApprovalManager.create gives the approval: it looks at the job *)
(* again, but only if the decision saw the review in flight.               *)
InitialGate(q) ==
  CASE q.status \notin InFlight -> "open"
    [] q.status \in InFlight /\ jobs[q.review].status = "completed" ->
         IF Enforcing /\ EnforceableDeny(reviews[q.review].result)
         THEN "blocked_by_review" ELSE "open"
    [] q.status \in InFlight /\ jobs[q.review].status \in Retryable -> "review_degraded"
    [] q.status \in InFlight /\ jobs[q.review].status \in InFlight -> "review_complete"

(* The decision is recorded and answered, with an approval if it needs     *)
(* one.  If the audit store cannot be written a risky decision is denied.  *)
Answer(r, audited) ==
  LET q == requests[r]
      final == IF q.high /\ ~audited THEN "DENY" ELSE q.fate.decision
  IN /\ q.at = "decided"
     /\ requests' = [requests EXCEPT ![r] = [@ EXCEPT !.at = "done", !.fate.decision = final]]
     /\ IF final = "REQUIRE_APPROVAL"
        THEN InsertApproval(r, q.digest, q.review, InitialGate(q))
        ELSE UNCHANGED approvalVars
     /\ UNCHANGED queueVars

(* create() raises: the agent gets an error and no approval exists.        *)
AnswerFails(r) ==
  /\ requests[r].at = "decided"
  /\ requests[r].fate.decision = "REQUIRE_APPROVAL"
  /\ requests' = [requests EXCEPT ![r].at = "lost"]
  /\ UNCHANGED <<queueVars, approvalVars>>

-----------------------------------------------------------------------------
(* The workers and the operator, with what they do to the gates.           *)

RecordsReview(w, res) ==
  /\ WorkerRecords(w, res)
  /\ SettleGates(worker[w].job,
       IF Enforcing /\ EnforceableDeny(res) THEN "blocked_by_review" ELSE "open")
  /\ UNCHANGED requests

(* Mutant: only an outright failure releases the gates, a timeout does not.*)
TimeoutKeepsGates(w) ==
  /\ WorkerFails(w)
  /\ IF FailedStatus(worker[w].job, worker[w].error) = "failed"
     THEN SettleGates(worker[w].job, "review_degraded")
     ELSE UNCHANGED approvalVars
  /\ UNCHANGED requests

FailsReview(w) ==
  /\ WorkerFails(w)
  /\ IF FailedStatus(worker[w].job, worker[w].error) \in Retryable
     THEN SettleGates(worker[w].job, "review_degraded")
     ELSE UNCHANGED approvalVars
  /\ UNCHANGED requests

WorkerStep(w) ==
  /\ \/ WorkerCleared(w)
     \/ Claim(w)
     \/ WorkerSucceeds(w)
     \/ \E error \in Errors : ModelFails(w, error)
  /\ UNCHANGED <<requests, approvalVars>>

OperatorRetries(f) ==
  /\ RetryReview(f)
  /\ CloseGates(f)
  /\ UNCHANGED requests

(* request_event_review: the operator asks for a review of a past event.   *)
OperatorRequestsReview(f) ==
  /\ ~Cached(f)
  /\ \E p \in Priorities : EnqueueReview(f, p)
  /\ UNCHANGED <<requests, approvalVars>>

OperatorResolves(r) ==
  /\ AllowOnce(r) \/ Deny(r)
  /\ UNCHANGED <<queueVars, requests>>

OperatorOverrides(r, d) ==
  /\ OverrideReviewBlock(r, d)
  /\ UNCHANGED <<queueVars, requests>>

ConsumeApproval(r, d) ==
  /\ Consume(r, d)
  /\ UNCHANGED <<queueVars, requests>>

-----------------------------------------------------------------------------
(* The clocks, and the process that dies and starts again.                 *)

Sweep ==
  /\ ExpireSweep
  /\ UNCHANGED <<queueVars, requests>>

ApprovalClock ==
  /\ \E r \in Requests : DeadlinePasses(r)
  /\ UNCHANGED <<queueVars, requests>>

QueueClock ==
  /\ \/ \E f \in Fingerprints : LeaseLapses(f) \/ BackoffElapses(f) \/ CacheExpires(f)
     \/ BreakerCools
  /\ UNCHANGED <<requests, approvalVars>>

(* Requests that were being decided get no answer.                         *)
Restart ==
  /\ QueueRestart
  /\ InvalidatePending
  /\ requests' = [r \in Requests |->
       IF requests[r].at \in {"hit", "missed", "decided"}
       THEN [requests[r] EXCEPT !.at = "lost"] ELSE requests[r]]

-----------------------------------------------------------------------------

Decide(r) ==
  \/ \E d \in Digests, e \in Events : Evaluate(r, d, e)
  \/ UseCachedReview(r)
  \/ EnqueueForRequest(r)
  \/ SchedulingFails(r)
  \/ \E audited \in BOOLEAN : Answer(r, audited)
  \/ AnswerFails(r)

Review(w) ==
  \/ WorkerStep(w)
  \/ \E res \in Results : RecordsReview(w, res)
  \/ FailsReview(w)

Operate ==
  \/ \E f \in Fingerprints : OperatorRetries(f) \/ OperatorRequestsReview(f)
  \/ \E r \in Requests : OperatorResolves(r)
  \/ \E r \in Requests, d \in Digests : OperatorOverrides(r, d) \/ ConsumeApproval(r, d)

Next ==
  \/ \E r \in Requests : Decide(r)
  \/ \E w \in Workers : Review(w)
  \/ Operate
  \/ Sweep \/ ApprovalClock \/ QueueClock
  \/ Restart

Spec == Init /\ [][Next]_vars
-----------------------------------------------------------------------------
(* Safety.                                                                 *)

(* An approval never waits for a review that is no longer coming: while    *)
(* its gate is review_complete the job of its review is queued or running. *)
(* Three transactions (record, fail, retry) and create() share the duty,   *)
(* and the operator cannot allow such an approval.                         *)
NoStrandedGate ==
  \A r \in Requests :
    approvals[r].gate = "review_complete" => jobs[approvals[r].review].status \in InFlight

DenyRecorded(f) == jobs[f].status = "completed" /\ EnforceableDeny(reviews[f].result)

(* The decision saw its review in flight, so the approval was gated.       *)
Waited(r) == requests[r].status \in InFlight

(* The gate of a pending approval that waited for a review is at every     *)
(* moment the one create() would give it now: closed while the job is in   *)
(* flight, blocked by an enforceable deny, degraded by a failure, open     *)
(* otherwise.  Results, failures, retries and the approval's own creation  *)
(* are separate transactions of different threads.                         *)
GateTracksReview ==
  \A r \in Requests :
    Pending(r) /\ Waited(r) => approvals[r].gate = InitialGate(requests[r])

(* A blocked approval, pending or not, has a recorded enforceable deny     *)
(* behind it, not a review that was since retried or replaced.             *)
BlockedHasDeny ==
  \A r \in Requests :
    approvals[r].gate = "blocked_by_review" =>
      Enforcing /\ DenyRecorded(approvals[r].review)

Answered(r) == requests[r].at \in {"decided", "done"}

(* In enforce_tighten an event that must be reviewed is allowed outright   *)
(* only on a completed review that found nothing: not while one is         *)
(* pending, refused by a full queue, failed, or overridden.                *)
RequiredReviewDecides ==
  \A r \in Requests :
    /\ Answered(r) /\ Enforcing
    /\ requests[r].trigger = "REVIEW_REQUIRED"
    /\ requests[r].fate.decision = "ALLOW"
    => /\ requests[r].seen # NoResult
       /\ requests[r].seen.verdict \in {"ALLOW", "REQUIRE_APPROVAL"}
       /\ requests[r].seen.verdict = "REQUIRE_APPROVAL" =>
            requests[r].seen.confidence < ApprovalThreshold

(* A request that met an enforceable deny and was not denied owes it to an *)
(* override of that review for its own exact digest, given to an approval  *)
(* that it closed.  Two actions may share a review; the release of one is  *)
(* never the release of the other.                                         *)
ReleaseIsBound ==
  \A r \in Requests :
    /\ requests[r].at \in {"decided", "done"} /\ Enforcing
    /\ requests[r].status = "completed" /\ requests[r].seen # NoResult
    /\ EnforceableDeny(requests[r].seen)
    /\ requests[r].trigger \in {"REVIEW_REQUIRED", "REVIEW_OPTIONAL"}
    /\ requests[r].fate.decision \in {"ALLOW", "REQUIRE_APPROVAL"}
    => \E o \in overrides :
         /\ o.digest = requests[r].digest
         /\ o.review = requests[r].review
         /\ o.approval # r
         /\ approvals[o.approval].status = "review_overridden"
         /\ approvals[o.approval].digest = o.digest

-----------------------------------------------------------------------------
(* Action properties.                                                      *)

(* A gate closed by a deny opens only by the operator's own hand: through  *)
(* an override, or by asking for the review again.                         *)
BlockOpensOnlyByOperator ==
  [][\A r \in Requests :
       approvals[r].gate = "blocked_by_review" /\ approvals'[r].gate # "blocked_by_review" =>
         \/ approvals'[r].status = "review_overridden"
         \/ jobs[approvals[r].review].status \in Retryable
              /\ jobs'[approvals[r].review].status = "queued"]_vars

(* The promise of ApprovalTicket, kept by the approvals table.             *)
TicketOf(a) ==
  CASE a.status = "absent" -> "none"
    [] a.status = "pending" -> IF a.gate \in Closed THEN "held" ELSE "issued"
    [] a.status = "allowed_once" -> "granted"
    [] a.status = "consumed" -> "used"
    [] a.status \in {"denied", "expired", "review_overridden", "invalidated_restart"} ->
         "closed"

Ticket == INSTANCE ApprovalTicket WITH
  Tickets <- Requests,
  ticket <- [r \in Requests |-> TicketOf(approvals[r])],
  overdue <- {r \in Requests : approvals[r].due}

(* Approvals are single-use: an approval is granted at most once, only     *)
(* while open and in time, used at most once and in time, and closed for   *)
(* good by a denial, an expiry, an override or a restart.                  *)
ImplementsTicket == Ticket!TicketSpec

-----------------------------------------------------------------------------
(* What the documents say of this program; see the README for what the     *)
(* program does instead.                                                   *)

(* "High-confidence enforceable deny results block ordinary allow-once."   *)
DenyBlocksAllowOnce ==
  [][\A r \in Requests :
       /\ Enforcing /\ Pending(r) /\ approvals'[r].status = "allowed_once"
       /\ approvals[r].review # None
       => ~DenyRecorded(approvals[r].review)]_vars
=============================================================================
