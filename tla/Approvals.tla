----------------------------- MODULE Approvals -----------------------------
(***************************************************************************)
(* The approvals table and the operations of ApprovalManager, each one     *)
(* transaction under the store's lock.                                     *)
(*                                                                         *)
(* An approval is created for one decision request and is named after it.  *)
(* digest stands for everything consume() compares: the parameter digest   *)
(* and the agent, session and sender it was computed for.  due says that   *)
(* expires_at has passed; an override copies expires_at from its approval  *)
(* and so shares that flag.                                                *)
(***************************************************************************)
EXTENDS FiniteSets

CONSTANTS
  Requests,       \* decision requests, and the approvals made for them
  Digests,        \* exact bound actions
  ReviewIds,      \* reviews an approval can be blocked by
  NoReview,       \* blocking_review_id is NULL
  NoDigest        \* an approval that was never created is bound to nothing

VARIABLES approvals, overrides

ApprovalStatus ==
  {"absent", "pending", "allowed_once", "denied", "expired", "consumed",
   "review_overridden", "invalidated_restart"}

Gates == {"open", "review_complete", "blocked_by_review", "review_degraded"}

(* Gates under which allow-once is refused.                                *)
Closed == {"review_complete", "blocked_by_review"}

ApprovalType ==
  [status : ApprovalStatus, gate : Gates, review : ReviewIds \union {NoReview},
   digest : Digests \union {NoDigest}, due : BOOLEAN]

OverrideType ==
  [approval : Requests, review : ReviewIds \union {NoReview}, digest : Digests]

NoApproval ==
  [status |-> "absent", gate |-> "open", review |-> NoReview, digest |-> NoDigest,
   due |-> FALSE]

ApprovalsTypeOK ==
  /\ approvals \in [Requests -> ApprovalType]
  /\ overrides \in SUBSET OverrideType

ApprovalsInit ==
  /\ approvals = [r \in Requests |-> NoApproval]
  /\ overrides = {}

Pending(r) == approvals[r].status = "pending"

-----------------------------------------------------------------------------

InsertApproval(r, d, f, gate) ==
  /\ approvals[r].status = "absent"
  /\ approvals' = [approvals EXCEPT ![r] =
       [status |-> "pending", gate |-> gate, review |-> f, digest |-> d, due |-> FALSE]]
  /\ UNCHANGED overrides

(* Mutant: allow-once does not look at the clock.                          *)
AllowOnceLate(r) ==
  /\ Pending(r)
  /\ approvals[r].gate \notin Closed
  /\ approvals' = [approvals EXCEPT ![r].status = "allowed_once"]
  /\ UNCHANGED overrides

(* resolve(allow=True).  A late answer is refused; the status 'expired'    *)
(* it tries to write is rolled back with the exception that follows.       *)
AllowOnce(r) ==
  /\ Pending(r)
  /\ approvals[r].gate \notin Closed
  /\ ~approvals[r].due
  /\ approvals' = [approvals EXCEPT ![r].status = "allowed_once"]
  /\ UNCHANGED overrides

(* resolve(allow=False) does not look at the gate.                         *)
Deny(r) ==
  /\ Pending(r)
  /\ ~approvals[r].due
  /\ approvals' = [approvals EXCEPT ![r].status = "denied"]
  /\ UNCHANGED overrides

(* override_review_block, given the digest the operator typed.             *)
OverrideReviewBlock(r, d) ==
  /\ Pending(r)
  /\ approvals[r].gate = "blocked_by_review"
  /\ approvals[r].digest = d
  /\ ~approvals[r].due
  /\ approvals' = [approvals EXCEPT ![r] =
       [@ EXCEPT !.status = "review_overridden", !.gate = "open"]]
  /\ overrides' = overrides \union
       {[approval |-> r, review |-> approvals[r].review, digest |-> approvals[r].digest]}

(* consume() for an event with digest d; FALSE without effect otherwise.   *)
Consume(r, d) ==
  /\ approvals[r].status = "allowed_once"
  /\ ~approvals[r].due
  /\ approvals[r].digest = d
  /\ approvals' = [approvals EXCEPT ![r].status = "consumed"]
  /\ UNCHANGED overrides

(* expire(), the periodic sweep.                                           *)
ExpireSweep ==
  /\ approvals' = [r \in Requests |->
       IF Pending(r) /\ approvals[r].due
       THEN [approvals[r] EXCEPT !.status = "expired"] ELSE approvals[r]]
  /\ UNCHANGED overrides

(* The clock reaches expires_at.  Only these statuses are ever compared    *)
(* with the clock again.                                                   *)
DeadlinePasses(r) ==
  /\ approvals[r].status \in {"pending", "allowed_once", "review_overridden"}
  /\ ~approvals[r].due
  /\ approvals' = [approvals EXCEPT ![r].due = TRUE]
  /\ UNCHANGED overrides

(* ApprovalManager.__init__ of the next process.                           *)
InvalidatePending ==
  /\ approvals' = [r \in Requests |->
       IF Pending(r) THEN [approvals[r] EXCEPT !.status = "invalidated_restart"]
       ELSE approvals[r]]
  /\ UNCHANGED overrides

(* Mutant: the update forgets "AND resolution_gate='review_complete'".     *)
SettleAnyGate(f, gate) ==
  /\ approvals' = [r \in Requests |->
       IF approvals[r].review = f
       THEN [approvals[r] EXCEPT !.gate = gate] ELSE approvals[r]]
  /\ UNCHANGED overrides

(* The gate updates the review queue makes in its own transactions: the    *)
(* approvals of review f that wait for it move on, whatever their status.  *)
SettleGates(f, gate) ==
  /\ approvals' = [r \in Requests |->
       IF approvals[r].review = f /\ approvals[r].gate = "review_complete"
       THEN [approvals[r] EXCEPT !.gate = gate] ELSE approvals[r]]
  /\ UNCHANGED overrides

(* retry_llm_review closes the gate of every pending approval of f again.  *)
CloseGates(f) ==
  /\ approvals' = [r \in Requests |->
       IF approvals[r].review = f /\ Pending(r)
       THEN [approvals[r] EXCEPT !.gate = "review_complete"] ELSE approvals[r]]
  /\ UNCHANGED overrides

(* Mutant: an override releases every action that shares the review.       *)
OverrideOfAnyDigest(f, d) ==
  \E o \in overrides : o.review = f /\ ~approvals[o.approval].due

(* get_active_llm_review_override finds a row.                             *)
ActiveOverride(f, d) ==
  \E o \in overrides : o.review = f /\ o.digest = d /\ ~approvals[o.approval].due
=============================================================================
