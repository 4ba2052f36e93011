--------------------------- MODULE DecisionFusion ---------------------------
(***************************************************************************)
(* The deterministic arithmetic of a decision: the order of the four       *)
(* decision kinds, when an event is sent to semantic review, and how a     *)
(* completed review, a pending review or an operator override changes the  *)
(* decision.  Everything here is a function of its arguments; the modules  *)
(* that keep state call it at the step where the code does.                *)
(*                                                                         *)
(* A review result keeps the five facts the code tells apart.  Confidence  *)
(* is a number compared with two thresholds; "evidence" and "threat" say   *)
(* whether the result cites evidence and names an enforceable threat.      *)
(***************************************************************************)
EXTENDS Integers

CONSTANTS
  DenyThreshold,      \* settings.llm_review_deny_confidence_threshold
  ApprovalThreshold   \* settings.llm_review_approval_confidence_threshold

ASSUME ThresholdsAssumption ==
  /\ DenyThreshold \in Nat
  /\ ApprovalThreshold \in Nat

DecisionKind == {"OBSERVE", "ALLOW", "REQUIRE_APPROVAL", "DENY"}
ReviewMode == {"disabled", "shadow", "advisory", "enforce_tighten"}
ReviewTrigger == {"SKIP", "REVIEW_OPTIONAL", "REVIEW_REQUIRED", "SAMPLE_SHADOW"}
ReviewVerdict == {"ALLOW", "REQUIRE_APPROVAL", "DENY", "UNCERTAIN"}

SafetyReviewResult ==
  [verdict : ReviewVerdict, confidence : Nat, evidence : BOOLEAN, threat : BOOLEAN]

None == "none"

(* A decision as the code carries it: "would" is would_decide, set only    *)
(* when the policy mode hides the proposed kind behind OBSERVE.            *)
Decision == [decision : DecisionKind, would : DecisionKind \union {None}]

DECISION_ORDER ==
  [k \in DecisionKind |->
     CASE k = "OBSERVE" -> 0
       [] k = "ALLOW" -> 1
       [] k = "REQUIRE_APPROVAL" -> 2
       [] k = "DENY" -> 3]

Proposed(d) == IF d.would # None THEN d.would ELSE d.decision

(* The tail of the policy engine: observe mode reports what it would have  *)
(* decided and lets the action through.                                    *)
EngineDecision(proposed, policyMode) ==
  IF policyMode = "observe" /\ proposed # "OBSERVE"
  THEN [decision |-> "OBSERVE", would |-> proposed]
  ELSE [decision |-> proposed, would |-> None]

(* flagged: a matched rule carries one of the prefixes that always need a  *)
(* review; high: the risk is high or critical; sampled: the digest falls   *)
(* under the sampling rate.                                                *)
Trigger(d, flagged, high, sampled) ==
  CASE Proposed(d) = "DENY" -> "SKIP"
    [] Proposed(d) # "DENY" /\ (flagged \/ high) -> "REVIEW_REQUIRED"
    [] Proposed(d) = "REQUIRE_APPROVAL" /\ ~flagged /\ ~high -> "REVIEW_OPTIONAL"
    [] Proposed(d) \in {"OBSERVE", "ALLOW"} /\ ~flagged /\ ~high ->
         IF sampled THEN "SAMPLE_SHADOW" ELSE "SKIP"

(* A deny that the enforcing mode acts on.  The fusion engine, the review  *)
(* agent and the approval manager each spell this test out.                *)
EnforceableDeny(res) ==
  /\ res.verdict = "DENY"
  /\ res.confidence >= DenyThreshold
  /\ res.evidence
  /\ res.threat

(* Mutant: an uncertain review leaves the decision as it was.              *)
UncertainIsIgnored(proposed, trigger, res) ==
  CASE res.verdict = "DENY" ->
         IF EnforceableDeny(res) THEN "DENY" ELSE "REQUIRE_APPROVAL"
    [] res.verdict = "REQUIRE_APPROVAL" /\ res.confidence >= ApprovalThreshold ->
         "REQUIRE_APPROVAL"
    [] OTHER -> proposed

ReviewTarget(proposed, trigger, res) ==
  CASE res.verdict = "DENY" ->
         IF EnforceableDeny(res) THEN "DENY" ELSE "REQUIRE_APPROVAL"
    [] res.verdict = "REQUIRE_APPROVAL" /\ res.confidence >= ApprovalThreshold ->
         "REQUIRE_APPROVAL"
    [] res.verdict = "UNCERTAIN" /\ trigger = "REVIEW_REQUIRED" -> "REQUIRE_APPROVAL"
    [] OTHER -> proposed

SetKind(d, kind) ==
  IF d.decision = "OBSERVE" THEN [d EXCEPT !.would = kind] ELSE [d EXCEPT !.decision = kind]

Fuse(d, trigger, res, mode) ==
  LET proposed == Proposed(d)
      target == ReviewTarget(proposed, trigger, res)
  IN IF \/ mode # "enforce_tighten"
        \/ trigger = "SAMPLE_SHADOW"
        \/ proposed = "DENY"
        \/ DECISION_ORDER[target] <= DECISION_ORDER[proposed]
     THEN d
     ELSE SetKind(d, target)

(* An override releases the review's deny, never the operator's approval.  *)
TightenForReviewOverride(d) ==
  IF Proposed(d) = "DENY" THEN d ELSE SetKind(d, "REQUIRE_APPROVAL")

TightenForPendingReview(d) ==
  IF d.decision = "DENY" THEN d ELSE [d EXCEPT !.decision = "REQUIRE_APPROVAL"]
=============================================================================
