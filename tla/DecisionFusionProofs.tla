------------------------ MODULE DecisionFusionProofs ------------------------
(***************************************************************************)
(* What the arithmetic of a decision returns, for all thresholds, results  *)
(* and modes.  SafetyReviewResult is not used: whatever the model answers, *)
(* these facts hold.                                                       *)
(***************************************************************************)
EXTENDS DecisionFusion, TLAPS

LEMMA ProposedType ==
  ASSUME NEW d \in Decision
  PROVE  Proposed(d) \in DecisionKind
BY DEF Decision, Proposed

LEMMA EngineDecisionType ==
  ASSUME NEW k \in DecisionKind, NEW policyMode
  PROVE  EngineDecision(k, policyMode) \in Decision
BY DEF EngineDecision, Decision, DecisionKind

LEMMA TriggerType ==
  ASSUME NEW d \in Decision, NEW flagged \in BOOLEAN, NEW high \in BOOLEAN,
         NEW sampled \in BOOLEAN
  PROVE  Trigger(d, flagged, high, sampled) \in ReviewTrigger
BY ProposedType DEF Trigger, ReviewTrigger, DecisionKind

LEMMA SetKindType ==
  ASSUME NEW d \in Decision, NEW k \in DecisionKind
  PROVE  /\ SetKind(d, k) \in Decision
         /\ d.decision = "OBSERVE" \/ d.would = None => Proposed(SetKind(d, k)) = k
BY DEF SetKind, Decision, Proposed, DecisionKind, None

LEMMA ReviewTargetType ==
  ASSUME NEW k \in DecisionKind, NEW trigger, NEW res
  PROVE  ReviewTarget(k, trigger, res) \in DecisionKind
BY DEF ReviewTarget, DecisionKind

LEMMA FuseType ==
  ASSUME NEW d \in Decision, NEW trigger, NEW res, NEW mode
  PROVE  Fuse(d, trigger, res, mode) \in Decision
BY ProposedType, ReviewTargetType, SetKindType DEF Fuse

LEMMA TightenTypes ==
  ASSUME NEW d \in Decision
  PROVE  /\ TightenForReviewOverride(d) \in Decision
         /\ TightenForPendingReview(d) \in Decision
<1>1. TightenForReviewOverride(d) \in Decision
  BY SetKindType DEF TightenForReviewOverride, DecisionKind
<1>2. TightenForPendingReview(d) \in Decision
  BY DEF TightenForPendingReview, Decision, DecisionKind
<1>. QED
  BY <1>1, <1>2

(* The decisions the engine makes and review passes on: a hidden kind      *)
(* stands behind OBSERVE only.                                             *)
WellFormed(d) == d \in Decision /\ (d.would # None => d.decision = "OBSERVE")

(* No review, of any verdict, confidence or mode, loosens what the policy  *)
(* proposed, and an observed decision stays observed.                      *)
THEOREM FuseOnlyTightens ==
  ASSUME NEW d, WellFormed(d), NEW trigger, NEW res, NEW mode
  PROVE  LET fused == Fuse(d, trigger, res, mode)
         IN /\ WellFormed(fused)
            /\ DECISION_ORDER[Proposed(fused)] >= DECISION_ORDER[Proposed(d)]
            /\ d.decision = "OBSERVE" => fused.decision = "OBSERVE"
<1>. DEFINE target == ReviewTarget(Proposed(d), trigger, res)
            fused == Fuse(d, trigger, res, mode)
<1>1. Proposed(d) \in DecisionKind /\ target \in DecisionKind
  BY ProposedType, ReviewTargetType DEF WellFormed
<1>2. DECISION_ORDER \in [DecisionKind -> 0..3]
  BY DEF DECISION_ORDER, DecisionKind
<1>3. CASE fused = d
  BY <1>1, <1>2, <1>3
<1>4. CASE fused # d
  <2>1. fused = SetKind(d, target) /\ DECISION_ORDER[target] > DECISION_ORDER[Proposed(d)]
    BY <1>1, <1>2, <1>4 DEF Fuse
  <2>2. Proposed(SetKind(d, target)) = target
    BY <1>1, SetKindType DEF WellFormed
  <2>3. WellFormed(SetKind(d, target))
    BY <1>1 DEF WellFormed, SetKind, Decision, DecisionKind
  <2>4. d.decision = "OBSERVE" => SetKind(d, target).decision = "OBSERVE"
    BY DEF SetKind, WellFormed, Decision
  <2>. QED
    BY <1>1, <1>2, <2>1, <2>2, <2>3, <2>4
<1>. QED
  BY <1>3, <1>4
=============================================================================
