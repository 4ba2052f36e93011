---------------------------- MODULE MCReviewGate ----------------------------
(* Small instances of ReviewGate for the model checker.                    *)
EXTENDS ReviewGate, TLC

CONSTANTS r1, r2, f1, f2, d1, d2, w1, w2

Symmetry == {p @@ q : p \in Permutations(Requests), q \in Permutations(Workers)}

(* Two exact actions whose sanitized summaries read the same.              *)
SharedFingerprint == (d1 :> f1) @@ (d2 :> f1)
OwnFingerprints == (d1 :> f1) @@ (d2 :> f2)
OnlyAction == d1 :> f1

Clean == [verdict |-> "ALLOW", confidence |-> 2, evidence |-> TRUE, threat |-> FALSE]
Block == [verdict |-> "DENY", confidence |-> 2, evidence |-> TRUE, threat |-> TRUE]
WeakDeny == [verdict |-> "DENY", confidence |-> 1, evidence |-> TRUE, threat |-> TRUE]
Unsure == [verdict |-> "UNCERTAIN", confidence |-> 0, evidence |-> FALSE, threat |-> FALSE]
Ask == [verdict |-> "REQUIRE_APPROVAL", confidence |-> 1, evidence |-> TRUE, threat |-> FALSE]

CleanOrBlock == {Clean, Block}
AllResults == {Clean, Block, WeakDeny, Unsure, Ask}

(* An allowed action of high risk, and one of medium risk that the policy  *)
(* wants approved.                                                         *)
RiskyAllow == [proposed |-> "ALLOW", flagged |-> FALSE, high |-> TRUE, sampled |-> FALSE]
FlaggedAllow == [proposed |-> "ALLOW", flagged |-> TRUE, high |-> FALSE, sampled |-> FALSE]
AskedFirst ==
  [proposed |-> "REQUIRE_APPROVAL", flagged |-> FALSE, high |-> FALSE, sampled |-> FALSE]
Sampled == [proposed |-> "ALLOW", flagged |-> FALSE, high |-> FALSE, sampled |-> TRUE]
Denied == [proposed |-> "DENY", flagged |-> FALSE, high |-> TRUE, sampled |-> FALSE]

RequiredEvents == {FlaggedAllow}
MixedEvents == {RiskyAllow, AskedFirst}
AllEvents == {RiskyAllow, FlaggedAllow, AskedFirst, Sampled, Denied}
=============================================================================
