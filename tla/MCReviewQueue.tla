--------------------------- MODULE MCReviewQueue ---------------------------
(* Small instances of ReviewQueue for the model checker.                   *)
EXTENDS ReviewQueue, TLC

CONSTANTS f1, f2, w1, w2

Clean == [verdict |-> "ALLOW", confidence |-> 2, evidence |-> TRUE, threat |-> FALSE]
OnlyClean == {Clean}
=============================================================================
