--------------------------- MODULE CircuitBreaker ---------------------------
(***************************************************************************)
(* The breaker the review workers share.  Each method runs under the       *)
(* breaker's own lock, so each is one action.                              *)
(*                                                                         *)
(* The deadline _open_until is kept as what the code can tell of it:       *)
(* "closed" is 0, "open" is in the future, "elapsed" is a deadline that    *)
(* has passed and that nobody has reset yet.  The failure count is only    *)
(* compared with the threshold, so it saturates there.                     *)
(***************************************************************************)
EXTENDS Integers

CONSTANT FailureThreshold

ASSUME FailureThresholdAssumption == FailureThreshold \in Nat \ {0}

VARIABLE breaker

BreakerType == [failures : 0..FailureThreshold, window : {"closed", "open", "elapsed"}]

FreshBreaker == [failures |-> 0, window |-> "closed"]

BreakerInit == breaker = FreshBreaker

(* allow() returning True; after a cooldown it also forgets the failures.  *)
BreakerAllow ==
  /\ breaker.window # "open"
  /\ breaker' = IF breaker.window = "elapsed" THEN FreshBreaker ELSE breaker

BreakerSuccess == breaker' = FreshBreaker

BreakerFailure ==
  LET n == IF breaker.failures < FailureThreshold
           THEN breaker.failures + 1 ELSE FailureThreshold
  IN breaker' = [failures |-> n,
                 window |-> IF n >= FailureThreshold THEN "open" ELSE breaker.window]

(* The monotonic clock reaches _open_until.                                *)
CooldownElapses ==
  /\ breaker.window = "open"
  /\ breaker' = [breaker EXCEPT !.window = "elapsed"]
=============================================================================
