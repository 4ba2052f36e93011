--------------------------- MODULE MCTaskPolicies ---------------------------
(* Small instances of TaskPolicies for the model checker.                  *)
EXTENDS TaskPolicies, TLC

CONSTANTS s1, s2, p1, p2, look, edit, c1, c2

Symmetry == Permutations(Callers)

NoParents == s1 :> NoSession
Pair == (s1 :> NoSession) @@ (s2 :> s1)

(* The second prompt asks for less, for something else, or for nothing.    *)
WideAndNarrow == (p1 :> {look, edit}) @@ (p2 :> {look})
Switch == (p1 :> {look}) @@ (p2 :> {edit})
LookOrNothing == (p1 :> {look}) @@ (p2 :> {})
=============================================================================
