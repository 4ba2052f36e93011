---------------------------- MODULE SessionGrant ----------------------------
(***************************************************************************)
(* What the task policies promise to the operator, without revisions in a  *)
(* table, transactions or callers: a session is granted a scope only by a  *)
(* confirmation of the one candidate that waits for it, or as a strictly   *)
(* smaller part of what it is granted already.                             *)
(***************************************************************************)
EXTENDS Naturals

CONSTANTS Sessions, Perms

VARIABLES made,       \* how many candidates a session has had
          waiting,    \* the scope of the candidate that waits, if any
          granted,    \* the scope that is granted, if any
          confirmed   \* the candidates that were confirmed, by number

grantVars == <<made, waiting, granted, confirmed>>

GrantInit ==
  /\ made = [s \in Sessions |-> 0]
  /\ waiting = [s \in Sessions |-> {}]
  /\ granted = [s \in Sessions |-> {}]
  /\ confirmed = [s \in Sessions |-> {}]

Propose(s, scope) ==
  /\ waiting[s] = {}
  /\ made' = [made EXCEPT ![s] = @ + 1]
  /\ waiting' = [waiting EXCEPT ![s] = {scope}]
  /\ UNCHANGED <<granted, confirmed>>

(* What waits becomes what is granted, and nothing else is.                *)
Grant(s) ==
  /\ waiting[s] # {}
  /\ granted' = [granted EXCEPT ![s] = waiting[s]]
  /\ waiting' = [waiting EXCEPT ![s] = {}]
  /\ UNCHANGED made

Confirm(s) ==
  /\ Grant(s)
  /\ confirmed' = [confirmed EXCEPT ![s] = @ \union {made[s]}]

Narrow(s) ==
  /\ \E scope \in waiting[s], old \in granted[s] : scope \subseteq old /\ scope # old
  /\ Grant(s)
  /\ UNCHANGED confirmed

(* Candidates and grants end at any time, of several sessions at once.     *)
End ==
  /\ \A s \in Sessions : waiting'[s] \subseteq waiting[s] /\ granted'[s] \subseteq granted[s]
  /\ waiting' \in [Sessions -> SUBSET SUBSET Perms]
  /\ granted' \in [Sessions -> SUBSET SUBSET Perms]
  /\ UNCHANGED <<made, confirmed>>

GrantNext ==
  \/ \E s \in Sessions : Confirm(s) \/ Narrow(s) \/ \E scope \in SUBSET Perms : Propose(s, scope)
  \/ End

GrantSpec == GrantInit /\ [][GrantNext]_grantVars
=============================================================================
