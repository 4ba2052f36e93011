------------------------------ MODULE MCConsole ------------------------------
(* Small instances of Console for the model checker.                       *)
EXTENDS Console, TLC

CONSTANTS t1, t2, a1, a2, c1, c2

(* The policy page, everything else done from another browser.             *)
PolicyAlone ==
  [pages |-> (t1 :> "policy") @@ (t2 :> "absent"), codes |-> {c1}, requests |-> {}]

(* Two approvals, one drawer.                                              *)
ApprovalsAlone ==
  [pages |-> (t1 :> "approvals") @@ (t2 :> "absent"), codes |-> {c1}, requests |-> {a1, a2}]

(* Two tabs and two sessions of one browser.                               *)
TwoTabs ==
  [pages |-> (t1 :> "approvals") @@ (t2 :> "overview"), codes |-> {c1, c2},
   requests |-> {a1}]

OnePageEach == {PolicyAlone, ApprovalsAlone, TwoTabs}
=============================================================================
