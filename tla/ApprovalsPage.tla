---------------------------- MODULE ApprovalsPage ----------------------------
(***************************************************************************)
(* The approvals page of the console: one approval selected, the box that  *)
(* says its digest was checked, and the request that resolves it, against  *)
(* approvals that are also resolved elsewhere and may be held by a gate.   *)
(*                                                                         *)
(* The page of a tab is one record.  The list, the filters' values and the *)
(* countdown only show; a change of the status filter also closes the      *)
(* drawer.  Modules Approvals and ApprovalTicket say what guardd does.     *)
(***************************************************************************)
CONSTANTS ApprovalTabs, Requests, NoRequestSelected

ASSUME ApprovalsPageAssumption == NoRequestSelected \notin Requests

VARIABLES
  approval,   \* guardd: the approvals, pending ones with or without a gate
  drawer      \* the Approvals component of each tab

Standing == {"gated", "open", "allowed_once", "closed"}
Selection == Requests \union {NoRequestSelected}

DrawerType ==
  [selected : Selection, confirmed : BOOLEAN,
   detail : [Requests -> Standing \union {"unknown"}],
   resolving : Selection,
   ticked : Selection]   \* history: what was selected when the box got its tick

DrawerTypeOK ==
  /\ approval \in [Requests -> Standing]
  /\ drawer \in [ApprovalTabs -> DrawerType]

Closed ==
  [selected |-> NoRequestSelected, confirmed |-> FALSE, detail |-> [a \in Requests |-> "unknown"],
   resolving |-> NoRequestSelected, ticked |-> NoRequestSelected]

(* The other approvals are over.                                           *)
DrawerInit(requests) ==
  /\ approval \in [Requests -> {"gated", "open", "closed"}]
  /\ \A a \in Requests : approval[a] = "closed" <=> a \notin requests
  /\ drawer = [t \in ApprovalTabs |-> Closed]

Pending(standing) == standing \in {"gated", "open"}

-----------------------------------------------------------------------------
(* Mutant: the tick stays when another approval is selected.               *)
SelectKeepsTick(t, a) ==
  /\ drawer' = [drawer EXCEPT ![t].selected = a]
  /\ UNCHANGED approval

(* selectApproval, onClose and changeStatus.                               *)
SelectApproval(t, a) ==
  /\ drawer' = [drawer EXCEPT ![t].selected = a, ![t].confirmed = FALSE,
                              ![t].ticked = NoRequestSelected]
  /\ UNCHANGED approval

DetailAnswered(t) ==
  LET a == drawer[t].selected
  IN /\ a \in Requests
     /\ drawer' = [drawer EXCEPT ![t].detail[a] = approval[a]]
     /\ UNCHANGED approval

(* The box is there for an approval whose detail says pending.             *)
Tick(t, checked) ==
  LET a == drawer[t].selected
  IN /\ a \in Requests
     /\ Pending(drawer[t].detail[a])
     /\ drawer' = [drawer EXCEPT ![t].confirmed = checked,
                                 ![t].ticked = IF checked THEN a ELSE NoRequestSelected]
     /\ UNCHANGED approval

(* What the buttons allow, by the detail that was fetched last.            *)
CanClick(d, allow) ==
  /\ d.selected \in Requests
  /\ d.resolving = NoRequestSelected
  /\ Pending(d.detail[d.selected])
  /\ allow => d.confirmed /\ d.detail[d.selected] = "open"

Resolvable(a, allow) == IF allow THEN approval[a] = "open" ELSE Pending(approval[a])

(* A click; guardd resolves what it still can.                             *)
Resolve(t, allow, accepted) ==
  LET a == drawer[t].selected
  IN /\ CanClick(drawer[t], allow)
     /\ drawer' = [drawer EXCEPT ![t].resolving = a]
     /\ approval' = IF accepted /\ Resolvable(a, allow)
                    THEN [approval EXCEPT ![a] = IF allow THEN "allowed_once" ELSE "closed"]
                    ELSE approval

(* onSettled: the list, then the detail of what is selected by now, are    *)
(* fetched again, and only then the box is cleared.                        *)
Settled(t) ==
  LET d == drawer[t]
  IN /\ d.resolving # NoRequestSelected
     /\ drawer' = [drawer EXCEPT ![t] =
          [d EXCEPT !.resolving = NoRequestSelected, !.confirmed = FALSE,
                    !.ticked = NoRequestSelected,
                    !.detail = IF d.selected \in Requests
                               THEN [@ EXCEPT ![d.selected] = approval[d.selected]] ELSE @]]
     /\ UNCHANGED approval

(* Gates open and close; others resolve; deadlines pass; guardd restarts.  *)
MovesElsewhere(a) ==
  /\ Pending(approval[a])
  /\ \E standing \in Standing \ {approval[a]} : approval' = [approval EXCEPT ![a] = standing]
  /\ UNCHANGED drawer
=============================================================================
