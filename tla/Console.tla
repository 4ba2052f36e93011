------------------------------- MODULE Console -------------------------------
(***************************************************************************)
(* The web console: browser tabs unlocked through UiSession, with the      *)
(* policy workbench (PolicyPage) or the approvals page (ApprovalsPage) in  *)
(* them.  Every write of a page is made with the tab's session and token,  *)
(* and a tab that is locked or reloaded loses its page.                    *)
(*                                                                         *)
(* Which page a tab shows is fixed in the initial state: a page that is    *)
(* left and opened again starts like one that is reloaded.  Policies and   *)
(* approvals that no tab shows are left alone.                             *)
(***************************************************************************)
EXTENDS UiSession, PolicyPage, ApprovalsPage

CONSTANT Layouts   \* what the tabs show, the codes still to be made, the pending approvals

Page == {"absent", "overview", "policy", "approvals"}

ASSUME ConsoleAssumption ==
  /\ PolicyTabs = Tabs
  /\ ApprovalTabs = Tabs
  /\ Layouts \subseteq [pages : [Tabs -> Page], codes : SUBSET Codes,
                         requests : SUBSET Requests]

VARIABLE page

pageVars == <<policyVars, work, approval, drawer, page>>
vars == <<sessionVars, pageVars>>

TypeOK == SessionTypeOK /\ PolicyTypeOK /\ PageTypeOK /\ DrawerTypeOK /\ page \in [Tabs -> Page]

Init ==
  /\ PolicyInit /\ PageInit
  /\ \E layout \in Layouts :
       /\ page = layout.pages
       /\ SessionInit(layout.codes)
       /\ DrawerInit(layout.requests)

Shows(t, p) == tabs[t].at = "shell" /\ page[t] = p
Somewhere(p) == \E t \in Tabs : page[t] = p

-----------------------------------------------------------------------------
(* Sessions.  A 401 clears the query cache, and so does a reload; logging  *)
(* out keeps it.                                                           *)

LosesPage(t) ==
  /\ work' = [work EXCEPT ![t] = Fresh]
  /\ drawer' = [drawer EXCEPT ![t] = Closed]
  /\ UNCHANGED <<policyVars, approval, page>>

KeepsCache(t) ==
  /\ work' = [work EXCEPT ![t] = Unmounted(@)]
  /\ drawer' = [drawer EXCEPT ![t] = [Closed EXCEPT !.detail = drawer[t].detail]]
  /\ UNCHANGED <<policyVars, approval, page>>

Connects(t) ==
  \/ page[t] # "absent" /\ \E code \in Codes \union {NoCode} : Opens(t, code) /\ LosesPage(t)
  \/ (ConsumeBootstrap(t) \/ RestoreSession(t)) /\ UNCHANGED pageVars

Poll(t) == Finds401(t) /\ LosesPage(t)

LogsOut(t) == Logout(t) /\ KeepsCache(t)

-----------------------------------------------------------------------------
(* The pages.  A request needs the session, a write the token as well.     *)

drawerVars == <<sessionVars, approval, drawer, page>>
workVars == <<sessionVars, policyVars, work, page>>

PolicyWork(t) ==
  /\ Shows(t, "policy")
  /\ \/ HasSession /\ Fetch(t)
     \/ PageAdvances(t)
     \/ \E kind \in Checks : HasSession /\ StartCheck(t, kind, Accepted(t))
     \/ \E b \in BOOLEAN : HasSession /\ Publish(t, b, Accepted(t))
     \/ \E revision \in Texts : HasSession /\ Restore(t, revision, Accepted(t))
  /\ UNCHANGED drawerVars

PolicyElsewhere ==
  /\ Somewhere("policy")
  /\ PublicationGoesOn \/ Elsewhere
  /\ UNCHANGED drawerVars

ApprovalWork(t) ==
  /\ Shows(t, "approvals")
  /\ \/ \E a \in Requests \union {NoRequestSelected} : SelectApproval(t, a)
     \/ HasSession /\ DetailAnswered(t)
     \/ \E b \in BOOLEAN : Tick(t, b)
     \/ \E allow \in BOOLEAN : HasSession /\ Resolve(t, allow, Accepted(t))
     \/ HasSession /\ Settled(t)
  /\ UNCHANGED workVars

ApprovalElsewhere ==
  /\ Somewhere("approvals")
  /\ \E a \in Requests : MovesElsewhere(a)
  /\ UNCHANGED workVars

Next ==
  \/ \E t \in Tabs : Connects(t) \/ Poll(t) \/ LogsOut(t) \/ PolicyWork(t) \/ ApprovalWork(t)
  \/ \E c \in Codes : ServerSide(c) /\ UNCHANGED pageVars
  \/ PolicyElsewhere
  \/ ApprovalElsewhere

(* The overview in the shell of every page is fetched every 10 seconds.    *)
Fairness == \A t \in Tabs : WF_vars(Poll(t))

Spec == Init /\ [][Next]_vars
FairSpec == Spec /\ Fairness
-----------------------------------------------------------------------------
(* Properties.                                                             *)

(* While no publication runs, guardd decides by what the file says, unless *)
(* a hand edit, a reload or a failed disk set the two apart: whatever step *)
(* of whichever publication failed.                                        *)
FileAndMemoryAgree == LockFree /\ ~diverted => file = memory

(* Enforcement begins by a publication somebody confirmed, by a reload, or *)
(* because a failed publication is undone: whatever mode a page believed   *)
(* to be in force when it left the confirmation out.                       *)
EnforceIsConfirmed ==
  [][memory \notin Enforcing /\ memory' \in Enforcing =>
       \/ publication.stage = "applying" /\ publication.confirmed
       \/ publication.stage = "failing" /\ publication.was = memory'
       \/ reload = memory' /\ reload' # reload /\ publication.stage = "idle"]_vars

(* A publication replaces the very policy whose digest it was sent with,   *)
(* and one that fails ends with that policy in memory again, whatever of   *)
(* it was applied and however reloads and other publications fall between. *)
AppliedOverExpected ==
  [][/\ publication.stage = "applying" /\ publication'.stage # "applying" =>
          memory = publication.expected
     /\ publication.stage = "failing" /\ publication'.stage # "failing" =>
          memory' = publication.expected
     /\ publication.stage # "idle" /\ memory' # memory =>
          publication.stage \in {"applying", "failing"}]_vars

(* What guardd takes from a tab it records under the operator the tab      *)
(* shows, though the cookie is the whole browser's and may be of a newer   *)
(* session.                                                                *)
WrittenByShown ==
  [][\A t \in Tabs :
       \/ publication'.by = t /\ publication.by # t
       \/ drawer[t].resolving # drawer'[t].resolving /\ approval' # approval
       => tabs[t].operator = cookie]_vars

(* An approval is allowed from the page only if the box was ticked while   *)
(* that very approval was in the drawer.                                   *)
AllowedWasTicked ==
  [][\A t \in Tabs, a \in Requests :
       /\ drawer[t].resolving = NoRequestSelected /\ drawer'[t].resolving = a
       /\ approval[a] # "allowed_once" /\ approval'[a] = "allowed_once"
       => drawer[t].ticked = a]_vars

(* A tab does not go on showing the console without a session: it ends at  *)
(* the login guide, or a session is there again.                           *)
GuideWhenGone ==
  \A t \in Tabs :
    (tabs[t].at = "shell" /\ ~HasSession) ~> (tabs[t].at # "shell" \/ HasSession)
=============================================================================
