---------------------------- MODULE ConsoleProofs ----------------------------
(***************************************************************************)
(* Proofs about Console, for any number of tabs, codes, policies and       *)
(* approvals: what happens to the policy, in whose name a tab writes, and  *)
(* what a tick in the approvals page stands for.                           *)
(***************************************************************************)
EXTENDS Console, TLAPS

-----------------------------------------------------------------------------
(* The policy.  Between two steps of a publication nothing else touches    *)
(* the file or the memory, so that each stage knows what it finds there.   *)

(* A publication that is refused for want of a confirmation does not run.  *)
Confirmed(p) == p.text \in Enforcing /\ p.was \notin Enforcing => p.confirmed

StageInv ==
  LET p == publication
  IN /\ p.stage = "idle" /\ ~diverted => file = memory
     /\ p.stage # "idle" => p.text \in Valid /\ p.old \in Texts /\ p.was \in Valid
     /\ p.stage # "idle" => p.was = p.expected
     /\ p.stage # "idle" /\ ~diverted => p.old = p.was
     /\ p.stage \in {"writing", "applying"} => memory = p.was /\ memory = p.expected
     /\ p.stage = "applying" => file = p.text
     /\ p.stage = "recording" => file = memory
     /\ p.stage # "idle" => Confirmed(p)

PolicyInv == PolicyTypeOK /\ StageInv

(* Everything that can happen to the policy.                               *)
PolicyStep ==
  \/ \E by \in Publishers, text, expected \in Texts, confirmed \in BOOLEAN :
        PublishBegins(by, text, expected, confirmed)
  \/ WriteFile
  \/ ApplyPolicy
  \/ RecordRevisions
  \/ RollBack
  \/ \E text \in Texts : FileEdited(text)
  \/ ReloadReads
  \/ ReloadApplies
  \/ UNCHANGED policyVars

(* The properties of the policy that are about steps, as one step sees     *)
(* them.                                                                   *)
EnforceStep ==
  memory \notin Enforcing /\ memory' \in Enforcing =>
    \/ publication.stage = "applying" /\ publication.confirmed
    \/ publication.stage = "failing" /\ publication.was = memory'
    \/ reload = memory' /\ reload' # reload /\ publication.stage = "idle"

ExpectedStep ==
  /\ publication.stage = "applying" /\ publication'.stage # "applying" =>
       memory = publication.expected
  /\ publication.stage = "failing" /\ publication'.stage # "failing" =>
       memory' = publication.expected
  /\ publication.stage # "idle" /\ memory' # memory =>
       publication.stage \in {"applying", "failing"}

LEMMA PolicyStepKeeps ==
  ASSUME PolicyInv, PolicyStep
  PROVE  PolicyInv' /\ EnforceStep /\ ExpectedStep
<1> USE PublicationAssumption
        DEF PolicyInv, PolicyTypeOK, StageInv, Confirmed, EnforceStep, ExpectedStep, LockFree,
            Publication
<1>1. CASE UNCHANGED policyVars
  BY <1>1 DEF policyVars
<1>2. ASSUME NEW by \in Publishers, NEW text \in Texts, NEW expected \in Texts,
             NEW confirmed \in BOOLEAN, PublishBegins(by, text, expected, confirmed)
      PROVE  PolicyInv' /\ EnforceStep /\ ExpectedStep
  BY <1>2 DEF PublishBegins, Publishable
<1>3. CASE WriteFile
  BY <1>3 DEF WriteFile, Stages
<1>4. CASE ApplyPolicy
  BY <1>4 DEF ApplyPolicy, Stages
<1>5. CASE RecordRevisions
  <2>1. CASE publication' = NoPublication /\ diverted' = FALSE
    BY <1>5, <2>1 DEF RecordRevisions, NoPublication
  <2>2. CASE Stages("failing") /\ UNCHANGED diverted
    BY <1>5, <2>2 DEF RecordRevisions, Stages
  <2>. QED
    BY <1>5, <2>1, <2>2 DEF RecordRevisions
<1>6. CASE RollBack
  BY <1>6 DEF RollBack, OldPolicy, NoPublication
<1>7. ASSUME NEW text \in Texts, FileEdited(text)
      PROVE  PolicyInv' /\ EnforceStep /\ ExpectedStep
  BY <1>7 DEF FileEdited
<1>8. CASE ReloadReads
  BY <1>8 DEF ReloadReads
<1>9. CASE ReloadApplies
  BY <1>9 DEF ReloadApplies
<1>. QED
  BY <1>1, <1>2, <1>3, <1>4, <1>5, <1>6, <1>7, <1>8, <1>9 DEF PolicyStep

-----------------------------------------------------------------------------
(* The shape of every tab's page: whatever it waits for, it waits for with *)
(* a policy loaded.                                                        *)

WaitsLoaded(w) == Busy(w) => Mounted(w)
PageInv == PageTypeOK /\ \A t \in PolicyTabs : WaitsLoaded(work[t])

LEMMA PageInvOfPage ==
  ASSUME PageTypeOK, NEW t \in PolicyTabs, NEW w \in PageType, WaitsLoaded(w),
         \A u \in PolicyTabs : WaitsLoaded(work[u]), work' = [work EXCEPT ![t] = w]
  PROVE  PageInv'
<1>1. work' \in [PolicyTabs -> PageType]
  BY DEF PageTypeOK
<1>2. \A u \in PolicyTabs : work'[u] = IF u = t THEN w ELSE work[u]
  BY DEF PageTypeOK
<1>3. \A u \in PolicyTabs : WaitsLoaded(IF u = t THEN w ELSE work[u])
  OBVIOUS
<1>. QED
  BY <1>1, <1>2, <1>3 DEF PageInv, PageTypeOK, WaitsLoaded, Busy, Mounted

LEMMA FreshIsPage == Fresh \in PageType /\ NoRequest \in Request
BY DEF Fresh, NoRequest, PageType, Request

LEMMA AsksIsPage ==
  ASSUME NEW w \in PageType, NEW kind \in Checks \union {"publish", "restore"},
         NEW text \in Texts \union {NoText}, NEW answer \in {"waiting", "done", "failed"}
  PROVE  Asks(w, kind, text, answer) \in PageType
BY DEF Asks, PageType, Request

(* A click begins a publication with what the page shows, or nothing.      *)
LEMMA SubmitsIsStep ==
  ASSUME PolicyInv, PageInv, NEW t \in PolicyTabs, NEW kind \in {"publish", "restore"},
         NEW text, NEW confirmed \in BOOLEAN, NEW accepted, Mounted(work[t]),
         Submits(t, kind, text, confirmed, accepted)
  PROVE  PolicyStep /\ PageInv'
<1>1. PolicyStep
  <2>1. CASE PublishBegins(t, text, work[t].current.digest, confirmed)
    <3>1. text \in Texts /\ work[t].current.digest \in Texts
      BY <2>1, PublicationAssumption
      DEF PublishBegins, Publishable, PolicyInv, PolicyTypeOK
    <3>2. t \in Publishers
      BY PolicyPageAssumption
    <3>. QED
      BY <2>1, <3>1, <3>2 DEF PolicyStep
  <2>2. CASE UNCHANGED policyVars
    BY <2>2 DEF PolicyStep
  <2>. QED
    BY <2>1, <2>2 DEF Submits
<1>2. PICK answer \in {"waiting", "failed"} :
         work' = [work EXCEPT ![t] = Asks(work[t], kind, NoText, answer)]
  BY DEF Submits
<1>3. work[t] \in PageType
  BY DEF PageInv, PageTypeOK
<1>4. Asks(work[t], kind, NoText, answer) \in PageType
  BY <1>3, AsksIsPage
<1>5. WaitsLoaded(Asks(work[t], kind, NoText, answer))
  BY <1>3 DEF WaitsLoaded, Mounted, Asks, PageType
<1>6. PageInv'
  BY <1>2, <1>4, <1>5, PageInvOfPage DEF PageInv
<1>. QED
  BY <1>1, <1>6

(* Whatever a tab does with its page is a step of the policy, and keeps    *)
(* the shape of the pages.                                                 *)
LEMMA PageKeeps ==
  ASSUME PolicyInv, PageInv, NEW t \in PolicyTabs,
         \/ Fetch(t) \/ PageAdvances(t)
         \/ \E kind \in Checks, accepted \in BOOLEAN : StartCheck(t, kind, accepted)
         \/ \E b, accepted \in BOOLEAN : Publish(t, b, accepted)
         \/ \E revision \in Texts, accepted \in BOOLEAN : Restore(t, revision, accepted)
  PROVE  PolicyStep /\ PageInv'
<1> DEFINE w == work[t]
<1>0. w \in PageType /\ WaitsLoaded(w) /\ PolicyTypeOK
  BY DEF PageInv, PageTypeOK, PolicyInv
<1>a. ASSUME NEW next \in PageType, WaitsLoaded(next), UNCHANGED policyVars,
             work' = [work EXCEPT ![t] = next]
      PROVE  PolicyStep /\ PageInv'
  BY <1>a, PageInvOfPage DEF PageInv, PolicyStep
<1>1. CASE Fetch(t)
  <2> DEFINE next == [w EXCEPT !.current = [text |-> file, digest |-> memory],
                               !.refetching = FALSE,
                               !.text = IF @ = NoText THEN file ELSE @,
                               !.passed = IF w.refetching THEN {} ELSE @]
  <2>1. [text |-> file, digest |-> memory] \in View
    BY <1>0 DEF View, PolicyTypeOK
  <2>2. next \in PageType /\ next.current = [text |-> file, digest |-> memory]
    BY <1>0, <2>1 DEF PageType, PolicyTypeOK
  <2>3. WaitsLoaded(next)
    BY <2>1, <2>2, NoViewAssumption DEF WaitsLoaded, Mounted
  <2>4. work' = [work EXCEPT ![t] = next] /\ UNCHANGED policyVars
    BY <1>1 DEF Fetch
  <2>. QED
    BY <2>2, <2>3, <2>4, <1>a
<1>2. ASSUME NEW text \in Texts, UpdateText(t, text)
      PROVE  PolicyStep /\ PageInv'
  <2> DEFINE next == [w EXCEPT !.text = text, !.passed = {}]
  <2>1. work' = [work EXCEPT ![t] = next] /\ UNCHANGED policyVars
    BY <1>2 DEF UpdateText, PageInv, PageTypeOK
  <2>2. next \in PageType /\ WaitsLoaded(next)
    BY <1>0 DEF PageType, WaitsLoaded, Busy, Mounted
  <2>. QED
    BY <2>1, <2>2, <1>a
<1>3. ASSUME NEW b \in BOOLEAN, CheckAnswered(t, b)
      PROVE  PolicyStep /\ PageInv'
  <2>1. PICK passed \in SUBSET Checks :
           work' = [work EXCEPT ![t] = [w EXCEPT !.request = NoRequest, !.passed = passed]]
    BY <1>0, <1>3 DEF CheckAnswered, PageType
  <2> DEFINE next == [w EXCEPT !.request = NoRequest, !.passed = passed]
  <2>2. next \in PageType /\ next.request = NoRequest
    BY <1>0, FreshIsPage DEF PageType
  <2>3. WaitsLoaded(next)
    BY <2>2 DEF WaitsLoaded, Busy, NoRequest
  <2>4. UNCHANGED policyVars
    BY <1>3 DEF CheckAnswered
  <2>. QED
    BY <2>1, <2>2, <2>3, <2>4, <1>a
<1>4. ASSUME NEW b \in BOOLEAN, SubmissionAnswered(t, b)
      PROVE  PolicyStep /\ PageInv'
  <2>1. Busy(w) /\ Mounted(w)
    BY <1>0, <1>4 DEF SubmissionAnswered, WaitsLoaded, Busy
  <2>2. w.current.text \in Texts
    BY <1>0, <2>1 DEF Mounted, PageType, View
  <2>3. PICK text \in Texts \union {NoText}, refetching \in BOOLEAN :
           work' = [work EXCEPT ![t] =
             [w EXCEPT !.request = NoRequest, !.refetching = refetching, !.text = text]]
    BY <1>0, <1>4, <2>2 DEF SubmissionAnswered, PageType
  <2> DEFINE next == [w EXCEPT !.request = NoRequest, !.refetching = refetching, !.text = text]
  <2>4. next \in PageType /\ next.request = NoRequest
    BY <1>0, FreshIsPage DEF PageType
  <2>5. WaitsLoaded(next)
    BY <2>4 DEF WaitsLoaded, Busy, NoRequest
  <2>6. UNCHANGED policyVars
    BY <1>4 DEF SubmissionAnswered
  <2>. QED
    BY <2>3, <2>4, <2>5, <2>6, <1>a
<1>5. ASSUME NEW kind \in Checks, NEW accepted \in BOOLEAN, StartCheck(t, kind, accepted)
      PROVE  PolicyStep /\ PageInv'
  <2> DEFINE next == Asks(w, kind, w.text, IF accepted THEN "waiting" ELSE "failed")
  <2>1. next \in PageType
    BY <1>0, AsksIsPage DEF PageType
  <2>2. WaitsLoaded(next)
    BY <1>0, <1>5 DEF StartCheck, WaitsLoaded, Mounted, Asks, PageType
  <2>3. work' = [work EXCEPT ![t] = next] /\ UNCHANGED policyVars
    BY <1>5 DEF StartCheck
  <2>. QED
    BY <2>1, <2>2, <2>3, <1>a
<1>6. ASSUME NEW b \in BOOLEAN, NEW accepted \in BOOLEAN, Publish(t, b, accepted)
      PROVE  PolicyStep /\ PageInv'
  BY <1>6, SubmitsIsStep DEF Publish, CanPublish
<1>7. ASSUME NEW revision \in Texts, NEW accepted \in BOOLEAN, Restore(t, revision, accepted)
      PROVE  PolicyStep /\ PageInv'
  BY <1>7, SubmitsIsStep DEF Restore
<1>. QED
  BY <1>1, <1>2, <1>3, <1>4, <1>5, <1>6, <1>7 DEF PageAdvances

LEMMA PublicationGoesOnKeeps ==
  ASSUME PolicyInv, PageInv, PublicationGoesOn
  PROVE  PolicyStep /\ PageInv'
<1>1. PolicyStep
  BY DEF PublicationGoesOn, PublicationAdvances, PolicyStep
<1>2. CASE work' = work
  BY <1>1, <1>2 DEF PageInv, PageTypeOK, WaitsLoaded, Busy, Mounted
<1>3. CASE work' # work
  <2> DEFINE by == publication.by
             w == work[by]
  <2>1. PICK answer \in {"done", "failed"} :
           /\ by \in PolicyTabs
           /\ w.request.kind \in {"publish", "restore"}
           /\ work' = [work EXCEPT ![by].request.answer = answer]
    BY <1>3 DEF PublicationGoesOn
  <2> DEFINE request == [w.request EXCEPT !.answer = answer]
             next == [w EXCEPT !.request = request]
  <2>2. w \in PageType /\ WaitsLoaded(w)
    BY <2>1 DEF PageInv, PageTypeOK
  <2>3. request \in Request /\ request.kind = w.request.kind
    BY <2>2 DEF PageType, Request
  <2>4. next \in PageType /\ next.request = request /\ next.current = w.current
    BY <2>2, <2>3 DEF PageType
  <2>5. WaitsLoaded(next)
    BY <2>2, <2>3, <2>4 DEF WaitsLoaded, Busy, Mounted
  <2>6. work' = [work EXCEPT ![by] = next]
    BY <2>1
  <2>. QED
    BY <1>1, <2>1, <2>4, <2>5, <2>6, PageInvOfPage DEF PageInv
<1>. QED
  BY <1>1, <1>2, <1>3

LEMMA ElsewhereKeeps ==
  ASSUME PageInv, Elsewhere
  PROVE  PolicyStep /\ PageInv'
BY DEF Elsewhere, PolicyStep, PageInv, PageTypeOK, WaitsLoaded, Busy, Mounted

-----------------------------------------------------------------------------
(* Sessions.                                                               *)

LEMMA TabsHaveShapes ==
  ASSUME NEW c \in Codes \union {NoCode}, NEW s \in Codes, NEW n \in 1..MaxCsrf
  PROVE  /\ \A at \in {"closed", "loading", "guide"} : Locked(at, c) \in LockedTab
         /\ Shell(s, n) \in ShellTab
BY DEF Locked, LockedTab, Shell, ShellTab

LEMMA SessionsKeep ==
  ASSUME SessionTypeOK, NEW t \in Tabs,
         \/ \E code \in Codes \union {NoCode} : Opens(t, code)
         \/ ConsumeBootstrap(t) \/ RestoreSession(t) \/ Finds401(t) \/ Logout(t)
  PROVE  SessionTypeOK'
<1> USE DEF SessionTypeOK
<1>0. MaxCsrf \in Nat \ {0} /\ 1 \in 1..MaxCsrf
  BY UiSessionAssumption
<1>1. ASSUME NEW code \in Codes \union {NoCode}, Opens(t, code)
      PROVE  SessionTypeOK'
  <2>1. Locked("loading", code) \in LockedTab
    BY DEF Locked, LockedTab
  <2>. QED
    BY <1>1, <2>1 DEF Opens
<1>2. CASE ConsumeBootstrap(t)
  <2> DEFINE c == tabs[t].code
  <2>1. tabs[t] \in LockedTab \union ShellTab
    OBVIOUS
  <2>2. c \in Codes
    BY <1>2, <2>1 DEF ConsumeBootstrap, LockedTab, ShellTab, Shell
  <2>3. Locked("guide", c) \in LockedTab /\ Shell(c, 1) \in ShellTab
    BY <1>0, <2>2 DEF Locked, LockedTab, ShellTab
  <2>. QED
    BY <1>0, <1>2, <2>2, <2>3 DEF ConsumeBootstrap
<1>3. CASE RestoreSession(t)
  <2>1. Locked("guide", NoCode) \in LockedTab
    BY DEF Locked, LockedTab
  <2>2. CASE ~HasSession
    BY <1>3, <2>1, <2>2 DEF RestoreSession
  <2>3. CASE HasSession
    <3>1. cookie \in Codes /\ sessions[cookie] + 1 \in 1..MaxCsrf
      BY <1>0, <1>3, <2>3 DEF RestoreSession, HasSession
    <3>2. Shell(cookie, sessions[cookie] + 1) \in ShellTab
      BY <3>1 DEF ShellTab
    <3>. QED
      BY <1>0, <1>3, <2>1, <2>3, <3>1, <3>2 DEF RestoreSession
  <2>. QED
    BY <2>2, <2>3
<1>4. CASE Finds401(t)
  BY <1>4 DEF Finds401, Expire, Locked, LockedTab
<1>5. CASE Logout(t)
  BY <1>0, <1>5 DEF Logout, Locked, LockedTab
<1>. QED
  BY <1>1, <1>2, <1>3, <1>4, <1>5

LEMMA ServerSideKeeps ==
  ASSUME SessionTypeOK, NEW c \in Codes, ServerSide(c)
  PROVE  SessionTypeOK'
<1>1. 0 \in 0..MaxCsrf
  BY UiSessionAssumption
<1>. QED
  BY <1>1 DEF SessionTypeOK, ServerSide, CreateBootstrap, CodeRunsOut, SessionRunsOut

(* guardd takes a write of a tab only under the operator the tab shows.    *)
LEMMA AcceptedIsShown ==
  ASSUME SessionTypeOK, NEW t \in Tabs, Accepted(t)
  PROVE  tabs[t].operator = cookie
<1>1. cookie \in Codes /\ sessions[cookie] \in 1..MaxCsrf
  BY UiSessionAssumption DEF Accepted, HasSession, SessionTypeOK
<1>2. tabs[t].csrf # NoToken
  BY <1>1, UiSessionAssumption DEF Accepted
<1>3. PICK s \in Codes, n \in 1..MaxCsrf : tabs[t] = Shell(s, n)
  BY <1>2 DEF SessionTypeOK, LockedTab, ShellTab
<1>. QED
  BY <1>3 DEF Accepted, Shell

-----------------------------------------------------------------------------
(* The drawer of the approvals page: a tick belongs to what is selected.   *)

DrawerInv ==
  /\ DrawerTypeOK
  /\ \A t \in ApprovalTabs : drawer[t].confirmed => drawer[t].ticked = drawer[t].selected

TickedStep ==
  \A t \in ApprovalTabs, a \in Requests :
    /\ drawer[t].resolving = NoRequestSelected /\ drawer'[t].resolving = a
    /\ approval[a] # "allowed_once" /\ approval'[a] = "allowed_once"
    => drawer[t].ticked = a

LEMMA DrawerInvOfPage ==
  ASSUME DrawerInv, NEW t \in ApprovalTabs, NEW d \in DrawerType,
         d.confirmed => d.ticked = d.selected,
         drawer' = [drawer EXCEPT ![t] = d], approval' \in [Requests -> Standing]
  PROVE  DrawerInv'
BY DEF DrawerInv, DrawerTypeOK

LEMMA ClosedIsDrawer == Closed \in DrawerType /\ Closed.confirmed = FALSE
BY DEF Closed, DrawerType, Selection, Standing

LEMMA DrawerKeeps ==
  ASSUME DrawerInv, NEW t \in ApprovalTabs,
         \/ \E a \in Requests \union {NoRequestSelected} : SelectApproval(t, a)
         \/ DetailAnswered(t)
         \/ \E b \in BOOLEAN : Tick(t, b)
         \/ \E allow, accepted \in BOOLEAN : Resolve(t, allow, accepted)
         \/ Settled(t)
  PROVE  DrawerInv' /\ TickedStep
<1> DEFINE d == drawer[t]
<1>0. /\ d \in DrawerType
      /\ d.confirmed => d.ticked = d.selected
      /\ approval \in [Requests -> Standing]
      /\ drawer \in [ApprovalTabs -> DrawerType]
  BY DEF DrawerInv, DrawerTypeOK
<1>a. ASSUME NEW next \in DrawerType, next.confirmed => next.ticked = next.selected,
             drawer' = [drawer EXCEPT ![t] = next], UNCHANGED approval
      PROVE  DrawerInv' /\ TickedStep
  BY <1>0, <1>a, DrawerInvOfPage DEF TickedStep
<1>1. ASSUME NEW a \in Requests \union {NoRequestSelected}, SelectApproval(t, a)
      PROVE  DrawerInv' /\ TickedStep
  <2> DEFINE next == [d EXCEPT !.selected = a, !.confirmed = FALSE,
                               !.ticked = NoRequestSelected]
  <2>1. next \in DrawerType /\ ~next.confirmed
    BY <1>0 DEF DrawerType, Selection
  <2>2. drawer' = [drawer EXCEPT ![t] = next] /\ UNCHANGED approval
    BY <1>0, <1>1 DEF SelectApproval
  <2>. QED
    BY <1>a, <2>1, <2>2
<1>2. CASE DetailAnswered(t)
  <2> DEFINE next == [d EXCEPT !.detail[d.selected] = approval[d.selected]]
  <2>1. next \in DrawerType /\ (next.confirmed => next.ticked = next.selected)
    BY <1>0, <1>2 DEF DetailAnswered, DrawerType
  <2>2. drawer' = [drawer EXCEPT ![t] = next] /\ UNCHANGED approval
    BY <1>0, <1>2 DEF DetailAnswered
  <2>. QED
    BY <1>a, <2>1, <2>2
<1>3. ASSUME NEW b \in BOOLEAN, Tick(t, b)
      PROVE  DrawerInv' /\ TickedStep
  <2> DEFINE next == [d EXCEPT !.confirmed = b,
                               !.ticked = IF b THEN d.selected ELSE NoRequestSelected]
  <2>1. next \in DrawerType /\ (next.confirmed => next.ticked = next.selected)
    BY <1>0, <1>3 DEF Tick, DrawerType, Selection
  <2>2. drawer' = [drawer EXCEPT ![t] = next] /\ UNCHANGED approval
    BY <1>0, <1>3 DEF Tick
  <2>. QED
    BY <1>a, <2>1, <2>2
<1>4. ASSUME NEW allow \in BOOLEAN, NEW accepted \in BOOLEAN, Resolve(t, allow, accepted)
      PROVE  DrawerInv' /\ TickedStep
  <2> DEFINE a == d.selected
             next == [d EXCEPT !.resolving = a]
  <2>1. CanClick(d, allow) /\ drawer' = [drawer EXCEPT ![t] = next]
    BY <1>0, <1>4 DEF Resolve
  <2>2. /\ next \in DrawerType
        /\ next.confirmed => next.ticked = next.selected
        /\ next.resolving = a
    BY <1>0 DEF DrawerType
  <2>3. /\ approval' \in [Requests -> Standing]
        /\ \A b \in Requests :
             approval[b] # "allowed_once" /\ approval'[b] = "allowed_once" => allow /\ b = a
    BY <1>0, <1>4, <2>1 DEF Resolve, CanClick, Standing
  <2>4. DrawerInv'
    BY <2>1, <2>2, <2>3, DrawerInvOfPage
  <2>5. ASSUME NEW u \in ApprovalTabs, NEW b \in Requests,
               drawer[u].resolving = NoRequestSelected, drawer'[u].resolving = b,
               approval[b] # "allowed_once", approval'[b] = "allowed_once"
        PROVE  drawer[u].ticked = b
    <3>1. u = t
      BY <1>0, <2>1, <2>5, ApprovalsPageAssumption
    <3>2. allow /\ b = a
      BY <2>3, <2>5
    <3>. QED
      BY <1>0, <2>1, <3>1, <3>2 DEF CanClick
  <2>. QED
    BY <2>4, <2>5 DEF TickedStep
<1>5. CASE Settled(t)
  <2>1. PICK detail \in [Requests -> Standing \union {"unknown"}] :
           drawer' = [drawer EXCEPT ![t] =
             [d EXCEPT !.resolving = NoRequestSelected, !.confirmed = FALSE,
                       !.ticked = NoRequestSelected, !.detail = detail]]
    <3>1. CASE d.selected \in Requests
      <4> DEFINE detail == [d.detail EXCEPT ![d.selected] = approval[d.selected]]
      <4>1. detail \in [Requests -> Standing \union {"unknown"}]
        BY <1>0, <3>1 DEF DrawerType
      <4>. QED
        BY <1>5, <3>1, <4>1 DEF Settled
    <3>2. CASE d.selected \notin Requests
      BY <1>0, <1>5, <3>2 DEF Settled, DrawerType
    <3>. QED
      BY <3>1, <3>2
  <2> DEFINE next == [d EXCEPT !.resolving = NoRequestSelected, !.confirmed = FALSE,
                               !.ticked = NoRequestSelected, !.detail = detail]
  <2>2. next \in DrawerType /\ ~next.confirmed
    BY <1>0 DEF DrawerType, Selection
  <2>3. drawer' = [drawer EXCEPT ![t] = next] /\ UNCHANGED approval
    BY <1>5, <2>1 DEF Settled
  <2>. QED
    BY <1>a, <2>2, <2>3
<1>. QED
  BY <1>1, <1>2, <1>3, <1>4, <1>5

-----------------------------------------------------------------------------
(* The whole.                                                              *)

IInv ==
  /\ SessionTypeOK
  /\ PolicyInv
  /\ PageInv
  /\ DrawerInv
  /\ page \in [Tabs -> Page]

WrittenStep ==
  \A t \in Tabs :
    \/ publication'.by = t /\ publication.by # t
    \/ drawer[t].resolving # drawer'[t].resolving /\ approval' # approval
    => tabs[t].operator = cookie

(* Who may get the lock in a step: the tab itself, with its own token.     *)
LEMMA PublicationIsOf ==
  ASSUME PolicyInv, NEW t \in Tabs,
         \/ UNCHANGED policyVars
         \/ PublicationAdvances
         \/ Elsewhere
  PROVE  publication'.by = t => publication.by = t
<1>1. t \in Publishers /\ t # Nobody /\ PolicyTabs = Tabs
  BY ConsoleAssumption, PolicyPageAssumption, PublicationAssumption
<1>2. CASE UNCHANGED policyVars
  BY <1>2 DEF policyVars
<1>3. CASE PublicationAdvances
  <2>1. CASE publication' = NoPublication
    BY <1>1, <2>1 DEF NoPublication
  <2>2. ASSUME NEW stage, Stages(stage)
        PROVE  publication'.by = publication.by
    BY <2>2 DEF Stages, PolicyInv, PolicyTypeOK, Publication
  <2>. QED
    BY <1>3, <2>1, <2>2
    DEF PublicationAdvances, WriteFile, ApplyPolicy, RecordRevisions, RollBack
<1>4. CASE Elsewhere
  <2>1. ASSUME NEW by \in Publishers \ PolicyTabs, NEW text, NEW expected, NEW confirmed,
               PublishBegins(by, text, expected, confirmed)
        PROVE  publication'.by # t
    BY <1>1, <2>1 DEF PublishBegins
  <2>2. CASE \E text \in Texts : FileEdited(text)
    BY <2>2 DEF FileEdited
  <2>3. CASE ReloadReads \/ ReloadApplies
    BY <2>3 DEF ReloadReads, ReloadApplies
  <2>. QED
    BY <1>4, <2>1, <2>2, <2>3 DEF Elsewhere
<1>. QED
  BY <1>2, <1>3, <1>4

(* A fresh guardd and its tabs satisfy the inductive invariant.            *)
THEOREM Initial == Init => IInv
<1> SUFFICES ASSUME Init PROVE IInv
  OBVIOUS
<1>1. PICK layout \in Layouts :
        page = layout.pages /\ SessionInit(layout.codes) /\ DrawerInit(layout.requests)
  BY DEF Init
<1>2. SessionTypeOK
  BY <1>1, UiSessionAssumption DEF SessionInit, SessionTypeOK, Locked, LockedTab
<1>3. PolicyInv
  BY PublicationAssumption
  DEF Init, PolicyInit, PolicyInv, PolicyTypeOK, StageInv, NoPublication, Publication
<1>4. PageInv
  BY FreshIsPage DEF Init, PageInit, PageInv, PageTypeOK, WaitsLoaded, Busy, Fresh, NoRequest
<1>5. DrawerInv
  BY <1>1, ClosedIsDrawer DEF DrawerInit, DrawerInv, DrawerTypeOK, Standing
<1>6. page \in [Tabs -> Page]
  BY <1>1, ConsoleAssumption
<1>. QED
  BY <1>2, <1>3, <1>4, <1>5, <1>6 DEF IInv

(* A tab that loses its page, or keeps no more of it than the cache.       *)
LEMMA LosesPageKeeps ==
  ASSUME IInv, NEW t \in Tabs, LosesPage(t) \/ KeepsCache(t)
  PROVE  PageInv' /\ DrawerInv' /\ UNCHANGED <<policyVars, approval, page>>
<1>1. t \in PolicyTabs /\ t \in ApprovalTabs
  BY ConsoleAssumption
<1>2. PICK w \in {Fresh, Unmounted(work[t])}, d \in {Closed, [Closed EXCEPT !.detail = drawer[t].detail]} :
        /\ work' = [work EXCEPT ![t] = w]
        /\ drawer' = [drawer EXCEPT ![t] = d]
        /\ UNCHANGED <<policyVars, approval, page>>
  BY DEF LosesPage, KeepsCache
<1>3. work[t] \in PageType /\ drawer[t] \in DrawerType
  BY <1>1 DEF IInv, PageInv, PageTypeOK, DrawerInv, DrawerTypeOK
<1>4. w \in PageType /\ WaitsLoaded(w)
  <2>1. w \in PageType
    BY <1>3, FreshIsPage DEF Unmounted, PageType
  <2>2. w.request = NoRequest
    BY FreshIsPage DEF Unmounted, PageType, Fresh
  <2>. QED
    BY <2>1, <2>2 DEF WaitsLoaded, Busy, NoRequest
<1>5. d \in DrawerType /\ ~d.confirmed
  BY <1>3, ClosedIsDrawer DEF Closed, DrawerType
<1>6. PageInv'
  BY <1>1, <1>2, <1>4, PageInvOfPage DEF IInv, PageInv
<1>7. DrawerInv'
  BY <1>1, <1>2, <1>5, DrawerInvOfPage DEF IInv, DrawerInv, DrawerTypeOK
<1>. QED
  BY <1>2, <1>6, <1>7

StepOK == IInv' /\ EnforceStep /\ ExpectedStep /\ WrittenStep /\ TickedStep

(* Every step keeps the invariant, and is one the properties allow.        *)
THEOREM StepKeeps ==
  ASSUME IInv, [Next]_vars
  PROVE  StepOK
<1> USE DEF IInv
<1>0. PolicyTabs = Tabs /\ ApprovalTabs = Tabs
  BY ConsoleAssumption
<1>a. ASSUME UNCHANGED <<policyVars, approval>>
      PROVE  /\ PolicyInv' /\ EnforceStep /\ ExpectedStep
             /\ WrittenStep /\ TickedStep
  <2>1. PolicyInv' /\ EnforceStep /\ ExpectedStep
    BY <1>a, PolicyStepKeeps DEF PolicyStep
  <2>2. WrittenStep /\ TickedStep
    BY <1>a DEF WrittenStep, TickedStep, policyVars
  <2>. QED
    BY <2>1, <2>2
<1>b. ASSUME UNCHANGED pageVars
      PROVE  PageInv' /\ DrawerInv' /\ page' \in [Tabs -> Page]
  BY <1>b DEF pageVars, PageInv, PageTypeOK, WaitsLoaded, Busy, Mounted, DrawerInv, DrawerTypeOK
<1>c. ASSUME UNCHANGED sessionVars
      PROVE  SessionTypeOK'
  BY <1>c DEF sessionVars, SessionTypeOK
<1>d. ASSUME UNCHANGED <<sessionVars, approval, drawer, page>>
      PROVE  SessionTypeOK' /\ DrawerInv' /\ page' \in [Tabs -> Page] /\ TickedStep
  BY <1>c, <1>d DEF DrawerInv, DrawerTypeOK, TickedStep
<1>1. ASSUME NEW t \in Tabs, Connects(t) \/ Poll(t) \/ LogsOut(t)
      PROVE  StepOK
  <2>1. SessionTypeOK'
    BY <1>1, SessionsKeep DEF Connects, Poll, LogsOut
  <2>2. CASE LosesPage(t) \/ KeepsCache(t)
    BY <1>a, <2>1, <2>2, LosesPageKeeps DEF StepOK
  <2>3. CASE UNCHANGED pageVars
    BY <1>a, <1>b, <2>1, <2>3 DEF StepOK, pageVars
  <2>. QED
    BY <1>1, <2>2, <2>3 DEF Connects, Poll, LogsOut
<1>2. ASSUME NEW t \in Tabs, PolicyWork(t)
      PROVE  StepOK
  <2>1. PolicyStep /\ PageInv'
    <3>1. Accepted(t) \in BOOLEAN
      BY DEF Accepted
    <3>. QED
      BY <1>0, <1>2, <3>1, PageKeeps DEF PolicyWork
  <2>2. PolicyInv' /\ EnforceStep /\ ExpectedStep
    BY <2>1, PolicyStepKeeps
  <2>3. SessionTypeOK' /\ DrawerInv' /\ page' \in [Tabs -> Page] /\ TickedStep
    BY <1>2, <1>d DEF PolicyWork, drawerVars
  <2>4. WrittenStep
    <3>1. CASE UNCHANGED policyVars
      BY <1>2, <3>1 DEF PolicyWork, drawerVars, WrittenStep, policyVars
    <3>2. CASE Accepted(t) /\ \E text, expected, confirmed :
                 PublishBegins(t, text, expected, confirmed)
      <4>1. publication'.by = t /\ tabs[t].operator = cookie
        BY <3>2, AcceptedIsShown DEF PublishBegins
      <4>. QED
        BY <1>2, <4>1 DEF PolicyWork, drawerVars, WrittenStep
    <3>. QED
      BY <1>2, <3>1, <3>2
      DEF PolicyWork, PageAdvances, Fetch, UpdateText, CheckAnswered, SubmissionAnswered,
          StartCheck, Publish, Restore, Submits
  <2>. QED
    BY <2>1, <2>2, <2>3, <2>4 DEF StepOK
<1>3. ASSUME NEW t \in Tabs, ApprovalWork(t)
      PROVE  StepOK
  <2>1. DrawerInv' /\ TickedStep
    <3>1. Accepted(t) \in BOOLEAN
      BY DEF Accepted
    <3>. QED
      BY <1>0, <1>3, <3>1, DrawerKeeps DEF ApprovalWork
  <2>2. UNCHANGED <<sessionVars, policyVars, work, page>>
    BY <1>3 DEF ApprovalWork, workVars
  <2>3. SessionTypeOK' /\ PageInv' /\ page' \in [Tabs -> Page]
    BY <1>c, <2>2 DEF PageInv, PageTypeOK, WaitsLoaded, Busy, Mounted
  <2>4. PolicyInv' /\ EnforceStep /\ ExpectedStep
    BY <2>2, PolicyStepKeeps DEF PolicyStep
  <2>5. ASSUME NEW u \in Tabs, drawer[u].resolving # drawer'[u].resolving,
               approval' # approval
        PROVE  tabs[u].operator = cookie
    <3>1. PICK allow \in BOOLEAN : Resolve(t, allow, Accepted(t))
      BY <1>3, <2>5
      DEF ApprovalWork, SelectApproval, DetailAnswered, Tick, Settled
    <3>2. Accepted(t)
      BY <2>5, <3>1 DEF Resolve
    <3>3. u = t
      BY <1>0, <2>5, <3>1 DEF Resolve, DrawerInv, DrawerTypeOK
    <3>. QED
      BY <3>2, <3>3, AcceptedIsShown
  <2>6. WrittenStep
    BY <2>2, <2>5 DEF WrittenStep, policyVars
  <2>. QED
    BY <2>1, <2>2, <2>3, <2>4, <2>6 DEF StepOK
<1>4. ASSUME NEW c \in Codes, ServerSide(c), UNCHANGED pageVars
      PROVE  StepOK
  <2>1. SessionTypeOK'
    BY <1>4, ServerSideKeeps
  <2>. QED
    BY <1>4, <1>a, <1>b, <2>1 DEF StepOK, pageVars
<1>5. CASE PolicyElsewhere
  <2>1. PolicyStep /\ PageInv'
    BY <1>5, PublicationGoesOnKeeps, ElsewhereKeeps DEF PolicyElsewhere
  <2>2. PolicyInv' /\ EnforceStep /\ ExpectedStep
    BY <2>1, PolicyStepKeeps
  <2>3. SessionTypeOK' /\ DrawerInv' /\ page' \in [Tabs -> Page] /\ TickedStep
    BY <1>5, <1>d DEF PolicyElsewhere, drawerVars
  <2>4. WrittenStep
    BY <1>5, PublicationIsOf DEF PolicyElsewhere, PublicationGoesOn, drawerVars, WrittenStep
  <2>. QED
    BY <2>1, <2>2, <2>3, <2>4 DEF StepOK
<1>6. CASE ApprovalElsewhere
  <2>1. PICK a \in Requests, standing \in Standing : approval' = [approval EXCEPT ![a] = standing]
    BY <1>6 DEF ApprovalElsewhere, MovesElsewhere
  <2>2. UNCHANGED <<sessionVars, policyVars, work, page, drawer>>
    BY <1>6 DEF ApprovalElsewhere, MovesElsewhere, workVars
  <2>3. DrawerInv'
    BY <2>1, <2>2 DEF DrawerInv, DrawerTypeOK
  <2>4. SessionTypeOK' /\ PageInv' /\ page' \in [Tabs -> Page]
    BY <1>c, <2>2 DEF PageInv, PageTypeOK, WaitsLoaded, Busy, Mounted
  <2>5. PolicyInv' /\ EnforceStep /\ ExpectedStep
    BY <2>2, PolicyStepKeeps DEF PolicyStep
  <2>6. WrittenStep /\ TickedStep
    BY <2>2, ApprovalsPageAssumption DEF WrittenStep, TickedStep, policyVars
  <2>. QED
    BY <2>2, <2>3, <2>4, <2>5, <2>6 DEF StepOK
<1>7. CASE UNCHANGED vars
  BY <1>7, <1>a, <1>b, <1>c DEF vars, pageVars, StepOK
<1>. QED
  BY <1>1, <1>2, <1>3, <1>4, <1>5, <1>6, <1>7 DEF Next

(* The inductive invariant holds from the start and through every step.    *)
THEOREM Invariance == Spec => []IInv
<1>1. IInv /\ [Next]_vars => IInv'
  BY StepKeeps DEF StepOK
<1>. QED
  BY Initial, <1>1, PTL DEF Spec

(* Every variable keeps its type; a tab has a token and an operator only   *)
(* while it is unlocked, and both of the same session.                     *)
THEOREM TypeCorrect == Spec => []TypeOK
<1>1. IInv => TypeOK
  BY DEF IInv, PolicyInv, PageInv, DrawerInv, TypeOK
<1>. QED
  BY Invariance, <1>1, PTL

(* While no publication runs, file and memory hold the same policy, unless *)
(* a hand, a reload or a failed disk set them apart.                       *)
THEOREM FileIsMemory == Spec => []FileAndMemoryAgree
<1>1. IInv => FileAndMemoryAgree
  BY DEF IInv, PolicyInv, StageInv, FileAndMemoryAgree, LockFree
<1>. QED
  BY Invariance, <1>1, PTL

(* Enforcement begins confirmed, by a reload, or by a rollback.            *)
THEOREM EnforcementIsConfirmed == Spec => EnforceIsConfirmed
<1>1. IInv /\ [Next]_vars => [EnforceStep]_vars
  BY StepKeeps DEF StepOK
<1>. QED
  BY Invariance, <1>1, PTL DEF Spec, EnforceIsConfirmed, EnforceStep

(* A publication replaces the policy whose digest it was sent with, or     *)
(* fails and leaves it, and nothing else changes it meanwhile.             *)
THEOREM PublicationReplacesExpected == Spec => AppliedOverExpected
<1>1. IInv /\ [Next]_vars => [ExpectedStep]_vars
  BY StepKeeps DEF StepOK
<1>. QED
  BY Invariance, <1>1, PTL DEF Spec, AppliedOverExpected, ExpectedStep

(* What a tab writes is recorded under the operator it shows.              *)
THEOREM WritesAreOfShown == Spec => WrittenByShown
<1>1. IInv /\ [Next]_vars => [WrittenStep]_vars
  BY StepKeeps DEF StepOK
<1>. QED
  BY Invariance, <1>1, PTL DEF Spec, WrittenByShown, WrittenStep

(* An approval is allowed from the page only by a tick that was for it.    *)
THEOREM AllowanceWasTicked == Spec => AllowedWasTicked
<1>1. ApprovalTabs = Tabs
  BY ConsoleAssumption
<1>2. IInv /\ [Next]_vars =>
        [\A t \in Tabs, a \in Requests :
           /\ drawer[t].resolving = NoRequestSelected /\ drawer'[t].resolving = a
           /\ approval[a] # "allowed_once" /\ approval'[a] = "allowed_once"
           => drawer[t].ticked = a]_vars
  BY StepKeeps, <1>1 DEF StepOK, TickedStep
<1>. QED
  BY Invariance, <1>2, PTL DEF Spec, AllowedWasTicked
=============================================================================
