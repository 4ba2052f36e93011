------------------------------ MODULE PolicyPage ------------------------------
(***************************************************************************)
(* The policy workbench of the console: the editor, the checks before a    *)
(* publication, and the publication and restoration themselves, over       *)
(* PolicyPublication.                                                      *)
(*                                                                         *)
(* The page of a tab is one record.  Its answers come when they come: the  *)
(* buttons are disabled meanwhile, the editor is not.  Simulation and      *)
(* replay change nothing but the result that is displayed, and are left    *)
(* out.                                                                    *)
(***************************************************************************)
EXTENDS PolicyPublication

CONSTANTS PolicyTabs,   \* the tabs that can show the page
          Checks,       \* of validate, diff and regression
          Passing,      \* the policies that pass the fixtures
          NoView

ASSUME PolicyPageAssumption ==
  /\ PolicyTabs \subseteq Publishers
  /\ Checks \subseteq {"validate", "diff", "regression"}
  /\ Passing \subseteq Valid

VARIABLE work   \* the Policy component of each tab

View == [text : Texts, digest : Valid]
ASSUME NoViewAssumption == NoView \notin View

Request == [kind : Checks \union {"none", "publish", "restore"},
            text : Texts \union {NoText},   \* of a check
            answer : {"waiting", "done", "failed"}]

PageType ==
  [current : View \union {NoView}, text : Texts \union {NoText},
   passed : SUBSET Checks, request : Request,
   refetching : BOOLEAN]   \* publish waits for the fetch that follows it

PageTypeOK == work \in [PolicyTabs -> PageType]

NoRequest == [kind |-> "none", text |-> NoText, answer |-> "waiting"]
Fresh == [current |-> NoView, text |-> NoText, passed |-> {}, request |-> NoRequest,
          refetching |-> FALSE]

PageInit == work = [t \in PolicyTabs |-> Fresh]

(* The component is unmounted; the query cache outlives it.                *)
Unmounted(w) == [Fresh EXCEPT !.current = w.current]

Busy(w) == w.request.kind # "none"
Mounted(w) == w.current # NoView
Asks(w, kind, text, answer) ==
  [w EXCEPT !.request = [kind |-> kind, text |-> text, answer |-> answer]]

-----------------------------------------------------------------------------
(* The current policy: get_policy takes its text from the file and its     *)
(* digest from memory.  The effect fills an empty editor; the fetch after  *)
(* a publication is what publish waits for before it resets the checks.    *)
Fetch(t) ==
  LET w == work[t]
      seen == [text |-> file, digest |-> memory]
  IN /\ work' = [work EXCEPT ![t] =
          [w EXCEPT !.current = seen, !.refetching = FALSE,
                    !.text = IF @ = NoText THEN seen.text ELSE @,
                    !.passed = IF w.refetching THEN {} ELSE @]]
     /\ UNCHANGED policyVars

(* updateText *)
UpdateText(t, text) ==
  /\ Mounted(work[t])
  /\ text # work[t].text
  /\ work' = [work EXCEPT ![t].text = text, ![t].passed = {}]
  /\ UNCHANGED policyVars

-----------------------------------------------------------------------------
(* run, for the three checks.                                              *)

StartCheck(t, kind, accepted) ==
  /\ Mounted(work[t]) /\ ~Busy(work[t])
  /\ work' = [work EXCEPT ![t] =
       Asks(@, kind, work[t].text, IF accepted THEN "waiting" ELSE "failed")]
  /\ UNCHANGED policyVars

(* Only validate has an answer about a text that does not parse.           *)
Passes(kind, text) ==
  CASE kind = "validate" -> text \in Valid
    [] kind = "diff" -> TRUE
    [] kind = "regression" -> text \in Passing

MustFail(request) ==
  request.answer = "failed" \/ (request.kind # "validate" /\ request.text \notin Valid)

(* The answer is about the text that was sent, and marks the one that is   *)
(* in the editor.  A request that fails leaves the marks as they were.     *)
CheckAnswered(t, fails) ==
  LET w == work[t]
      sent == w.request
      marked == IF Passes(sent.kind, sent.text) THEN w.passed \union {sent.kind}
                ELSE w.passed \ {sent.kind}
  IN /\ sent.kind \in Checks
     /\ MustFail(sent) => fails
     /\ work' = [work EXCEPT ![t] =
          [w EXCEPT !.request = NoRequest, !.passed = IF fails THEN @ ELSE marked]]
     /\ UNCHANGED policyVars

-----------------------------------------------------------------------------
(* publish and restore.                                                    *)

CandidateEnforce(w) == w.text \in Enforcing /\ w.current.digest \notin Enforcing
CanPublish(w) == Mounted(w) /\ ~Busy(w) /\ w.text # w.current.text /\ w.passed = Checks

(* A click that guardd takes on, or refuses: at once for want of a token,  *)
(* with the lock for what it was sent.                                     *)
Submits(t, kind, text, confirmed, accepted) ==
  LET digest == work[t].current.digest
      sent(answer) == [work EXCEPT ![t] = Asks(@, kind, NoText, answer)]
  IN \/ /\ accepted
        /\ PublishBegins(t, text, digest, confirmed)
        /\ work' = sent("waiting")
     \/ /\ accepted => LockFree /\ ~Publishable(text, digest, confirmed)
        /\ work' = sent("failed")
        /\ UNCHANGED policyVars

Publish(t, confirmed, accepted) ==
  /\ CanPublish(work[t])
  /\ CandidateEnforce(work[t]) => confirmed
  /\ Submits(t, "publish", work[t].text, confirmed, accepted)

Restore(t, revision, accepted) ==
  /\ Mounted(work[t]) /\ ~Busy(work[t])
  /\ Submits(t, "restore", revision, TRUE, accepted)

(* What guardd does about a publication, and whom it answers.              *)
PublicationGoesOn ==
  /\ PublicationAdvances
  /\ LET by == publication.by
     IN work' = IF publication'.stage = "idle" /\ by \in PolicyTabs
                     /\ work[by].request.kind \in {"publish", "restore"}
                THEN [work EXCEPT ![by].request.answer =
                       IF publication.stage = "recording" THEN "done" ELSE "failed"]
                ELSE work

(* The answer reaches the page, or is lost on its way.  A restore empties  *)
(* the editor, and the effect fills it from what is still cached.          *)
SubmissionAnswered(t, lost) ==
  LET w == work[t]
      done == w.request.answer = "done" /\ ~lost
  IN /\ w.request.kind \in {"publish", "restore"}
     /\ w.request.answer # "waiting"
     /\ work' = [work EXCEPT ![t] =
          [w EXCEPT !.request = NoRequest,
                    !.refetching = @ \/ (done /\ w.request.kind = "publish"),
                    !.text = IF done /\ w.request.kind = "restore" THEN w.current.text ELSE @]]
     /\ UNCHANGED policyVars

PageAdvances(t) ==
  \/ \E text \in Texts : UpdateText(t, text)
  \/ \E b \in BOOLEAN : CheckAnswered(t, b) \/ SubmissionAnswered(t, b)

(* What is done to the policy from elsewhere: another browser or the API.  *)
Elsewhere ==
  /\ \/ \E text, expected \in Texts, confirmed \in BOOLEAN :
          \E by \in Publishers \ PolicyTabs : PublishBegins(by, text, expected, confirmed)
     \/ \E text \in Texts : FileEdited(text)
     \/ ReloadReads \/ ReloadApplies
  /\ UNCHANGED work
=============================================================================
