---------------------------- MODULE PluginHooks ----------------------------
(***************************************************************************)
(* The hooks of the OpenClaw plugin: what the gateway asks of the plugin   *)
(* around a tool call, an outbound message, an agent run, an installation  *)
(* and its own start, over the one GuardClient all of them share.          *)
(*                                                                         *)
(* A hook is cut at its awaits.  Between a request and its answer the      *)
(* other hooks, the queue, the operator at the native dialog and guardd    *)
(* act; what the code does from an await to the next one, or to its return *)
(* statement, is one step.  OpenClaw and guardd are external: OpenClaw     *)
(* calls the hooks and obeys what they return, guardd answers or does not. *)
(***************************************************************************)
EXTENDS PluginDecision, GuardClient

CONSTANTS
  Acts,         \* what calls and messages are about
  Decisions,    \* what guardd may decide
  Messages,     \* what a tool's result may be
  Configs,      \* plugin configurations
  SkillRoots,   \* config.skillRoots has a skill to scan
  MaxTracked,   \* the size of the calls map
  NoAct, NoMessage, Removed

Mode == {"disabled", "observe", "enforce"}

ASSUME HooksAssumption ==
  /\ Acts \subseteq Act
  /\ Decisions \subseteq GuardDecision
  /\ Messages \subseteq Message
  /\ Configs \subseteq [sanitize : Mode, inspect : Mode, capture : BOOLEAN, injection : BOOLEAN]
  /\ SkillRoots \in BOOLEAN
  /\ MaxTracked \in Nat \ {0}
  /\ NoAct \notin Acts
  /\ NoAnswer \notin Decisions

VARIABLES
  config,        \* GuardConfig, read once
  hooks,         \* the hook invocations
  tracked,       \* calls: the tool calls whose event id is remembered, oldest first
  startupError,  \* startupInspectionErrors has an entry
  memory,        \* what the model remembers of a tool's result
  ruling,        \* guardd: the decision it recorded for a hook's event
  ticket,        \* guardd: the status of the approval of a call
  operator,      \* guardd: who resolved that approval
  report         \* guardd: the result it recorded for a call

ledger == <<ruling, ticket, operator, report>>
guarddVars == <<guardd, ledger>>
vars == <<client, guardd, config, hooks, tracked, startupError, memory, ledger>>

HookKind == {"none", "tool", "message", "run", "install", "gateway"}
Awaiting == {"inspecting", "capturing", "asking", "negotiating", "scanning"}
Stage == {"idle", "dialog", "running", "ran", "passed", "blocked"} \union Awaiting

HookType ==
  [kind : HookKind, at : Stage, act : Acts \union {NoAct}, suspicious : BOOLEAN,
   view : {"none", "host", "raw", "clean", "service"},
   by : {"none", "guardd", "operator", "allowlist"},
   answer : Decisions \union {NoAnswer}, bearer : Tokens \union {NoToken}]

TicketStatus == {"none", "pending", "allowed_once", "denied", "closed"}
Operator == {"nobody", "openclaw", "elsewhere"}

TypeOK ==
  /\ ClientTypeOK
  /\ config \in Configs
  /\ hooks \in [Calls -> HookType]
  /\ tracked \in Seq(Calls)
  /\ Len(tracked) <= MaxTracked
  /\ startupError \in BOOLEAN
  /\ memory \in [Calls -> Message \union {NoMessage, Removed}]
  /\ ruling \in [Calls -> Kinds \union {"none"}]
  /\ ticket \in [Calls -> TicketStatus]
  /\ operator \in [Calls -> Operator]
  /\ report \in [Calls -> {"none", "success", "error"}]

Idle == [kind |-> "none", at |-> "idle", act |-> NoAct, suspicious |-> FALSE, view |-> "none",
         by |-> "none", answer |-> NoAnswer, bearer |-> NoToken]

Init ==
  /\ ClientInit
  /\ config \in Configs
  /\ hooks = [h \in Calls |-> Idle]
  /\ tracked = <<>>
  /\ startupError = FALSE
  /\ memory = [h \in Calls |-> NoMessage]
  /\ ruling = [h \in Calls |-> "none"]
  /\ ticket = [h \in Calls |-> "none"]
  /\ operator = [h \in Calls |-> "nobody"]
  /\ report = [h \in Calls |-> "none"]

-----------------------------------------------------------------------------
(* What a hook does until its next await.  Every operator takes the client *)
(* and the hook as the code finds them and gives both as it leaves them.   *)

(* What the configuration asks for.                                        *)
Enforcing == config.sanitize = "enforce"
Watchful == config.injection
(* In enforce mode a call whose parameters hold secrets is guarded.        *)
Guarded(x) == Enforcing /\ Classes(x.act) # {}

Leaves(c, x) == [client |-> c, hook |-> x]
Ends(c, x, at) == Leaves(c, [x EXCEPT !.at = at, !.bearer = NoToken])

(* A blocked hook has returned, and nothing of it is left.                 *)
Blocks(c, x) == Leaves(c, [Idle EXCEPT !.kind = x.kind, !.at = "blocked"])
Awaits(c, x, at) == Leaves(Sends(c), [x EXCEPT !.at = at, !.bearer = Bearer(c)])

Runs(c, x, view, by) == Ends(c, [x EXCEPT !.view = view, !.by = by], "running")

(* The policy embedded in the plugin decides.                              *)
Emergency(c, x) ==
  CASE EmergencyDecision(x.act) = "allow" -> Runs(c, x, "host", "allowlist")
    [] EmergencyDecision(x.act) = "approval" -> Ends(c, [x EXCEPT !.view = "host"], "dialog")
    [] EmergencyDecision(x.act) = "deny" -> Blocks(c, x)

(* Mutant: without an answer secrets are left to the emergency policy.     *)
EmergencyForAll(c, x) == IF x.kind # "tool" THEN Blocks(c, x) ELSE Emergency(c, x)

(* Mutant: an input guardd does not answer about is let through.           *)
InputGoesOn(c, x) ==
  IF x.kind = "run" THEN Ends(c, x, "passed")
  ELSE IF x.kind # "tool" \/ Guarded(x) THEN Blocks(c, x) ELSE Emergency(c, x)

(* No decision: the catch branches.  Only a tool call has another way out. *)
Unanswered(c, x) ==
  IF x.kind # "tool" \/ Guarded(x) THEN Blocks(c, x) ELSE Emergency(c, x)

(* decide: refused at once during the backoff, and in enforce mode by a    *)
(* client that found guardd's capabilities wanting.                        *)
Ask(c, x) ==
  IF (Enforcing /\ c.unfit) \/ c.waiting THEN Unanswered(c, x) ELSE Awaits(c, x, "asking")

(* Mutant: a decision that asks to wait for a review is put to the dialog. *)
DialogWhilePending(c, x, d) ==
  LET view == ExecutionView(d, Classes(x.act), Enforcing)
      y == [x EXCEPT !.answer = d]
  IN CASE d.decision = "DENY" \/ view = "blocked" -> Blocks(c, y)
       [] d.decision = "REQUIRE_APPROVAL" /\ view # "blocked" ->
            Ends(c, [y EXCEPT !.view = view], "dialog")
       [] d.decision \in {"ALLOW", "OBSERVE"} /\ view # "blocked" -> Runs(c, y, view, "guardd")

(* beforeTool with a decision.                                             *)
ToolDecided(c, x, d) ==
  LET view == ExecutionView(d, Classes(x.act), Enforcing)
      stopped == d.decision = "DENY" \/ d.pending # "none" \/ view = "blocked"
      y == [x EXCEPT !.answer = d]
  IN CASE stopped -> Blocks(c, y)
       [] ~stopped /\ d.decision = "REQUIRE_APPROVAL" -> Ends(c, [y EXCEPT !.view = view], "dialog")
       [] ~stopped /\ d.decision # "REQUIRE_APPROVAL" -> Runs(c, y, view, "guardd")

(* The other hooks with a decision.                                        *)
Refused(x, d) ==
  CASE x.kind = "message" -> d.decision \in {"DENY", "REQUIRE_APPROVAL"} \/ Guarded(x)
    [] x.kind = "run" -> d.decision \notin {"OBSERVE", "ALLOW"}
    [] x.kind = "install" -> d.decision = "DENY" \/ d.critical

Decided(c, x, d) ==
  IF x.kind = "tool" THEN ToolDecided(c, x, d)
  ELSE IF Refused(x, d) THEN Blocks(c, x)
  ELSE Ends(c, [x EXCEPT !.by = "guardd"], "passed")

-----------------------------------------------------------------------------
(* before_tool_call.                                                       *)

(* Mutant: nothing is forgotten.                                           *)
TrackAll(calls, h) == Append(calls, h)

(* The calls map forgets its oldest entry when it grows over its size.     *)
Track(calls, h) ==
  LET grown == Append(calls, h)
  IN IF Len(grown) > MaxTracked THEN Tail(grown) ELSE grown

Becomes(h, next) ==
  /\ client' = next.client
  /\ hooks' = [hooks EXCEPT ![h] = next.hook]

(* A call is remembered when its event is made, just before decide.        *)
Asks(h, c, x) ==
  /\ Becomes(h, Ask(c, x))
  /\ tracked' = IF x.kind = "tool" THEN Track(tracked, h) ELSE tracked

Stops(h, c, x) ==
  /\ Becomes(h, Blocks(c, x))
  /\ UNCHANGED tracked

StrictSkills == config.inspect = "enforce"

(* A skill's inspection that failed or was not sent.                       *)
NotInspected(h, c, x) ==
  IF StrictSkills THEN Stops(h, c, x)
  ELSE Asks(h, IF x.kind = "install" THEN RetryNow(c) ELSE c, x)

Inspects(h, x) ==
  IF client.waiting THEN NotInspected(h, client, x)
  ELSE Becomes(h, Awaits(client, x, "inspecting")) /\ UNCHANGED tracked

BeforeTool(h, a) ==
  LET x == [Idle EXCEPT !.kind = "tool", !.act = a]
  IN /\ hooks[h].at = "idle"
     /\ \/ StrictSkills /\ startupError /\ Stops(h, client, x)
        \/ ~(StrictSkills /\ startupError) /\ a.skill /\ Inspects(h, x)
        \/ ~(StrictSkills /\ startupError) /\ ~a.skill /\ Asks(h, client, x)
     /\ UNCHANGED <<guarddVars, config, startupError, memory>>

Verdict == {"ALLOW", "REQUIRE_APPROVAL", "QUARANTINE"}

InspectionAnswered(h, verdict) ==
  LET x == hooks[h]
  IN /\ x.at = "inspecting"
     /\ Accepts(x.bearer)
     /\ IF StrictSkills /\ verdict # "ALLOW" THEN Stops(h, Succeeds(client), x)
        ELSE Asks(h, Succeeds(client), x)
     /\ UNCHANGED <<guarddVars, config, startupError, memory>>

InspectionFails(h) ==
  LET x == hooks[h]
  IN /\ x.at = "inspecting"
     /\ \E why \in Failures(x.bearer) : NotInspected(h, Fails(client, why), x)
     /\ UNCHANGED <<guarddVars, config, startupError, memory>>

(* guardd records its decision, and with it the approval it asks for.      *)
Rules(h, d) ==
  /\ ruling' = [ruling EXCEPT ![h] = d.decision]
  /\ ticket' = IF d.decision = "REQUIRE_APPROVAL" /\ d.ticket
               THEN [ticket EXCEPT ![h] = "pending"] ELSE ticket
  /\ UNCHANGED <<guardd, operator, report>>

DecisionAnswered(h, d) ==
  /\ hooks[h].at = "asking"
  /\ Accepts(hooks[h].bearer)
  /\ Rules(h, d)
  /\ Becomes(h, Decided(Succeeds(client), hooks[h], d))
  /\ UNCHANGED <<config, tracked, startupError, memory>>

(* The decision is made, and its answer comes too late.                    *)
DecisionLost(h, d) ==
  /\ hooks[h].at = "asking"
  /\ Accepts(hooks[h].bearer)
  /\ Rules(h, d)
  /\ Becomes(h, Unanswered(Fails(client, "timeout"), hooks[h]))
  /\ UNCHANGED <<config, tracked, startupError, memory>>

DecisionFails(h) ==
  /\ hooks[h].at = "asking"
  /\ \E why \in Failures(hooks[h].bearer) :
       Becomes(h, Unanswered(Fails(client, why), hooks[h]))
  /\ UNCHANGED <<guarddVars, config, tracked, startupError, memory>>

-----------------------------------------------------------------------------
(* The native dialog and the tool itself.                                  *)

Resolution == {"allow-once", "deny", "timeout", "cancelled"}

(* Mutant: only an explicit refusal is told to guardd as a refusal.        *)
AnswerUnlessDenied(h, resolution) ==
  [kind |-> "approval", of |-> h, good |-> resolution # "deny"]

(* onResolution: whatever is not allow-once is told as a denial.           *)
Answer(h, resolution) ==
  [kind |-> "approval", of |-> h, good |-> resolution = "allow-once"]

(* OpenClaw obeys the operator, and tells guardd if an approval waits.     *)
Resolve(h, resolution) ==
  LET x == hooks[h]
      allow == resolution = "allow-once"
      told == x.answer # NoAnswer /\ x.answer.ticket
      c == IF told THEN Observe(client, Answer(h, resolution)) ELSE client
  IN /\ x.at = "dialog"
     /\ Becomes(h, IF allow THEN Runs(c, x, x.view, "operator") ELSE Blocks(c, x))
     /\ UNCHANGED <<guarddVars, config, tracked, startupError, memory>>

(* Mutant: the result is reported for the call remembered last.            *)
LatestEvent(h) == {tracked[i] : i \in {j \in 1..Len(tracked) : j = Len(tracked)}}

(* The event remembered for a call, if it is still remembered.             *)
EventOf(h) == {tracked[i] : i \in {j \in 1..Len(tracked) : tracked[j] = h}}

Forget(calls, h) ==
  IF \A i \in 1..Len(calls) : calls[i] # h THEN calls
  ELSE LET at == CHOOSE i \in 1..Len(calls) : calls[i] = h
       IN [i \in 1..(Len(calls) - 1) |-> IF i < at THEN calls[i] ELSE calls[i + 1]]

(* after_tool_call: only a call that is still remembered is reported.      *)
AfterToolCall(h, good) ==
  LET result(call) == [kind |-> "result", of |-> call, good |-> good]
  IN /\ hooks[h].at = "running"
     /\ hooks' = [hooks EXCEPT ![h].at = "ran"]
     /\ tracked' = Forget(tracked, h)
     /\ \/ EventOf(h) = {} /\ UNCHANGED client
        \/ \E event \in EventOf(h) : client' = Observe(client, result(event))
     /\ UNCHANGED <<guarddVars, config, startupError, memory>>

(* tool_result_persist, then before_message_write on what it leaves.  The  *)
(* sanitizer may fail in either.                                           *)
StoreResult(h, m, fails) ==
  /\ hooks[h].at = "ran"
  /\ hooks' = [hooks EXCEPT ![h] = [Idle EXCEPT !.kind = "tool", !.at = "passed", !.by = hooks[h].by]]
  /\ memory' = [memory EXCEPT ![h] =
       CASE config.sanitize = "disabled" -> m
         [] config.sanitize # "disabled" /\ fails -> Removed
         [] config.sanitize = "observe" /\ ~fails -> m
         [] Enforcing /\ ~fails -> SanitizeMessage(SanitizeToolMessage(m))]
  /\ client' = IF config.sanitize = "disabled" \/ fails THEN client ELSE Observe(client, Note)
  /\ UNCHANGED <<guarddVars, config, tracked, startupError>>

-----------------------------------------------------------------------------
(* The other hooks.                                                        *)

(* message_sending and reply_payload_sending.                              *)
MessageSending(h, a) ==
  LET x == [Idle EXCEPT !.kind = "message", !.act = a]
      c == IF config.sanitize # "disabled" /\ Classes(a) # {} THEN Observe(client, Note) ELSE client
  IN /\ hooks[h].at = "idle"
     /\ Asks(h, c, x)
     /\ UNCHANGED <<guarddVars, config, startupError, memory>>

(* before_agent_run: the task is captured, and a suspicious input asked    *)
(* about.  A capture that fails is guardd's to notice later.               *)
Reviews(h, c, x) ==
  IF Watchful /\ x.suspicious THEN Asks(h, c, x)
  ELSE Becomes(h, Ends(c, x, "passed")) /\ UNCHANGED tracked

BeforeAgentRun(h, suspicious) ==
  LET x == [Idle EXCEPT !.kind = "run", !.suspicious = suspicious]
  IN /\ hooks[h].at = "idle"
     /\ IF StrictSkills /\ startupError THEN Stops(h, client, x)
        ELSE IF config.capture /\ ~client.waiting
             THEN Becomes(h, Awaits(client, x, "capturing")) /\ UNCHANGED tracked
             ELSE Reviews(h, client, x)
     /\ UNCHANGED <<guarddVars, config, startupError, memory>>

CaptureEnds(h) ==
  LET x == hooks[h]
  IN /\ x.at = "capturing"
     /\ \/ Accepts(x.bearer) /\ Reviews(h, Succeeds(client), x)
        \/ \E why \in Failures(x.bearer) : Reviews(h, Fails(client, why), x)
     /\ UNCHANGED <<guarddVars, config, startupError, memory>>

BeforeInstall(h, skill) ==
  LET x == [Idle EXCEPT !.kind = "install"]
  IN /\ hooks[h].at = "idle"
     /\ IF skill THEN Inspects(h, x) ELSE Asks(h, client, x)
     /\ UNCHANGED <<guarddVars, config, startupError, memory>>

(* gateway_start: the capabilities are compared, then every skill root is  *)
(* inspected; what fails is remembered if inspections are enforced.        *)
Started(h, c, x, ok) ==
  /\ Becomes(h, Ends(Observe(c, Note), x, "passed"))
  /\ startupError' = IF ok THEN FALSE ELSE startupError \/ StrictSkills

GatewayStart(h) ==
  LET x == [Idle EXCEPT !.kind = "gateway"]
  IN /\ hooks[h].at = "idle"
     /\ IF client.waiting THEN Started(h, client, x, FALSE)
        ELSE Becomes(h, Awaits(client, x, "negotiating")) /\ UNCHANGED startupError
     /\ UNCHANGED <<guarddVars, config, tracked, memory>>

Capable(c, fit) == [Succeeds(c) EXCEPT !.unfit = ~fit]

NegotiationAnswered(h, fit) ==
  LET x == hooks[h]
      c == Capable(client, fit)
  IN /\ x.at = "negotiating"
     /\ Accepts(x.bearer)
     /\ IF fit /\ SkillRoots
        THEN Becomes(h, Awaits(c, x, "scanning")) /\ UNCHANGED startupError
        ELSE Started(h, c, x, fit)
     /\ UNCHANGED <<guarddVars, config, tracked, memory>>

ScanAnswered(h, verdict) ==
  /\ hooks[h].at = "scanning"
  /\ Accepts(hooks[h].bearer)
  /\ Started(h, Succeeds(client), hooks[h], verdict = "ALLOW" \/ ~StrictSkills)
  /\ UNCHANGED <<guarddVars, config, tracked, memory>>

StartFails(h) ==
  /\ hooks[h].at \in {"negotiating", "scanning"}
  /\ \E why \in Failures(hooks[h].bearer) : Started(h, Fails(client, why), hooks[h], FALSE)
  /\ UNCHANGED <<guarddVars, config, tracked, memory>>

(* session_start, session_end, agent_end, gateway_stop and the subagents'. *)
Lifecycle ==
  /\ client' = Observe(client, Note)
  /\ UNCHANGED <<guarddVars, config, hooks, tracked, startupError, memory>>

-----------------------------------------------------------------------------
(* guardd's approvals.  One is resolved once, while it is pending, and who *)
(* resolved it is kept with the result.                                    *)

Resolved(h, allow, who) ==
  /\ ticket' = [ticket EXCEPT ![h] = IF allow THEN "allowed_once" ELSE "denied"]
  /\ operator' = [operator EXCEPT ![h] = who]

-----------------------------------------------------------------------------
(* The queue against guardd.                                               *)

Resolvable(job) == job.kind = "approval" => ticket[job.of] = "pending"

Records(job) ==
  /\ IF job.kind = "approval" THEN Resolved(job.of, job.good, "openclaw")
     ELSE UNCHANGED <<ticket, operator>>
  /\ report' = IF job.kind # "result" THEN report
               ELSE [report EXCEPT ![job.of] = IF job.good THEN "success" ELSE "error"]
  /\ UNCHANGED <<guardd, ruling>>

pluginVars == <<config, hooks, tracked, startupError, memory>>

QueueDelivers ==
  /\ client.sending # NoJob
  /\ Accepts(client.bearer)
  /\ Resolvable(client.sending)
  /\ Records(client.sending)
  /\ client' \in {QueueAnswered(client), QueueFails(client, "timeout")}
  /\ UNCHANGED pluginVars

QueueFailsToDeliver ==
  /\ client.sending # NoJob
  /\ \E why \in Failures(client.bearer) : client' = QueueFails(client, why)
  /\ UNCHANGED <<guarddVars, pluginVars>>

BypassDelivers(b) ==
  /\ b \in client.bypass
  /\ Accepts(b.bearer)
  /\ Resolvable(b.job)
  /\ Records(b.job)
  /\ client' = BypassAnswered(client, b)
  /\ UNCHANGED pluginVars

BypassFailsToDeliver(b) ==
  /\ b \in client.bypass
  /\ \E why \in Failures(b.bearer) : client' = BypassFails(client, b, why)
  /\ UNCHANGED <<guarddVars, pluginVars>>

(* Another operator answers in the console, by the CLI or over the API,    *)
(* whatever the hook does meanwhile.  The gate of a review, which holds an *)
(* allow back for a time, is left out: the allow just comes later.         *)
ResolvedElsewhere(h, allow) ==
  /\ guardd.up
  /\ ticket[h] = "pending"
  /\ Resolved(h, allow, "elsewhere")
  /\ UNCHANGED <<client, guardd, ruling, report, pluginVars>>

(* guardd itself ends what nobody resolved, by its sweep and at a restart. *)
TicketExpires(h) ==
  /\ guardd.up
  /\ ticket[h] = "pending"
  /\ ticket' = [ticket EXCEPT ![h] = "closed"]
  /\ UNCHANGED <<client, guardd, ruling, operator, report, pluginVars>>

GuarddRestarts ==
  /\ GuarddStarts
  /\ ticket' = [h \in Calls |->
                 IF ticket[h] = "pending" THEN "closed" ELSE ticket[h]]
  /\ UNCHANGED <<ruling, operator, report, pluginVars>>

HookBegins(h) ==
  \/ \E a \in Acts : BeforeTool(h, a) \/ MessageSending(h, a)
  \/ \E b \in BOOLEAN : BeforeAgentRun(h, b) \/ BeforeInstall(h, b)
  \/ GatewayStart(h)

(* Every request ends: the client aborts it after its timeout.             *)
HookAnswered(h) ==
  \/ \E v \in Verdict : InspectionAnswered(h, v) \/ ScanAnswered(h, v)
  \/ \E d \in Decisions : DecisionAnswered(h, d) \/ DecisionLost(h, d)
  \/ InspectionFails(h) \/ DecisionFails(h) \/ CaptureEnds(h) \/ StartFails(h)
  \/ \E fit \in BOOLEAN : NegotiationAnswered(h, fit)

HookGoesOn(h) ==
  \/ \E r \in Resolution : Resolve(h, r)
  \/ \E good \in BOOLEAN : AfterToolCall(h, good)
  \/ \E m \in Messages, fails \in BOOLEAN : StoreResult(h, m, fails)

QueueAdvances == QueueDelivers \/ QueueFailsToDeliver
BypassAdvances == \E b \in client.bypass : BypassDelivers(b) \/ BypassFailsToDeliver(b)

Environment ==
  \/ BackoffElapses /\ UNCHANGED <<pluginVars, ledger>>
  \/ GuarddStops /\ UNCHANGED <<pluginVars, ledger>>
  \/ GuarddRestarts
  \/ \E h \in Calls : TicketExpires(h) \/ \E allow \in BOOLEAN : ResolvedElsewhere(h, allow)

Next ==
  \/ \E h \in Calls : HookBegins(h) \/ HookAnswered(h) \/ HookGoesOn(h)
  \/ Lifecycle
  \/ QueueAdvances
  \/ BypassAdvances
  \/ Environment

Fairness ==
  /\ \A h \in Calls : WF_vars(HookAnswered(h))
  /\ WF_vars(QueueAdvances)
  /\ WF_vars(BypassAdvances)
  /\ WF_vars(BackoffElapses /\ UNCHANGED <<pluginVars, ledger>>)

Spec == Init /\ [][Next]_vars
FairSpec == Spec /\ Fairness
-----------------------------------------------------------------------------
(* Properties.                                                             *)

Ran(h) == hooks[h].kind = "tool" /\ hooks[h].at \in {"running", "ran", "passed"}

(* A tool runs on guardd's recorded permission, on the operator's one-time *)
(* answer, or from the embedded allowlist.  An answer that denies or asks  *)
(* to wait for a review or a task never runs it, dialog or not, and one    *)
(* that asks for approval runs it only by the operator.                    *)
PendingNeverRuns ==
  \A h \in Calls : Ran(h) =>
    /\ hooks[h].by # "none"
    /\ hooks[h].by = "guardd" => ruling[h] \in {"ALLOW", "OBSERVE"}
    /\ hooks[h].answer # NoAnswer =>
         /\ hooks[h].answer.pending = "none"
         /\ hooks[h].answer.decision # "DENY"
         /\ hooks[h].answer.decision = "REQUIRE_APPROVAL" => hooks[h].by = "operator"

(* In enforce mode what a tool is given shows a secret only if guardd      *)
(* answered, its plan names every class that was found, says preserve, and *)
(* nothing in it asks for less: not after a lost answer, a failed service, *)
(* or an operator's approval in the emergency.                             *)
SecretsNeedPreserve ==
  \A h \in Calls :
    LET x == hooks[h]
    IN /\ Enforcing
       /\ x.kind = "tool"
       /\ x.at \in {"dialog", "running", "ran"}
       /\ Shown(x.act, x.view) # {}
       => /\ x.answer # NoAnswer
          /\ Classes(x.act) \subseteq Planned(x.answer)
          /\ "preserve" \in Actions(x.answer)
          /\ Actions(x.answer) \subseteq {"preserve", "late_bind"}

(* What guardd records as the gateway's resolution of an approval is what  *)
(* was answered in the native dialog: granted only for a call that answer  *)
(* let run, denied only for one it blocked, through queue, retries, lost   *)
(* answers, and operators who resolve the same approval elsewhere.         *)
GrantIsOperators ==
  \A h \in Calls : operator[h] = "openclaw" =>
    /\ ticket[h] = "allowed_once" => hooks[h].by = "operator"
    /\ ticket[h] = "denied" => hooks[h].at = "blocked"

(* The result guardd records under an event is of a call that ran.         *)
ReportIsOfThatCall ==
  \A h \in Calls : report[h] # "none" => Ran(h) /\ hooks[h].at # "running"

(* Nothing waits in the queue without the loop that empties it, and the    *)
(* loop is alive exactly as long as it has a request of its own.           *)
NoLostWakeup ==
  /\ client.queue # <<>> => client.draining
  /\ client.draining <=> client.sending # NoJob

(* A message leaves, a suspicious input runs where injections are watched, *)
(* and an installation goes on only after this hook heard guardd's answer  *)
(* to the question about it, whatever failed before, and only if that      *)
(* answer lets it: no approval releases a message or an input.  No message *)
(* leaves with a secret in enforce mode.                                   *)
OthersNeedAnAnswer ==
  \A h \in Calls :
    LET x == hooks[h]
        permitted == x.by = "guardd" /\ ruling[h] \in {"ALLOW", "OBSERVE"}
    IN x.at = "passed" =>
         /\ x.kind = "message" => permitted /\ ~Guarded(x)
         /\ x.kind = "run" /\ Watchful /\ x.suspicious => permitted
         /\ x.kind = "install" => x.by = "guardd" /\ ruling[h] \in Kinds \ {"DENY"}

(* In enforce mode the model remembers no secret of a tool's result and no *)
(* unscanned text, and what it remembers is tagged as untrusted.           *)
MemoryIsClean ==
  Enforcing => \A h \in Calls : memory[h] \notin {NoMessage, Removed} =>
    /\ Exposed(memory[h].value) = {}
    /\ ~Unscanned(memory[h].value)
    /\ memory[h].tagged

(* Claim of docs/VISUAL_UI_IMPLEMENTATION_PLAN.md:257, that guardd's state *)
(* decides when OpenClaw and the console race to resolve an approval: no   *)
(* dialog runs a tool whose approval guardd already recorded as denied.    *)
LedgerDecidesRace ==
  [][\A h \in Calls :
       hooks[h].at = "dialog" /\ ticket[h] = "denied" => hooks'[h].at # "running"]_vars

(* The operator's answer to an approval is never dropped because the queue *)
(* is full of what matters less: it is underway, or the backoff runs.      *)
AnswerIsTried ==
  [][\A h \in Calls :
       hooks[h].at = "dialog" /\ hooks'[h].at # "dialog"
         /\ hooks[h].answer # NoAnswer /\ hooks[h].answer.ticket =>
       \/ client.waiting
       \/ \E good \in BOOLEAN :
            Underway(client', [kind |-> "approval", of |-> h, good |-> good])]_vars

(* Where inspections are only observed, one that fails does not cost an    *)
(* installation its question to guardd: the backoff it started is lifted.  *)
InstallIsAsked ==
  [][\A h \in Calls :
       hooks[h].kind = "install" /\ hooks[h].at = "inspecting" /\ ~StrictSkills
         /\ ~(Enforcing /\ client.unfit) =>
       hooks'[h].at \in {"inspecting", "asking"}]_vars

(* An answer of the operator or a result of a call that the client took on *)
(* is sent or given up in the end, however many notes come in meanwhile.   *)
JobsEnd ==
  \A job \in {j \in Job : j.of \in Calls} :
    Underway(client, job) ~> ~Underway(client, job)

(* If guardd stays up, under whatever token, and events keep coming, the   *)
(* client does not stay with a token guardd no longer takes.               *)
StaleTokenIsReplaced ==
  (<>[]guardd.up /\ []<><<Lifecycle>>_client)
    => <>[](client.token \in {NoToken, guardd.token})
=============================================================================
