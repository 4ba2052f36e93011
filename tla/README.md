# A TLA+ model of GuardAgent

GuardAgent is a local daemon (`guardd`) that agents ask before they act.  A
deterministic policy engine decides each event; a language model may review it
in the background and tighten the decision; an operator answers the approvals.
An agent gateway (OpenClaw) reaches it through a plugin that has to get along
without it, and the operator through a web console in any number of tabs.

The modules here model where these meet.  In `guardd`, one SQLite store that
request threads, workers, a sweep and the operator's calls write; in the
plugin, hooks that share one client, its queue and its backoff; in the console,
tabs that share one cookie and a policy that others change too.  Each model
says what one step does, and everything that can happen between two of them.

Paths below are relative to the repository (`guardd/...`, `docs/...`).

## The system

| Component | State | Operations | Interacts with |
|---|---|---|---|
| Decision requests `guardd/service.py` `GuardService.decide` | one decision in the making per request thread; a bounded map of recent events | normalise, decide, apply review, record, create approval | engine, review agent, store, approvals, correlation |
| Decision arithmetic `guardd/llm/jobs.py`, `guardd/llm/fusion.py`, `guardd/models/decisions.py` | none | trigger, fuse, tighten | called by `decide` |
| Review agent `guardd/agents/safety_review.py` | worker threads, a stop flag | fingerprint, enqueue, claim/run/record loop | store, provider, breaker |
| Circuit breaker `guardd/agents/runtime.py` | failure count, open-until | allow, success, failure | shared by the workers of an agent |
| Store, review tables `guardd/audit/store.py` | `llm_review_jobs`, `llm_reviews`, `llm_review_overrides` | enqueue, claim, record, fail, retry, lookups | one lock, one connection; some transactions also update `approvals` |
| Approvals `guardd/approvals/manager.py` | table `approvals` | create, resolve, override, consume, expire, invalidate at start | review tables, sweep in `guardd/api/app.py` |
| Task policies `guardd/task_policy/manager.py` | table `task_policies`, confirmations; `_hybrid_lock` | capture, activate, reject, revise, accept hybrid, close, evaluate | store; called by `decide` (under `_policy_lock`), by the API and by the generation worker with no common lock |
| Generation agent `guardd/agents/task_policy.py` | leased generation jobs; contexts in memory only | enqueue, claim/run/record loop | store, provider, task policies |
| Policy publication `guardd/service.py` | file on disk, policy in memory, revisions; `_policy_lock` | publish, restore, reload, rollback | everything that keeps the policy digest; the console |
| Policy engine, normalizers `guardd/policy/`, `guardd/normalizers/` | none | match rules, pick the strictest | `decide` |
| Correlation `guardd/correlation.py` | windows per session | evaluate, record, restore | `decide`, start-up |
| Inspections `guardd/inspections/` | artifacts, verdicts, confirmations | inspect, confirm, invalidate | `decide`, task policies |
| MCP proxy `guardd/mcp_proxy.py` | pending calls, admitted tools | two pumps, wait for approval | daemon over HTTP, upstream server |
| Plugin client `plugins/guard-openclaw/src/client.ts` | token, backoff, capability error, bounded queue, a drain loop | request, decide, observe, drain, negotiate | daemon over HTTP; shared by all hooks |
| Plugin hooks `plugins/guard-openclaw/src/index.ts`, `emergency.ts` | map of calls to events, start-up errors | one handler per hook of the gateway, execution view, emergency policy | client, sanitizer, the gateway and its approval dialog |
| Plugin sanitizer `plugins/guard-openclaw/src/sanitizer.ts` | none | sanitize a value, a tool's message | hooks |
| UI sessions `guardd/api/ui/auth.py` | bootstrap codes, sessions with CSRF tokens | create and consume a code, validate, rotate, destroy | routes, the browser's cookie |
| Web console `web/src/` | per tab: session, token, query cache, page | connect, poll, expire, log out; edit, check, publish, restore; tick, allow, deny | daemon over HTTP, the other tabs through the cookie |
| Event stream `guardd/realtime.py` | replay buffer | publish, after | makes the console's pages fetch again |
| Audit chain and retention, diagnostics, CLI | hash chain, jobs | append, purge, run | store |

What is hard here: `decide` reads and writes the store in several separate
transactions; results, failures and retries of a review land between them; a
worker may die, or answer after its lease; a restart leaves running jobs and
pending approvals behind; and the same fact ("this review denies") is tested
at three places.  A session's task policy is written by prompts, generations
and operators at once: each reads the newest revision, supersedes what is
pending and inserts, in transactions of their own, while `decide` reads the
active policy, the pending one and the parent's one after the other.

A hook of the plugin awaits answers that may not come, come late, or be about a
decision that was made and lost; meanwhile another hook's failure starts the
backoff of the client both share, and the operator's answer queues behind notes
that matter less.  A page of the console acts on what it fetched earlier, with a
token whose session may be gone or another; a publication may fail in any of
its steps, and a reload reads the file before it waits for the lock.

What makes the modelled components correct:

* requests: a required review decides before an action is allowed; an override
  releases one exact action;
* queue: a review is run by one worker, ends, and is not taken back;
* approvals: a gate says what the review says, is never left waiting, and an
  approval is granted and used at most once, in time;
* task policies: a session has one active policy and at most its newest
  revision waits; without an operator it is only given less, so that whatever is
  allowed was once confirmed; a call is allowed under the policy, the base
  policy and the parent in force;
* plugin: nothing runs, leaves or is remembered on less than the answer it
  needs, answer lost or not; a secret is shown to a tool only under a plan that
  preserves it; what `guardd` records of the operator and of a call is what
  happened; the queue has its loop;
* publication: file and memory change together or not at all, over the policy
  the operator saw, and enforcement is confirmed;
* console: what `guardd` takes from a tab is of the operator and the approval
  that tab shows; a tab without a session ends at the login guide.

## The modules

| Module | Models |
|---|---|
| `DecisionFusion` | decision order, trigger, fusion and the two tightenings, as operators |
| `CircuitBreaker` | the breaker, one action per method |
| `ReviewQueue` | review tables, workers, leases, retries, restart; extends the two above |
| `Approvals` | approvals and overrides tables, one action per transaction |
| `ReviewGate` | `decide` step by step, composed with the queue and the approvals |
| `ApprovalTicket` | what an approval promises, without reviews and tables |
| `TaskPolicies` | a session's policies and their concurrent writers and readers, a module of its own |
| `SessionGrant` | what the task policies promise to the operator, without revisions, transactions and callers |
| `Sanitizer` | `sanitizeValue` and `sanitizeToolMessage`, as operators on values of any shape |
| `PluginDecision` | the plugin's event, its execution view and the emergency policy, as operators; extends `Sanitizer` |
| `GuardClient` | the client: one record, and the functions from one record to the next that the hooks call |
| `PluginHooks` | every hook, cut at its awaits, with the dialog, the queue and `guardd`; extends the two above |
| `PolicyPublication` | file, memory, publication and reload |
| `PolicyPage` | the policy workbench of a tab; extends `PolicyPublication` |
| `ApprovalsPage` | the approvals drawer of a tab |
| `UiSession` | codes, sessions, the shared cookie, and the `App` of each tab |
| `Console` | the four above composed |
| `MCReviewQueue`, `MCReviewGate`, `MCTaskPolicies`, `MCPluginHooks`, `MCConsole` | values for the model checker |
| `DecisionFusionProofs`, `ReviewQueueProofs`, `ReviewGateProofs`, `TaskPoliciesProofs`, `PluginDecisionProofs`, `GuardClientProofs`, `PluginHooksProofs`, `ConsoleProofs` | theorems |

A method of the store is one transaction under one lock and therefore one
action.  A thread that calls several of them has a control state between them:
`requests[r].at` for a request (`idle`, `hit` or `missed` after the cache
lookup, `decided` after `_apply_llm_review`, `done` or `lost`) and
`worker[w].at` for a worker (`idle`, `cleared` by the breaker, `calling` the
model, `recorded`, `failing`).  In `TaskPolicies` a request thread or a
generation worker is a caller, and `caller[c].at` names the read or write it is
about to make; what it has read so far is in the rest of `caller[c]`.

A hook of the plugin is `hooks[h]`; `at` is the await it is in (`inspecting`,
`capturing`, `asking`, `negotiating`, `scanning`), or `dialog`, `running`,
`ran`, `passed` and `blocked` for what the gateway does with what it returned.
JavaScript runs from one await to the next undisturbed, so that is one step:
the operators of `PluginHooks` take the client and the hook as the code finds
them and give both as it leaves them.  A request of the console and what
`guardd` does about it are one step, except a publication, which goes through
its stages while its page waits.

| In the code | In the model |
|---|---|
| `llm_review_jobs`, one row per fingerprint (UNIQUE) | `jobs[f]`; the review is named by its fingerprint |
| `llm_reviews` | `reviews[f]` |
| `approvals`, one per decision | `approvals[r]`, named by its request |
| `resolution_gate` NULL | gate `"open"` |
| `llm_review_overrides` | set `overrides` |
| `lease_expires_at`, `next_attempt_at`, `expires_at`, `_open_until` | the answer to the comparison the code makes: `leased`, `ready`, `fresh`, `due`, `window`; a clock action turns each of them at any time |
| everything `consume` compares | one `digest` |
| risk | one bit, `high`: what the audit fallback looks at |
| `task_policies` rows of a session | the sequence `policies[s]`, indexed by revision |
| `candidate`, `revision_candidate` | one status, `"pending"`: every query treats them alike |
| `policy_digest`, `parent_policy_digest` | the revision they are the digest of |
| allow lists, deny lists and limits of a policy | the set `scope` of actions it permits |
| `objective.source_digest` | the prompt, `source` |
| `_hybrid_lock`, `_policy_lock` | `HybridLockFree`, `PolicyLockFree`: no caller is where the code holds it; `LockFree` in `PolicyPublication` |
| `nextAttempt` in the future | `client.waiting` |
| `capabilityError` | `client.unfit` |
| a queued request, by path and body | `Job`: the answer to an approval, the result of a call, or a note |
| the request the drain loop awaits; requests past a full queue | `client.sending`, `client.bypass`, each with its token |
| `calls` | the sequence `tracked`, oldest first |
| `approvals` of a hook's decision, `approvals.operator` | `ticket[h]`, `operator[h]`: `"openclaw"` for what the plugin sends, `"elsewhere"` for the console, the command line and the API |
| the parameters a tool is run with | `hooks[h].view`: as the host has them, raw, sanitized, or rewritten by the service |
| a JSON value | a function from paths to leaves; a leaf says what the sanitizer would find in it |
| policy text, `policy.digest` | the policy itself |
| a UI session | the code it was made from; its CSRF token is that and a number |
| `confirmed`, `selected`, `detail`, `mutation.isPending` | `confirmed`, `selected`, `detail`, `resolving` of `drawer[t]` |

Simplifications that a reader should know:

* `SafetyReviewAgent.enqueue` looks for a cached review and then inserts, in
  two transactions.  They are one action: if the lookup finds a review, the
  row is `completed`, and the answer is the one the insert would have given.
* `consume` is modelled although only tests call it.
* The statuses `invalid` and `cancelled` are declared by the code but never
  written; they are left out.
* The rule matches, correlation and task policies only choose the event
  (`Events`): proposed kind, flagged, high risk, sampled.
* Settings, the prompt and the policy digest stay the same across a restart,
  and retention does not purge.
* A task policy's parent session is a function of the session (`ParentOf`),
  where the code takes it from each request.
* `accept_hybrid_candidate` may run for any deterministic candidate at any
  time and with any result the compiler can produce (`Compiled`): fewer
  actions of the draft, more that only read, a shorter life.  The queue the
  results come from is planned.
* An evaluation refuses in one way; whether that denies or asks for an
  approval is the mode's.  The counted limits of a policy are left out, and so
  is its binding to an agent, a channel and a sender.
* `evaluate` runs in `decide` only, under `_policy_lock`, so one at a time.
  `accept_hybrid_candidate` compares the base digest when it starts; the two
  steps before it (reading the draft, the model's answer) change nothing.
* In the plugin the lengths of backoffs and timeouts are left out: a backoff may
  end at any time, a request may fail at any time.  A bearer token file that
  cannot be read is a request that fails.  The parent sessions of subagents,
  which only fill a field of the event, are left out.  A skill scan at start is
  one request, that of its last skill.
* `guardd` decides anything of `Decisions` for any event, and may refuse or lose
  any request it understood.  OpenClaw calls the hooks in any order and obeys
  what they return.
* Another operator may resolve a pending approval at any time
  (`ResolvedElsewhere`).  The gate of a review, which holds an allow back for a
  time, is left out there: the allow just comes later.
* What a file holds is what the page sends: the newline `_atomic_write` may add
  is left out.  Policies are names; `Valid` parse and `Enforcing` enforce.
  Publishing is serial under the lock; hand edits are not made while it runs.
* A tab shows one page for as long as a behaviour lasts; leaving a page and
  opening it again is a reload.  The filters, the list, simulation and replay
  change nothing that is kept.
* `ApprovalsPage` keeps of an approval whether it is pending with or without a
  gate; what `guardd` does with it is `Approvals`.
* `ticked` in `ApprovalsPage` and `diverted` in `PolicyPublication` are history:
  no step of the code depends on them.
* `attempt_count` and the failure count saturate where the code stops telling
  them apart (`AttemptCap`, `FailureThreshold`).

## The runs

| Run | Instance | Shows |
|---|---|---|
| `queue_live` | 2 reviews, 2 workers, late answers | `ReviewsEnd`: every review ends once nobody retries and the process stays up |
| `gate_timely` | 2 requests for 2 exact actions sharing 1 review, 2 workers, timely answers, 2 attempts | `LeaseExclusive`, `CompletedIsFinal`: one worker per review, and a completed review stays; `GateTracksReview`, `BlockedHasDeny`, `ReleaseIsBound` |
| `gate_late` | 1 request, 2 workers, late answers | `NoStrandedGate`, `BlockOpensOnlyByOperator`, and that approvals implement `ApprovalTicket` |
| `gate_events` | 1 request of any of 5 kinds, 5 kinds of result, 2 reviews, capacity 1 | `RequiredReviewDecides` |
| `gate_race` | 1 request | the first finding below |
| `policies_writers` | 1 session, 2 callers, 2 prompts (one asks for an action, one for none), 3 revisions, generations, content revisions, restarts | `PendingIsNewest`, `OneActive`, `OnlyOperatorsWiden` |
| `policies_capture` | 1 session, 2 callers, a wide and a narrow prompt, 2 revisions, 2 base policies, a clock, content revisions | `AllowUnderCurrentBase`, `DecidedIsFinal`, `NarrowingKeepsExpiry` without generations, and that the table implements `SessionGrant` |
| `policies_family` | a parent and a child session, 1 caller, generations | `ChildWithinParent` without content revisions, `AllowedWasConfirmed` through the inheritance |
| `plugin_hooks` | 2 hook invocations of any kind, 1 pattern, 2 acts, 4 decisions, everything enforced, queue and calls map of 1 | `PendingNeverRuns`, `SecretsNeedPreserve`, `GrantIsOperators`, `ReportIsOfThatCall`, `OthersNeedAnAnswer`, `MemoryIsClean` |
| `plugin_race` | 1 hook invocation, only observed | the second finding below |
| `plugin_live` | 1 hook invocation, 2 tokens, enforced or observed, queue of 2 | `NoLostWakeup`, `InstallIsAsked`, `AnswerIsTried`, and that jobs end and a refused token is replaced |
| `console` | 2 tabs, 2 codes, 2 CSRF tokens each, 2 policies, 2 approvals | `FileAndMemoryAgree`, `EnforceIsConfirmed`, `AppliedOverExpected`, `WrittenByShown`, `AllowedWasTicked`, `GuideWhenGone` |

Every run also checks the type invariant of its module where one is named in
its configuration; that of the queue is a part of the gate's.

Bounds.  Two reviews and capacity 1 or 2 reach the full queue; two workers reach
the lease race; two attempts reach requeue and final failure; two requests
sharing a fingerprint reach the shared override; an override needs a blocked
request and a second one that meets it, so two requests are enough.  A lease, a
result and a failure are of one review, so the two properties of the queue are
checked in `gate_timely`, where both workers are after the same one.  The runs
have one priority: it orders the claims of different reviews, and no property
depends on that order; the theorems hold for any.  Requests and workers are
interchangeable in `gate_timely` and are symmetry sets there; the liveness runs
use no symmetry.  No run stops: a restart is always possible, so deadlock is
checked everywhere (in the runs of `TaskPolicies` without restarts an evaluation
can go on or, if there is none, a base policy can be published).

`policies_writers` has the largest space.  Two callers at one session reach
every race on a revision; three revisions let a narrowing that was overtaken,
the one that overtook it and the policy both were compared with exist at once.
One action is enough there: a narrower scope is the empty one.
`policies_capture` has two actions, so that a content revision can widen, and
the two base policies and two ticks that an evaluation can straddle.
`policies_family` has one caller: a child's scope is fixed when its row is
inserted, from a parent row whose scope never changes, so what interleaves is
only which parent is read.  Callers are a symmetry set.  A writer that has read
`MaxRevision` revisions waits at that read; operators, closes, evaluations and
the clock go on.

`plugin_hooks`: two invocations reach every race over the client, because a
third could only do what the notes (`Lifecycle`), guardd, the other operators
and the backoff already do to it at any time; a queue and a map of one are full
after one entry.  The acts are a skill that writes inside the workspace,
for which the operator is asked in the emergency, and a write of a credential;
the decisions are one of each kind, one of them pending and one with a plan that
redacts.  A finished invocation is not reused.  `plugin_live` has a skill that
reads, which the embedded allowlist lets through, both configurations, the
second token and a queue of two, in which a job can wait behind another;
liveness is checked without symmetry.

`console` starts in one of three layouts (`OnePageEach`): the workbench alone,
with publications, reloads and hand edits from elsewhere; the drawer alone with
two approvals; and two tabs with two sessions, one of them with the drawer.
One check stands for the three, which differ only in their route; two policies,
one that enforces, reach every confirmation; a session has one token when it is
made and one restore.

Two assumptions separate the runs of `ReviewGate` and `ReviewQueue`.  `LateAnswers = FALSE` says that a model
call ends within the lease of its job, which the code intends (the lease is
the request timeout plus ten seconds) but does not enforce.  Properties that
need it are checked and proved under it by name; the others are checked with
`LateAnswers = TRUE`.

Fairness.  `QueueFairness`: the worker threads loop without end, the model
call has a timeout, and time passes for leases, backoffs and the breaker.
Nobody is assumed to enqueue, retry or restart; `ReviewsEnd` asks that the
operator stops retrying and the process stops restarting, as either can keep a
review from ending.  Weak fairness of each worker's loop is enough: a worker
refused by an open breaker is disabled until the breaker cools.

In `PluginHooks` every request ends, because the client aborts it after its
timeout (`plugins/guard-openclaw/src/client.ts:116`), and the backoff ends by
time; the hooks, the operator and `guardd` are assumed to do nothing.
`StaleTokenIsReplaced` asks that `guardd` stays up and events keep coming, since
only a refused request drops a token.  In `Console` the overview of every tab's
shell is fetched every ten seconds (`web/src/App.tsx:26`).

## What the program does otherwise

The two runs with the expectation *violation* check what a document says and
find a behaviour of the code that contradicts it.

* `DenyBlocksAllowOnce` (`docs/DEPLOYMENT.md:113`): if the review completes
  between the cache lookup and the enqueue of the same request, the decision
  carries `completed` without having been fused, `create` does not look again,
  and a recorded deny does not block allow-once.
* `LedgerDecidesRace` (`docs/VISUAL_UI_IMPLEMENTATION_PLAN.md:257`: when OpenClaw
  and the console race to resolve an approval, the state of the backend is the
  only truth): another operator denies the approval in the console while the
  native dialog is open; the dialog's allow-once then runs the tool
  (`plugins/guard-openclaw/src/index.ts:68`).  `guardd` refuses the plugin's
  answer and keeps the denial, and nothing tells the dialog.  The other way
  round, an approval allowed elsewhere is blocked by the dialog.
  `GrantIsOperators` says what holds all the same: what is recorded in the
  gateway's name is what its dialog answered.

The models show other departures, which no run is kept for; they are the reason
for some of the bounds and assumptions above.

Of requests, reviews and task policies:

* A full review queue tightens an observed decision too
  (`guardd/service.py:291`); `docs/DEPLOYMENT.md:13` says that observe mode
  records without blocking.
* A generation for the previous prompt, coming late, supersedes the candidate of
  the next prompt and may activate itself (`guardd/task_policy/manager.py:302`;
  `docs/R_TASK_SANITIZATION_SKILL_MCP_IMPLEMENTATION_PLAN.md:398` wants the old
  permissions out of use until the new task is confirmed).
* Of two writers with the same revision the loser supersedes the winner's
  candidate first and then fails (`guardd/task_policy/manager.py:123`); nothing
  waits, and the older policy goes on, where `tests/unit/test_task_policy.py:111`
  expects an expansion to pause it.
* A model call that outlives its lease (`guardd/audit/store.py:1348`) puts two
  workers on one review, where the implementation guide, line 579, says that
  leases prevent it: `LeaseExclusive` needs `LateAnswers = FALSE`.
* A request that joins a review that has already failed gets an open gate
  (`guardd/approvals/manager.py:59`); the guide, line 426, says degraded.
  `GateTracksReview` therefore speaks of requests that saw the review in flight.
* The gate is closed while a review runs in shadow and advisory mode too
  (`guardd/approvals/manager.py:83`; `docs/DEPLOYMENT.md:109`).
* An activation between the two reads of an evaluation
  (`guardd/task_policy/manager.py:345`) lets a call through under the policy it
  supersedes; the plan quoted above, line 349, has only active ones decide.
* Validity is checked one level up (`guardd/task_policy/manager.py:396`), so a
  grandchild survives its grandparent's policy; the plan, line 415, says that
  all children lapse with it.
* What an operator adds to a child's policy
  (`guardd/task_policy/manager.py:281`) is not held against its parent's:
  `ChildWithinParent` is checked without content revisions.
* A generated narrowing (`guardd/task_policy/manager.py:327`) renews the life of
  what it narrows, a captured one does not: `NarrowingKeepsExpiry` is checked
  without generations.

Of the plugin:

* Any observation that `guardd` refuses (an approval that expired meanwhile is a
  409) starts the backoff of the one client, so that the next tool call is
  decided by the emergency policy though `guardd` is up
  (`plugins/guard-openclaw/src/client.ts:130`; `docs/CURRENT_FEATURES_CN.md:332`
  says that decisions do not depend on the queue).
* Where a failed skill inspection is only observed, an installation lifts the
  backoff it started and a tool call does not (`index.ts:378`, `index.ts:145`).
* While the backoff runs, the drain loop discards the whole queue, critical jobs
  included; past a full queue the same jobs are dropped at once (`client.ts:113`;
  the comment at `client.ts:190` promises them a way).  `AnswerIsTried` has that
  exception.
* The dialog's allow-once runs the tool also if `guardd` never takes the answer,
  because the approval expired or the request failed (`index.ts:68`); a decision
  that denies and is lost can be followed by the emergency dialog or allowlist
  (`index.ts:185`).  `PendingNeverRuns` speaks of
  answers that arrived.
* If `guardd` is down at the gateway's start, capabilities are never compared
  (`index.ts:412`), and with enforced inspections every run is blocked until the
  gateway restarts (`index.ts:415`).
* An installation that needs an approval goes on unless its risk is critical
  (`index.ts:384`).
* A blocked call stays in the calls map and can push out one that is running
  (`index.ts:158`), whose result is then not reported.
* `before_agent_run` may make two requests of up to 450 ms each in a hook that
  may last 500 ms (`index.ts:344`; `docs/CURRENT_FEATURES_CN.md:315`).
* A plan that mixes preserve with late binding gives the tool the raw parameters
  (`index.ts:106`); `SecretsNeedPreserve` allows for it.
* The keys of objects are not scanned, and a text that begins with the tag is
  taken to have it (`sanitizer.ts:72`, `sanitizer.ts:93`).

Of the console and publication:

* The digest a publication expects is the one last fetched, not the one that was
  in force when the text was loaded (`web/src/pages/Policy.tsx:54`): after a
  refetch another operator's policy is overwritten unseen, where
  `docs/VISUAL_UI_IMPLEMENTATION_PLAN.md:330` wants the digest of the loading.
  `AppliedOverExpected` is about the digest that was sent.
* The answer of a check marks the text that is in the editor by then
  (`Policy.tsx:45`), and a restore fills the editor from the old cache and keeps
  the marks (`Policy.tsx:67`).
* A read of the policy takes text and digest without the lock
  (`guardd/service.py:610`) and can pair those of two policies.
* A reload reads the file before it waits (`guardd/service.py:807`): a candidate
  that failed to publish may be what it applies afterwards, or a policy older
  than the one published meanwhile, over which memory then goes back.
  `FileAndMemoryAgree` leaves out what a reload set apart (`diverted`).
* Logging out with a token that another tab replaced is refused, and the tab
  shows the login guide while the session lives (`web/src/App.tsx:112`); a
  logout that does not reach `guardd` ends the same way.  Every
  reload of a tab makes the other tabs' tokens void (`router.py:142`) until they
  reload.
* An answer that is lost after a code was used leaves a retry that uses the code
  again (`App.tsx:95`).
* A tab that is open polls with every session touched, so the session does not
  end after 30 idle minutes as the guide says (`App.tsx:26`, `App.tsx:81`).

## The proofs

`DecisionFusionProofs`: `FuseOnlyTightens`, by cases on the review; and types.

`ReviewQueueProofs`: `QueueTypeCorrect`; `LeaseExclusiveWhenTimely` from the
inductive invariant `QueueTypeOK /\ LeaseHeld`.  Exclusion alone is not
inductive: a claim could hand out a job that a worker is still on, unless that
job is known to be running, owned by that worker, with a lease that is not
over.  `CompletedIsFinalWhenTimely` follows from the same invariant: whoever
records or fails a job holds it, so the job is running and not completed.

`ReviewGateProofs`: `TypeCorrect`, and `NoStrandedGateCorrect` from the
inductive invariant

    GateInv == TypeOK /\ RequestsBound /\ GatesBound /\ NoStrandedGate

`RequestsBound` says that a request that saw its review in flight names a
review whose job exists, so that `create` finds a row; `GatesBound` that a
closed gate names a review.  The argument has three parts, each a lemma: which
operations start a wait (creation, which looks at the job, and retry, which
puts it in flight), which end one (record and fail settle every waiting gate
of the review), and that all other steps leave a job in flight in flight.
`ImplementsQueue` says that the composed system implements `QueueSpec`, so the
queue's theorems hold in it.

The other properties of the gate rest on one classification, `RowMove`: what a
step does to an approval is that it is inserted, allowed, ended (denied,
expired, invalidated), overridden or consumed, that its deadline passes, that
its review settles its gate, that a retry closes its gate again, or nothing.
Each step of the system is assigned its kind once; the properties then follow
from a case per kind instead of one per action.

    ApprovalsInv == GateInv /\ ApprovalsBound /\ OverridesBound

adds that an approval exists only for an answered request and names that
request's review, and that every override belongs to an approval of the same
exact action that it closed.  From it
follow `ImplementsTicketCorrect`, the refinement of `ApprovalTicket`, and
`BlockOpensOnlyByOperatorCorrect`.  `RequestInv` adds to it what each request
may still rely on at each of its stages, between the cache lookup, the enqueue
and the answer; it gives `RequiredReviewDecidesCorrect` and
`ReleaseIsBoundCorrect`.  All of these hold with late answers.

    TimelyInv == ApprovalsInv /\ LeaseHeld /\ \A r \in Requests : Tracks(r)

gives `GateTracksReviewWhenTimely`, `BlockedHasDenyWhenTimely` and
`DenyBlocksWaitingWhenTimely` under `~LateAnswers`.  A gate follows the review's
job only as long as whoever records a result still holds the job, which is
`LeaseHeld` of the queue: with late answers and two workers a second result
replaces the first after the gates were settled by it, and the model checker
finds both invariants violated.  `DenyBlocksWaiting` is what remains
true of the sentence that the run `gate_race` refutes: an approval that waited
for its review is not allowed once a deny is recorded.

`TaskPoliciesProofs`: `TypeCorrect`, `PendingIsNewestCorrect`,
`OneActiveCorrect` and `AllowUnderCurrentBaseCorrect` are invariants, and
`DecidedIsFinalCorrect` and `OnlyOperatorsWidenCorrect` action properties, of
the inductive invariant

    PolicyInv == Types /\ Rows /\ \A c \in Callers : Fits(policies, base, caller[c])

`Rows` adds to the two invariants of the table that a child's row names a
parent revision that exists.  `Fits` says what each caller may still rely on of
all it has read.  The heart of it is one line: a caller about to insert the
next revision of a session finds nothing pending there.  It superseded what was
pending, and whoever inserted a candidate since has taken its revision, so
either the caller's insert fails or no other happened.  For a narrowing, `Fits`
keeps the comparison with the active revision that was read; rows are never
removed and their scope never changes (`Grows`), so it still holds at the
activation, which tests that the same revision is active.  A step is one of
few kinds (`Grows`, `ActivatesNothing`, `Shuts`, `Replaces`, `Keeps`), and one
lemma for each says what it does to the table and to the other callers.

The scope and the life of a revision need more than the table, since they are
computed in a caller's hand several transactions before they are written:

    HandInv == PolicyInv /\ RowsMade /\ \A c \in Callers : HandFits(policies, caller[c])

`HandFits` says that a row in hand, once it was held against the parent's, is
within it, and that a narrowing of the deterministic synthesizer lives no longer
than the revision it was compared with; `RowsMade` says the first of every row
of the table.  It gives `ChildWithinParentAndContentCorrect` (a child has nothing
but what its parent's policy has and what an operator added) and
`DeterministicKeepsExpiryCorrect`, without assumptions, and from them the two
properties the runs check: `ChildWithinParentCorrect` under `Content = {}` and
`NarrowingKeepsExpiryCorrect` under `~Hybrid`.  Neither assumption can be
dropped: the model checker finds a behaviour against each, and they are the last
two departures listed above under task policies.

    ConfirmInv == PolicyInv /\ Covered /\ \A c \in Callers : Governed(policies, caller[c])

`Covered` says that every revision that was ever activated permits no more than
one with the same or a smaller number that an operator confirmed.  A narrowing
inherits its cover from the revision it narrows, which is why exactly that one
must still be active when it activates itself.  With `Governed`, that the
revision an evaluation goes by was activated and permits the call,
`AllowedWasConfirmedCorrect` follows.  `ImplementsGrantCorrect` is the
refinement of `SessionGrant`: inserting a candidate is `Propose`, an activation
is `Confirm` or `Narrow`, and everything else (superseding, expiring, rejecting,
closing, restarting) is `End` or changes nothing there.  That `Propose` finds
nothing waiting is the argument about the next revision again.

`PluginDecisionProofs`: for values of any shape, what the sanitizer leaves shows
nothing it knows (`SanitizedIsClean`), sanitizing again changes nothing
(`SanitizedTwice`), and a view that shows a secret had a plan that preserves
every class found (`ShownIsPreserved`).  `GuardClientProofs` says of each
function of the client what it keeps of `ClientOK` and where jobs can come from.

`PluginHooksProofs`: all invariants of the passing runs, and the action properties
`AnswersAreTried` and `InstallsAreAsked`, from the inductive invariant

    IInv == /\ ClientOK(client) /\ GuarddOK /\ ConfigOK /\ StoredOK
            /\ HooksOK /\ LedgerOK /\ JobsOK

`ClientOK` is the client's type with the loop: a queue that is not empty has its
loop, and the loop has its request.  `HooksOK` justifies each hook by what it
has heard: who let it run, under which answer, and that its view shows a secret
only under a preserving plan.  `LedgerOK` relates what `guardd` recorded to the
hooks: under an approval that the gateway resolved lies the answer of its
dialog, and under one that somebody else resolved nothing is claimed of the
dialog.  `JobsOK` says of every job that is underway that it tells the truth of
its hook.  Without `JobsOK` the ledger is not inductive: a job outlives its
hook's dialog, so its truth has to be kept until it is recorded.  A step changes
one hook, and takes the client through functions whose effects are lemmas; one
lemma says what is left to show of such a step.

`ConsoleProofs`: `TypeCorrect`, `FileIsMemory`, and the action properties
`EnforcementIsConfirmed`, `PublicationReplacesExpected`, `WritesAreOfShown` and
`AllowanceWasTicked`.  The invariant keeps, for each stage of a publication,
what is in the file and in memory and what the rollback would restore, that the
policy it found is the one it was sent with, so that a failed one restores just
that, and that a tick is of the approval that is selected.

The theorems assume what the modules name: `QueueAssumption`,
`GateAssumption`, `ThresholdsAssumption`, `FailureThresholdAssumption`,
`TaskPolicyAssumption`, `PatternAssumption`, `ClientAssumption`,
`NoJobAssumption`, `HooksAssumption`, `UiSessionAssumption`,
`PublicationAssumption`, `PolicyPageAssumption`, `NoViewAssumption`,
`ApprovalsPageAssumption`, `ConsoleAssumption`.  A theorem whose name ends in
`WhenTimely` also assumes `~LateAnswers`, and two of `TaskPoliciesProofs` assume
`Content = {}` and `~Hybrid`, as said above.

Only model-checked: liveness (`ReviewsEnd`, `JobsEnd`, `StaleTokenIsReplaced`,
`GuideWhenGone`), which is out of the prover's reach.  Every other property that
a passing run checks is also a theorem.  Three theorems are of properties that
no run checks: `ChildWithinParentAndContent`, `DeterministicKeepsExpiry` and
`DenyBlocksWaiting`.

## Plan

Done, in this order: fusion, breaker, queue, approvals, gate; task policies; the
plugin; publication, sessions and the console; theorems of each.  What could
follow:

1. the counted limits of a policy in `TaskPolicies`;
2. the generation agent as a second leased queue, composed with `TaskPolicies`;
3. the MCP proxy, and inspections with their cache and confirmations;
4. theorems about `SessionGrant` and `ApprovalTicket` themselves, which the
   refinements would carry over to the code's tables.

## Not modelled

* Text processing (normalisers, rule matching, the sanitizer of `guardd`,
  scanners, prompts, schemas) has no state.
* The generation agent: its queue is built like the review queue; what its
  results do is in `TaskPolicies`, at any time and in any order.
* The MCP proxy, inspections, correlation, diagnostics, the event stream, the
  hash chain and retention: each is one lock or one thread around its own state
  and meets the modelled parts through operations that are modelled there.
* The other pages of the console show what they fetch.  The session page
  approves, rejects and revises a task policy by its digest; what `guardd` does
  about it is in `TaskPolicies`, and a page for it would repeat `PolicyPage`.
* The command line, launcher and doctor start the process, call the API and
  print its answers.
