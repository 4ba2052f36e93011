---------------------------- MODULE TaskPolicies ----------------------------
(***************************************************************************)
(* Session task policies (R_task): what a session's user objective lets    *)
(* the agent do, as a sequence of revisions per session.                   *)
(*                                                                         *)
(* policies is the table task_policies.  (session_key, revision) is UNIQUE *)
(* and every writer asks for max(revision)+1, so the rows of a session are *)
(* a sequence indexed by revision, and a revision stands for its digest.   *)
(*                                                                         *)
(* A method of the store is one transaction, hence one action.  A method   *)
(* of TaskPolicyManager is several of them, run by a request thread or by  *)
(* the generation worker with no lock around the whole: a caller holds     *)
(* what it has read so far.  Two locks exist.  _hybrid_lock admits one     *)
(* hybrid candidate at a time; _policy_lock admits one evaluation at a     *)
(* time and keeps the base policy still meanwhile.                         *)
(*                                                                         *)
(* A scope is the set of actions a policy permits: allow lists, deny lists *)
(* and limits together.  The statuses candidate and revision_candidate,    *)
(* which every query treats alike, are one status here, "pending".         *)
(***************************************************************************)
EXTENDS Integers, Sequences, FiniteSets

CONSTANTS
  Sessions,     \* session keys
  ParentOf,     \* the session a sub-agent's session was spawned from
  NoSession,    \* no parent session
  Prompts,      \* user objectives
  Perms,        \* actions a policy may permit
  ScopeOf,      \* what the deterministic synthesizer permits for a prompt
  ReadOnly,     \* actions a child without a policy of its own inherits
  Calls,        \* actions the agent asks for
  Content,      \* skills and MCP tools an operator may add
  Bases,        \* digests of the base policy
  Callers,      \* request threads and generation workers
  Hybrid,       \* TRUE if settings.task_policy_synthesizer is "hybrid"
  Crashes,      \* TRUE if the process may be restarted
  Ttl,          \* ttl_minutes, in ticks
  MaxNow,       \* bound on the clock
  MaxRevision,  \* bound on the revisions of a session
  NoPolicy      \* no candidate in hand

ASSUME TaskPolicyAssumption ==
  /\ NoSession \notin Sessions
  /\ ParentOf \in [Sessions -> Sessions \union {NoSession}]
  /\ \A s \in Sessions : ParentOf[s] # s
  /\ ScopeOf \in [Prompts -> SUBSET Perms]
  /\ ReadOnly \subseteq Perms
  /\ Calls \subseteq Perms /\ Content \subseteq Perms
  /\ Hybrid \in BOOLEAN /\ Crashes \in BOOLEAN
  /\ Ttl \in Nat \ {0}
  /\ MaxNow \in Nat
  /\ MaxRevision \in Nat

VARIABLES policies, base, now, caller

vars == <<policies, base, now, caller>>

Open == {"pending", "active"}
PolicyStatus == Open \union {"rejected", "superseded", "expired", "closed"}

(* A row.  parent is the revision of the parent session's policy whose     *)
(* digest the row carries, 0 if none; by is who activated it.              *)
Policy ==
  [status : PolicyStatus, source : Prompts, scope : SUBSET Perms, parent : Nat,
   base : Bases, expires : Nat, generator : {"deterministic", "hybrid"},
   by : {"nobody", "operator", "guardd"}]

(* Where a caller is, and what it has read: active and pending rows by     *)
(* revision, 0 if none.                                                    *)
Evaluating ==
  {"reads_pending", "inherits", "checks_clock", "expires", "checks_parent", "allowed"}
Accepting ==
  {"h_reads_active", "h_reads_pending", "h_reads_latest", "h_reads_parent"}
Writing == {"supersedes", "records", "activates"}
Step ==
  {"idle", "c_reads_parent", "c_reads_latest", "c_reads_pending", "r_reads_latest",
   "closes_children"} \union Evaluating \union Accepting \union Writing

CallerType ==
  [at : Step, session : Sessions \union {NoSession}, active : Nat, rev : Nat,
   policy : Policy \union {NoPolicy}, source : Prompts \union {NoPolicy}, parent : Nat,
   narrows : BOOLEAN, hybrid : BOOLEAN, call : Calls \union {NoPolicy}, inherited : BOOLEAN]

Idle ==
  [at |-> "idle", session |-> NoSession, active |-> 0, rev |-> 0, policy |-> NoPolicy,
   source |-> NoPolicy, parent |-> 0, narrows |-> FALSE, hybrid |-> FALSE,
   call |-> NoPolicy, inherited |-> FALSE]

Init ==
  /\ policies = [s \in Sessions |-> <<>>]
  /\ base \in Bases
  /\ now = 0
  /\ caller = [c \in Callers |-> Idle]

-----------------------------------------------------------------------------
(* What the queries of the store return.                                   *)

Revisions(s) == DOMAIN policies[s]

(* The newest revision with a status: get_task_policy and                  *)
(* get_pending_task_policy, ORDER BY revision DESC LIMIT 1.                *)
Newest(s, status) ==
  LET found == {r \in Revisions(s) : policies[s][r].status = status}
  IN  IF found = {} THEN 0 ELSE CHOOSE r \in found : \A q \in found : q <= r

Active(s) == Newest(s, "active")
Pending(s) == Newest(s, "pending")

Least(a, b) == IF a <= b THEN a ELSE b

(* Mutant: any change of what is permitted counts as a narrowing.          *)
Changed(scope, active) == scope # active

(* _is_narrower: nothing more is permitted and something less.             *)
Narrower(scope, active) == scope \subseteq active /\ scope # active

-----------------------------------------------------------------------------
(* The transactions that write.                                            *)

(* The rows of a session with every open row of the given statuses closed  *)
(* by one UPDATE.                                                          *)
Ended(rows, statuses, status) ==
  [r \in DOMAIN rows |->
     IF rows[r].status \in statuses THEN [rows[r] EXCEPT !.status = status] ELSE rows[r]]

(* Mutant: any active revision will do.                                    *)
CanActivateOverAny(s, r, expected) ==
  /\ policies[s][r].status = "pending"
  /\ policies[s][r].base = base

(* activate_task_policy: the candidate must still be pending, made under   *)
(* the current base policy, and the active revision the one the caller     *)
(* expects.                                                                *)
CanActivate(s, r, expected) ==
  /\ policies[s][r].status = "pending"
  /\ policies[s][r].base = base
  /\ Active(s) = expected

(* Mutant: the revision that was active stays so.                          *)
ActivationAlongside(s, r, by) ==
  policies' = [policies EXCEPT ![s][r] = [@ EXCEPT !.status = "active", !.by = by]]

(* The active revision is superseded and the candidate takes its place.    *)
Activated(rows, r, by) ==
  [Ended(rows, {"active"}, "superseded") EXCEPT
     ![r] = [rows[r] EXCEPT !.status = "active", !.by = by]]

Activation(s, r, by) == policies' = [policies EXCEPT ![s] = Activated(policies[s], r, by)]

-----------------------------------------------------------------------------
(* capture: the objective of a new prompt becomes a candidate.             *)

Moves(c, to) == caller' = [caller EXCEPT ![c] = to]
Goes(c, at) == Moves(c, [caller[c] EXCEPT !.at = at])
Returns(c) == Moves(c, Idle)

CaptureReadsActive(c, s, p) ==
  /\ caller[c].at = "idle"
  /\ Moves(c, [Idle EXCEPT
       !.at = IF ParentOf[s] = NoSession THEN "c_reads_latest" ELSE "c_reads_parent",
       !.session = s, !.source = p, !.active = Active(s)])
  /\ UNCHANGED <<policies, base, now>>

(* A parent session without an active policy is an error.                  *)
CaptureReadsParent(c) ==
  /\ caller[c].at = "c_reads_parent"
  /\ LET parent == Active(ParentOf[caller[c].session])
     IN  IF parent = 0 THEN Returns(c)
         ELSE Moves(c, [caller[c] EXCEPT !.at = "c_reads_latest", !.parent = parent])
  /\ UNCHANGED <<policies, base, now>>

(* _intersect_with_parent: no action the parent is not permitted, and no   *)
(* longer life.                                                            *)
Intersected(policy, s) ==
  LET parent == policies[ParentOf[s]][policy.parent]
  IN  IF policy.parent = 0 THEN policy
      ELSE [policy EXCEPT !.scope = @ \intersect parent.scope,
                          !.expires = Least(@, parent.expires)]

Synthesized(s, source, parent) ==
  Intersected([status |-> "pending", source |-> source, scope |-> ScopeOf[source],
               parent |-> parent, base |-> base, expires |-> now + Ttl,
               generator |-> "deterministic", by |-> "nobody"], s)

(* Mutant: the candidate takes the newest revision, not the next.          *)
CaptureTakesLatest(c) ==
  LET s == caller[c].session
      active == caller[c].active
  IN  /\ caller[c].at = "c_reads_latest"
      /\ Len(policies[s]) < MaxRevision
      /\ IF active # 0 /\ policies[s][active].source = caller[c].source
         THEN Returns(c)
         ELSE Moves(c, [caller[c] EXCEPT
                !.at = "c_reads_pending", !.rev = Len(policies[s]),
                !.policy = Synthesized(s, caller[c].source, caller[c].parent),
                !.source = NoPolicy, !.parent = 0])
      /\ UNCHANGED <<policies, base, now>>

(* The candidate is the revision after the newest one read here.  A prompt *)
(* the active policy already answers changes nothing.                      *)
CaptureReadsLatest(c) ==
  LET s == caller[c].session
      active == caller[c].active
  IN  /\ caller[c].at = "c_reads_latest"
      /\ Len(policies[s]) < MaxRevision
      /\ IF active # 0 /\ policies[s][active].source = caller[c].source
         THEN Returns(c)
         ELSE Moves(c, [caller[c] EXCEPT
                !.at = "c_reads_pending", !.rev = Len(policies[s]) + 1,
                !.policy = Synthesized(s, caller[c].source, caller[c].parent),
                !.source = NoPolicy, !.parent = 0])
      /\ UNCHANGED <<policies, base, now>>

(* Mutant: a narrower candidate starts a life of its own.                  *)
CaptureRenewsLife(c) ==
  LET s == caller[c].session
      active == caller[c].active
      policy == caller[c].policy
      pending == Pending(s)
  IN  /\ caller[c].at = "c_reads_pending"
      /\ IF \/ pending # 0 /\ policies[s][pending].source = policy.source
            \/ active # 0 /\ policies[s][active].scope = policy.scope
         THEN Returns(c)
         ELSE Moves(c, [caller[c] EXCEPT
                !.at = "supersedes",
                !.narrows = active # 0 /\ Narrower(policy.scope, policies[s][active].scope)])
      /\ UNCHANGED <<policies, base, now>>

(* A prompt that is pending already, or that changes no permission, makes  *)
(* no revision.  A narrower candidate lives no longer than what it         *)
(* narrows.                                                                *)
CaptureReadsPending(c) ==
  LET s == caller[c].session
      active == caller[c].active
      policy == caller[c].policy
      pending == Pending(s)
      narrows == active # 0 /\ Narrower(policy.scope, policies[s][active].scope)
  IN  /\ caller[c].at = "c_reads_pending"
      /\ IF \/ pending # 0 /\ policies[s][pending].source = policy.source
            \/ active # 0 /\ policies[s][active].scope = policy.scope
         THEN Returns(c)
         ELSE Moves(c, [caller[c] EXCEPT
                !.at = "supersedes", !.narrows = narrows,
                !.policy = IF narrows
                           THEN [policy EXCEPT !.expires =
                                   Least(@, policies[s][active].expires)]
                           ELSE policy])
      /\ UNCHANGED <<policies, base, now>>

(* supersede_pending_task_policies.                                        *)
Supersedes(c) ==
  LET s == caller[c].session
  IN  /\ caller[c].at = "supersedes"
      /\ policies' = [policies EXCEPT ![s] = Ended(@, {"pending"}, "superseded")]
      /\ Goes(c, "records")
      /\ UNCHANGED <<base, now>>

(* Mutant: a revision that is taken is no reason not to insert.            *)
RecordsRegardless(c) ==
  LET s == caller[c].session
  IN  /\ caller[c].at = "records"
      /\ Len(policies[s]) < MaxRevision
      /\ policies' = [policies EXCEPT ![s] = Append(@, caller[c].policy)]
      /\ IF caller[c].narrows THEN Goes(c, "activates") ELSE Returns(c)
      /\ UNCHANGED <<base, now>>

(* record_task_policy: the insert fails if another caller has taken the    *)
(* revision, and the caller with it.                                       *)
Records(c) ==
  LET s == caller[c].session
  IN  /\ caller[c].at = "records"
      /\ IF caller[c].rev \in Revisions(s)
         THEN Returns(c) /\ UNCHANGED policies
         ELSE /\ policies' = [policies EXCEPT ![s] = Append(@, caller[c].policy)]
              /\ IF caller[c].narrows THEN Goes(c, "activates") ELSE Returns(c)
      /\ UNCHANGED <<base, now>>

(* The automatic activation of a narrowing, for the active revision read   *)
(* at the start.                                                           *)
ActivatesNarrowed(c) ==
  LET s == caller[c].session
      r == caller[c].rev
  IN  /\ caller[c].at = "activates"
      /\ IF CanActivate(s, r, caller[c].active)
         THEN Activation(s, r, "guardd")
         ELSE UNCHANGED policies
      /\ Returns(c)
      /\ UNCHANGED <<base, now>>

Capture(c) ==
  \/ \E s \in Sessions, p \in Prompts : CaptureReadsActive(c, s, p)
  \/ CaptureReadsParent(c) \/ CaptureReadsLatest(c) \/ CaptureReadsPending(c)
  \/ Supersedes(c) \/ Records(c) \/ ActivatesNarrowed(c)

-----------------------------------------------------------------------------
(* accept_hybrid_candidate: the generation worker comes back, any time     *)
(* after the capture, with a policy compiled from a deterministic draft.   *)

HybridLockFree ==
  \A c \in Callers : caller[c].at \notin Accepting /\ ~caller[c].hybrid

(* A compiled policy: the model may drop actions of the draft, shorten its *)
(* life, and add tools that only read.                                     *)
Generated(draft, scope, expires) ==
  [draft EXCEPT !.status = "pending", !.by = "nobody", !.generator = "hybrid",
                !.scope = scope, !.expires = expires]

Compiled(draft) ==
  {Generated(draft, scope, expires) :
     scope \in SUBSET (draft.scope \union ReadOnly),
     expires \in {draft.expires, Least(draft.expires, now + 1)}}

(* A policy that capture activated by itself was never queued.             *)
HybridStarts(c, s, d) ==
  /\ Hybrid /\ HybridLockFree
  /\ caller[c].at = "idle"
  /\ policies[s][d].generator = "deterministic" /\ policies[s][d].by # "guardd"
  /\ policies[s][d].base = base
  /\ \E policy \in Compiled(policies[s][d]) :
       Moves(c, [Idle EXCEPT !.at = "h_reads_active", !.session = s, !.policy = policy,
                             !.hybrid = TRUE])
  /\ UNCHANGED <<policies, base, now>>

HybridReadsActive(c) ==
  /\ caller[c].at = "h_reads_active"
  /\ Moves(c, [caller[c] EXCEPT !.at = "h_reads_pending", !.active = Active(caller[c].session)])
  /\ UNCHANGED <<policies, base, now>>

(* The policy is dropped if another prompt is active, or pending while     *)
(* nothing is active.                                                      *)
HybridReadsPending(c) ==
  LET s == caller[c].session
      active == caller[c].active
      current == IF active # 0 THEN active ELSE Pending(s)
  IN  /\ caller[c].at = "h_reads_pending"
      /\ IF current # 0 /\ policies[s][current].source # caller[c].policy.source
         THEN Returns(c)
         ELSE Goes(c, "h_reads_latest")
      /\ UNCHANGED <<policies, base, now>>

(* What is left once the candidate is complete: nothing if no permission   *)
(* changes, else to replace what is pending.                               *)
HybridDecides(c, policy, rev) ==
  LET active == caller[c].active
      granted == policies[caller[c].session][active].scope
  IN  IF active # 0 /\ granted = policy.scope
      THEN Returns(c)
      ELSE Moves(c, [caller[c] EXCEPT
             !.at = "supersedes", !.rev = rev, !.policy = policy,
             !.narrows = active # 0 /\ Narrower(policy.scope, granted)])

HybridReadsLatest(c) ==
  LET s == caller[c].session
      rev == Len(policies[s]) + 1
  IN  /\ caller[c].at = "h_reads_latest"
      /\ Len(policies[s]) < MaxRevision
      /\ IF caller[c].policy.parent # 0
         THEN Moves(c, [caller[c] EXCEPT !.at = "h_reads_parent", !.rev = rev])
         ELSE HybridDecides(c, caller[c].policy, rev)
      /\ UNCHANGED <<policies, base, now>>

(* Mutant: what the model adds is not held against the parent.             *)
HybridKeepsScope(c) ==
  LET s == caller[c].session
      policy == caller[c].policy
  IN  /\ caller[c].at = "h_reads_parent"
      /\ IF Active(ParentOf[s]) = policy.parent
         THEN HybridDecides(c, policy, caller[c].rev)
         ELSE Returns(c)
      /\ UNCHANGED <<policies, base, now>>

(* The parent policy must be the one the draft was made under.             *)
HybridReadsParent(c) ==
  LET s == caller[c].session
      policy == caller[c].policy
  IN  /\ caller[c].at = "h_reads_parent"
      /\ IF Active(ParentOf[s]) = policy.parent
         THEN HybridDecides(c, Intersected(policy, s), caller[c].rev)
         ELSE Returns(c)
      /\ UNCHANGED <<policies, base, now>>

AcceptHybridCandidate(c) ==
  \/ \E s \in Sessions : \E d \in Revisions(s) : HybridStarts(c, s, d)
  \/ HybridReadsActive(c) \/ HybridReadsPending(c)
  \/ HybridReadsLatest(c) \/ HybridReadsParent(c)

-----------------------------------------------------------------------------
(* revise_content: the operator adds a skill or an MCP tool to the active  *)
(* policy, which needs a confirmation of its own.                          *)

ReviseReadsActive(c, s, x) ==
  /\ caller[c].at = "idle"
  /\ Active(s) # 0
  /\ Moves(c, [Idle EXCEPT
       !.at = "r_reads_latest", !.session = s,
       !.policy = [policies[s][Active(s)] EXCEPT
                     !.status = "pending", !.by = "nobody", !.scope = @ \union {x}]])
  /\ UNCHANGED <<policies, base, now>>

ReviseReadsLatest(c) ==
  LET s == caller[c].session
  IN  /\ caller[c].at = "r_reads_latest"
      /\ Len(policies[s]) < MaxRevision
      /\ Moves(c, [caller[c] EXCEPT !.at = "supersedes", !.rev = Len(policies[s]) + 1])
      /\ UNCHANGED <<policies, base, now>>

ReviseContent(c) ==
  \/ \E s \in Sessions, x \in Content : ReviseReadsActive(c, s, x)
  \/ ReviseReadsLatest(c)

-----------------------------------------------------------------------------
(* close: the session's policies, then those of its children, in two       *)
(* transactions.                                                           *)

Children(s) == {k \in Sessions : ParentOf[k] = s}

ClosesSession(c, s) ==
  /\ caller[c].at = "idle"
  /\ policies' = [policies EXCEPT ![s] = Ended(@, Open, "closed")]
  /\ Moves(c, [Idle EXCEPT !.at = "closes_children", !.session = s])
  /\ UNCHANGED <<base, now>>

ClosesChildren(c) ==
  /\ caller[c].at = "closes_children"
  /\ policies' = [k \in Sessions |->
       IF k \in Children(caller[c].session) THEN Ended(policies[k], Open, "closed")
       ELSE policies[k]]
  /\ Returns(c)
  /\ UNCHANGED <<base, now>>

CloseSession(c) ==
  \/ \E s \in Sessions : ClosesSession(c, s)
  \/ ClosesChildren(c)

-----------------------------------------------------------------------------
(* The operator's decisions on a candidate: one transaction each.  An      *)
(* activation that expects another active revision changes nothing.        *)

OperatorActivates(s, r) ==
  /\ CanActivate(s, r, Active(s))
  /\ Activation(s, r, "operator")
  /\ UNCHANGED <<base, now, caller>>

OperatorRejects(s, r) ==
  /\ policies[s][r].status = "pending"
  /\ policies' = [policies EXCEPT ![s][r].status = "rejected"]
  /\ UNCHANGED <<base, now, caller>>

-----------------------------------------------------------------------------
(* evaluate: may a session make this call?  decide runs it under           *)
(* _policy_lock; what it reads may change between two reads.  A caller is  *)
(* at "allowed" from the answer to the release of the lock.  Every other   *)
(* answer refuses, and is not told apart.                                  *)

PolicyLockFree == \A c \in Callers : caller[c].at \notin Evaluating

EvaluateReadsActive(c, s, x) ==
  /\ PolicyLockFree
  /\ caller[c].at = "idle"
  /\ Moves(c, [Idle EXCEPT !.at = "reads_pending", !.session = s, !.call = x,
                           !.active = Active(s)])
  /\ UNCHANGED <<policies, base, now>>

(* A candidate newer than the active policy pauses the session.            *)
EvaluateReadsPending(c) ==
  LET s == caller[c].session
  IN  /\ caller[c].at = "reads_pending"
      /\ IF Pending(s) > caller[c].active THEN Returns(c)
         ELSE IF caller[c].active # 0 THEN Goes(c, "checks_clock")
         ELSE IF ParentOf[s] # NoSession THEN Goes(c, "inherits")
         ELSE Returns(c)
      /\ UNCHANGED <<policies, base, now>>

(* A child without a policy of its own gets what its parent may read.      *)
EvaluateInherits(c) ==
  LET parent == Active(ParentOf[caller[c].session])
  IN  /\ caller[c].at = "inherits"
      /\ IF parent = 0 THEN Returns(c)
         ELSE Moves(c, [caller[c] EXCEPT !.at = "checks_clock", !.active = parent,
                                         !.inherited = TRUE])
      /\ UNCHANGED <<policies, base, now>>

(* The session whose row is evaluated, and the row.                        *)
Holder(c) == IF caller[c].inherited THEN ParentOf[caller[c].session] ELSE caller[c].session
Governing(c) == policies[Holder(c)][caller[c].active]

(* The revision that must be active in the parent session, 0 if none.      *)
BoundTo(c) == IF caller[c].inherited THEN caller[c].active ELSE Governing(c).parent

InScope(c) ==
  /\ caller[c].call \in Governing(c).scope
  /\ caller[c].inherited => caller[c].call \in ReadOnly

Judges(c) == IF InScope(c) THEN Goes(c, "allowed") ELSE Returns(c)

EvaluateChecksClock(c) ==
  /\ caller[c].at = "checks_clock"
  /\ IF Governing(c).expires <= now THEN Goes(c, "expires")
     ELSE IF Governing(c).base # base THEN Returns(c)
     ELSE IF BoundTo(c) # 0 THEN Goes(c, "checks_parent")
     ELSE Judges(c)
  /\ UNCHANGED <<policies, base, now>>

(* Mutant: whatever has become of the row, it expires.                     *)
EvaluateExpiresAny(c) ==
  /\ caller[c].at = "expires"
  /\ policies' = [policies EXCEPT ![Holder(c)][caller[c].active].status = "expired"]
  /\ Returns(c)
  /\ UNCHANGED <<base, now>>

(* expire_task_policy: only a row that is still active.                    *)
EvaluateExpires(c) ==
  /\ caller[c].at = "expires"
  /\ policies' = [policies EXCEPT ![Holder(c)][caller[c].active].status =
                    IF @ = "active" THEN "expired" ELSE @]
  /\ Returns(c)
  /\ UNCHANGED <<base, now>>

EvaluateChecksParent(c) ==
  /\ caller[c].at = "checks_parent"
  /\ IF Active(ParentOf[caller[c].session]) = BoundTo(c) THEN Judges(c) ELSE Returns(c)
  /\ UNCHANGED <<policies, base, now>>

EvaluateAnswers(c) ==
  /\ caller[c].at = "allowed"
  /\ Returns(c)
  /\ UNCHANGED <<policies, base, now>>

Evaluate(c) ==
  \/ \E s \in Sessions, x \in Calls : EvaluateReadsActive(c, s, x)
  \/ EvaluateReadsPending(c) \/ EvaluateInherits(c) \/ EvaluateChecksClock(c)
  \/ EvaluateExpires(c) \/ EvaluateChecksParent(c) \/ EvaluateAnswers(c)

-----------------------------------------------------------------------------
(* Mutant: publication does not wait for the evaluation.                   *)
BasePublishedAnytime ==
  /\ base' \in Bases
  /\ UNCHANGED <<policies, now, caller>>

(* update_base_policy_digest: publication and reload hold _policy_lock.    *)
BasePublished ==
  /\ PolicyLockFree
  /\ base' \in Bases
  /\ UNCHANGED <<policies, now, caller>>

Tick ==
  /\ now < MaxNow
  /\ now' = now + 1
  /\ UNCHANGED <<policies, base, caller>>

(* Callers live in the process; the table and the published policy do not. *)
Restart ==
  /\ Crashes
  /\ caller' = [c \in Callers |-> Idle]
  /\ UNCHANGED <<policies, base, now>>

Next ==
  \/ \E c \in Callers :
       Capture(c) \/ AcceptHybridCandidate(c) \/ ReviseContent(c) \/ CloseSession(c) \/ Evaluate(c)
  \/ \E s \in Sessions : \E r \in Revisions(s) : OperatorActivates(s, r) \/ OperatorRejects(s, r)
  \/ BasePublished \/ Tick \/ Restart

Spec == Init /\ [][Next]_vars

-----------------------------------------------------------------------------
(* Properties.                                                             *)

(* Every variable has its type, and what a caller holds fits the table:    *)
(* the revision it is about to write is the next one or one that another   *)
(* caller has taken since.                                                 *)
TypeOK ==
  /\ policies \in [Sessions -> Seq(Policy)]
  /\ base \in Bases
  /\ now \in Nat
  /\ caller \in [Callers -> CallerType]
  /\ \A c \in Callers : caller[c].at \in Writing =>
       caller[c].rev \in 1..(Len(policies[caller[c].session]) + 1)

(* Only the newest revision of a session can wait for a confirmation, so   *)
(* at most one does and it always outranks the active one.  Nothing locks  *)
(* a session between max(revision), the UPDATE that supersedes and the     *)
(* INSERT: this rests on their order and on UNIQUE(session_key, revision). *)
PendingIsNewest ==
  \A s \in Sessions : \A r \in Revisions(s) :
    policies[s][r].status = "pending" => r = Len(policies[s])

(* A session has at most one active revision, whoever activates.           *)
OneActive ==
  \A s \in Sessions : \A q, r \in Revisions(s) :
    policies[s][q].status = "active" /\ policies[s][r].status = "active" => q = r

(* A decided revision keeps its outcome: no expiry, close, rejection or    *)
(* late activation touches a row that is no longer open.                   *)
DecidedIsFinal ==
  [][\A s \in Sessions : \A r \in Revisions(s) :
       policies[s][r].status \notin Open => policies'[s][r] = policies[s][r]]_vars

(* What guardd activates by itself in a session in one step.               *)
AutoActivated(s) ==
  {r \in DOMAIN policies'[s] :
     /\ policies'[s][r].status = "active" /\ policies'[s][r].by = "guardd"
     /\ r \in Revisions(s) => policies[s][r].status # "active"}

(* Without an operator a session is only ever given less: a revision that  *)
(* guardd activates takes the place of an active one that permits strictly *)
(* more, however many writers were at work since it was read.              *)
OnlyOperatorsWiden ==
  [][\A s \in Sessions : \A r \in AutoActivated(s) : \E q \in Revisions(s) :
       /\ policies[s][q].status = "active" /\ policies'[s][q].status = "superseded"
       /\ Narrower(policies'[s][r].scope, policies[s][q].scope)]_vars

(* ... and it never lives longer than the one it replaces.                 *)
NarrowingKeepsExpiry ==
  [][\A s \in Sessions : \A r \in AutoActivated(s) : \E q \in Revisions(s) :
       /\ policies[s][q].status = "active" /\ policies'[s][q].status = "superseded"
       /\ policies'[s][r].expires <= policies[s][q].expires]_vars

(* A child's policy permits nothing its parent's, as bound by its digest,  *)
(* does not.                                                               *)
ChildWithinParent ==
  \A s \in Sessions : \A r \in Revisions(s) :
    policies[s][r].parent # 0 =>
      policies[s][r].scope \subseteq policies[ParentOf[s]][policies[s][r].parent].scope

(* A call is allowed only under a policy made for the base policy that is  *)
(* in force when the answer is given.                                      *)
AllowUnderCurrentBase ==
  \A c \in Callers : caller[c].at = "allowed" => Governing(c).base = base

(* Whatever is allowed, in a child or by a policy that guardd activated or *)
(* a model compiled, an operator once confirmed for the session it is      *)
(* taken from.                                                             *)
AllowedWasConfirmed ==
  \A c \in Callers : caller[c].at = "allowed" =>
    \E r \in Revisions(Holder(c)) :
      /\ r <= caller[c].active
      /\ policies[Holder(c)][r].by = "operator"
      /\ caller[c].call \in policies[Holder(c)][r].scope

(* The promise of SessionGrant, kept by the table.                         *)
ScopesOf(s, status) ==
  {policies[s][r].scope : r \in {q \in Revisions(s) : policies[s][q].status = status}}

Granting == INSTANCE SessionGrant WITH
  made <- [s \in Sessions |-> Len(policies[s])],
  waiting <- [s \in Sessions |-> ScopesOf(s, "pending")],
  granted <- [s \in Sessions |-> ScopesOf(s, "active")],
  confirmed <- [s \in Sessions |-> {r \in Revisions(s) : policies[s][r].by = "operator"}]

(* For the operator a session has one candidate and one grant, confirmed   *)
(* or narrowed, however many callers write its revisions.                  *)
ImplementsGrant == Granting!GrantSpec
=============================================================================
