-------------------------- MODULE PluginHooksProofs --------------------------
(***************************************************************************)
(* Proofs about PluginHooks, for any number of hooks, any guardd decisions *)
(* and any values: what runs runs by somebody's leave, what is shown is    *)
(* shown by plan, and what guardd records is what happened.                *)
(***************************************************************************)
EXTENDS PluginHooks, PluginDecisionProofs, GuardClientProofs

-----------------------------------------------------------------------------
(* One hook: why it is where it is, given guardd's ruling on it.           *)

Waits == Awaiting \union {"idle"}
HasAct == {"tool", "message"}

(* A hook that has nothing yet but what it is about.                       *)
Seed(x) ==
  /\ x \in HookType
  /\ x.answer = NoAnswer /\ x.by = "none" /\ x.view = "none"
  /\ x.kind \in HasAct => x.act \in Acts

KindAt(x) ==
  CASE x.at = "asking" -> x.kind \in {"tool", "message", "run", "install"}
    [] x.at = "inspecting" -> x.kind \in {"tool", "install"}
    [] x.at = "capturing" -> x.kind = "run"
    [] x.at \in {"negotiating", "scanning"} -> x.kind = "gateway"
    [] x.at \in {"dialog", "running", "ran"} -> x.kind = "tool" /\ x.act \in Acts
    [] x.at \in {"idle", "passed", "blocked"} -> TRUE

(* Who let a tool run.                                                     *)
Permitted(by, answer, r) ==
  /\ by # "none"
  /\ by = "guardd" => r \in {"ALLOW", "OBSERVE"}
  /\ answer # NoAnswer =>
       /\ answer.pending = "none"
       /\ answer.decision # "DENY"
       /\ answer.decision = "REQUIRE_APPROVAL" => by = "operator"

Passed(x, r, enforce, watch) ==
  LET permitted == x.by = "guardd" /\ r \in {"ALLOW", "OBSERVE"}
  IN /\ x.kind = "message" => permitted /\ ~(enforce /\ Classes(x.act) # {})
     /\ x.kind = "run" /\ watch /\ x.suspicious => permitted
     /\ x.kind = "install" => x.by = "guardd" /\ r \in Kinds \ {"DENY"}

Justified(x, r, enforce, watch) ==
  /\ KindAt(x)
  /\ x.at \in Waits => Seed(x) /\ r = "none"
  /\ x.at = "dialog" =>
       /\ x.by = "none"
       /\ x.answer # NoAnswer =>
            x.answer.pending = "none" /\ x.answer.decision = "REQUIRE_APPROVAL"
  /\ x.kind = "tool" /\ x.at \in {"running", "ran", "passed"} => Permitted(x.by, x.answer, r)
  /\ enforce /\ x.at \in {"dialog", "running", "ran"} /\ Shown(x.act, x.view) # {} =>
       x.answer # NoAnswer /\ Preserves(x.answer, Classes(x.act))
  /\ x.at = "passed" => Passed(x, r, enforce, watch)

(* What later steps of a hook keep.                                        *)
Grows(x, y) ==
  /\ x.by = "operator" => y.by = "operator"
  /\ x.at = "blocked" => y.at = "blocked"
  /\ x.kind = "tool" /\ x.at \in {"ran", "passed"} => y.kind = "tool" /\ y.at \in {"ran", "passed"}

-----------------------------------------------------------------------------
(* What a hook does until its next await.                                  *)

Fine(next, c, r, enforce, watch) ==
  /\ ClientOK(next.client)
  /\ Contents(next.client) \subseteq Contents(c)
  /\ next.hook \in HookType
  /\ Justified(next.hook, r, enforce, watch)

LEMMA BlocksFine ==
  ASSUME NEW c, ClientOK(c), NEW x \in HookType, NEW r, NEW enforce, NEW watch
  PROVE  Fine(Blocks(c, x), c, r, enforce, watch) /\ Blocks(c, x).hook.at = "blocked"
<1> DEFINE y == [Idle EXCEPT !.kind = x.kind, !.at = "blocked"]
<1>1. y \in HookType /\ y.at = "blocked"
  BY DEF HookType, Idle, Stage
<1>2. Justified(y, r, enforce, watch)
  BY <1>1 DEF Justified, KindAt, Waits, Awaiting
<1>. QED
  BY <1>1, <1>2 DEF Blocks, Leaves, Fine

LEMMA AwaitsFine ==
  ASSUME NEW c, ClientOK(c), GuarddOK, NEW x, Seed(x), NEW at \in Awaiting, NEW enforce, NEW watch,
         KindAt([x EXCEPT !.at = at])
  PROVE  Fine(Awaits(c, x, at), c, "none", enforce, watch) /\ Awaits(c, x, at).hook.at = at
<1> DEFINE y == [x EXCEPT !.at = at, !.bearer = Bearer(c)]
<1>1. ClientOK(Sends(c)) /\ Contents(Sends(c)) = Contents(c) /\ Bearer(c) \in Tokens
  BY SendsKeeps, BearerIsToken DEF ClientOK
<1>2. /\ y \in HookType /\ y.at = at /\ y.kind = x.kind /\ y.act = x.act
      /\ y.answer = x.answer /\ y.by = x.by /\ y.view = x.view
  BY <1>1 DEF Seed, HookType, Stage
<1>3. Seed(y)
  BY <1>2 DEF Seed
<1>4. KindAt(y)
  <2>1. [x EXCEPT !.at = at].at = at /\ [x EXCEPT !.at = at].kind = x.kind
        /\ [x EXCEPT !.at = at].act = x.act
    BY DEF Seed, HookType
  <2>. QED
    BY <1>2, <2>1 DEF KindAt
<1>5. Justified(y, "none", enforce, watch)
  BY <1>2, <1>3, <1>4 DEF Justified, Awaiting
<1>. QED
  BY <1>1, <1>2, <1>5 DEF Awaits, Leaves, Fine

LEMMA RunsFine ==
  ASSUME NEW c, ClientOK(c), NEW x \in HookType, x.kind = "tool", x.act \in Acts,
         NEW view \in {"none", "host", "raw", "clean", "service"},
         NEW by \in {"guardd", "operator", "allowlist"}, NEW r, NEW enforce, NEW watch,
         Permitted(by, x.answer, r),
         enforce /\ Shown(x.act, view) # {} =>
           x.answer # NoAnswer /\ Preserves(x.answer, Classes(x.act))
  PROVE  /\ Fine(Runs(c, x, view, by), c, r, enforce, watch)
         /\ Runs(c, x, view, by).hook.at = "running" /\ Runs(c, x, view, by).hook.by = by
<1> DEFINE y == [[x EXCEPT !.view = view, !.by = by] EXCEPT !.at = "running", !.bearer = NoToken]
<1>1. /\ y \in HookType /\ y.at = "running" /\ y.kind = "tool" /\ y.act = x.act
      /\ y.answer = x.answer /\ y.by = by /\ y.view = view
  BY DEF HookType, Stage
<1>2. Justified(y, r, enforce, watch)
  BY <1>1 DEF Justified, KindAt, Waits, Awaiting
<1>. QED
  BY <1>1, <1>2 DEF Runs, Ends, Leaves, Fine

LEMMA DialogFine ==
  ASSUME NEW c, ClientOK(c), NEW x \in HookType, x.kind = "tool", x.act \in Acts, x.by = "none",
         NEW view \in {"host", "raw", "clean", "service"}, NEW r, NEW enforce, NEW watch,
         x.answer # NoAnswer =>
           x.answer.pending = "none" /\ x.answer.decision = "REQUIRE_APPROVAL",
         enforce /\ Shown(x.act, view) # {} =>
           x.answer # NoAnswer /\ Preserves(x.answer, Classes(x.act))
  PROVE  Fine(Ends(c, [x EXCEPT !.view = view], "dialog"), c, r, enforce, watch)
<1> DEFINE y == [[x EXCEPT !.view = view] EXCEPT !.at = "dialog", !.bearer = NoToken]
<1>1. /\ y \in HookType /\ y.at = "dialog" /\ y.kind = "tool" /\ y.act = x.act
      /\ y.answer = x.answer /\ y.by = "none" /\ y.view = view
  BY DEF HookType, Stage
<1>2. Justified(y, r, enforce, watch)
  BY <1>1 DEF Justified, KindAt, Waits, Awaiting
<1>. QED
  BY <1>1, <1>2 DEF Ends, Leaves, Fine

(* The view that is left to a call without an answer shows no secret.      *)
LEMMA HostViewShows ==
  ASSUME NEW act \in Acts, Classes(act) = {}
  PROVE  Shown(act, "host") = {}
BY ExposedIsClassified DEF Shown, Classes

LEMMA UnansweredFine ==
  ASSUME NEW c, ClientOK(c), NEW x, Seed(x), NEW r, x.kind # "gateway"
  PROVE  Fine(Unanswered(c, x), c, r, Enforcing, Watchful)
<1>1. x \in HookType
  BY DEF Seed
<1>2. CASE x.kind # "tool" \/ Guarded(x)
  BY <1>1, <1>2, BlocksFine DEF Unanswered
<1>3. CASE ~(x.kind # "tool" \/ Guarded(x))
  <2>1. x.act \in Acts /\ x.kind = "tool"
    BY <1>3 DEF Seed, HasAct
  <2>2. Enforcing /\ Shown(x.act, "host") # {} =>
          x.answer # NoAnswer /\ Preserves(x.answer, Classes(x.act))
    BY <1>3, <2>1, HostViewShows DEF Guarded
  <2>3. CASE EmergencyDecision(x.act) = "allow"
    <3>1. Permitted("allowlist", x.answer, r)
      BY DEF Permitted, Seed
    <3>. QED
      BY <1>1, <1>3, <2>1, <2>2, <2>3, <3>1, RunsFine DEF Unanswered, Emergency
  <2>4. CASE EmergencyDecision(x.act) = "approval"
    BY <1>1, <1>3, <2>1, <2>2, <2>4, DialogFine DEF Unanswered, Emergency, Seed
  <2>5. CASE EmergencyDecision(x.act) = "deny"
    BY <1>1, <1>3, <2>5, BlocksFine DEF Unanswered, Emergency
  <2>. QED
    BY <2>3, <2>4, <2>5 DEF EmergencyDecision
<1>. QED
  BY <1>2, <1>3

Asking == {"tool", "message", "run", "install"}

LEMMA AskFine ==
  ASSUME NEW c, ClientOK(c), GuarddOK, NEW x, Seed(x), x.kind \in Asking
  PROVE  /\ Fine(Ask(c, x), c, "none", Enforcing, Watchful)
         /\ ~(Enforcing /\ c.unfit) /\ ~c.waiting => Ask(c, x).hook.at = "asking"
<1>1. CASE (Enforcing /\ c.unfit) \/ c.waiting
  BY <1>1, UnansweredFine DEF Ask, Asking
<1>2. CASE ~((Enforcing /\ c.unfit) \/ c.waiting)
  <2>1. [x EXCEPT !.at = "asking"].at = "asking" /\ [x EXCEPT !.at = "asking"].kind = x.kind
    BY DEF Seed, HookType
  <2>2. KindAt([x EXCEPT !.at = "asking"])
    BY <2>1 DEF KindAt, Asking
  <2>. QED
    BY <1>2, <2>2, AwaitsFine DEF Ask, Awaiting
<1>. QED
  BY <1>1, <1>2

LEMMA ToolDecidedFine ==
  ASSUME NEW c, ClientOK(c), NEW x, Seed(x), x.kind = "tool", NEW d \in Decisions
  PROVE  Fine(ToolDecided(c, x, d), c, d.decision, Enforcing, Watchful)
<1> DEFINE view == ExecutionView(d, Classes(x.act), Enforcing)
           y == [x EXCEPT !.answer = d]
<1>1. x \in HookType /\ x.act \in Acts /\ x.by = "none"
  BY DEF Seed, HasAct
<1>2. d \in GuardDecision /\ d # NoAnswer /\ x.act \in Act /\ Enforcing \in BOOLEAN
  BY <1>1, HooksAssumption DEF Enforcing
<1>3. /\ y \in HookType /\ y.kind = "tool" /\ y.act = x.act /\ y.answer = d /\ y.by = "none"
  BY <1>1, <1>2 DEF HookType
<1>4. view \in {"host", "raw", "clean", "service", "blocked"}
  BY <1>2, ViewIsView
<1>5. view # "blocked" /\ Enforcing /\ Shown(x.act, view) # {} => Preserves(d, Classes(x.act))
  BY <1>2, ShownIsPreserved
<1>6. d.decision \in Kinds
  BY <1>2 DEF GuardDecision
<1> HIDE DEF view, y
<1>7. CASE d.decision = "DENY" \/ d.pending # "none" \/ view = "blocked"
  <2>1. ToolDecided(c, x, d) = Blocks(c, y)
    BY <1>7 DEF ToolDecided, view, y
  <2>. QED
    BY <1>3, <2>1, BlocksFine
<1>8. CASE ~(d.decision = "DENY" \/ d.pending # "none" \/ view = "blocked")
  <2>a. /\ view \in {"host", "raw", "clean", "service"}
        /\ y.act \in Acts /\ d.pending = "none"
        /\ Enforcing /\ Shown(y.act, view) # {} =>
             y.answer # NoAnswer /\ Preserves(y.answer, Classes(y.act))
    BY <1>1, <1>2, <1>3, <1>4, <1>5, <1>8
  <2>1. CASE d.decision = "REQUIRE_APPROVAL"
    <3>1. ToolDecided(c, x, d) = Ends(c, [y EXCEPT !.view = view], "dialog")
      BY <1>8, <2>1 DEF ToolDecided, view, y
    <3>2. y.answer # NoAnswer =>
            y.answer.pending = "none" /\ y.answer.decision = "REQUIRE_APPROVAL"
      BY <1>3, <2>a, <2>1
    <3>3. Fine(Ends(c, [y EXCEPT !.view = view], "dialog"), c, d.decision, Enforcing, Watchful)
      BY <1>3, <2>a, <3>2, DialogFine
    <3>. QED
      BY <3>1, <3>3
  <2>2. CASE d.decision # "REQUIRE_APPROVAL"
    <3>1. ToolDecided(c, x, d) = Runs(c, y, view, "guardd")
      BY <1>8, <2>2 DEF ToolDecided, view, y
    <3>2. Permitted("guardd", y.answer, d.decision)
      BY <1>3, <1>6, <1>8, <2>2 DEF Permitted, Kinds
    <3>3. Fine(Runs(c, y, view, "guardd"), c, d.decision, Enforcing, Watchful)
      BY <1>3, <2>a, <3>2, RunsFine
    <3>. QED
      BY <3>1, <3>3
  <2>. QED
    BY <2>1, <2>2
<1>. QED
  BY <1>7, <1>8

LEMMA DecidedFine ==
  ASSUME NEW c, ClientOK(c), NEW x, Seed(x), x.kind \in Asking, NEW d \in Decisions
  PROVE  Fine(Decided(c, x, d), c, d.decision, Enforcing, Watchful)
<1>1. x \in HookType /\ d \in GuardDecision
  BY HooksAssumption DEF Seed
<1>2. CASE x.kind = "tool"
  BY <1>2, ToolDecidedFine DEF Decided
<1>3. CASE x.kind # "tool" /\ Refused(x, d)
  BY <1>1, <1>3, BlocksFine DEF Decided
<1>4. CASE x.kind # "tool" /\ ~Refused(x, d)
  <2> DEFINE y == [[x EXCEPT !.by = "guardd"] EXCEPT !.at = "passed", !.bearer = NoToken]
  <2>1. Decided(c, x, d) = [client |-> c, hook |-> y]
    BY <1>4 DEF Decided, Ends, Leaves
  <2>2. y \in HookType /\ y.at = "passed" /\ y.kind = x.kind /\ y.act = x.act /\ y.by = "guardd"
    BY <1>1 DEF HookType, Stage
  <2>3. d.decision \in Kinds
    BY <1>1 DEF GuardDecision
  <2>4. Passed(y, d.decision, Enforcing, Watchful)
    BY <1>4, <2>2, <2>3 DEF Passed, Refused, Guarded, Kinds, Asking
  <2>5. Justified(y, d.decision, Enforcing, Watchful)
    BY <1>4, <2>2, <2>4 DEF Justified, KindAt, Waits, Awaiting
  <2> HIDE DEF y
  <2>. QED
    BY <2>1, <2>2, <2>5 DEF Fine
<1>. QED
  BY <1>2, <1>3, <1>4
-----------------------------------------------------------------------------
(* The inductive invariant: every hook is where it is for a reason, what   *)
(* the client has in hand is true of the hooks, and so is what guardd made *)
(* of it.                                                                  *)

Enters(x) == x.kind = "tool" /\ x.at \in {"ran", "passed"}

Backed(job, x) ==
  /\ job.kind = "approval" /\ job.good => x.by = "operator"
  /\ job.kind = "approval" /\ ~job.good => x.at = "blocked"
  /\ job.kind = "result" => Enters(x)

Recorded(x, status, who, result) ==
  /\ who = "openclaw" /\ status = "allowed_once" => x.by = "operator"
  /\ who = "openclaw" /\ status = "denied" => x.at = "blocked"
  /\ result # "none" => Enters(x)

ConfigOK == config \in Configs

StoredOK ==
  /\ startupError \in BOOLEAN
  /\ tracked \in Seq(Calls) /\ Len(tracked) <= MaxTracked
  /\ memory \in [Calls -> Message \union {NoMessage, Removed}]
  /\ MemoryIsClean

HooksOK ==
  /\ hooks \in [Calls -> HookType]
  /\ ruling \in [Calls -> Kinds \union {"none"}]
  /\ \A h \in Calls : Justified(hooks[h], ruling[h], Enforcing, Watchful)

LedgerOK ==
  /\ ticket \in [Calls -> TicketStatus]
  /\ operator \in [Calls -> Operator]
  /\ report \in [Calls -> {"none", "success", "error"}]
  /\ \A h \in Calls : Recorded(hooks[h], ticket[h], operator[h], report[h])

JobsOK ==
  \A job \in Contents(client) : job.kind # "note" => Backed(job, hooks[job.of])

IInv ==
  /\ ClientOK(client) /\ GuarddOK /\ ConfigOK
  /\ StoredOK /\ HooksOK /\ LedgerOK /\ JobsOK

LEMMA JobIsOfCall ==
  ASSUME NEW job \in Job, job.kind # "note"
  PROVE  job.of \in Calls
BY DEF Job

LEMMA GrowthKeeps ==
  ASSUME NEW x, NEW y, Grows(x, y)
  PROVE  /\ \A job : Backed(job, x) => Backed(job, y)
         /\ \A s, w, r : Recorded(x, s, w, r) => Recorded(y, s, w, r)
BY DEF Grows, Backed, Recorded, Enters

(* A hook that waits for nothing but an answer can go anywhere.            *)
LEMMA WaitsGrow ==
  ASSUME NEW x, NEW y, x.at \in Waits, Seed(x)
  PROVE  Grows(x, y)
BY DEF Waits, Awaiting, Seed, Grows

(* What a client takes on while hook h becomes y.                          *)
Gains(c, d, h, y) ==
  \A job \in Contents(d) : job \in Contents(c) \/ job.kind = "note" \/ (job.of = h /\ Backed(job, y))

Grants(h, r) ==
  /\ ruling' \in [Calls -> Kinds \union {"none"}]
  /\ ruling'[h] = r
  /\ \A k \in Calls \ {h} : ruling'[k] = ruling[k]
  /\ ticket' = ticket \/ ticket' = [ticket EXCEPT ![h] = "pending"]
  /\ UNCHANGED <<guardd, operator, report, config>>

LEMMA HookStep ==
  ASSUME IInv, NEW h \in Calls, NEW y \in HookType, NEW r,
         hooks' = [hooks EXCEPT ![h] = y], Grows(hooks[h], y), Justified(y, r, Enforcing, Watchful),
         Grants(h, r), StoredOK', ClientOK(client'), Gains(client, client', h, y)
  PROVE  IInv'
<1>1. /\ hooks' \in [Calls -> HookType]
      /\ hooks'[h] = y /\ \A k \in Calls \ {h} : hooks'[k] = hooks[k]
  BY DEF IInv, HooksOK
<1>2. Enforcing' = Enforcing /\ Watchful' = Watchful /\ GuarddOK' /\ ConfigOK'
  BY DEF Grants, Enforcing, Watchful, IInv, GuarddOK, ConfigOK
<1>3. \A k \in Calls : Justified(hooks'[k], ruling'[k], Enforcing, Watchful)
  <2>. TAKE k \in Calls
  <2>1. CASE k = h
    BY <1>1, <2>1 DEF Grants
  <2>2. CASE k # h
    BY <1>1, <2>2 DEF Grants, IInv, HooksOK
  <2>. QED
    BY <2>1, <2>2
<1>4. HooksOK'
  BY <1>1, <1>2, <1>3 DEF HooksOK, Grants
<1>5. /\ ticket' \in [Calls -> TicketStatus]
      /\ \A k \in Calls : ticket'[k] = ticket[k] \/ ticket'[k] = "pending"
  BY DEF Grants, IInv, LedgerOK, TicketStatus
<1>6. \A k \in Calls : Recorded(hooks'[k], ticket'[k], operator'[k], report'[k])
  <2>. TAKE k \in Calls
  <2>1. Recorded(hooks[k], ticket[k], operator[k], report[k])
    BY DEF IInv, LedgerOK
  <2>2. Recorded(hooks'[k], ticket[k], operator[k], report[k])
    <3>1. CASE k = h
      BY <1>1, <2>1, <3>1, GrowthKeeps
    <3>2. CASE k # h
      BY <1>1, <2>1, <3>2
    <3>. QED
      BY <3>1, <3>2
  <2>. QED
    BY <1>5, <2>2 DEF Recorded, Grants
<1>7. LedgerOK'
  BY <1>5, <1>6 DEF LedgerOK, Grants, IInv
<1>8. \A job \in Contents(client') : job.kind # "note" => Backed(job, hooks'[job.of])
  <2>. TAKE job \in Contents(client')
  <2>. HAVE job.kind # "note"
  <2>1. job \in Job /\ job.of \in Calls
    BY JobIsOfCall DEF Contents
  <2>2. CASE job \in Contents(client)
    <3>1. Backed(job, hooks[job.of])
      BY <2>2 DEF IInv, JobsOK
    <3>2. CASE job.of = h
      BY <1>1, <3>1, <3>2, GrowthKeeps
    <3>3. CASE job.of # h
      BY <1>1, <2>1, <3>1, <3>3
    <3>. QED
      BY <3>2, <3>3
  <2>3. CASE job.of = h /\ Backed(job, y)
    BY <1>1, <2>3
  <2>. QED
    BY <2>2, <2>3 DEF Gains
<1>9. JobsOK'
  BY <1>8 DEF JobsOK, Contents, Underway
<1>10. ClientOK(client)'
  BY DEF ClientOK
<1>. QED
  BY <1>2, <1>4, <1>7, <1>9, <1>10 DEF IInv
-----------------------------------------------------------------------------
(* Between two awaits.                                                     *)

TrackedOK(calls) == calls \in Seq(Calls) /\ Len(calls) <= MaxTracked

LEMMA TrackKeeps ==
  ASSUME NEW calls, TrackedOK(calls), NEW h \in Calls
  PROVE  TrackedOK(Track(calls, h))
<1>1. /\ Append(calls, h) \in Seq(Calls) /\ Len(Append(calls, h)) = Len(calls) + 1
      /\ Len(calls) \in Nat /\ MaxTracked \in Nat \ {0}
  BY HooksAssumption DEF TrackedOK
<1>2. CASE Len(Append(calls, h)) > MaxTracked
  <2>1. Append(calls, h) # <<>>
    BY <1>1
  <2>2. /\ Tail(Append(calls, h)) \in Seq(Calls)
        /\ Len(Tail(Append(calls, h))) = Len(calls)
    BY <1>1, <2>1
  <2>. QED
    BY <1>2, <2>2 DEF Track, TrackedOK
<1>3. CASE ~(Len(Append(calls, h)) > MaxTracked)
  BY <1>1, <1>3 DEF Track, TrackedOK
<1>. QED
  BY <1>2, <1>3

LEMMA ForgetKeeps ==
  ASSUME NEW calls, TrackedOK(calls), NEW h \in Calls
  PROVE  TrackedOK(Forget(calls, h))
<1>1. calls \in Seq(Calls) /\ Len(calls) \in Nat /\ Len(calls) <= MaxTracked
      /\ MaxTracked \in Nat
  BY HooksAssumption DEF TrackedOK
<1>2. CASE \A i \in 1..Len(calls) : calls[i] # h
  BY <1>2 DEF Forget
<1>3. CASE \E i \in 1..Len(calls) : calls[i] = h
  <2> DEFINE at == CHOOSE i \in 1..Len(calls) : calls[i] = h
             rest == [i \in 1..(Len(calls) - 1) |-> IF i < at THEN calls[i] ELSE calls[i + 1]]
  <2>1. Forget(calls, h) = rest
    BY <1>3 DEF Forget
  <2>2. Len(calls) - 1 \in Nat
    BY <1>1, <1>3
  <2>3. \A i \in 1..(Len(calls) - 1) : rest[i] \in Calls
    BY <1>1
  <2>4. rest \in Seq(Calls) /\ Len(rest) = Len(calls) - 1
    <3> HIDE DEF at
    <3>1. DOMAIN rest = 1..(Len(calls) - 1)
      OBVIOUS
    <3>2. rest \in [1..(Len(calls) - 1) -> Calls]
      BY <2>3
    <3>. QED
      BY <2>2, <3>1, <3>2
  <2> HIDE DEF rest
  <2>. QED
    BY <1>1, <2>1, <2>4 DEF TrackedOK
<1>. QED
  BY <1>2, <1>3

(* What hook h makes of itself and of the client, from c on.               *)
Moves(h, c, r) ==
  /\ \E next : Becomes(h, next) /\ Fine(next, c, r, Enforcing, Watchful)
  /\ TrackedOK(tracked')

LEMMA MovesFrom ==
  ASSUME NEW h, NEW c, NEW d, NEW r, Moves(h, c, r), Contents(c) \subseteq Contents(d)
  PROVE  Moves(h, d, r)
BY DEF Moves, Fine

LEMMA AsksMoves ==
  ASSUME NEW h \in Calls, NEW c, ClientOK(c), GuarddOK, TrackedOK(tracked),
         NEW x, Seed(x), x.kind \in Asking, Asks(h, c, x)
  PROVE  Moves(h, c, "none")
<1>1. Becomes(h, Ask(c, x)) /\ Fine(Ask(c, x), c, "none", Enforcing, Watchful)
  BY AskFine DEF Asks
<1>2. TrackedOK(tracked')
  BY TrackKeeps DEF Asks
<1>. QED
  BY <1>1, <1>2 DEF Moves

LEMMA StopsMoves ==
  ASSUME NEW h \in Calls, NEW c, ClientOK(c), TrackedOK(tracked), NEW x \in HookType,
         Stops(h, c, x), NEW r
  PROVE  Moves(h, c, r)
<1>1. Becomes(h, Blocks(c, x)) /\ Fine(Blocks(c, x), c, r, Enforcing, Watchful)
  BY BlocksFine DEF Stops
<1>2. TrackedOK(tracked')
  BY DEF Stops
<1>. QED
  BY <1>1, <1>2 DEF Moves

LEMMA AwaitsMoves ==
  ASSUME NEW h \in Calls, NEW c, ClientOK(c), GuarddOK, TrackedOK(tracked),
         NEW x, Seed(x), NEW at \in Awaiting, KindAt([x EXCEPT !.at = at]),
         Becomes(h, Awaits(c, x, at)), UNCHANGED tracked
  PROVE  Moves(h, c, "none")
<1>1. Fine(Awaits(c, x, at), c, "none", Enforcing, Watchful)
  BY AwaitsFine
<1>. QED
  BY <1>1 DEF Moves

LEMMA NotInspectedMoves ==
  ASSUME NEW h \in Calls, NEW c, ClientOK(c), GuarddOK, TrackedOK(tracked),
         NEW x, Seed(x), x.kind \in {"tool", "install"}, NotInspected(h, c, x)
  PROVE  Moves(h, c, "none")
<1>1. x \in HookType /\ x.kind \in Asking
  BY DEF Seed, Asking
<1>2. CASE StrictSkills
  BY <1>1, <1>2, StopsMoves DEF NotInspected
<1>3. CASE ~StrictSkills /\ x.kind = "install"
  <2>1. ClientOK(RetryNow(c)) /\ Contents(RetryNow(c)) = Contents(c)
    BY RetryNowKeeps
  <2>2. Asks(h, RetryNow(c), x)
    BY <1>3 DEF NotInspected
  <2>3. Moves(h, RetryNow(c), "none")
    BY <1>1, <2>1, <2>2, AsksMoves
  <2>. QED
    BY <2>1, <2>3, MovesFrom
<1>4. CASE ~StrictSkills /\ x.kind # "install"
  <2>1. Asks(h, c, x)
    BY <1>4 DEF NotInspected
  <2>. QED
    BY <1>1, <2>1, AsksMoves
<1>. QED
  BY <1>2, <1>3, <1>4

LEMMA SeedAt ==
  ASSUME NEW x, Seed(x), NEW at \in Awaiting,
         at = "asking" => x.kind \in Asking,
         at = "inspecting" => x.kind \in {"tool", "install"},
         at = "capturing" => x.kind = "run",
         at \in {"negotiating", "scanning"} => x.kind = "gateway"
  PROVE  KindAt([x EXCEPT !.at = at])
<1>1. [x EXCEPT !.at = at].at = at /\ [x EXCEPT !.at = at].kind = x.kind
  BY DEF Seed, HookType
<1>. QED
  BY <1>1 DEF KindAt, Asking, Awaiting

LEMMA InspectsMoves ==
  ASSUME ClientOK(client), GuarddOK, TrackedOK(tracked), NEW h \in Calls,
         NEW x, Seed(x), x.kind \in {"tool", "install"}, Inspects(h, x)
  PROVE  Moves(h, client, "none")
<1>1. CASE client.waiting
  BY <1>1, NotInspectedMoves DEF Inspects
<1>2. CASE ~client.waiting
  <2>1. Becomes(h, Awaits(client, x, "inspecting")) /\ UNCHANGED tracked
    BY <1>2 DEF Inspects
  <2>2. KindAt([x EXCEPT !.at = "inspecting"]) /\ "inspecting" \in Awaiting
    BY SeedAt DEF Awaiting
  <2>. QED
    BY <2>1, <2>2, AwaitsMoves
<1>. QED
  BY <1>1, <1>2

LEMMA PassesFine ==
  ASSUME NEW c, ClientOK(c), NEW x, Seed(x), x.kind \in {"run", "gateway"},
         x.kind = "run" => ~(Watchful /\ x.suspicious)
  PROVE  Fine(Ends(c, x, "passed"), c, "none", Enforcing, Watchful)
<1> DEFINE y == [x EXCEPT !.at = "passed", !.bearer = NoToken]
<1>1. /\ y \in HookType /\ y.at = "passed" /\ y.kind = x.kind
      /\ y.suspicious = x.suspicious
  BY DEF Seed, HookType, Stage
<1>2. Justified(y, "none", Enforcing, Watchful)
  BY <1>1 DEF Justified, KindAt, Waits, Awaiting, Passed
<1>. QED
  BY <1>1, <1>2 DEF Ends, Leaves, Fine

LEMMA ReviewsMoves ==
  ASSUME NEW h \in Calls, NEW c, ClientOK(c), GuarddOK, TrackedOK(tracked),
         NEW x, Seed(x), x.kind = "run", Reviews(h, c, x)
  PROVE  Moves(h, c, "none")
<1>1. CASE Watchful /\ x.suspicious
  BY <1>1, AsksMoves DEF Reviews, Asking
<1>2. CASE ~(Watchful /\ x.suspicious)
  <2>1. Becomes(h, Ends(c, x, "passed")) /\ UNCHANGED tracked
    BY <1>2 DEF Reviews
  <2>. QED
    BY <1>2, <2>1, PassesFine DEF Moves
<1>. QED
  BY <1>1, <1>2

LEMMA NoteKeeps ==
  ASSUME NEW c, ClientOK(c), GuarddOK
  PROVE  ClientOK(Observe(c, Note)) /\ Contents(Observe(c, Note)) \subseteq Contents(c) \union {Note}
<1>1. Note \in Job
  BY DEF Note, Job
<1>. QED
  BY <1>1, ObserveKeeps

LEMMA StartedMoves ==
  ASSUME NEW h \in Calls, NEW c, ClientOK(c), GuarddOK, TrackedOK(tracked), UNCHANGED tracked,
         NEW x, Seed(x), x.kind = "gateway", NEW ok \in BOOLEAN, startupError \in BOOLEAN,
         Started(h, c, x, ok)
  PROVE  Moves(h, Observe(c, Note), "none") /\ startupError' \in BOOLEAN
<1>1. Fine(Ends(Observe(c, Note), x, "passed"), Observe(c, Note), "none", Enforcing, Watchful)
  BY NoteKeeps, PassesFine
<1>. QED
  BY <1>1 DEF Moves, Started, StrictSkills

(* A step of a hook that waits: it goes on to where it is fine to be.      *)
LEMMA WaitsStep ==
  ASSUME IInv, NEW h \in Calls, hooks[h].at \in Waits, NEW r, NEW c,
         Contents(c) \subseteq Contents(client) \union {Note},
         Moves(h, c, r), Grants(h, r), startupError' \in BOOLEAN, UNCHANGED memory
  PROVE  IInv'
<1>1. PICK next : Becomes(h, next) /\ Fine(next, c, r, Enforcing, Watchful)
  BY DEF Moves
<1>2. Grows(hooks[h], next.hook)
  BY WaitsGrow DEF IInv, HooksOK, Justified
<1>3. StoredOK'
  BY DEF Moves, TrackedOK, IInv, StoredOK, MemoryIsClean, Grants, Enforcing
<1>4. Gains(client, next.client, h, next.hook)
  BY <1>1 DEF Fine, Gains, Note
<1>5. /\ next.hook \in HookType /\ Justified(next.hook, r, Enforcing, Watchful)
      /\ ClientOK(client') /\ client' = next.client
      /\ hooks' = [hooks EXCEPT ![h] = next.hook]
  BY <1>1 DEF Fine, Becomes
<1>. QED
  BY <1>2, <1>3, <1>4, <1>5, HookStep
-----------------------------------------------------------------------------
(* The actions of the hooks that wait.                                     *)

(* What the invariant says of a hook that waits.                           *)
LEMMA AtWaits ==
  ASSUME IInv, NEW h \in Calls, hooks[h].at \in Waits
  PROVE  /\ Seed(hooks[h]) /\ KindAt(hooks[h]) /\ ruling[h] = "none"
         /\ ClientOK(client) /\ GuarddOK /\ TrackedOK(tracked) /\ startupError \in BOOLEAN
         /\ ruling \in [Calls -> Kinds \union {"none"}]
BY DEF IInv, HooksOK, Justified, StoredOK, TrackedOK

LEMMA NewSeed ==
  ASSUME NEW kind \in HookKind \ HasAct
  PROVE  Seed([Idle EXCEPT !.kind = kind]) /\ [Idle EXCEPT !.kind = kind].kind = kind
BY DEF Seed, Idle, HookType, Stage, HasAct

LEMMA NewSeedOfRun ==
  ASSUME NEW suspicious \in BOOLEAN
  PROVE  LET x == [Idle EXCEPT !.kind = "run", !.suspicious = suspicious]
         IN  Seed(x) /\ x.kind = "run" /\ x \in HookType
BY DEF Seed, Idle, HookType, HookKind, Stage, HasAct

LEMMA NewSeedOn ==
  ASSUME NEW kind \in HasAct, NEW a \in Acts
  PROVE  Seed([Idle EXCEPT !.kind = kind, !.act = a])
         /\ [Idle EXCEPT !.kind = kind, !.act = a].kind = kind
BY DEF Seed, Idle, HookType, Stage, HasAct, HookKind

LEMMA UnruledGrants ==
  ASSUME IInv, NEW h \in Calls, hooks[h].at \in Waits, UNCHANGED <<guarddVars, config>>
  PROVE  Grants(h, "none")
BY AtWaits DEF Grants, guarddVars, ledger

LEMMA BeforeToolStep ==
  ASSUME IInv, NEW h \in Calls, NEW a \in Acts, BeforeTool(h, a)
  PROVE  IInv'
<1> DEFINE x == [Idle EXCEPT !.kind = "tool", !.act = a]
<1>1. hooks[h].at \in Waits
  BY DEF BeforeTool, Waits
<1>2. Seed(x) /\ x.kind = "tool" /\ x \in HookType
  BY NewSeedOn DEF HasAct, Seed
<1> HIDE DEF x
<1>3. Moves(h, client, "none")
  <2>1. CASE Stops(h, client, x)
    BY <1>1, <1>2, <2>1, AtWaits, StopsMoves
  <2>2. CASE Inspects(h, x)
    BY <1>1, <1>2, <2>2, AtWaits, InspectsMoves
  <2>3. CASE Asks(h, client, x)
    BY <1>1, <1>2, <2>3, AtWaits, AsksMoves DEF Asking
  <2>. QED
    BY <2>1, <2>2, <2>3 DEF BeforeTool, x
<1>4. Grants(h, "none") /\ startupError' \in BOOLEAN /\ UNCHANGED memory
  BY <1>1, AtWaits, UnruledGrants DEF BeforeTool
<1>. QED
  BY <1>1, <1>3, <1>4, WaitsStep

LEMMA InspectionAnsweredStep ==
  ASSUME IInv, NEW h \in Calls, NEW verdict \in Verdict, InspectionAnswered(h, verdict)
  PROVE  IInv'
<1> DEFINE x == hooks[h]
<1>1. x.at \in Waits /\ x.at = "inspecting"
  BY DEF InspectionAnswered, Waits, Awaiting
<1>2. Seed(x) /\ x.kind \in {"tool", "install"} /\ x \in HookType
  BY <1>1, AtWaits DEF KindAt, Seed
<1>3. ClientOK(Succeeds(client)) /\ Contents(Succeeds(client)) = Contents(client)
  BY <1>1, AtWaits, SucceedsKeeps
<1>4. Stops(h, Succeeds(client), x) \/ Asks(h, Succeeds(client), x)
  BY DEF InspectionAnswered
<1>5. Grants(h, "none") /\ startupError' \in BOOLEAN /\ UNCHANGED memory
  BY <1>1, AtWaits, UnruledGrants DEF InspectionAnswered
<1>6. Moves(h, Succeeds(client), "none")
  <2> HIDE DEF x
  <2>0. GuarddOK /\ TrackedOK(tracked) /\ x.kind \in Asking
    BY <1>1, <1>2, AtWaits DEF x, Asking
  <2>1. CASE Stops(h, Succeeds(client), x)
    BY <1>2, <1>3, <2>0, <2>1, StopsMoves
  <2>2. CASE Asks(h, Succeeds(client), x)
    BY <1>2, <1>3, <2>0, <2>2, AsksMoves
  <2>. QED
    BY <1>4, <2>1, <2>2
<1>. QED
  BY <1>1, <1>3, <1>5, <1>6, WaitsStep

LEMMA InspectionFailsStep ==
  ASSUME IInv, NEW h \in Calls, InspectionFails(h)
  PROVE  IInv'
<1> DEFINE x == hooks[h]
<1>1. x.at \in Waits /\ x.at = "inspecting"
  BY DEF InspectionFails, Waits, Awaiting
<1>2. Seed(x) /\ x.kind \in {"tool", "install"} /\ GuarddOK /\ TrackedOK(tracked)
  BY <1>1, AtWaits DEF KindAt
<1>3. PICK why : NotInspected(h, Fails(client, why), x)
  BY DEF InspectionFails
<1>4. ClientOK(Fails(client, why)) /\ Contents(Fails(client, why)) = Contents(client)
  BY <1>1, AtWaits, FailsKeeps
<1>5. Grants(h, "none") /\ startupError' \in BOOLEAN /\ UNCHANGED memory
  BY <1>1, AtWaits, UnruledGrants DEF InspectionFails
<1>6. Moves(h, Fails(client, why), "none")
  <2> HIDE DEF x
  <2>. QED
    BY <1>2, <1>3, <1>4, NotInspectedMoves
<1>. QED
  BY <1>1, <1>4, <1>5, <1>6, WaitsStep

(* guardd ruled, and the hook has the answer or has lost it.               *)
LEMMA RuledGrants ==
  ASSUME IInv, NEW h \in Calls, NEW d \in Decisions, Rules(h, d), UNCHANGED config
  PROVE  Grants(h, d.decision)
<1>1. d.decision \in Kinds
  BY HooksAssumption DEF GuardDecision
<1>2. ruling \in [Calls -> Kinds \union {"none"}]
  BY DEF IInv, HooksOK
<1>3. /\ ruling' \in [Calls -> Kinds \union {"none"}]
      /\ ruling'[h] = d.decision
      /\ \A k \in Calls \ {h} : ruling'[k] = ruling[k]
  BY <1>1, <1>2 DEF Rules
<1>4. ticket' = ticket \/ ticket' = [ticket EXCEPT ![h] = "pending"]
  BY DEF Rules
<1>. QED
  BY <1>3, <1>4 DEF Rules, Grants

LEMMA DecisionAnsweredStep ==
  ASSUME IInv, NEW h \in Calls, NEW d \in Decisions, DecisionAnswered(h, d)
  PROVE  IInv'
<1>1. hooks[h].at \in Waits /\ hooks[h].at = "asking"
  BY DEF DecisionAnswered, Waits, Awaiting
<1>2. Seed(hooks[h]) /\ hooks[h].kind \in Asking
  BY <1>1, AtWaits DEF KindAt, Asking
<1>3. ClientOK(Succeeds(client)) /\ Contents(Succeeds(client)) = Contents(client)
  BY <1>1, AtWaits, SucceedsKeeps
<1>4. Fine(Decided(Succeeds(client), hooks[h], d), Succeeds(client), d.decision, Enforcing, Watchful)
  BY <1>2, <1>3, DecidedFine
<1>5. Moves(h, Succeeds(client), d.decision)
  BY <1>1, <1>4, AtWaits DEF Moves, DecisionAnswered
<1>6. Grants(h, d.decision) /\ startupError' \in BOOLEAN /\ UNCHANGED memory
  BY <1>1, AtWaits, RuledGrants DEF DecisionAnswered
<1>. QED
  BY <1>1, <1>3, <1>5, <1>6, WaitsStep

LEMMA DecisionLostStep ==
  ASSUME IInv, NEW h \in Calls, NEW d \in Decisions, DecisionLost(h, d)
  PROVE  IInv'
<1>1. hooks[h].at \in Waits /\ hooks[h].at = "asking"
  BY DEF DecisionLost, Waits, Awaiting
<1>2. Seed(hooks[h]) /\ hooks[h].kind # "gateway"
  BY <1>1, AtWaits DEF KindAt
<1>3. /\ ClientOK(Fails(client, "timeout"))
      /\ Contents(Fails(client, "timeout")) = Contents(client)
  BY <1>1, AtWaits, FailsKeeps
<1>4. Fine(Unanswered(Fails(client, "timeout"), hooks[h]), Fails(client, "timeout"),
           d.decision, Enforcing, Watchful)
  BY <1>2, <1>3, UnansweredFine
<1>5. Moves(h, Fails(client, "timeout"), d.decision)
  BY <1>1, <1>4, AtWaits DEF Moves, DecisionLost
<1>6. Grants(h, d.decision) /\ startupError' \in BOOLEAN /\ UNCHANGED memory
  BY <1>1, AtWaits, RuledGrants DEF DecisionLost
<1>. QED
  BY <1>1, <1>3, <1>5, <1>6, WaitsStep

LEMMA DecisionFailsStep ==
  ASSUME IInv, NEW h \in Calls, DecisionFails(h)
  PROVE  IInv'
<1>1. hooks[h].at \in Waits /\ hooks[h].at = "asking"
  BY DEF DecisionFails, Waits, Awaiting
<1>2. Seed(hooks[h]) /\ hooks[h].kind # "gateway"
  BY <1>1, AtWaits DEF KindAt
<1>3. PICK why : Becomes(h, Unanswered(Fails(client, why), hooks[h]))
  BY DEF DecisionFails
<1>4. ClientOK(Fails(client, why)) /\ Contents(Fails(client, why)) = Contents(client)
  BY <1>1, AtWaits, FailsKeeps
<1>5. Fine(Unanswered(Fails(client, why), hooks[h]), Fails(client, why), "none", Enforcing, Watchful)
  BY <1>2, <1>4, UnansweredFine
<1>6. Moves(h, Fails(client, why), "none")
  BY <1>1, <1>3, <1>5, AtWaits DEF Moves, DecisionFails
<1>7. Grants(h, "none") /\ startupError' \in BOOLEAN /\ UNCHANGED memory
  BY <1>1, AtWaits, UnruledGrants DEF DecisionFails
<1>. QED
  BY <1>1, <1>4, <1>6, <1>7, WaitsStep
LEMMA MessageSendingStep ==
  ASSUME IInv, NEW h \in Calls, NEW a \in Acts, MessageSending(h, a)
  PROVE  IInv'
<1> DEFINE x == [Idle EXCEPT !.kind = "message", !.act = a]
           noted == config.sanitize # "disabled" /\ Classes(a) # {}
           c == IF noted THEN Observe(client, Note) ELSE client
<1>1. hooks[h].at \in Waits
  BY DEF MessageSending, Waits
<1>2. Seed(x) /\ x.kind = "message"
  BY NewSeedOn DEF HasAct
<1>3. ClientOK(c) /\ Contents(c) \subseteq Contents(client) \union {Note}
  BY <1>1, AtWaits, NoteKeeps
<1>4. Asks(h, c, x)
  BY DEF MessageSending
<1> HIDE DEF x, c
<1>5. Moves(h, c, "none")
  BY <1>1, <1>2, <1>3, <1>4, AtWaits, AsksMoves DEF Asking
<1>6. Grants(h, "none") /\ startupError' \in BOOLEAN /\ UNCHANGED memory
  BY <1>1, AtWaits, UnruledGrants DEF MessageSending
<1>. QED
  BY <1>1, <1>3, <1>5, <1>6, WaitsStep

LEMMA BeforeAgentRunStep ==
  ASSUME IInv, NEW h \in Calls, NEW suspicious \in BOOLEAN, BeforeAgentRun(h, suspicious)
  PROVE  IInv'
<1> DEFINE x == [Idle EXCEPT !.kind = "run", !.suspicious = suspicious]
<1>1. hooks[h].at \in Waits
  BY DEF BeforeAgentRun, Waits
<1>2. Seed(x) /\ x.kind = "run" /\ x \in HookType
  BY NewSeedOfRun
<1>3. \/ Stops(h, client, x)
      \/ Becomes(h, Awaits(client, x, "capturing")) /\ UNCHANGED tracked
      \/ Reviews(h, client, x)
  BY DEF BeforeAgentRun
<1> HIDE DEF x
<1>4. Moves(h, client, "none")
  <2>1. CASE Stops(h, client, x)
    BY <1>1, <1>2, <2>1, AtWaits, StopsMoves
  <2>2. CASE Becomes(h, Awaits(client, x, "capturing")) /\ UNCHANGED tracked
    <3>1. KindAt([x EXCEPT !.at = "capturing"]) /\ "capturing" \in Awaiting
      BY <1>2, SeedAt DEF Awaiting
    <3>. QED
      BY <1>1, <1>2, <2>2, <3>1, AtWaits, AwaitsMoves
  <2>3. CASE Reviews(h, client, x)
    BY <1>1, <1>2, <2>3, AtWaits, ReviewsMoves
  <2>. QED
    BY <1>3, <2>1, <2>2, <2>3
<1>5. Grants(h, "none") /\ startupError' \in BOOLEAN /\ UNCHANGED memory
  BY <1>1, AtWaits, UnruledGrants DEF BeforeAgentRun
<1>. QED
  BY <1>1, <1>4, <1>5, WaitsStep

LEMMA CaptureEndsStep ==
  ASSUME IInv, NEW h \in Calls, CaptureEnds(h)
  PROVE  IInv'
<1>1. hooks[h].at \in Waits /\ hooks[h].at = "capturing"
  BY DEF CaptureEnds, Waits, Awaiting
<1>2. /\ Seed(hooks[h]) /\ hooks[h].kind = "run"
      /\ ClientOK(client) /\ GuarddOK /\ TrackedOK(tracked)
  BY <1>1, AtWaits DEF KindAt
<1>3. Grants(h, "none") /\ startupError' \in BOOLEAN /\ UNCHANGED memory
  BY <1>1, AtWaits, UnruledGrants DEF CaptureEnds
<1>4. CASE Reviews(h, Succeeds(client), hooks[h])
  <2>1. ClientOK(Succeeds(client)) /\ Contents(Succeeds(client)) = Contents(client)
    BY <1>2, SucceedsKeeps
  <2>2. Moves(h, Succeeds(client), "none")
    BY <1>2, <1>4, <2>1, ReviewsMoves
  <2>. QED
    BY <1>1, <1>3, <2>1, <2>2, WaitsStep
<1>5. ASSUME NEW why, Reviews(h, Fails(client, why), hooks[h])
      PROVE  IInv'
  <2>1. ClientOK(Fails(client, why)) /\ Contents(Fails(client, why)) = Contents(client)
    BY <1>2, FailsKeeps
  <2>2. Moves(h, Fails(client, why), "none")
    BY <1>2, <1>5, <2>1, ReviewsMoves
  <2>. QED
    BY <1>1, <1>3, <2>1, <2>2, WaitsStep
<1>. QED
  BY <1>4, <1>5 DEF CaptureEnds

LEMMA BeforeInstallStep ==
  ASSUME IInv, NEW h \in Calls, NEW skill, BeforeInstall(h, skill)
  PROVE  IInv'
<1> DEFINE x == [Idle EXCEPT !.kind = "install"]
<1>1. hooks[h].at \in Waits
  BY DEF BeforeInstall, Waits
<1>2. Seed(x) /\ x.kind = "install"
  BY NewSeed DEF HasAct, HookKind
<1>3. Inspects(h, x) \/ Asks(h, client, x)
  BY DEF BeforeInstall
<1> HIDE DEF x
<1>4. Moves(h, client, "none")
  <2>1. CASE Inspects(h, x)
    BY <1>1, <1>2, <2>1, AtWaits, InspectsMoves
  <2>2. CASE Asks(h, client, x)
    BY <1>1, <1>2, <2>2, AtWaits, AsksMoves DEF Asking
  <2>. QED
    BY <1>3, <2>1, <2>2
<1>5. Grants(h, "none") /\ startupError' \in BOOLEAN /\ UNCHANGED memory
  BY <1>1, AtWaits, UnruledGrants DEF BeforeInstall
<1>. QED
  BY <1>1, <1>4, <1>5, WaitsStep

LEMMA GatewayStartStep ==
  ASSUME IInv, NEW h \in Calls, GatewayStart(h)
  PROVE  IInv'
<1> DEFINE x == [Idle EXCEPT !.kind = "gateway"]
<1>1. hooks[h].at \in Waits
  BY DEF GatewayStart, Waits
<1>2. Seed(x) /\ x.kind = "gateway"
  BY NewSeed DEF HasAct, HookKind
<1>3. Grants(h, "none") /\ UNCHANGED memory /\ UNCHANGED tracked
  BY <1>1, UnruledGrants DEF GatewayStart
<1>4. \/ Started(h, client, x, FALSE)
      \/ Becomes(h, Awaits(client, x, "negotiating")) /\ UNCHANGED startupError
  BY DEF GatewayStart
<1> HIDE DEF x
<1>5. CASE Started(h, client, x, FALSE)
  <2>1. Moves(h, Observe(client, Note), "none") /\ startupError' \in BOOLEAN
    BY <1>1, <1>2, <1>3, <1>5, AtWaits, StartedMoves
  <2>. QED
    BY <1>1, <1>3, <2>1, AtWaits, NoteKeeps, WaitsStep
<1>6. CASE Becomes(h, Awaits(client, x, "negotiating")) /\ UNCHANGED startupError
  <2>1. KindAt([x EXCEPT !.at = "negotiating"]) /\ "negotiating" \in Awaiting
    BY <1>2, SeedAt DEF Awaiting
  <2>2. Moves(h, client, "none")
    BY <1>1, <1>2, <1>3, <1>6, <2>1, AtWaits, AwaitsMoves
  <2>3. startupError' \in BOOLEAN
    BY <1>1, <1>6, AtWaits
  <2>. QED
    BY <1>1, <1>3, <2>2, <2>3, WaitsStep
<1>. QED
  BY <1>4, <1>5, <1>6

(* What gateway_start awaits ends it, or leads to the scan of the skills.  *)
LEMMA StartedStep ==
  ASSUME IInv, NEW h \in Calls, hooks[h].at \in {"negotiating", "scanning"},
         NEW c, ClientOK(c), Contents(c) = Contents(client), NEW ok \in BOOLEAN,
         Started(h, c, hooks[h], ok), UNCHANGED <<guarddVars, config, tracked, memory>>
  PROVE  IInv'
<1>1. hooks[h].at \in Waits
  BY DEF Waits, Awaiting
<1>2. /\ Seed(hooks[h]) /\ hooks[h].kind = "gateway"
      /\ GuarddOK /\ TrackedOK(tracked) /\ startupError \in BOOLEAN
  BY <1>1, AtWaits DEF KindAt
<1>3. Moves(h, Observe(c, Note), "none") /\ startupError' \in BOOLEAN
  BY <1>2, StartedMoves
<1>4. Grants(h, "none")
  BY <1>1, UnruledGrants
<1>. QED
  BY <1>1, <1>2, <1>3, <1>4, NoteKeeps, WaitsStep

LEMMA NegotiationAnsweredStep ==
  ASSUME IInv, NEW h \in Calls, NEW fit \in BOOLEAN, NegotiationAnswered(h, fit)
  PROVE  IInv'
<1> DEFINE c == Capable(client, fit)
<1>1. hooks[h].at \in Waits /\ hooks[h].at = "negotiating"
  BY DEF NegotiationAnswered, Waits, Awaiting
<1>2. ClientOK(c) /\ Contents(c) = Contents(client)
  <2>1. ClientOK(Succeeds(client)) /\ Contents(Succeeds(client)) = Contents(client)
    BY <1>1, AtWaits, SucceedsKeeps
  <2>. QED
    BY <2>1, UnfitKeeps DEF Capable
<1>3. UNCHANGED <<guarddVars, config, tracked, memory>>
  BY DEF NegotiationAnswered
<1>4. \/ Becomes(h, Awaits(c, hooks[h], "scanning")) /\ UNCHANGED startupError
      \/ Started(h, c, hooks[h], fit)
  BY DEF NegotiationAnswered
<1> HIDE DEF c
<1>5. CASE Becomes(h, Awaits(c, hooks[h], "scanning")) /\ UNCHANGED startupError
  <2>1. Seed(hooks[h]) /\ hooks[h].kind = "gateway"
    BY <1>1, AtWaits DEF KindAt
  <2>2. KindAt([hooks[h] EXCEPT !.at = "scanning"]) /\ "scanning" \in Awaiting
    BY <2>1, SeedAt DEF Awaiting
  <2>3. Moves(h, c, "none")
    BY <1>1, <1>2, <1>3, <1>5, <2>1, <2>2, AtWaits, AwaitsMoves
  <2>4. Grants(h, "none") /\ startupError' \in BOOLEAN
    BY <1>1, <1>3, <1>5, AtWaits, UnruledGrants
  <2>. QED
    BY <1>1, <1>2, <1>3, <2>3, <2>4, WaitsStep
<1>6. CASE Started(h, c, hooks[h], fit)
  BY <1>1, <1>2, <1>3, <1>6, StartedStep
<1>. QED
  BY <1>4, <1>5, <1>6

LEMMA ScanAnsweredStep ==
  ASSUME IInv, NEW h \in Calls, NEW verdict, ScanAnswered(h, verdict)
  PROVE  IInv'
<1>1. ClientOK(Succeeds(client)) /\ Contents(Succeeds(client)) = Contents(client)
  BY SucceedsKeeps DEF IInv
<1>2. (verdict = "ALLOW" \/ ~StrictSkills) \in BOOLEAN
  OBVIOUS
<1>. QED
  BY <1>1, <1>2, StartedStep DEF ScanAnswered

LEMMA StartFailsStep ==
  ASSUME IInv, NEW h \in Calls, StartFails(h)
  PROVE  IInv'
<1>1. PICK why : Started(h, Fails(client, why), hooks[h], FALSE)
  BY DEF StartFails
<1>2. ClientOK(Fails(client, why)) /\ Contents(Fails(client, why)) = Contents(client)
  BY FailsKeeps DEF IInv
<1>. QED
  BY <1>1, <1>2, StartedStep DEF StartFails
-----------------------------------------------------------------------------
(* The dialog, the tool and its result.                                    *)

(* A step of a hook past its decision: guardd's records stay.              *)
LEMMA LaterGrants ==
  ASSUME IInv, NEW h \in Calls, UNCHANGED <<guarddVars, config>>
  PROVE  Grants(h, ruling[h])
BY DEF Grants, guarddVars, ledger, IInv, HooksOK

LEMMA StoredStays ==
  ASSUME IInv, UNCHANGED <<config, startupError, memory>>, TrackedOK(tracked')
  PROVE  StoredOK'
BY DEF IInv, StoredOK, MemoryIsClean, Enforcing, TrackedOK

LEMMA AnswerKeeps ==
  ASSUME NEW c, ClientOK(c), GuarddOK, NEW h \in Calls, NEW resolution \in Resolution
  PROVE  /\ Answer(h, resolution) \in Job /\ Critical(Answer(h, resolution))
         /\ ClientOK(Observe(c, Answer(h, resolution)))
         /\ Contents(Observe(c, Answer(h, resolution)))
              \subseteq Contents(c) \union {Answer(h, resolution)}
         /\ ~c.waiting => Underway(Observe(c, Answer(h, resolution)), Answer(h, resolution))
<1>1. Answer(h, resolution) \in Job /\ Critical(Answer(h, resolution))
  BY DEF Answer, Job, Critical
<1>. QED
  BY <1>1, ObserveKeeps

LEMMA ResolveStep ==
  ASSUME IInv, NEW h \in Calls, NEW resolution \in Resolution, Resolve(h, resolution)
  PROVE  IInv'
<1> DEFINE x == hooks[h]
           allow == resolution = "allow-once"
           told == x.answer # NoAnswer /\ x.answer.ticket
           answer == Answer(h, resolution)
           c == IF told THEN Observe(client, answer) ELSE client
           next == IF allow THEN Runs(c, x, x.view, "operator") ELSE Blocks(c, x)
<1>1. /\ x.at = "dialog" /\ x \in HookType /\ Justified(x, ruling[h], Enforcing, Watchful)
      /\ ClientOK(client) /\ GuarddOK
  BY DEF Resolve, IInv, HooksOK
<1>2. ClientOK(c) /\ Contents(c) \subseteq Contents(client) \union {answer}
  BY <1>1, AnswerKeeps
<1>3. answer.kind = "approval" /\ answer.of = h /\ answer.good = allow
  BY DEF Answer
<1>4. Becomes(h, next) /\ UNCHANGED <<guarddVars, config, tracked, startupError, memory>>
  BY DEF Resolve
<1>5. x.kind = "tool" /\ x.act \in Acts /\ x.by = "none"
  BY <1>1 DEF Justified, KindAt
<1>6. x.view \in {"none", "host", "raw", "clean", "service"}
  BY <1>1 DEF HookType
<1>7. Permitted("operator", x.answer, ruling[h])
  BY <1>1 DEF Justified, Permitted
<1>8. Enforcing /\ Shown(x.act, x.view) # {} =>
        x.answer # NoAnswer /\ Preserves(x.answer, Classes(x.act))
  BY <1>1 DEF Justified
<1> HIDE DEF x, answer, c
<1>9. /\ Fine(next, c, ruling[h], Enforcing, Watchful)
      /\ allow => next.hook.by = "operator"
      /\ ~allow => next.hook.at = "blocked"
  <2>1. CASE allow
    <3>1. "operator" \in {"guardd", "operator", "allowlist"}
      OBVIOUS
    <3> DEFINE ran == Runs(c, x, x.view, "operator")
    <3>2. Fine(ran, c, ruling[h], Enforcing, Watchful) /\ ran.hook.by = "operator"
      <4> HIDE DEF next
      <4>. QED
        BY <1>1, <1>2, <1>5, <1>6, <1>7, <1>8, <3>1, RunsFine
    <3>. QED
      BY <2>1, <3>2
  <2>2. CASE ~allow
    BY <1>1, <1>2, <2>2, BlocksFine
  <2>. QED
    BY <2>1, <2>2
<1> HIDE DEF next
<1>10. Grows(x, next.hook)
  BY <1>1, <1>5 DEF Grows
<1>11. Backed(answer, next.hook)
  BY <1>3, <1>9 DEF Backed
<1>12. Gains(client, next.client, h, next.hook)
  BY <1>2, <1>3, <1>9, <1>11 DEF Gains, Fine
<1>13. StoredOK'
  BY <1>4, StoredStays DEF IInv, StoredOK, TrackedOK
<1>14. Grants(h, ruling[h])
  BY <1>4, LaterGrants
<1>15. /\ next.hook \in HookType /\ Justified(next.hook, ruling[h], Enforcing, Watchful)
       /\ ClientOK(client') /\ client' = next.client
       /\ hooks' = [hooks EXCEPT ![h] = next.hook]
  BY <1>4, <1>9 DEF Fine, Becomes
<1>. QED
  BY <1>10, <1>12, <1>13, <1>14, <1>15, HookStep DEF x

LEMMA AfterToolCallStep ==
  ASSUME IInv, NEW h \in Calls, NEW good \in BOOLEAN, AfterToolCall(h, good)
  PROVE  IInv'
<1> DEFINE x == hooks[h]
           y == [x EXCEPT !.at = "ran"]
           result == [kind |-> "result", of |-> h, good |-> good]
<1>1. /\ x.at = "running" /\ x \in HookType /\ Justified(x, ruling[h], Enforcing, Watchful)
      /\ ClientOK(client) /\ GuarddOK
  BY DEF AfterToolCall, IInv, HooksOK
<1>2. /\ y \in HookType /\ y.at = "ran" /\ y.kind = x.kind /\ y.act = x.act
      /\ y.view = x.view /\ y.by = x.by /\ y.answer = x.answer
  BY <1>1 DEF HookType, Stage
<1>3. y.kind = "tool" /\ Justified(y, ruling[h], Enforcing, Watchful)
  BY <1>1, <1>2 DEF Justified, KindAt, Waits, Awaiting
<1>4. result \in Job
  BY DEF Job
<1>5. ClientOK(client') /\ Contents(client') \subseteq Contents(client) \union {result}
  <2>1. \A event \in EventOf(h) : event = h
    BY DEF EventOf
  <2>2. client' = client \/ client' = Observe(client, result)
    BY <2>1 DEF AfterToolCall
  <2> HIDE DEF result
  <2>. QED
    BY <1>1, <1>4, <2>2, ObserveKeeps
<1>6. hooks' = [hooks EXCEPT ![h] = y]
  BY DEF AfterToolCall
<1>7. StoredOK'
  <2>1. TrackedOK(tracked) /\ tracked' = Forget(tracked, h)
    BY DEF IInv, StoredOK, TrackedOK, AfterToolCall
  <2>2. TrackedOK(tracked')
    BY <2>1, ForgetKeeps
  <2>. QED
    BY <2>2, StoredStays DEF AfterToolCall
<1>8. Grants(h, ruling[h])
  BY LaterGrants DEF AfterToolCall
<1> HIDE DEF y
<1>9. Grows(x, y)
  BY <1>1, <1>2, <1>3 DEF Grows
<1>10. Gains(client, client', h, y)
  BY <1>2, <1>3, <1>5 DEF Gains, Backed, Enters
<1>. QED
  BY <1>2, <1>3, <1>5, <1>6, <1>7, <1>8, <1>9, <1>10, HookStep

LEMMA StoreResultStep ==
  ASSUME IInv, NEW h \in Calls, NEW m \in Messages, NEW fails \in BOOLEAN, StoreResult(h, m, fails)
  PROVE  IInv'
<1> DEFINE x == hooks[h]
           y == [Idle EXCEPT !.kind = "tool", !.at = "passed", !.by = hooks[h].by]
           kept == CASE config.sanitize = "disabled" -> m
                     [] config.sanitize # "disabled" /\ fails -> Removed
                     [] config.sanitize = "observe" /\ ~fails -> m
                     [] Enforcing /\ ~fails -> SanitizeMessage(SanitizeToolMessage(m))
<1>1. /\ x.at = "ran" /\ x \in HookType /\ Justified(x, ruling[h], Enforcing, Watchful)
      /\ ClientOK(client) /\ GuarddOK
  BY DEF StoreResult, IInv, HooksOK
<1>2. /\ y \in HookType /\ y.at = "passed" /\ y.kind = "tool" /\ y.by = x.by
      /\ y.answer = NoAnswer
  BY <1>1 DEF HookType, Stage, Idle, HookKind
<1>3. x.kind = "tool" /\ Permitted(x.by, x.answer, ruling[h])
  BY <1>1 DEF Justified, KindAt
<1>4. Justified(y, ruling[h], Enforcing, Watchful)
  BY <1>2, <1>3 DEF Justified, KindAt, Waits, Awaiting, Passed, Permitted
<1>5. ClientOK(client') /\ Contents(client') \subseteq Contents(client) \union {Note}
  BY <1>1, NoteKeeps DEF StoreResult
<1>6. hooks' = [hooks EXCEPT ![h] = y] /\ memory' = [memory EXCEPT ![h] = kept]
  BY DEF StoreResult
<1>7. kept \in Message \union {NoMessage, Removed}
      /\ (Enforcing /\ kept # Removed =>
            Exposed(kept.value) = {} /\ ~Unscanned(kept.value) /\ kept.tagged)
  <2>1. m \in Message
    BY HooksAssumption
  <2>2. config.sanitize \in Mode
    BY HooksAssumption DEF IInv, ConfigOK
  <2> DEFINE written == SanitizeMessage(SanitizeToolMessage(m))
  <2>3. /\ written \in Message /\ Exposed(written.value) = {}
        /\ ~Unscanned(written.value) /\ written.tagged
    BY <2>1, CleanMessage
  <2> HIDE DEF written
  <2>4. CASE Enforcing /\ ~fails
    <3>1. kept = written
      BY <2>4 DEF Enforcing, written
    <3>. QED
      BY <2>3, <3>1
  <2>5. CASE ~(Enforcing /\ ~fails)
    BY <2>1, <2>2, <2>5 DEF Enforcing, Mode
  <2>. QED
    BY <2>4, <2>5
<1> HIDE DEF kept, y
<1>8. StoredOK'
  <2>1. memory \in [Calls -> Message \union {NoMessage, Removed}] /\ MemoryIsClean
    BY DEF IInv, StoredOK
  <2>2. memory' \in [Calls -> Message \union {NoMessage, Removed}]
    BY <1>6, <1>7, <2>1
  <2>3. Enforcing' = Enforcing
    BY DEF StoreResult, Enforcing
  <2>4. MemoryIsClean'
    <3>1. ASSUME Enforcing, NEW k \in Calls, memory'[k] \notin {NoMessage, Removed}
          PROVE  /\ Exposed(memory'[k].value) = {}
                 /\ ~Unscanned(memory'[k].value)
                 /\ memory'[k].tagged
      <4>1. CASE k = h
        BY <1>6, <1>7, <2>1, <3>1, <4>1
      <4>2. CASE k # h
        <5>1. memory'[k] = memory[k]
          BY <1>6, <2>1, <4>2
        <5>. QED
          BY <2>1, <3>1, <5>1 DEF MemoryIsClean
      <4>. QED
        BY <4>1, <4>2
    <3>. QED
      BY <2>3, <3>1 DEF MemoryIsClean
  <2>. QED
    BY <2>2, <2>4 DEF StoredOK, StoreResult, IInv
<1>9. Grants(h, ruling[h])
  BY LaterGrants DEF StoreResult
<1>10. Grows(x, y)
  BY <1>1, <1>2, <1>3 DEF Grows
<1>11. Gains(client, client', h, y)
  BY <1>5 DEF Gains, Note
<1>. QED
  BY <1>2, <1>4, <1>5, <1>6, <1>8, <1>9, <1>10, <1>11, HookStep
-----------------------------------------------------------------------------
(* The queue, and guardd.                                                  *)

(* A step of the client and of guardd alone.                               *)
LEMMA ClientStep ==
  ASSUME IInv, UNCHANGED pluginVars, UNCHANGED ruling, GuarddOK', LedgerOK',
         ClientOK(client'), Contents(client') \subseteq Contents(client) \union {Note}
  PROVE  IInv'
<1>1. ConfigOK' /\ StoredOK' /\ HooksOK'
  BY DEF IInv, ConfigOK, StoredOK, HooksOK, MemoryIsClean, Enforcing, Watchful, pluginVars
<1>2. JobsOK'
  <2>1. \A job \in Contents(client') : job.kind # "note" => Backed(job, hooks'[job.of])
    BY DEF IInv, JobsOK, Note, pluginVars
  <2>. QED
    BY <2>1 DEF JobsOK, Contents, Underway
<1>3. ClientOK(client)'
  BY DEF ClientOK
<1>. QED
  BY <1>1, <1>2, <1>3 DEF IInv

LEMMA LedgerStays ==
  ASSUME IInv, UNCHANGED <<hooks, ticket, operator, report>>
  PROVE  LedgerOK'
BY DEF IInv, LedgerOK

LEMMA GuarddStays ==
  ASSUME IInv, UNCHANGED guardd
  PROVE  GuarddOK'
BY DEF IInv, GuarddOK

LEMMA LifecycleStep ==
  ASSUME IInv, Lifecycle
  PROVE  IInv'
BY ClientStep, LedgerStays, GuarddStays, NoteKeeps
   DEF Lifecycle, IInv, guarddVars, ledger, pluginVars

(* What guardd records of a job is true of its call.                       *)
LEMMA RecordsKeeps ==
  ASSUME IInv, NEW job \in Contents(client), Records(job), UNCHANGED hooks
  PROVE  LedgerOK'
<1>1. job \in Job /\ (job.kind # "note" => Backed(job, hooks[job.of]) /\ job.of \in Calls)
  BY JobIsOfCall DEF Contents, IInv, JobsOK
<1>2. /\ ticket \in [Calls -> TicketStatus] /\ operator \in [Calls -> Operator]
      /\ report \in [Calls -> {"none", "success", "error"}]
  BY DEF IInv, LedgerOK
<1>3. /\ ticket' \in [Calls -> TicketStatus] /\ operator' \in [Calls -> Operator]
      /\ report' \in [Calls -> {"none", "success", "error"}]
  BY <1>1, <1>2 DEF Records, Resolved, TicketStatus, Operator
<1>4. \A h \in Calls : Recorded(hooks[h], ticket'[h], operator'[h], report'[h])
  <2>. TAKE h \in Calls
  <2>1. Recorded(hooks[h], ticket[h], operator[h], report[h])
    BY DEF IInv, LedgerOK
  <2>2. \/ ticket'[h] = ticket[h] /\ operator'[h] = operator[h]
        \/ job.kind = "approval" /\ job.of = h /\ job.good /\ ticket'[h] = "allowed_once"
        \/ job.kind = "approval" /\ job.of = h /\ ~job.good /\ ticket'[h] = "denied"
    BY <1>2 DEF Records, Resolved
  <2>3. report'[h] = report[h] \/ (job.kind = "result" /\ job.of = h)
    BY <1>2 DEF Records
  <2>. QED
    BY <1>1, <2>1, <2>2, <2>3 DEF Recorded, Backed
<1>. QED
  BY <1>3, <1>4 DEF LedgerOK

LEMMA SendingIsHeld ==
  ASSUME IInv, client.sending # NoJob
  PROVE  client.sending \in Contents(client)
BY DEF IInv, ClientOK, ClientType, Contents, Underway

LEMMA BypassIsHeld ==
  ASSUME IInv, NEW b \in client.bypass
  PROVE  b.job \in Contents(client)
<1>1. b.job \in Job
  BY DEF IInv, ClientOK, ClientType
<1>. QED
  BY <1>1 DEF Contents, Underway

LEMMA QueueAdvancesStep ==
  ASSUME IInv, QueueAdvances
  PROVE  IInv'
<1>1. ClientOK(client) /\ GuarddOK
  BY DEF IInv
<1>2. CASE QueueDelivers
  <2>1. ClientOK(client') /\ Contents(client') \subseteq Contents(client)
    <3>1. client' = QueueAnswered(client) \/ client' = QueueFails(client, "timeout")
      BY <1>2 DEF QueueDelivers
    <3>. QED
      BY <1>1, <3>1, QueueEndsKeep
  <2>2. LedgerOK' /\ GuarddOK'
    BY <1>2, SendingIsHeld, RecordsKeeps, GuarddStays DEF QueueDelivers, Records, pluginVars
  <2>. QED
    BY <1>2, <2>1, <2>2, ClientStep DEF QueueDelivers, Records
<1>3. CASE QueueFailsToDeliver
  <2>1. PICK why : client' = QueueFails(client, why)
    BY <1>3 DEF QueueFailsToDeliver
  <2>2. ClientOK(client') /\ Contents(client') \subseteq Contents(client)
    BY <1>1, <2>1, QueueEndsKeep
  <2>3. LedgerOK' /\ GuarddOK'
    BY <1>3, LedgerStays, GuarddStays DEF QueueFailsToDeliver, guarddVars, ledger, pluginVars
  <2>. QED
    BY <1>3, <2>2, <2>3, ClientStep DEF QueueFailsToDeliver, guarddVars, ledger
<1>. QED
  BY <1>2, <1>3 DEF QueueAdvances

LEMMA BypassAdvancesStep ==
  ASSUME IInv, BypassAdvances
  PROVE  IInv'
<1>1. ClientOK(client) /\ GuarddOK
  BY DEF IInv
<1>2. PICK b \in client.bypass : BypassDelivers(b) \/ BypassFailsToDeliver(b)
  BY DEF BypassAdvances
<1>3. CASE BypassDelivers(b)
  <2>1. ClientOK(client') /\ Contents(client') \subseteq Contents(client)
    BY <1>1, <1>3, BypassEndsKeep DEF BypassDelivers
  <2>2. LedgerOK' /\ GuarddOK'
    BY <1>3, BypassIsHeld, RecordsKeeps, GuarddStays DEF BypassDelivers, Records, pluginVars
  <2>. QED
    BY <1>3, <2>1, <2>2, ClientStep DEF BypassDelivers, Records
<1>4. CASE BypassFailsToDeliver(b)
  <2>1. PICK why : client' = BypassFails(client, b, why)
    BY <1>4 DEF BypassFailsToDeliver
  <2>2. ClientOK(client') /\ Contents(client') \subseteq Contents(client)
    BY <1>1, <2>1, BypassEndsKeep
  <2>3. LedgerOK' /\ GuarddOK'
    BY <1>4, LedgerStays, GuarddStays DEF BypassFailsToDeliver, guarddVars, ledger, pluginVars
  <2>. QED
    BY <1>4, <2>2, <2>3, ClientStep DEF BypassFailsToDeliver, guarddVars, ledger
<1>. QED
  BY <1>2, <1>3, <1>4

LEMMA EnvironmentStep ==
  ASSUME IInv, Environment
  PROVE  IInv'
<1>1. ClientOK(client) /\ GuarddOK /\ LedgerOK
  BY DEF IInv
<1>2. CASE BackoffElapses /\ UNCHANGED <<pluginVars, ledger>>
  <2>u. UNCHANGED pluginVars /\ UNCHANGED ruling
    BY <1>2 DEF ledger
  <2>1. client' = RetryNow(client)
    BY <1>2 DEF BackoffElapses, RetryNow
  <2>2. ClientOK(client') /\ Contents(client') \subseteq Contents(client)
    BY <1>1, <2>1, RetryNowKeeps
  <2>3. LedgerOK' /\ GuarddOK'
    BY <1>2, LedgerStays, GuarddStays DEF BackoffElapses, pluginVars, ledger
  <2>. QED
    BY <2>u, <2>2, <2>3, ClientStep
<1>3. CASE GuarddStops /\ UNCHANGED <<pluginVars, ledger>>
  <2>u. UNCHANGED pluginVars /\ UNCHANGED ruling
    BY <1>3 DEF ledger
  <2>1. GuarddOK'
    BY <1>1, <1>3 DEF GuarddStops, GuarddOK
  <2>2. LedgerOK'
    BY <1>3, LedgerStays DEF pluginVars, ledger
  <2>. QED
    BY <1>1, <1>3, <2>u, <2>1, <2>2, ClientStep DEF GuarddStops
<1>4. CASE GuarddRestarts
  <2>1. GuarddOK' /\ UNCHANGED client
    BY <1>1, <1>4 DEF GuarddRestarts, GuarddStarts, GuarddOK
  <2>2. LedgerOK'
    BY <1>1, <1>4 DEF GuarddRestarts, LedgerOK, TicketStatus, Recorded, pluginVars
  <2>. QED
    BY <1>1, <1>4, <2>1, <2>2, ClientStep DEF GuarddRestarts
<1>5. ASSUME NEW h \in Calls, TicketExpires(h)
      PROVE  IInv'
  <2>1. GuarddOK'
    BY <1>5, GuarddStays DEF TicketExpires
  <2>2. LedgerOK'
    BY <1>1, <1>5 DEF TicketExpires, LedgerOK, TicketStatus, Recorded, pluginVars
  <2>. QED
    BY <1>1, <1>5, <2>1, <2>2, ClientStep DEF TicketExpires
<1>6. ASSUME NEW h \in Calls, NEW allow \in BOOLEAN, ResolvedElsewhere(h, allow)
      PROVE  IInv'
  <2>1. GuarddOK'
    BY <1>6, GuarddStays DEF ResolvedElsewhere
  <2>2. LedgerOK'
    BY <1>1, <1>6
       DEF ResolvedElsewhere, Resolved, LedgerOK, TicketStatus, Operator, Recorded, pluginVars
  <2>. QED
    BY <1>1, <1>6, <2>1, <2>2, ClientStep DEF ResolvedElsewhere
<1>. QED
  BY <1>2, <1>3, <1>4, <1>5, <1>6 DEF Environment

-----------------------------------------------------------------------------
(* The invariant.                                                          *)

LEMMA Initial == Init => IInv
<1>. SUFFICES ASSUME Init PROVE IInv
  OBVIOUS
<1>1. GuarddOK
  BY DEF Init, ClientInit, GuarddOK
<1>2. ClientOK(client) /\ Contents(client) = {}
  BY ClientAssumption, NoJobAssumption
     DEF Init, ClientInit, ClientOK, ClientType, Contents, Underway
<1>3. StoredOK
  <2>1. <<>> \in Seq(Calls) /\ Len(<<>>) = 0 /\ 0 <= MaxTracked
    BY HooksAssumption
  <2>2. memory = [h \in Calls |-> NoMessage]
    BY DEF Init
  <2>3. MemoryIsClean
    BY <2>2 DEF MemoryIsClean
  <2>4. memory \in [Calls -> Message \union {NoMessage, Removed}]
    BY <2>2
  <2>5. tracked = <<>> /\ startupError = FALSE
    BY DEF Init
  <2>. QED
    BY <2>1, <2>3, <2>4, <2>5 DEF StoredOK
<1>4. HooksOK
  <2>1. Seed(Idle) /\ Idle \in HookType /\ Idle.at = "idle" /\ Idle.kind = "none"
    BY DEF Seed, Idle, HookType, HookKind, Stage, HasAct
  <2>2. Justified(Idle, "none", Enforcing, Watchful)
    BY <2>1 DEF Justified, KindAt
  <2>. QED
    BY <2>1, <2>2 DEF Init, HooksOK
<1>5. LedgerOK
  BY DEF Init, LedgerOK, TicketStatus, Operator, Recorded
<1>. QED
  BY <1>1, <1>2, <1>3, <1>4, <1>5 DEF IInv, Init, ConfigOK, JobsOK

LEMMA StepKeeps == IInv /\ [Next]_vars => IInv'
<1>. SUFFICES ASSUME IInv, [Next]_vars PROVE IInv'
  OBVIOUS
<1>1. ASSUME NEW h \in Calls, HookBegins(h) PROVE IInv'
  BY <1>1, BeforeToolStep, MessageSendingStep, BeforeAgentRunStep, BeforeInstallStep,
     GatewayStartStep DEF HookBegins
<1>2. ASSUME NEW h \in Calls, HookAnswered(h) PROVE IInv'
  BY <1>2, InspectionAnsweredStep, ScanAnsweredStep, DecisionAnsweredStep, DecisionLostStep,
     InspectionFailsStep, DecisionFailsStep, CaptureEndsStep, NegotiationAnsweredStep,
     StartFailsStep DEF HookAnswered
<1>3. ASSUME NEW h \in Calls, HookGoesOn(h) PROVE IInv'
  BY <1>3, ResolveStep, AfterToolCallStep, StoreResultStep DEF HookGoesOn
<1>4. CASE UNCHANGED vars
  <2>1. LedgerOK' /\ GuarddOK' /\ ClientOK(client') /\ UNCHANGED <<pluginVars, ruling>>
    BY <1>4, LedgerStays, GuarddStays DEF IInv, vars, ledger, pluginVars
  <2>. QED
    BY <1>4, <2>1, ClientStep DEF vars
<1>. QED
  BY <1>1, <1>2, <1>3, <1>4, LifecycleStep, QueueAdvancesStep, BypassAdvancesStep,
     EnvironmentStep DEF Next

(* The inductive invariant holds from the start and through every step.    *)
THEOREM Invariance == Spec => []IInv
BY Initial, StepKeeps, PTL DEF Spec

(* Every variable keeps its type: queue and calls map within their bounds. *)
THEOREM TypeCorrect == Spec => []TypeOK
<1>1. IInv => TypeOK
  BY DEF IInv, ClientOK, GuarddOK, ConfigOK, StoredOK, HooksOK, LedgerOK, TypeOK, ClientTypeOK
<1>. QED
  BY Invariance, <1>1, PTL

(* A tool runs only by guardd's permission, the operator's answer or the   *)
(* embedded allowlist, and never on an answer that asks to wait.           *)
THEOREM PendingNeverRunsATool == Spec => []PendingNeverRuns
<1>1. IInv => PendingNeverRuns
  BY DEF IInv, HooksOK, Justified, Permitted, PendingNeverRuns, Ran
<1>. QED
  BY Invariance, <1>1, PTL

(* In enforce mode a tool sees a secret only under a plan that preserves   *)
(* every class found (executionView, emergencyResult).                     *)
THEOREM SecretsArePreserved == Spec => []SecretsNeedPreserve
<1>1. IInv => SecretsNeedPreserve
  BY DEF IInv, HooksOK, Justified, Preserves, SecretsNeedPreserve
<1>. QED
  BY Invariance, <1>1, PTL

(* What guardd records in the gateway's name is what its dialog answered,  *)
(* whatever other operators make of the approval (onResolution, resolve).  *)
THEOREM GrantsAreOperators == Spec => []GrantIsOperators
<1>1. IInv => GrantIsOperators
  BY DEF IInv, LedgerOK, Recorded, GrantIsOperators
<1>. QED
  BY Invariance, <1>1, PTL

(* A result is recorded for a call that ran.                               *)
THEOREM ReportsAreOfRuns == Spec => []ReportIsOfThatCall
<1>1. IInv => ReportIsOfThatCall
  BY DEF IInv, LedgerOK, Recorded, Enters, ReportIsOfThatCall, Ran
<1>. QED
  BY Invariance, <1>1, PTL

(* No job waits in a queue without the loop that empties it (drain).       *)
THEOREM QueueIsDrained == Spec => []NoLostWakeup
<1>1. IInv => NoLostWakeup
  BY DEF IInv, ClientOK, NoLostWakeup
<1>. QED
  BY Invariance, <1>1, PTL

(* Messages, watched suspicious inputs and installations pass only by the  *)
(* answer of guardd that the hook heard (outboundDecision and its like).   *)
THEOREM OthersAreAnswered == Spec => []OthersNeedAnAnswer
<1>1. IInv => OthersNeedAnAnswer
  BY DEF IInv, HooksOK, Justified, Passed, Guarded, OthersNeedAnAnswer
<1>. QED
  BY Invariance, <1>1, PTL

(* In enforce mode the model remembers nothing unscanned or exposed.       *)
THEOREM MemoryStaysClean == Spec => []MemoryIsClean
<1>1. IInv => MemoryIsClean
  BY DEF IInv, StoredOK
<1>. QED
  BY Invariance, <1>1, PTL
-----------------------------------------------------------------------------
(* What a step does to a hook: who acts at which await.                    *)

OnlyHook(h) == \A k \in Calls \ {h} : hooks'[k] = hooks[k]

LEMMA OneHookChanges ==
  ASSUME IInv, NEW h \in Calls, NEW y, hooks' = [hooks EXCEPT ![h] = y]
  PROVE  OnlyHook(h) /\ hooks'[h] = y
BY DEF IInv, HooksOK, OnlyHook

LEMMA BeginsAt ==
  ASSUME IInv, NEW h \in Calls, HookBegins(h)
  PROVE  OnlyHook(h) /\ hooks[h].at = "idle"
<1>1. \E next : Becomes(h, next)
  BY DEF HookBegins, BeforeTool, MessageSending, BeforeAgentRun, BeforeInstall, GatewayStart,
         Stops, Inspects, NotInspected, Asks, Reviews, Started
<1>. QED
  BY <1>1, OneHookChanges
     DEF Becomes, HookBegins, BeforeTool, MessageSending, BeforeAgentRun, BeforeInstall, GatewayStart

LEMMA AnsweredAt ==
  ASSUME IInv, NEW h \in Calls, HookAnswered(h)
  PROVE  OnlyHook(h) /\ hooks[h].at \in Awaiting
<1>1. \E next : Becomes(h, next)
  BY DEF HookAnswered, InspectionAnswered, ScanAnswered, DecisionAnswered, DecisionLost,
         InspectionFails, DecisionFails, CaptureEnds, NegotiationAnswered, StartFails,
         Stops, NotInspected, Asks, Reviews, Started
<1>. QED
  BY <1>1, OneHookChanges
     DEF Becomes, HookAnswered, InspectionAnswered, ScanAnswered, DecisionAnswered, DecisionLost,
         InspectionFails, DecisionFails, CaptureEnds, NegotiationAnswered, StartFails, Awaiting

LEMMA GoesOnAt ==
  ASSUME IInv, NEW h \in Calls, HookGoesOn(h)
  PROVE  OnlyHook(h) /\ hooks[h].at \in {"dialog", "running", "ran"}
<1>1. \E y : hooks' = [hooks EXCEPT ![h] = y]
  BY DEF HookGoesOn, Resolve, AfterToolCall, StoreResult, Becomes
<1>. QED
  BY <1>1, OneHookChanges DEF HookGoesOn, Resolve, AfterToolCall, StoreResult

LEMMA OthersLeaveHooks ==
  ASSUME Lifecycle \/ QueueAdvances \/ BypassAdvances \/ Environment
  PROVE  UNCHANGED hooks
BY DEF Lifecycle, QueueAdvances, QueueDelivers, QueueFailsToDeliver, BypassAdvances,
       BypassDelivers, BypassFailsToDeliver, Environment, GuarddRestarts, TicketExpires, ResolvedElsewhere, pluginVars, ledger

(* A hook changes only by a step of its own.                               *)
LEMMA OwnStep ==
  ASSUME IInv, [Next]_vars, NEW h \in Calls, hooks'[h] # hooks[h]
  PROVE  HookBegins(h) \/ HookAnswered(h) \/ HookGoesOn(h)
<1>1. UNCHANGED vars => UNCHANGED hooks
  BY DEF vars
<1>2. PICK k \in Calls : HookBegins(k) \/ HookAnswered(k) \/ HookGoesOn(k)
  BY <1>1, OthersLeaveHooks DEF Next
<1>3. OnlyHook(k)
  BY <1>2, BeginsAt, AnsweredAt, GoesOnAt
<1>4. k = h
  BY <1>3 DEF OnlyHook
<1>. QED
  BY <1>2, <1>4

TriedStep ==
  \A h \in Calls :
    hooks[h].at = "dialog" /\ hooks'[h].at # "dialog"
      /\ hooks[h].answer # NoAnswer /\ hooks[h].answer.ticket =>
    \/ client.waiting
    \/ \E good \in BOOLEAN :
         Underway(client', [kind |-> "approval", of |-> h, good |-> good])

(* The operator's answer is under way when the dialog closes, or the       *)
(* backoff runs: a full queue does not drop it (observe).                  *)
THEOREM AnswersAreTried == Spec => AnswerIsTried
<1>1. ASSUME IInv, [Next]_vars
      PROVE  TriedStep
  <2>. SUFFICES ASSUME NEW h \in Calls, hooks[h].at = "dialog", hooks'[h].at # "dialog",
                       hooks[h].answer # NoAnswer, hooks[h].answer.ticket, ~client.waiting
                PROVE  \E good \in BOOLEAN :
                         Underway(client', [kind |-> "approval", of |-> h, good |-> good])
    BY DEF TriedStep
  <2>1. HookGoesOn(h)
    BY <1>1, OwnStep, BeginsAt, AnsweredAt DEF Awaiting
  <2>2. PICK resolution \in Resolution : Resolve(h, resolution)
    BY <2>1 DEF HookGoesOn, AfterToolCall, StoreResult
  <2> DEFINE c == Observe(client, Answer(h, resolution))
             allow == resolution = "allow-once"
  <2>3. client' = c
    <3>1. Becomes(h, IF allow THEN Runs(c, hooks[h], hooks[h].view, "operator")
                     ELSE Blocks(c, hooks[h]))
      BY <2>2 DEF Resolve
    <3> HIDE DEF c
    <3>. QED
      BY <3>1 DEF Becomes, Runs, Ends, Blocks, Leaves
  <2>4. Underway(client', Answer(h, resolution))
    BY <1>1, <2>3, AnswerKeeps DEF IInv
  <2>5. Answer(h, resolution) = [kind |-> "approval", of |-> h, good |-> allow] /\ allow \in BOOLEAN
    BY DEF Answer
  <2>. QED
    BY <2>4, <2>5
<1>2. IInv /\ [Next]_vars => [TriedStep]_vars
  BY <1>1
<1>. QED
  BY Invariance, <1>2, PTL DEF Spec, AnswerIsTried, TriedStep

AskedStep ==
  \A h \in Calls :
    hooks[h].kind = "install" /\ hooks[h].at = "inspecting" /\ ~StrictSkills
      /\ ~(Enforcing /\ client.unfit) =>
    hooks'[h].at \in {"inspecting", "asking"}

(* An inspection that is only observed leads to the question to guardd,    *)
(* answered or not (before_install's retryNow).                            *)
THEOREM InstallsAreAsked == Spec => InstallIsAsked
<1>1. ASSUME IInv, [Next]_vars
      PROVE  AskedStep
  <2>. SUFFICES ASSUME NEW h \in Calls, hooks[h].kind = "install", hooks[h].at = "inspecting",
                       ~StrictSkills, ~(Enforcing /\ client.unfit),
                       hooks'[h] # hooks[h]
                PROVE  hooks'[h].at = "asking"
    BY DEF AskedStep
  <2>1. HookAnswered(h)
    BY <1>1, OwnStep, BeginsAt, GoesOnAt
  <2>2. /\ Seed(hooks[h]) /\ hooks[h].kind \in Asking
        /\ ClientOK(client) /\ GuarddOK
    BY <1>1, AtWaits DEF Waits, Awaiting, Asking
  <2>3. ASSUME NEW c, ClientOK(c), c.unfit = client.unfit, ~c.waiting, Asks(h, c, hooks[h])
        PROVE  hooks'[h].at = "asking"
    <3>1. Ask(c, hooks[h]).hook.at = "asking"
      BY <2>2, <2>3, AskFine
    <3>2. hooks' = [hooks EXCEPT ![h] = Ask(c, hooks[h]).hook]
      BY <2>3 DEF Asks, Becomes
    <3>. QED
      BY <1>1, <3>1, <3>2, OneHookChanges
  <2>4. ASSUME NEW v \in Verdict, InspectionAnswered(h, v)
        PROVE  hooks'[h].at = "asking"
    <3>1. Asks(h, Succeeds(client), hooks[h])
      BY <2>4 DEF InspectionAnswered
    <3>. QED
      BY <2>2, <2>3, <3>1, SucceedsKeeps
  <2>5. ASSUME InspectionFails(h)
        PROVE  hooks'[h].at = "asking"
    <3>1. PICK why : NotInspected(h, Fails(client, why), hooks[h])
      BY <2>5 DEF InspectionFails
    <3>2. Asks(h, RetryNow(Fails(client, why)), hooks[h])
      BY <3>1 DEF NotInspected
    <3>3. ClientOK(Fails(client, why)) /\ Fails(client, why).unfit = client.unfit
      BY <2>2, FailsKeeps
    <3>4. /\ ClientOK(RetryNow(Fails(client, why))) /\ ~RetryNow(Fails(client, why)).waiting
          /\ RetryNow(Fails(client, why)).unfit = client.unfit
      BY <3>3, RetryNowKeeps
    <3>. QED
      BY <2>3, <3>2, <3>4
  <2>. QED
    BY <2>1, <2>4, <2>5
       DEF HookAnswered, ScanAnswered, DecisionAnswered, DecisionLost, DecisionFails,
           CaptureEnds, NegotiationAnswered, StartFails
<1>2. IInv /\ [Next]_vars => [AskedStep]_vars
  BY <1>1
<1>. QED
  BY Invariance, <1>2, PTL DEF Spec, InstallIsAsked, AskedStep
=============================================================================
