--------------------------- MODULE PluginDecision ---------------------------
(***************************************************************************)
(* What the OpenClaw plugin makes of an answer of guardd, and of having no *)
(* answer: the view of its parameters a tool is run with, and the embedded *)
(* emergency policy.  No state: the hooks of PluginHooks apply these.      *)
(***************************************************************************)
EXTENDS Sanitizer, FiniteSets

CONSTANTS NoAnswer    \* a hook has no decision of guardd

Kinds == {"ALLOW", "DENY", "REQUIRE_APPROVAL", "OBSERVE"}
TransformationAction == {"preserve", "redact", "drop", "late_bind", "block", "require_approval"}

(* GuardDecision: pending says which rule asks to wait and retry, plan is  *)
(* the transformation plan, params what the service rewrote, and ticket    *)
(* whether an approval was created for it.                                 *)
GuardDecision ==
  [decision : Kinds, critical : BOOLEAN, pending : {"none", "task", "review"},
   plan : SUBSET [class : Classifications, action : TransformationAction],
   params : {"none", "rewritten", "conflicting"}, ticket : BOOLEAN]

(* What a tool call is about, as far as the plugin looks at it.            *)
Act ==
  [tool : {"send", "write", "read", "other"},
   touches : SUBSET {"security", "dynamic", "elevated"},
   paths : SUBSET {"inside", "outside", "sensitive"},
   skill : BOOLEAN, params : Value]

Classes(act) == SanitizeValue(act.params).classifications

(* unifiedEvent, of the sanitized parameters, which it sanitizes again.    *)
UnifiedEvent(act) ==
  LET local == SanitizeValue(act.params)
      clean == SanitizeValue(local.value)
  IN [params |-> clean.value,
      data_classification |-> clean.classifications \union local.classifications]

-----------------------------------------------------------------------------
(* executionView.  "host" leaves the call as the host has it.              *)

Planned(d) == {item.class : item \in d.plan}
Actions(d) == {item.action : item \in d.plan}

Covers(d, classes) == classes \subseteq Planned(d)

(* Why a call whose parameters hold secrets cannot be run at all.          *)
Unsafe(d, classes) ==
  \/ ~Covers(d, classes)
  \/ Actions(d) \cap {"block", "require_approval"} # {}
  \/ d.params # "none"
  \/ Actions(d) \cap {"redact", "drop", "preserve"} = {}

ExecutionView(d, classes, enforce) ==
  CASE d.params = "conflicting" -> "blocked"
    [] d.params # "conflicting" /\ classes # {} /\ enforce ->
         IF Unsafe(d, classes) THEN "blocked"
         ELSE IF Actions(d) \cap {"redact", "drop"} # {} THEN "clean" ELSE "raw"
    [] d.params # "conflicting" /\ ~(classes # {} /\ enforce) ->
         IF d.params = "rewritten" THEN "service" ELSE "host"

(* What a view exposes.  The service rewrites what it was sent.            *)
Shown(act, view) ==
  CASE view \in {"host", "raw"} -> Exposed(act.params)
    [] view = "clean" -> Exposed(SanitizeValue(act.params).value)
    [] view = "service" -> Exposed(UnifiedEvent(act).params)

-----------------------------------------------------------------------------
(* emergencyDecision: without an answer of guardd.                         *)

Protected(act) == act.tool = "send" \/ act.touches # {}

WritesInside(act) == act.paths # {} /\ act.paths \cap {"outside", "sensitive"} = {}
ReadsInside(act) == act.paths # {} /\ act.paths \subseteq {"inside"}

EmergencyDecision(act) ==
  CASE Protected(act) -> "deny"
    [] ~Protected(act) /\ act.tool = "write" -> IF WritesInside(act) THEN "approval" ELSE "deny"
    [] ~Protected(act) /\ act.tool = "read" -> IF ReadsInside(act) THEN "allow" ELSE "deny"
    [] ~Protected(act) /\ act.tool \notin {"write", "read"} -> "approval"
=============================================================================
