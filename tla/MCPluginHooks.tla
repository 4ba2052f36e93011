--------------------------- MODULE MCPluginHooks ---------------------------
(* Small instances of PluginHooks for the model checker.                   *)
EXTENDS PluginHooks, TLC

CONSTANTS h1, h2, p1

Symmetry == Permutations(Calls)

Text(secrets) ==
  [named |-> FALSE, kind |-> "text", secrets |-> secrets, long |-> FALSE, marker |-> FALSE]
Clear == [f \in Fields |-> Text({})]
Credential == [f \in Fields |-> Text({p1})]

ActOn(tool, paths, skill, params) ==
  [tool |-> tool, touches |-> {}, paths |-> paths, skill |-> skill, params |-> params]

(* A skill that reads inside the workspace, and a write of a credential.   *)
MixedActs ==
  {ActOn("read", {"inside"}, TRUE, Clear), ActOn("write", {"inside"}, FALSE, Credential)}

(* The same with a skill that writes: without guardd the operator is asked. *)
AskingActs ==
  {ActOn("write", {"inside"}, TRUE, Clear), ActOn("write", {"inside"}, FALSE, Credential)}

Plan(action) == {[class |-> p1, action |-> action]}
Rule(decision, pending, plan, ticketed) ==
  [decision |-> decision, critical |-> decision = "DENY", pending |-> pending, plan |-> plan,
   params |-> "none", ticket |-> ticketed]

MixedDecisions ==
  {Rule("ALLOW", "none", Plan("preserve"), FALSE),
   Rule("DENY", "none", {}, FALSE),
   Rule("REQUIRE_APPROVAL", "review", {}, TRUE),
   Rule("REQUIRE_APPROVAL", "none", Plan("redact"), TRUE)}

MixedMessages == {[value |-> Credential, tagged |-> FALSE]}

Strict == [sanitize |-> "enforce", inspect |-> "enforce", capture |-> TRUE, injection |-> TRUE]
Watching == [sanitize |-> "observe", inspect |-> "observe", capture |-> TRUE, injection |-> TRUE]
OnlyWatching == {Watching}
OnlyStrict == {Strict}
BothConfigs == {Strict, Watching}
=============================================================================
