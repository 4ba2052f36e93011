----------------------------- MODULE Sanitizer -----------------------------
(***************************************************************************)
(* The plugin's local sanitizer: what sanitizeValue finds in a JSON value, *)
(* what it leaves of it, and what is made of a tool's message before the   *)
(* model may remember it.                                                  *)
(*                                                                         *)
(* A JSON value is a function from the paths of its leaves to the leaves.  *)
(* A leaf says whether a sensitive field name lies on its path, what kind  *)
(* of value it is, which secret patterns match it as far as it is scanned, *)
(* whether its text goes on behind the scan bound, and whether it is one   *)
(* of the sanitizer's own markers, which no pattern matches.               *)
(***************************************************************************)
CONSTANTS Patterns,   \* the kinds of GENERATED_SECRET_PATTERNS
          Fields      \* the paths of the leaves of a value

ASSUME PatternAssumption == Patterns \cap {"sensitive_field", "binary"} = {}

Classifications == Patterns \union {"sensitive_field", "binary"}

Leaf ==
  {leaf \in [named : BOOLEAN, kind : {"text", "binary", "plain"},
             secrets : SUBSET Patterns, long : BOOLEAN, marker : BOOLEAN] :
     /\ leaf.kind # "text" => leaf.secrets = {} /\ ~leaf.long /\ ~leaf.marker
     /\ leaf.marker => leaf.secrets = {} /\ ~leaf.long}

Value == [Fields -> Leaf]

(* What the walk records of a leaf: a sensitive name hides all under it.   *)
Transformations(leaf) ==
  IF leaf.named THEN {"sensitive_field"}
  ELSE CASE leaf.kind = "text" -> leaf.secrets
         [] leaf.kind = "binary" -> {"binary"}
         [] leaf.kind = "plain" -> {}

Marker(leaf) ==
  [leaf EXCEPT !.kind = "text", !.secrets = {}, !.long = FALSE, !.marker = TRUE]

(* The tail nobody scanned is cut off, and every match replaced in place.  *)
TruncateUtf8(leaf) == [leaf EXCEPT !.long = FALSE]

(* Mutant: only the length of a text is seen to.                           *)
UnmatchedText(leaf) == TruncateUtf8(leaf)

ScannedText(leaf) == [TruncateUtf8(leaf) EXCEPT !.secrets = {}]

CleanLeaf(leaf) ==
  CASE leaf.named \/ leaf.kind = "binary" -> Marker(leaf)
    [] ~leaf.named /\ leaf.kind = "text" -> ScannedText(leaf)
    [] ~leaf.named /\ leaf.kind = "plain" -> leaf

SanitizeValue(value) ==
  [value |-> [p \in Fields |-> CleanLeaf(value[p])],
   classifications |-> UNION {Transformations(value[p]) : p \in Fields}]

(* What a reader of a value learns that the sanitizer is there to hide.    *)
Exposed(value) ==
  UNION {IF value[p].marker THEN {} ELSE Transformations(value[p]) : p \in Fields}

Unscanned(value) == \E p \in Fields : ~value[p].marker /\ value[p].long

(* A message of a tool: its value, and whether it is tagged as untrusted.  *)
Message == [value : Value, tagged : BOOLEAN]

(* A text that begins with the tag is taken to have it already.            *)
TagText(message) == [value |-> message.value, tagged |-> TRUE]

SanitizeMessage(message) ==
  [value |-> SanitizeValue(message.value).value, tagged |-> message.tagged]

SanitizeToolMessage(message) == TagText(SanitizeMessage(message))
=============================================================================
